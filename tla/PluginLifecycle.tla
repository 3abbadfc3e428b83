-------------------------- MODULE PluginLifecycle --------------------------
(***************************************************************************)
(* What the plugin loader promises the authors of plugins, without names,  *)
(* groups, slots or recursion: a plugin is started at most once, the       *)
(* plugins it came to depend on were started before it and are stopped     *)
(* after it, and what was stopped or given up does not come back.          *)
(***************************************************************************)
CONSTANT Plugins

VARIABLES
    up,     \* plugins that are running
    down,   \* plugins that were stopped or given up
    uses    \* <<p, d>>: the running plugin p depends on d

vars == <<up, down, uses>>

Init == up = {} /\ down = {} /\ uses = {}

Start(p) ==
    /\ p \notin up \cup down
    /\ \E ds \in SUBSET up : uses' = uses \cup ({p} \X ds)
    /\ up' = up \cup {p}
    /\ UNCHANGED down

Stop(p) ==
    /\ p \in up
    /\ \A q \in up : <<q, p>> \notin uses
    /\ up' = up \ {p}
    /\ down' = down \cup {p}
    /\ uses' = {u \in uses : u[1] # p}

GiveUp(p) ==
    /\ p \notin up \cup down
    /\ down' = down \cup {p}
    /\ UNCHANGED <<up, uses>>

Next == \E p \in Plugins : Start(p) \/ Stop(p) \/ GiveUp(p)

Spec == Init /\ [][Next]_vars
=============================================================================
