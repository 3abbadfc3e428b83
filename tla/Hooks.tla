------------------------------- MODULE Hooks -------------------------------
(***************************************************************************)
(* The core's hook table, src/hooks.c, and the registries of the plugins   *)
(* that offer an api to others (keybind, layout, compressor), composed     *)
(* with the plugin loader.  Each step is a step of PluginLoader together   *)
(* with what the callbacks plugin_loaded and plugin_deloaded, and the      *)
(* plugin's own init and deinit, do to the tables.                         *)
(*                                                                         *)
(* A hook or a registry entry is a pointer into the object of its owner;   *)
(* what matters here is only the owner, so a table is the sequence of the  *)
(* owners of its entries.                                                  *)
(***************************************************************************)
EXTENDS PluginLoader, Lists, SequencesExt

CONSTANTS
    HookTypes,  \* enum hook_type
    APIs,       \* names of the plugins that keep a registry
    InitCalls,  \* the calls an init makes: [table |-> .., key |-> ..]
    Dynamic,    \* plugins whose hooks may add and remove hooks of their own
    MaxShifts   \* bound: removals under the index during one dispatch

\* A call registers with the core's hooks, under a type, or with an api.
RegisterCalls ==
    [table : {"hooks"}, key : HookTypes] \cup [table : {"registry"}, key : APIs]

ASSUME HookConstants ==
    /\ "plugin.deloaded" \in HookTypes
    /\ APIs \subseteq Names
    /\ InitCalls \in [Objects -> Seq(RegisterCalls)]
    /\ InitCalls[Core] = <<>>
    /\ Dynamic \subseteq Objects
    /\ MaxShifts \in Nat

VARIABLES
    hooks,      \* hooks[t]: owners of the hooks of type t
    registry,   \* registry[a]: owners of the entries of api a
    made,       \* how many of its calls the running init has made
    running     \* the dispatch of an event of wlc, or NULL

tables == <<hooks, registry>>
hvars == <<vars, hooks, registry, made, running>>

\* Mutant of handle: plugin_register has not set it.
handle_not_set(p) == 0

\* The handle of a registered plugin; the code adds 1 to make 0 invalid.
handle(p) == CHOOSE h \in Handles : slot[h] = p

HInit ==
    /\ Init
    /\ hooks = [t \in HookTypes |-> <<>>]
    /\ registry = [a \in APIs |-> <<>>]
    /\ made = 0
    /\ running = NULL

-----------------------------------------------------------------------------
(* The init of the plugin on top of the loader's stack *)

Calls == InitCalls[Top.plugin]
NextCall == Calls[made + 1]

\* Mutant of hook_exists_for_plugin: no such test.
hook_never_exists(h, t) == FALSE

hook_exists_for_plugin(h, t) == h \in Range(hooks[t])

\* add_hook of orbment, called with a signature that matches.
add_hook(h, t) ==
    /\ ~hook_exists_for_plugin(h, t)
    /\ hooks' = [hooks EXCEPT ![t] = Append(@, h)]
    /\ UNCHANGED registry

\* add_compressor, add_keybind, add_layout: import_plugin found the api.  A
\* compressor whose name is taken is added all the same.
add_entry(h, a) ==
    /\ get(a) # NULL
    /\ registry' = [registry EXCEPT ![a] = Append(@, h)]
    /\ UNCHANGED hooks

InitCallSucceeds ==
    /\ Initialising /\ made < Len(Calls)
    /\ \/ NextCall.table = "hooks" /\ add_hook(handle(Top.plugin), NextCall.key)
       \/ NextCall.table = "registry" /\ add_entry(handle(Top.plugin), NextCall.key)
    /\ made' = made + 1
    /\ UNCHANGED <<vars, running>>

\* All calls made: load_plugin calls the callback plugin_loaded, whose
\* hooks take no part in the tables.
InitReturnsTrue ==
    /\ InitSucceeds
    /\ made = Len(Calls)
    /\ made' = 0
    /\ UNCHANGED <<tables, running>>

-----------------------------------------------------------------------------
(* The callback plugin_deloaded, followed by the plugin's deinit *)

\* Mutant of Notified: the registries are not told.
NeverNotified(a) == FALSE

\* An api that still has its plugin.deloaded hook drops p's entries.
Notified(a) ==
    \E h \in Range(hooks["plugin.deloaded"]) : slot[h] # NULL /\ Info[slot[h]].name = a

\* Mutant of remove_hooks_for_plugin: whoever owns the oldest hook loses it.
remove_oldest_hooks(h) ==
    hooks' = [t \in HookTypes |->
                IF h \in Range(hooks[t]) THEN Tail(hooks[t]) ELSE hooks[t]]

remove_hooks_for_plugin(h) ==
    hooks' = [t \in HookTypes |-> RemoveFirst(hooks[t], h)]

\* What the registry of api a keeps when the plugin h goes.
remove_compressors_for_plugin(a, h) ==
    IF Notified(a) THEN Without(registry[a], {h}) ELSE registry[a]

plugin_deloaded(p) ==
    /\ remove_hooks_for_plugin(handle(p))
    /\ registry' = [a \in APIs |->
                        IF p \in loaded /\ Info[p].name = a THEN <<>>
                        ELSE remove_compressors_for_plugin(a, handle(p))]

\* A plugin whose load fails is deloaded, unless deload_plugin refuses to or
\* there is nothing left of it.
CleanUp(p) ==
    IF NeededBy(p) \/ (p \notin mapped /\ p \notin loaded)
    THEN UNCHANGED tables ELSE plugin_deloaded(p)

InitReturnsFalse ==
    /\ InitFails
    /\ made' = 0
    /\ CleanUp(Top.plugin)
    /\ UNCHANGED running

\* A hard dependency failed, is missing or is circular.
DependencyFails ==
    /\ ResolveDependency
    /\ stack' = Under
    /\ CleanUp(Top.plugin)
    /\ UNCHANGED <<made, running>>

DeloadPlugin ==
    /\ Deload
    /\ plugin_deloaded(Top.plugin)
    /\ UNCHANGED <<made, running>>

\* compositor_terminate: hooks_remove_all behind plugin_remove_all.
Terminated ==
    /\ RemoveAllDone
    /\ hooks' = [t \in HookTypes |-> <<>>]
    /\ UNCHANGED <<registry, made, running>>

\* The loader's other steps call no plugin.  A registration that is
\* rejected calls plugin_deloaded with handle 0, but no hook exists yet.
\* The terminate callback is taken not to come from inside a hook.
LoaderOnly ==
    /\ \/ Register \/ RegistrationDone
       \/ LoadNext \/ LoadReturned \/ LoadAllDone
       \/ FinishArray \/ (ResolveDependency /\ stack' # Under)
       \/ (compositor_terminate /\ running = NULL) \/ RemoveNext \/ DeloadDependent
    /\ UNCHANGED <<tables, made, running>>

-----------------------------------------------------------------------------
(* The callbacks of wlc, each a loop over the hooks of its type *)

\* due are the owners with a hook that the loop has not reached; owner is the
\* plugin it is in; shifts counts the hooks removed at or below the index.
Dispatch(t) ==
    /\ phase = "run" /\ running = NULL /\ t # "plugin.deloaded"
    /\ running' = [type |-> t, at |-> 0, owner |-> NULL, due |-> Range(hooks[t]), shifts |-> 0]
    /\ UNCHANGED <<vars, tables, made>>

Looping == running # NULL /\ running.at < Len(hooks[running.type])

\* chck_iter_pool_for_each looks up the element at the index, and the number
\* of elements, each time round.
CallHook ==
    /\ Looping
    /\ LET h == hooks[running.type][running.at + 1] IN
         running' = [running EXCEPT !.at = @ + 1, !.owner = h, !.due = @ \ {h}]
    /\ UNCHANGED <<vars, tables, made>>

DispatchReturns ==
    /\ running # NULL /\ ~Looping
    /\ running' = NULL
    /\ UNCHANGED <<vars, tables, made>>

MayChange == running # NULL /\ running.owner # NULL /\ slot[running.owner] \in Dynamic

HookAdds(t) ==
    /\ MayChange
    /\ add_hook(running.owner, t)
    /\ running' = [running EXCEPT !.due = IF t = running.type THEN @ \cup {running.owner} ELSE @]
    /\ UNCHANGED <<vars, made>>

\* remove_hook: the first hook of that type.
HookRemoves(t) ==
    /\ MayChange /\ running.shifts < MaxShifts
    /\ hook_exists_for_plugin(running.owner, t)
    /\ hooks' = [hooks EXCEPT ![t] = RemoveFirst(@, running.owner)]
    /\ running' =
         IF t # running.type THEN running
         ELSE [running EXCEPT
                 !.due = @ \ {running.owner},
                 !.shifts = IF \E i \in 1..running.at : hooks[t][i] = running.owner
                            THEN @ + 1 ELSE @]
    /\ UNCHANGED <<vars, registry, made>>

-----------------------------------------------------------------------------
HNext ==
    \/ InitCallSucceeds \/ InitReturnsTrue \/ InitReturnsFalse
    \/ DependencyFails \/ DeloadPlugin \/ Terminated \/ LoaderOnly
    \/ CallHook \/ DispatchReturns
    \/ \E t \in HookTypes : Dispatch(t) \/ HookAdds(t) \/ HookRemoves(t)

HSpec == HInit /\ [][HNext]_hvars

-----------------------------------------------------------------------------
(* Properties *)

Dispatches ==
    [ type : HookTypes, at : Nat, owner : Handles \cup {NULL}, due : SUBSET Handles,
      shifts : 0..MaxShifts ]

\* The owners in the tables are handles that plugin_register gave out.
HooksTypeOK ==
    /\ TypeOK
    /\ hooks \in [HookTypes -> Seq(Handles)]
    /\ registry \in [APIs -> Seq(Handles)]
    /\ made \in Nat
    /\ running # NULL => running \in Dispatches

\* A hook is called through a pointer into its owner: no hook outlives the
\* object of its owner, through failing inits that had registered some of
\* their hooks, and at every point of the teardown, during which the hooks of
\* plugins still loaded are called.
HooksAlive ==
    \A t \in HookTypes : \A h \in Range(hooks[t]) : slot[h] \in loaded

\* What the plugins of the tree keep to.  One that has entries with an api
\* requires that api as the plugin of that name, also when the name is that of
\* a group too; and an api has a hook for plugin.deloaded as long as it runs.
ApisRequired ==
    \A p \in Objects : \A i \in DOMAIN InitCalls[p] :
        InitCalls[p][i].table = "registry" =>
            /\ InitCalls[p][i].key \in Range(Info[p].requires)
            /\ \A o \in Objects : InitCalls[p][i].key \in Range(Info[o].groups)
                                    => belongs_to_pool(Info[p].groups, InitCalls[p][i].key)

ApisListen ==
    \A p \in Objects : Info[p].name \in APIs =>
        /\ p \notin Dynamic
        /\ \E i \in DOMAIN InitCalls[p] :
             InitCalls[p][i].table = "hooks" /\ InitCalls[p][i].key = "plugin.deloaded"

\* No entry of a registry outlives its owner, and none its registry.
EntriesAlive ==
    \A a \in APIs : \A h \in Range(registry[a]) :
        slot[h] \in loaded /\ get(a) \in loaded

\* A plugin whose init has returned keeps all that it registered until it is
\* deloaded itself, whatever fails or is deloaded in between; but a dynamic
\* one may give its hooks up.
RegistrationsKept ==
    \A p \in loaded \ Dynamic : (stack # <<>> /\ Top.plugin = p /\ Top.pc = "init") \/
        \A i \in DOMAIN InitCalls[p] :
            LET c == InitCalls[p][i] IN
                handle(p) \in Range(IF c.table = "hooks" THEN hooks[c.key]
                                                         ELSE registry[c.key])

\* In one dispatch no hook is called twice, and at most as many are passed
\* over as the hooks that were called have removed from under the index.
CalledOnce ==
    running # NULL =>
        LET s == hooks[running.type] IN
          /\ \A i \in DOMAIN s : i > running.at => s[i] \in running.due
          /\ Cardinality({i \in DOMAIN s : i <= running.at /\ s[i] \in running.due})
                <= running.shifts

\* A plugin registers with an api only when that api's init has completed.
ApiReady ==
    [][\A a \in APIs : Len(registry'[a]) > Len(registry[a]) =>
          /\ get(a) \in loaded
          /\ get(a) # Top.plugin]_hvars
=============================================================================
