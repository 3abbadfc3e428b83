------------------------------ MODULE Keybind ------------------------------
(***************************************************************************)
(* The registry of the keybind plugin, src/plugins/keybind/keybind.c: the  *)
(* pool of keybinds that other plugins add, and the hash table that maps a *)
(* key combination to an index into that pool.  Removing a keybind frees   *)
(* its slot and leaves the table as it is.                                 *)
(*                                                                         *)
(* A combination is the sequence of its parts: <<"P", "q">> for "<P-q>".   *)
(* shown is not state of the program: it is what the log said when the     *)
(* keybind was added, the string built in mappings.                        *)
(***************************************************************************)
EXTENDS Configuration

CONSTANTS
    BindNames,      \* names of keybinds
    Spelling,       \* their words and the spaces between
    Combos,         \* key combinations
    Requests,       \* the add_keybind calls that plugins make
    KeyEvents,      \* what is pressed: the modifiers held, and a key or a button
    DefaultPrefix,  \* alt in a window, logo otherwise
    PoolSize        \* room in the pool

\* The modifiers that append_mods spells, in its order, and how; all those
\* that parse_prefix knows.
Modifiers == <<"shift", "ctrl", "alt", "logo", "mod2", "mod3", "mod5">>
AllModifiers == Range(Modifiers) \cup {"caps"}
ModLetters == <<"S", "C", "M", "L", "M2", "M3", "M5">>

Slots == 1..PoolSize
Binding == [name : BindNames, owner : Plugins]

ASSUME KeybindConstants ==
    /\ PoolSize \in Nat
    /\ Requests \subseteq [bind : Binding, defaults : Seq(Combos)]
    /\ Spelling \in [BindNames -> Seq(Words \cup {" "})]
    /\ {"keybindings", "mappings", "_"} \subseteq Words
    /\ \A e \in KeyEvents : e.mods \subseteq AllModifiers
    /\ DefaultPrefix \in Range(Modifiers)
    /\ Values \ {<<>>} \subseteq Combos  \* any text may be given as a mapping
    /\ <<>> \notin Combos
    /\ NULL \notin Slots /\ NULL \notin Combos /\ NULL \notin Binding

VARIABLES
    configured, \* the configuration plugin is there, so its get is imported
    prefix,     \* the modifiers that P stands for, or NULL before plugin_init
    pool,       \* slot -> keybind
    table,      \* combination -> slot
    shown,      \* slot -> combinations the log listed for its keybind
    called      \* the keybind whose function the last step ran, if it ran one

kvars == <<cvars, configured, prefix, pool, table, shown, called>>

\* The configuration plugin may be absent.
Init ==
    /\ ConfigurationInit
    /\ configured \in BOOLEAN
    /\ prefix = NULL
    /\ pool = [s \in Slots |-> NULL]
    /\ table = [c \in Combos |-> NULL]
    /\ shown = [s \in Slots |-> {}]
    /\ called = NULL

\* One name, or none that is known.
parse_prefix(text) ==
    IF text # NULL /\ Len(text) = 1 /\ Range(text) \subseteq AllModifiers
    THEN Range(text) ELSE {DefaultPrefix}

load_prefix == IF configured THEN get(<<"/", "keybindings", "/", "prefix">>) ELSE NULL

\* The prefix is read once; the plugins that add keybinds come later.
plugin_init ==
    /\ prefix = NULL
    /\ prefix' = parse_prefix(load_prefix)
    /\ UNCHANGED <<cvars, configured, pool, table, shown, called>>

keybind_exists(n) == \E s \in Slots : pool[s] # NULL /\ pool[s].name = n

\* chck_pool_add: some free slot.
FreeSlot(s) == pool[s] = NULL

\* keybind_for_syntax in pool p: the keybind a combination runs, if any.
lookup(p, c) == IF c \notin Combos \/ table[c] = NULL THEN NULL ELSE p[table[c]]
keybind_for_syntax(c) == lookup(pool, c)

\* The key of keybind n in the configuration: "_" for each space.
config_key(n) ==
    <<"/", "keybindings", "/">>
    \o [i \in DOMAIN Spelling[n] |-> IF Spelling[n][i] = " " THEN "_" ELSE Spelling[n][i]]
    \o <<"/", "mappings">>

\* Mutant of Tried: the result of configuration_get is not looked at.
TriedUnchecked(r) == IF configured THEN {get(config_key(r.bind.name))} ELSE Range(r.defaults)

\* The mappings add_keybind tries: a configured one replaces the defaults.
Tried(r) ==
    IF configured /\ get(config_key(r.bind.name)) # NULL
    THEN {get(config_key(r.bind.name))} ELSE Range(r.defaults)

\* Mutant of Mapped: the last to ask gets the combination.
MappedAnyway(r, p) == Tried(r)

\* add_keybind_mapping refuses what runs a keybind already; the new keybind
\* is in the pool by then.
Mapped(r, p) == {c \in Tried(r) : lookup(p, c) = NULL}

add_keybind(r) ==
    /\ prefix # NULL
    /\ r.bind.owner \in alive
    /\ ~keybind_exists(r.bind.name)
    /\ \E s \in Slots :
         /\ FreeSlot(s)
         /\ pool' = [pool EXCEPT ![s] = r.bind]
         /\ table' = [c \in Combos |-> IF c \in Mapped(r, pool') THEN s ELSE table[c]]
         /\ shown' = [shown EXCEPT ![s] = Mapped(r, pool')]
    /\ called' = NULL
    /\ UNCHANGED <<cvars, configured, prefix>>

Forget(gone) ==
    /\ pool' = [s \in Slots |-> IF s \in gone THEN NULL ELSE pool[s]]
    /\ shown' = [s \in Slots |-> IF s \in gone THEN {} ELSE shown[s]]
    /\ called' = NULL
    /\ UNCHANGED <<configured, prefix, table>>

remove_keybind(b) ==
    /\ b.owner \in alive /\ b \in Range(pool)
    /\ Forget({s \in Slots : pool[s] = b})
    /\ UNCHANGED cvars

\* The hook on plugin.deloaded, and that of configuration.
remove_keybinds_for_plugin(p) == Forget({s \in Slots : pool[s] # NULL /\ pool[s].owner = p})

plugin_deloaded(p) ==
    /\ p \in alive
    /\ alive' = alive \ {p}
    /\ remove_keybinds_for_plugin(p)
    /\ backend_deloaded(p)

\* A backend outside the group "configuration" may come at any time.
AddBackend(b) ==
    /\ configured
    /\ add_configuration_backend(b)
    /\ called' = NULL
    /\ UNCHANGED <<alive, configured, prefix, pool, table, shown>>

\* append_mods and the name of the key.  Caps lock is spelled in neither.
syntax(e) ==
    SelectSeq([i \in DOMAIN Modifiers |-> IF Modifiers[i] \in e.mods THEN ModLetters[i] ELSE ""],
              LAMBDA m : m # "") \o <<e.key>>
prefixed(e) == IF e.mods = prefix THEN <<"P", e.key>> ELSE <<>>

\* The spelling with the prefix goes first.
keybind_of(e) ==
    IF keybind_for_syntax(prefixed(e)) # NULL
    THEN keybind_for_syntax(prefixed(e)) ELSE keybind_for_syntax(syntax(e))

\* A key or a button is pressed; of a release nothing comes.
pass_key(e) ==
    /\ prefix # NULL
    /\ keybind_of(e) # NULL
    /\ called' = keybind_of(e)
    /\ UNCHANGED <<cvars, configured, prefix, pool, table, shown>>

Next ==
    \/ plugin_init
    \/ \E r \in Requests : add_keybind(r) \/ remove_keybind(r.bind)
    \/ \E p \in Plugins : plugin_deloaded(p) \/ AddBackend(p)
    \/ \E e \in KeyEvents : pass_key(e)

Spec == Init /\ [][Next]_kvars

-----------------------------------------------------------------------------
(* Properties *)

TypeOK ==
    /\ ConfigurationTypeOK
    /\ configured \in BOOLEAN
    /\ prefix = NULL \/ prefix \in SUBSET AllModifiers
    /\ pool \in [Slots -> Binding \cup {NULL}]
    /\ table \in [Combos -> Slots \cup {NULL}]
    /\ shown \in [Slots -> SUBSET Combos]
    /\ called \in Binding \cup {NULL}

\* What the log lists for a keybind runs that keybind for as long as it is
\* there: no later keybind, in whichever slot, takes a combination away.  And
\* although the table keeps the combinations of keybinds that were removed,
\* no key runs the function of a plugin that is gone.
ShownRun ==
    /\ \A s \in Slots : pool[s] # NULL => \A c \in shown[s] : table[c] = s
    /\ called # NULL => called.owner \in alive

\* orbment.1.in on the keybinds that plugins add: they are displayed in the
\* log.  So a combination that runs a keybind is one the log listed for it;
\* one that the keybind at least asked for is let pass.
OnlyShownRun == \A c \in Combos :
    keybind_for_syntax(c) # NULL =>
        \/ c \in shown[table[c]]
        \/ \E r \in Requests : r.bind = keybind_for_syntax(c) /\ c \in Tried(r)

\* The comment in add_keybind: if no mapping was set from the configuration,
\* the default keybindings are tried.
DefaultsTried ==
    [][\A r \in Requests : add_keybind(r) =>
          \/ \E s \in Slots : pool[s] = NULL /\ pool'[s] # NULL /\ shown'[s] # {}
          \/ \A c \in Range(r.defaults) : lookup(pool', c) # NULL]_kvars
=============================================================================
