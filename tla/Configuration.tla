--------------------------- MODULE Configuration ---------------------------
(***************************************************************************)
(* The configuration plugin, src/plugins/configuration/configuration.c,    *)
(* with its backend configuration-ini.c: one backend at a time, the table  *)
(* of keys and values that its file gave, and the rules for keys.          *)
(*                                                                         *)
(* A key is a sequence of "/", words (runs of the characters that keys may *)
(* have) and other characters.  Only get(key, 's', ..) is modelled: the    *)
(* other types convert the text found in the same way.                     *)
(***************************************************************************)
EXTENDS Naturals, Sequences, SequencesExt

CONSTANTS
    Plugins,    \* plugins that may be deloaded
    Backends,   \* those of them that add a configuration backend
    Words,      \* runs of letters, digits, "_" and "-"
    Letters,    \* those that are one character long
    Values,     \* texts of values, as sequences: the empty text is <<>>
    Files,      \* what each backend reads: sequences of [path |-> .., value |-> ..]
    NULL

ASSUME ConfigurationConstants ==
    /\ Backends \subseteq Plugins
    /\ Letters \subseteq Words /\ Words \cap {"/", "."} = {}
    /\ <<>> \in Values /\ NULL \notin Values
    /\ \A b \in Backends : Files[b] \in Seq([path : Seq(STRING), value : Values])

VARIABLES
    alive,      \* plugins that have not been deloaded
    backend,    \* plugin.backend, by its handle, or NULL
    values      \* plugin.table

cvars == <<alive, backend, values>>

ConfigurationInit ==
    /\ alive = Plugins
    /\ backend = NULL
    /\ values = <<>>

-----------------------------------------------------------------------------
(* Keys *)

validate_key(key) ==
    /\ key # <<>> /\ key[1] = "/"
    /\ \A i \in 2..Len(key) :
         \/ key[i] \in Words
         \/ key[i] = "/" /\ key[i - 1] # "/" /\ i < Len(key)

\* convert_key of the backend: the dots of a path separate as well; a path
\* of no or one character is passed over.
Convertible(path) ==
    path # <<>> /\ (Len(path) = 1 => path[1] \in Words \ Letters)
convert_key(path) ==
    <<"/">> \o [i \in DOMAIN path |-> IF path[i] = "." THEN "/" ELSE path[i]]

\* configuration.rst: letters, digits, underscores and dashes only, with
\* slashes between them, one in front, and none at the end.
WellFormed(key) ==
    /\ key # <<>> /\ Range(key) \subseteq Words \cup {"/"}
    /\ Head(key) = "/" /\ Last(key) # "/"
    /\ \A i \in 1..(Len(key) - 1) : <<key[i], key[i + 1]>> # <<"/", "/">>

\* Keys of up to n characters are accepted as documented, but for the slash
\* alone.
KeysAsDocumented(n) ==
    \A key \in SeqOf(Letters \cup {"/", "."}, n) :
        validate_key(key) <=> WellFormed(key) \/ key = <<"/">>

-----------------------------------------------------------------------------
(* The table *)

\* load of configuration-ini: as many pairs as the file has.  A path that is
\* passed over leaves an empty one; that those are behind the others does not
\* matter to who reads them.
load(b) ==
    [i \in DOMAIN Files[b] |->
        LET line == Files[b][i]
        IN  IF Convertible(line.path) THEN [key |-> convert_key(line.path), value |-> line.value]
                                      ELSE [key |-> <<>>, value |-> <<>>]]

\* A later pair overwrites an earlier one; an empty key is not valid.
store(table, pair) ==
    IF validate_key(pair.key)
    THEN [key \in DOMAIN table \cup {pair.key} |->
             IF key = pair.key THEN pair.value ELSE table[key]]
    ELSE table

\* Mutant of load_config: the table is not released.
load_config_into(b) == FoldLeft(store, values, load(b))

\* The old table is released first.
load_config(b) == FoldLeft(store, <<>>, load(b))

\* Called by the init of b: the first backend stays, others are refused.
add_configuration_backend(b) ==
    /\ b \in Backends \cap alive
    /\ backend = NULL
    /\ backend' = b
    /\ values' = load_config(b)

\* The hook on plugin.deloaded: the values stay.
backend_deloaded(p) ==
    /\ backend' = IF backend = p THEN NULL ELSE backend
    /\ UNCHANGED values

\* get with type 's': an empty value counts as none.
get(key) ==
    IF validate_key(key) /\ key \in DOMAIN values /\ values[key] # <<>>
    THEN values[key] ELSE NULL

-----------------------------------------------------------------------------
(* Properties *)

ConfigurationTypeOK ==
    /\ alive \subseteq Plugins
    /\ backend \in (Backends \cap alive) \cup {NULL}
    /\ Range(values) \subseteq Values

\* What the documentation makes of the file of b: each well-formed key has
\* one value, and that is the last one given.
Documented(b) ==
    LET lines(key) == {i \in DOMAIN Files[b] :
                          Convertible(Files[b][i].path) /\ convert_key(Files[b][i].path) = key}
        keys == {key \in {convert_key(Files[b][i].path) : i \in DOMAIN Files[b]} :
                    WellFormed(key) /\ lines(key) # {}}
    IN  [key \in keys |-> Files[b][Max(lines(key))].value]

\* The table is that of one file, the file of the backend in charge or, when
\* that has gone, of one that was: nothing is left over from a backend that
\* failed and made room for another.
TableIsFile ==
    IF backend # NULL THEN values = Documented(backend)
    ELSE values = <<>> \/ \E b \in Backends : values = Documented(b)
=============================================================================
