--------------------------- MODULE KeybindProofs ---------------------------
(***************************************************************************)
(* Theorems about the configuration and keybind plugins: the rules for     *)
(* keys, for keys of any length; that the table is the file's, for files   *)
(* of any size; and that what the log says of a keybind is so.             *)
(***************************************************************************)
EXTENDS Keybind, TLAPS

Store == INSTANCE ListProofs WITH op <- store

-----------------------------------------------------------------------------
(* Keys *)

\* validate_key takes a key for what the documentation says a key is; only
\* the slash alone passes it as well.
LEMMA ValidKeys ==
  ASSUME NEW S, NEW key \in Seq(S)
  PROVE  validate_key(key) <=> WellFormed(key) \/ key = <<"/">>
<1>1. "/" \notin Words
  BY ConfigurationConstants
<1>2. ASSUME validate_key(key), key # <<"/">> PROVE WellFormed(key)
  <2>1. key # <<>> /\ key[1] = "/" /\ Len(key) \in Nat /\ Len(key) >= 1
    BY <1>2 DEF validate_key
  <2>2. Len(key) # 1
    BY <2>1, <1>2
  <2>3. \A i \in 2..Len(key) :
           key[i] \in Words \/ (key[i] = "/" /\ key[i - 1] # "/" /\ i < Len(key))
    BY <1>2 DEF validate_key
  <2>4. Range(key) \subseteq Words \cup {"/"}
    <3>1. ASSUME NEW i \in 1..Len(key) PROVE key[i] \in Words \cup {"/"}
      BY <2>1, <2>3
    <3> QED BY <3>1 DEF Range
  <2>5. Last(key) # "/"
    <3>1. Len(key) \in 2..Len(key)
      <4> DEFINE n == Len(key)
      <4>1. n \in Nat /\ n >= 1 /\ n # 1
        BY <2>1, <2>2
      <4> HIDE DEF n
      <4>2. n \in 2..n
        BY <4>1
      <4> QED BY <4>2 DEF n
    <3>2. key[Len(key)] \in Words
      BY <3>1, <2>1, <2>3
    <3> QED BY <3>2, <1>1 DEF Last
  <2>6. Head(key) = "/"
    BY <2>1
  <2>7. ASSUME NEW i \in 1..(Len(key) - 1)
        PROVE  <<key[i], key[i + 1]>> # <<"/", "/">>
    <3>1. i + 1 \in 2..Len(key) /\ (i + 1) - 1 = i
      BY <2>1
    <3> QED BY <3>1, <2>3, <1>1
  <2> QED BY <2>1, <2>4, <2>5, <2>6, <2>7 DEF WellFormed
<1>3. ASSUME WellFormed(key) PROVE validate_key(key)
  <2>1. /\ key # <<>> /\ Len(key) \in Nat /\ Len(key) >= 1
        /\ Range(key) \subseteq Words \cup {"/"}
        /\ Head(key) = "/" /\ key[Len(key)] # "/"
        /\ \A i \in 1..(Len(key) - 1) : <<key[i], key[i + 1]>> # <<"/", "/">>
    BY <1>3 DEF WellFormed, Last
  <2>2. ASSUME NEW i \in 2..Len(key), key[i] \notin Words
        PROVE  key[i] = "/" /\ key[i - 1] # "/" /\ i < Len(key)
    <3>1. key[i] = "/"
      BY <2>1, <2>2 DEF Range
    <3>2. i # Len(key)
      BY <3>1, <2>1
    <3>3. i - 1 \in 1..(Len(key) - 1) /\ (i - 1) + 1 = i
      BY <2>1
    <3> QED BY <3>1, <3>2, <3>3, <2>1
  <2> QED BY <2>1, <2>2 DEF validate_key
<1>4. validate_key(<<"/">>)
  BY DEF validate_key
<1> QED BY <1>2, <1>3, <1>4

\* The same of the keys that the run tries: keys of letters, slashes and dots,
\* of any length.
THEOREM KeysAreAsDocumented == \A n \in Nat : KeysAsDocumented(n)
<1> DEFINE Chars == Letters \cup {"/", "."}
<1>1. SUFFICES ASSUME NEW n \in Nat, NEW key \in SeqOf(Chars, n)
               PROVE  validate_key(key) <=> WellFormed(key) \/ key = <<"/">>
  BY DEF KeysAsDocumented
<1>2. PICK m \in 0..n : key \in [1..m -> Chars]
  BY <1>1 DEF SeqOf
<1>3. key \in Seq(Chars)
  BY <1>2, m \in Nat
<1> QED BY <1>3, ValidKeys

-----------------------------------------------------------------------------
(* The table *)

\* Line i of the file of b gives a value to key.
Gives(b, i, key) ==
    /\ Convertible(Files[b][i].path)
    /\ convert_key(Files[b][i].path) = key
    /\ validate_key(key)

\* The invariant of the loop of load_config: t is what the first n lines of
\* the file of b make.
Stored(b, n, t) ==
    /\ t = [key \in DOMAIN t |-> t[key]]
    /\ \A key : key \in DOMAIN t <=> \E i \in 1..n : Gives(b, i, key)
    /\ \A key \in DOMAIN t :
         \E m \in 1..n :
            /\ Gives(b, m, key) /\ t[key] = Files[b][m].value
            /\ \A i \in 1..n : Gives(b, i, key) => i <= m

LEMMA EmptyKey == ~validate_key(<<>>)
  BY DEF validate_key

LEMMA StoredOne ==
  ASSUME NEW b \in Backends, NEW n \in Nat, n + 1 \in 1..Len(Files[b]),
         NEW t, Stored(b, n, t)
  PROVE  Stored(b, n + 1, store(t, load(b)[n + 1]))
<1> DEFINE k == n + 1
           pair == load(b)[k]
           key == convert_key(Files[b][k].path)
           value == Files[b][k].value
           u == store(t, pair)
<1> SUFFICES Stored(b, k, u)
  OBVIOUS
<1>1. Files[b] \in Seq([path : Seq(STRING), value : Values])
  BY ConfigurationConstants
<1>2. pair = IF Convertible(Files[b][k].path) THEN [key |-> key, value |-> value]
                                              ELSE [key |-> <<>>, value |-> <<>>]
  BY <1>1 DEF load
<1>3. \A i \in 1..k : i = k \/ i \in 1..n
  OBVIOUS
<1>4. \A i \in 1..n : i \in 1..k /\ i <= k /\ i # k
  OBVIOUS
<1>5. CASE Convertible(Files[b][k].path) /\ validate_key(key)
  <2>1. u = [x \in DOMAIN t \cup {key} |-> IF x = key THEN value ELSE t[x]]
    BY <1>2, <1>5 DEF store
  <2>2. \A x : Gives(b, k, x) <=> x = key
    BY <1>5 DEF Gives
  <2> HIDE DEF u, key, value, pair
  <2>3. DOMAIN u = DOMAIN t \cup {key}
    BY <2>1
  <2>4. u = [x \in DOMAIN u |-> u[x]]
    BY <2>1
  <2>5. ASSUME NEW x PROVE x \in DOMAIN u <=> \E i \in 1..k : Gives(b, i, x)
    <3>1. x \in DOMAIN t <=> \E i \in 1..n : Gives(b, i, x)
      BY DEF Stored
    <3>2. k \in 1..k
      OBVIOUS
    <3> HIDE DEF k
    <3> QED BY <2>2, <2>3, <3>1, <3>2, <1>3, <1>4
  <2>6. ASSUME NEW x \in DOMAIN u
        PROVE  \E m \in 1..k : /\ Gives(b, m, x) /\ u[x] = Files[b][m].value
                               /\ \A i \in 1..k : Gives(b, i, x) => i <= m
    <3>1. CASE x = key
      <4>1. k \in 1..k /\ Gives(b, k, x) /\ u[x] = Files[b][k].value
        BY <2>1, <2>2, <3>1, <2>3 DEF value
      <4>2. \A i \in 1..k : i <= k
        OBVIOUS
      <4> QED BY <4>1, <4>2
    <3>2. CASE x # key
      <4>1. x \in DOMAIN t /\ u[x] = t[x]
        BY <2>1, <2>3, <3>2
      <4>2. PICK m \in 1..n : /\ Gives(b, m, x) /\ t[x] = Files[b][m].value
                              /\ \A i \in 1..n : Gives(b, i, x) => i <= m
        BY <4>1 DEF Stored
      <4>3. \A i \in 1..k : Gives(b, i, x) => i <= m
        BY <4>2, <2>2, <3>2, <1>3
      <4>4. m \in 1..k
        BY <1>4
      <4> QED BY <4>1, <4>2, <4>3, <4>4
    <3> QED BY <3>1, <3>2
  <2> HIDE DEF k
  <2> QED BY <2>4, <2>5, <2>6 DEF Stored
<1>6. CASE ~(Convertible(Files[b][k].path) /\ validate_key(key))
  <2>1. u = t
    BY <1>2, <1>6, EmptyKey DEF store
  <2>2. \A x : ~Gives(b, k, x)
    BY <1>6 DEF Gives
  <2> HIDE DEF u, key, value, pair
  <2>3. ASSUME NEW x PROVE x \in DOMAIN u <=> \E i \in 1..k : Gives(b, i, x)
    <3>1. x \in DOMAIN t <=> \E i \in 1..n : Gives(b, i, x)
      BY DEF Stored
    <3> QED BY <2>1, <2>2, <3>1, <1>3, <1>4
  <2>4. ASSUME NEW x \in DOMAIN u
        PROVE  \E m \in 1..k : /\ Gives(b, m, x) /\ u[x] = Files[b][m].value
                               /\ \A i \in 1..k : Gives(b, i, x) => i <= m
    <3>1. PICK m \in 1..n : /\ Gives(b, m, x) /\ t[x] = Files[b][m].value
                            /\ \A i \in 1..n : Gives(b, i, x) => i <= m
      BY <2>1 DEF Stored
    <3>2. \A i \in 1..k : Gives(b, i, x) => i <= m
      BY <3>1, <2>2, <1>3
    <3> QED BY <2>1, <3>1, <3>2, <1>4
  <2>5. u = [x \in DOMAIN u |-> u[x]]
    BY <2>1 DEF Stored
  <2> HIDE DEF k
  <2> QED BY <2>3, <2>4, <2>5 DEF Stored
<1> QED BY <1>5, <1>6

\* load_config makes of a file what all its lines make.
LEMMA LoadStores ==
  ASSUME NEW b \in Backends
  PROVE  Stored(b, Len(Files[b]), load_config(b))
<1> DEFINE size == Len(Files[b])
<1>1. Files[b] \in Seq([path : Seq(STRING), value : Values])
  BY ConfigurationConstants
<1>2. size \in Nat /\ DOMAIN load(b) = 1..size /\ Len(load(b)) = size
  BY <1>1 DEF load
<1>3. PICK a : /\ a[0] = <<>>
               /\ \A i \in 1..size : a[i] = store(a[i - 1], load(b)[i])
               /\ load_config(b) = a[size]
  <2>1. load_config(b) = Store!FoldLeft(store, <<>>, load(b))
    BY Zenon DEF load_config, FoldLeft, Store!FoldLeft, MapThenFoldSet,
       Store!MapThenFoldSet, Max, Store!Max
  <2>2. \E a : /\ a[0] = <<>>
               /\ \A i \in 1..Len(load(b)) : a[i] = store(a[i - 1], load(b)[i])
               /\ Store!FoldLeft(store, <<>>, load(b)) = a[Len(load(b))]
    <3>1. Len(load(b)) \in Nat /\ DOMAIN load(b) = 1..Len(load(b))
      BY <1>2
    <3> HIDE DEF size
    <3> QED BY <3>1, Store!FoldUnrolled, ZenonT(60)
  <2> HIDE DEF size
  <2> QED BY <1>2, <2>1, <2>2, Zenon
<1> DEFINE Done == {i \in Nat : i <= size => Stored(b, i, a[i])}
<1>4. 0 \in Done
  <2>1. Stored(b, 0, <<>>)
    BY DEF Stored
  <2> QED BY <2>1, <1>3
<1>5. ASSUME NEW n \in Nat, n \in Done PROVE n + 1 \in Done
  <2>1. SUFFICES ASSUME n + 1 <= size PROVE Stored(b, n + 1, a[n + 1])
    OBVIOUS
  <2>2. Stored(b, n, a[n]) /\ n + 1 \in 1..size
    BY <1>2, <1>5, <2>1
  <2>3. a[n + 1] = store(a[n], load(b)[n + 1])
    BY <2>2, <1>3, (n + 1) - 1 = n
  <2>4. Stored(b, n + 1, store(a[n], load(b)[n + 1]))
    BY <2>2, StoredOne
  <2> QED BY <2>3, <2>4
<1>6. size \in Done
  <2> HIDE DEF Done, size
  <2> QED BY <1>2, <1>4, <1>5, Store!Induction
<1> QED BY <1>2, <1>3, <1>6

\* A path that is converted makes a key that is longer than the slash alone.
LEMMA ConvertedKey ==
  ASSUME NEW S, NEW path \in Seq(S), Convertible(path)
  PROVE  convert_key(path) \in Seq(S \cup {"/"}) /\ convert_key(path) # <<"/">>
<1> DEFINE tail == [i \in DOMAIN path |-> IF path[i] = "." THEN "/" ELSE path[i]]
<1>1. tail \in Seq(S \cup {"/"}) /\ Len(tail) = Len(path) /\ Len(path) \in Nat
  <2>1. Len(path) \in Nat /\ DOMAIN path = 1..Len(path)
    OBVIOUS
  <2>2. tail \in [1..Len(path) -> S \cup {"/"}]
    BY <2>1
  <2> QED BY <2>1, <2>2
<1>2. Len(path) # 0
  BY DEF Convertible
<1>3. convert_key(path) = <<"/">> \o tail
  BY DEF convert_key
<1> HIDE DEF tail
<1>4. <<"/">> \in Seq(S \cup {"/"}) /\ Len(<<"/">>) = 1
  OBVIOUS
<1>5. <<"/">> \o tail \in Seq(S \cup {"/"}) /\ Len(<<"/">> \o tail) = 1 + Len(tail)
  BY <1>1, <1>4
<1> QED BY <1>1, <1>2, <1>3, <1>4, <1>5

LEMMA LoadIsDocumented ==
  ASSUME NEW b \in Backends
  PROVE  load_config(b) = Documented(b)
<1> DEFINE size == Len(Files[b])
           t == load_config(b)
           lines(key) == {i \in DOMAIN Files[b] :
                             Convertible(Files[b][i].path) /\ convert_key(Files[b][i].path) = key}
           keys == {key \in {convert_key(Files[b][i].path) : i \in DOMAIN Files[b]} :
                       WellFormed(key) /\ lines(key) # {}}
<1>1. Files[b] \in Seq([path : Seq(STRING), value : Values])
  BY ConfigurationConstants
<1>2. size \in Nat /\ DOMAIN Files[b] = 1..size
  BY <1>1
<1>3. Stored(b, size, t)
  BY LoadStores
<1>4. ASSUME NEW key, NEW i \in 1..size
      PROVE  Gives(b, i, key) <=> i \in lines(key) /\ WellFormed(key)
  <2>1. i \in lines(key) <=>
          Convertible(Files[b][i].path) /\ convert_key(Files[b][i].path) = key
    BY <1>2
  <2>2. ASSUME i \in lines(key) PROVE validate_key(key) <=> WellFormed(key)
    <3>1. Files[b][i].path \in Seq(STRING) /\ Convertible(Files[b][i].path)
      <4>1. Files[b][i] \in [path : Seq(STRING), value : Values]
        <5> DEFINE Line == [path : Seq(STRING), value : Values]
        <5>1. Files[b] \in Seq(Line) /\ i \in 1..Len(Files[b])
          BY <1>1
        <5> HIDE DEF Line
        <5>2. Files[b][i] \in Line
          BY <5>1
        <5> QED BY <5>2 DEF Line
      <4> QED BY <2>1, <2>2, <4>1
    <3>2. key \in Seq(STRING \cup {"/"}) /\ key # <<"/">>
      BY <2>1, <2>2, <3>1, ConvertedKey
    <3> QED BY <3>2, ValidKeys
  <2> HIDE DEF lines
  <2> QED BY <2>1, <2>2 DEF Gives
<1>5. Documented(b) = [key \in keys |-> Files[b][Max(lines(key))].value]
  BY DEF Documented
<1>6. \A key : key \in keys <=> WellFormed(key) /\ \E i \in 1..size : i \in lines(key)
  BY <1>2
<1> HIDE DEF lines, keys, t, size
<1>7. DOMAIN t = keys
  <2>1. \A key : key \in DOMAIN t <=> key \in keys
    BY <1>3, <1>4, <1>6 DEF Stored
  <2> QED BY <2>1
<1>8. ASSUME NEW key \in keys PROVE t[key] = Files[b][Max(lines(key))].value
  <2>1. PICK m \in 1..size : /\ Gives(b, m, key) /\ t[key] = Files[b][m].value
                             /\ \A i \in 1..size : Gives(b, i, key) => i <= m
    BY <1>3, <1>7 DEF Stored
  <2>2. WellFormed(key) /\ m \in lines(key) /\ lines(key) \subseteq 1..size
    BY <1>2, <1>4, <2>1 DEF lines
  <2>3. \A i \in lines(key) : i <= m
    BY <1>4, <2>1, <2>2
  <2>4. Max(lines(key)) = m
    <3>1. \A x \in lines(key) : (\A y \in lines(key) : x >= y) <=> x = m
      BY <1>2, <2>2, <2>3
    <3> QED BY <2>2, <3>1 DEF Max
  <2> QED BY <2>1, <2>4
<1>9. t = [key \in DOMAIN t |-> t[key]]
  BY <1>3 DEF Stored
<1>10. t = Documented(b)
  BY <1>5, <1>7, <1>8, <1>9
<1> QED BY <1>10 DEF t

LEMMA LoadedValues ==
  ASSUME NEW b \in Backends
  PROVE  Range(load_config(b)) \subseteq Values
<1> DEFINE t == load_config(b)
<1>1. SUFFICES ASSUME NEW key \in DOMAIN t PROVE t[key] \in Values
  BY DEF Range
<1>2. PICK m \in 1..Len(Files[b]) : t[key] = Files[b][m].value
  BY LoadStores DEF Stored
<1> DEFINE Line == [path : Seq(STRING), value : Values]
<1>3. Files[b] \in Seq(Line)
  BY ConfigurationConstants
<1> HIDE DEF Line
<1>4. Files[b][m] \in Line
  BY <1>3
<1> QED BY <1>2, <1>4 DEF Line

-----------------------------------------------------------------------------
(* The invariant *)

\* Whose keybind is in the pool is there.
OwnersAlive == \A s \in Slots : pool[s] # NULL => pool[s].owner \in alive

KeybindInv == TypeOK /\ TableIsFile /\ OwnersAlive /\ ShownRun

LEMMA EmptyValues == Range(<<>>) = {}
  BY DEF Range

LEMMA DefaultKnown == {DefaultPrefix} \in SUBSET AllModifiers
  BY KeybindConstants DEF AllModifiers

LEMMA GetType ==
  ASSUME ConfigurationTypeOK, NEW key, get(key) # NULL
  PROVE  get(key) \in Values \ {<<>>}
<1>1. key \in DOMAIN values /\ values[key] # <<>> /\ get(key) = values[key]
  BY DEF get
<1>2. values[key] \in Range(values)
  BY <1>1 DEF Range
<1> QED BY <1>1, <1>2 DEF ConfigurationTypeOK

\* A mapping that is tried is a combination.
LEMMA TriedType ==
  ASSUME ConfigurationTypeOK, NEW r \in Requests
  PROVE  Tried(r) \subseteq Combos
<1>1. CASE configured /\ get(config_key(r.bind.name)) # NULL
  BY <1>1, GetType, KeybindConstants DEF Tried
<1>2. CASE ~(configured /\ get(config_key(r.bind.name)) # NULL)
  <2>1. r.defaults \in Seq(Combos)
    BY KeybindConstants
  <2> QED BY <1>2, <2>1 DEF Tried, Range
<1> QED BY <1>1, <1>2

LEMMA InitKeybind == Init => KeybindInv
<1>1. SUFFICES ASSUME Init PROVE KeybindInv
  OBVIOUS
<1>2. TypeOK
  BY <1>1, EmptyValues DEF Init, ConfigurationInit, TypeOK, ConfigurationTypeOK
<1>3. TableIsFile
  BY <1>1 DEF Init, ConfigurationInit, TableIsFile
<1>4. OwnersAlive /\ ShownRun
  BY <1>1 DEF Init, OwnersAlive, ShownRun
<1> QED BY <1>2, <1>3, <1>4 DEF KeybindInv

LEMMA PluginInitStep ==
  ASSUME KeybindInv, plugin_init
  PROVE  KeybindInv'
<1>1. prefix' \in SUBSET AllModifiers
  BY DefaultKnown DEF plugin_init, parse_prefix
<1> QED BY <1>1 DEF plugin_init, cvars, KeybindInv, TypeOK, ConfigurationTypeOK,
   TableIsFile, OwnersAlive, ShownRun

\* A new keybind gets a slot that was free, and only combinations that run no
\* keybind; those that it gets it also shows.
LEMMA AddKeybindStep ==
  ASSUME KeybindInv, NEW r \in Requests, add_keybind(r)
  PROVE  KeybindInv'
<1>1. PICK s \in Slots :
        /\ FreeSlot(s)
        /\ pool' = [pool EXCEPT ![s] = r.bind]
        /\ table' = [c \in Combos |-> IF c \in Mapped(r, pool') THEN s ELSE table[c]]
        /\ shown' = [shown EXCEPT ![s] = Mapped(r, pool')]
  BY DEF add_keybind
<1>2. /\ called' = NULL /\ r.bind.owner \in alive
      /\ UNCHANGED <<alive, backend, values, configured, prefix>>
  BY DEF add_keybind, cvars
<1>3. r.bind \in Binding /\ r.bind # NULL
  BY KeybindConstants
<1>4. Mapped(r, pool') \subseteq Combos
  BY TriedType DEF Mapped, KeybindInv, TypeOK
<1>5. TypeOK'
  <2>1. pool' \in [Slots -> Binding \cup {NULL}]
    BY <1>1, <1>3 DEF KeybindInv, TypeOK
  <2>2. table' \in [Combos -> Slots \cup {NULL}]
    BY <1>1 DEF KeybindInv, TypeOK
  <2>3. shown' \in [Slots -> SUBSET Combos]
    BY <1>1, <1>4 DEF KeybindInv, TypeOK
  <2> QED BY <1>2, <2>1, <2>2, <2>3 DEF KeybindInv, TypeOK, ConfigurationTypeOK
<1>6. TableIsFile'
  BY <1>2 DEF KeybindInv, TableIsFile
<1>7. OwnersAlive'
  BY <1>1, <1>2 DEF KeybindInv, TypeOK, OwnersAlive
<1>8. ShownRun'
  <2>1. SUFFICES ASSUME NEW t \in Slots, pool'[t] # NULL, NEW c \in shown'[t]
                 PROVE  table'[c] = t
    BY <1>2 DEF ShownRun
  <2>2. CASE t = s
    <3>1. c \in Mapped(r, pool')
      BY <1>1, <2>1, <2>2 DEF KeybindInv, TypeOK
    <3> QED BY <1>1, <1>4, <2>2, <3>1
  <2>3. CASE t # s
    \* What c runs is in the pool still, so it is not mapped again.
    <3>1. pool'[t] = pool[t] /\ shown'[t] = shown[t]
      BY <1>1, <2>3 DEF KeybindInv, TypeOK
    <3>2. table[c] = t /\ c \in Combos
      BY <2>1, <3>1 DEF KeybindInv, TypeOK, ShownRun
    <3>3. t # NULL
      BY KeybindConstants
    <3>4. lookup(pool', c) = pool'[t]
      BY <3>2, <3>3 DEF lookup
    <3>5. c \notin Mapped(r, pool')
      BY <2>1, <3>4 DEF Mapped
    <3> QED BY <1>1, <3>2, <3>5
  <2> QED BY <2>2, <2>3
<1> QED BY <1>5, <1>6, <1>7, <1>8 DEF KeybindInv

LEMMA ForgetStep ==
  ASSUME KeybindInv, NEW gone, Forget(gone)
  PROVE  /\ pool' \in [Slots -> Binding \cup {NULL}]
         /\ shown' \in [Slots -> SUBSET Combos]
         /\ \A s \in Slots : pool'[s] # NULL =>
               pool'[s] = pool[s] /\ s \notin gone /\ shown'[s] = shown[s]
         /\ ShownRun'
<1>1. /\ pool' = [s \in Slots |-> IF s \in gone THEN NULL ELSE pool[s]]
      /\ shown' = [s \in Slots |-> IF s \in gone THEN {} ELSE shown[s]]
      /\ called' = NULL /\ table' = table
  BY DEF Forget
<1>2. pool' \in [Slots -> Binding \cup {NULL}] /\ shown' \in [Slots -> SUBSET Combos]
  BY <1>1 DEF KeybindInv, TypeOK
<1>3. \A s \in Slots : pool'[s] # NULL =>
         pool'[s] = pool[s] /\ s \notin gone /\ shown'[s] = shown[s]
  BY <1>1
<1>4. ShownRun'
  BY <1>1, <1>3 DEF KeybindInv, ShownRun
<1> QED BY <1>2, <1>3, <1>4

LEMMA RemoveKeybindStep ==
  ASSUME KeybindInv, NEW b, remove_keybind(b)
  PROVE  KeybindInv'
<1>1. PICK gone : Forget(gone)
  BY DEF remove_keybind
<1>2. UNCHANGED cvars
  BY DEF remove_keybind
<1>3. TypeOK'
  BY <1>1, <1>2, ForgetStep DEF Forget, cvars, KeybindInv, TypeOK, ConfigurationTypeOK
<1>4. TableIsFile'
  BY <1>2 DEF cvars, KeybindInv, TableIsFile
<1>5. OwnersAlive' /\ ShownRun'
  BY <1>1, <1>2, ForgetStep DEF cvars, KeybindInv, OwnersAlive
<1> QED BY <1>3, <1>4, <1>5 DEF KeybindInv

\* With a plugin go its keybinds; the table of the configuration stays that of
\* the file.
LEMMA DeloadedStep ==
  ASSUME KeybindInv, NEW p \in Plugins, plugin_deloaded(p)
  PROVE  KeybindInv'
<1> DEFINE gone == {s \in Slots : pool[s] # NULL /\ pool[s].owner = p}
<1>1. /\ alive' = alive \ {p} /\ Forget(gone)
      /\ backend' = IF backend = p THEN NULL ELSE backend
      /\ values' = values
  BY DEF plugin_deloaded, remove_keybinds_for_plugin, backend_deloaded
<1>2. TypeOK'
  BY <1>1, ForgetStep DEF Forget, KeybindInv, TypeOK, ConfigurationTypeOK
<1>3. TableIsFile'
  BY <1>1 DEF KeybindInv, TypeOK, ConfigurationTypeOK, TableIsFile
<1>4. OwnersAlive'
  <2>1. SUFFICES ASSUME NEW s \in Slots, pool'[s] # NULL
                 PROVE  pool'[s].owner \in alive'
    BY DEF OwnersAlive
  <2>2. pool'[s] = pool[s] /\ s \notin gone
    BY <1>1, <2>1, ForgetStep
  <2> QED BY <1>1, <2>1, <2>2 DEF KeybindInv, OwnersAlive
<1>5. ShownRun'
  BY <1>1, ForgetStep
<1> QED BY <1>2, <1>3, <1>4, <1>5 DEF KeybindInv

LEMMA AddBackendStep ==
  ASSUME KeybindInv, NEW b, AddBackend(b)
  PROVE  KeybindInv'
<1>1. /\ b \in Backends \cap alive
      /\ backend' = b /\ values' = load_config(b) /\ called' = NULL
      /\ UNCHANGED <<alive, configured, prefix, pool, table, shown>>
  BY DEF AddBackend, add_configuration_backend
<1>2. Range(values') \subseteq Values
  BY <1>1, LoadedValues
<1>3. TypeOK'
  BY <1>1, <1>2 DEF KeybindInv, TypeOK, ConfigurationTypeOK
<1>4. TableIsFile'
  BY <1>1, LoadIsDocumented DEF TableIsFile
<1>5. OwnersAlive' /\ ShownRun'
  BY <1>1 DEF KeybindInv, OwnersAlive, ShownRun
<1> QED BY <1>3, <1>4, <1>5 DEF KeybindInv

LEMMA PassKeyStep ==
  ASSUME KeybindInv, NEW e, pass_key(e)
  PROVE  KeybindInv'
<1>1. called' = keybind_of(e) /\ keybind_of(e) # NULL
  BY DEF pass_key
<1>2. UNCHANGED <<alive, backend, values, configured, prefix, pool, table, shown>>
  BY DEF pass_key, cvars
<1>3. PICK c \in Combos : table[c] # NULL /\ called' = pool[table[c]]
  BY <1>1 DEF keybind_of, keybind_for_syntax, lookup
<1>4. table[c] \in Slots /\ called' \in Binding
  BY <1>1, <1>3 DEF KeybindInv, TypeOK
<1>5. called'.owner \in alive
  BY <1>1, <1>3, <1>4 DEF KeybindInv, OwnersAlive
<1>6. TypeOK'
  BY <1>2, <1>4 DEF KeybindInv, TypeOK, ConfigurationTypeOK
<1>7. TableIsFile' /\ OwnersAlive' /\ ShownRun'
  BY <1>2, <1>5 DEF KeybindInv, TableIsFile, OwnersAlive, ShownRun
<1> QED BY <1>6, <1>7 DEF KeybindInv

LEMMA KeybindInvariance == Spec => []KeybindInv
<1>1. KeybindInv /\ [Next]_kvars => KeybindInv'
  <2>1. SUFFICES ASSUME KeybindInv, [Next]_kvars PROVE KeybindInv'
    OBVIOUS
  <2>2. CASE plugin_init
    BY <2>1, <2>2, PluginInitStep
  <2>3. ASSUME NEW r \in Requests, add_keybind(r) \/ remove_keybind(r.bind)
        PROVE  KeybindInv'
    BY <2>1, <2>3, AddKeybindStep, RemoveKeybindStep
  <2>4. ASSUME NEW p \in Plugins, plugin_deloaded(p) \/ AddBackend(p)
        PROVE  KeybindInv'
    BY <2>1, <2>4, DeloadedStep, AddBackendStep
  <2>5. ASSUME NEW e \in KeyEvents, pass_key(e) PROVE KeybindInv'
    BY <2>1, <2>5, PassKeyStep
  <2>6. CASE UNCHANGED kvars
    BY <2>1, <2>6 DEF kvars, cvars, KeybindInv, TypeOK, ConfigurationTypeOK, TableIsFile,
       OwnersAlive, ShownRun
  <2> QED BY <2>1, <2>2, <2>3, <2>4, <2>5, <2>6 DEF Next
<1> QED BY InitKeybind, <1>1, PTL DEF Spec

-----------------------------------------------------------------------------
(* Theorems *)

\* The registry of keybinds and the table of the configuration keep their
\* shape: what add_keybind tries is a combination, whatever file was read.
THEOREM KeybindTypeCorrect == Spec => []TypeOK
<1>1. KeybindInv => TypeOK
  BY DEF KeybindInv
<1> QED BY KeybindInvariance, <1>1, PTL

\* Of a file of any size the table of the configuration has what the
\* documentation says, each key once and with the value given last; nothing
\* is left of a backend that made room for another (load_config,
\* plugin_deloaded).
THEOREM TableStaysFile == Spec => []TableIsFile
<1>1. KeybindInv => TableIsFile
  BY DEF KeybindInv
<1> QED BY KeybindInvariance, <1>1, PTL

\* A combination that the log listed for a keybind runs it for as long as it is
\* there, though removing a keybind leaves its combinations in the table and
\* its slot to the next one; and nothing runs that is a plugin's that is gone
\* (add_keybind_mapping, remove_keybinds_for_plugin, pass_key).
THEOREM ShownKeybindsRun == Spec => []ShownRun
<1>1. KeybindInv => ShownRun
  BY DEF KeybindInv
<1> QED BY KeybindInvariance, <1>1, PTL
=============================================================================
