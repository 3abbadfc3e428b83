---------------------------- MODULE HooksProofs ----------------------------
(***************************************************************************)
(* The hook table and the registries: what the loader's invariant says of  *)
(* slots and dependencies, carried over to the owners in their tables.     *)
(***************************************************************************)
EXTENDS Hooks, PluginLoaderProofs, FiniteSetTheorems

\* An object has one slot at most, and none before it is registered.
SlotsUnique ==
    /\ \A h, k \in Handles : slot[h] # NULL /\ slot[h] = slot[k] => h = k
    /\ \A h \in Handles : slot[h] \notin unread

\* add_hook lets no plugin in twice.
HooksOnce ==
    \A t \in HookTypes : \A i, j \in DOMAIN hooks[t] : hooks[t][i] = hooks[t][j] => i = j

\* How many of its calls the init of the loaded plugin p has made.
CallsMade(p) == IF Initialising /\ Top.plugin = p THEN made ELSE Len(InitCalls[p])

CallsBound == made # 0 => Initialising /\ made <= Len(Calls)

\* The positions at or below the index where a hook is still due, or where
\* there is none any more.
Missed(s, at, due) == {i \in 1..at : i \in DOMAIN s => s[i] \in due}

\* A loop over the hooks s that has come to the index at.
LoopOK(s, at, due, shifts) ==
    /\ \A i \in DOMAIN s : i > at => s[i] \in due
    /\ Cardinality(Missed(s, at, due)) <= shifts

DispatchOK ==
    running # NULL =>
        /\ phase = "run"
        /\ running.owner # NULL => slot[running.owner] \in loaded
        /\ LoopOK(hooks[running.type], running.at, running.due, running.shifts)

HooksInv ==
    /\ HooksTypeOK /\ SlotsUnique
    /\ HooksAlive /\ HooksOnce /\ CallsBound /\ DispatchOK

\* p's init makes an entry with the api a.
Enters(p, a) ==
    \E i \in DOMAIN InitCalls[p] : InitCalls[p][i].table = "registry" /\ InitCalls[p][i].key = a

\* What p's i-th call registered is there.
Kept(p, i) ==
    LET c == InitCalls[p][i] IN
        handle(p) \in Range(IF c.table = "hooks" THEN hooks[c.key] ELSE registry[c.key])

RegistryInv ==
    /\ \A a \in APIs : \A h \in Range(registry[a]) : slot[h] \in loaded /\ Enters(slot[h], a)
    /\ \A p \in loaded \ Dynamic : \A i \in 1..CallsMade(p) : Kept(p, i)

-----------------------------------------------------------------------------
(* Lists of owners *)

\* Of this module only the lemmas on parts of a list are used.
Lists == INSTANCE ListProofs WITH op <- Without

LEMMA SameOnly == \A s, T : Only(s, T) = Lists!Only(s, T)
BY Zenon DEF Only, Lists!Only, Places, Lists!Places, Place, Lists!Place, Cardinality,
             Lists!Cardinality

\* What is left of a list without the element at k.
LEMMA ElementRemoved ==
    ASSUME NEW S, NEW s \in Seq(S), NEW k \in 1..Len(s)
    PROVE  /\ RemoveAt(s, k) \in Seq(S)
           /\ Len(RemoveAt(s, k)) = Len(s) - 1
           /\ \A i \in 1..(Len(s) - 1) : RemoveAt(s, k)[i] = IF i < k THEN s[i] ELSE s[i + 1]
<1> DEFINE a == SubSeq(s, 1, k - 1)
           b == SubSeq(s, k + 1, Len(s))
<1>1. Len(s) \in Nat /\ DOMAIN s = 1..Len(s) /\ \A j \in 1..Len(s) : s[j] \in S
  BY LenProperties, ElementOfSeq
<1>2. /\ a \in Seq(S) /\ Len(a) = IF 1 <= k - 1 THEN k - 1 - 1 + 1 ELSE 0
      /\ \A j \in 1..(k - 1 - 1 + 1) : a[j] = s[1 + j - 1]
  <2>1. k - 1 \in Int /\ \A j \in 1..(k - 1) : s[j] \in S
    BY <1>1
  <2> QED  BY <2>1, SubSeqProperties
<1>3. /\ b \in Seq(S) /\ Len(b) = IF k + 1 <= Len(s) THEN Len(s) - (k + 1) + 1 ELSE 0
      /\ \A j \in 1..(Len(s) - (k + 1) + 1) : b[j] = s[k + 1 + j - 1]
  <2>1. k + 1 \in Int /\ Len(s) \in Int /\ \A j \in (k + 1)..Len(s) : s[j] \in S
    BY <1>1
  <2> QED  BY <2>1, SubSeqProperties
<1>4. /\ k - 1 - 1 + 1 = k - 1 /\ Len(s) - (k + 1) + 1 = Len(s) - k
      /\ k - 1 \in Nat /\ Len(s) - k \in Nat
      /\ \A j \in 1..(k - 1) : 1 + j - 1 = j
      /\ \A j \in 1..(Len(s) - k) : k + 1 + j - 1 = k + j
  BY <1>1
<1>5. Len(a) = k - 1 /\ \A j \in 1..(k - 1) : a[j] = s[j]
  <2> HIDE DEF a
  <2> QED  BY <1>2, <1>4
<1>6. Len(b) = Len(s) - k /\ \A j \in 1..(Len(s) - k) : b[j] = s[k + j]
  <2>1. Len(b) = IF k + 1 <= Len(s) THEN Len(s) - k ELSE 0
    <3> HIDE DEF b
    <3> QED  BY <1>3, <1>4
  <2>2. (IF k + 1 <= Len(s) THEN Len(s) - k ELSE 0) = Len(s) - k
    <3>1. k \in Nat /\ Len(s) \in Nat /\ k <= Len(s)
      BY <1>1
    <3> QED  BY <3>1
  <2> HIDE DEF b
  <2> QED  BY <1>3, <1>4, <2>1, <2>2
<1>7. /\ a \o b \in Seq(S) /\ Len(a \o b) = Len(a) + Len(b)
      /\ \A j \in 1..(Len(a) + Len(b)) : (a \o b)[j] = IF j <= Len(a) THEN a[j] ELSE b[j - Len(a)]
  <2> HIDE DEF a, b
  <2> QED  BY <1>2, <1>3, ConcatProperties
<1>8. RemoveAt(s, k) = a \o b
  BY DEF RemoveAt
<1>9. Len(a) + Len(b) = Len(s) - 1
  <2> HIDE DEF a, b
  <2> QED  BY <1>1, <1>5, <1>6
<1>10. ASSUME NEW i \in 1..(Len(s) - 1)
       PROVE  (a \o b)[i] = IF i < k THEN s[i] ELSE s[i + 1]
  <2> HIDE DEF a, b
  <2>1. CASE i < k
    <3>1. i \in 1..(k - 1) /\ i <= Len(a)
      BY <1>1, <1>5, <2>1
    <3> QED  BY <1>5, <1>7, <1>9, <2>1, <3>1
  <2>2. CASE ~(i < k)
    <3>1. /\ ~(i <= Len(a)) /\ i - Len(a) \in 1..(Len(s) - k)
          /\ k + (i - Len(a)) = i + 1
      BY <1>1, <1>5, <2>2
    <3> QED  BY <1>6, <1>7, <1>9, <2>2, <3>1
  <2> QED  BY <2>1, <2>2
<1> HIDE DEF a, b
<1> QED  BY <1>7, <1>8, <1>9, <1>10

\* remove_hook and remove_hooks_for_plugin, of a list that has h once.
LEMMA OwnerRemoved ==
    ASSUME NEW S, NEW s \in Seq(S), NEW h,
           \A i, j \in DOMAIN s : s[i] = s[j] => i = j
    PROVE  IF h \in Range(s)
           THEN \E k \in 1..Len(s) : s[k] = h /\ RemoveFirst(s, h) = RemoveAt(s, k)
           ELSE RemoveFirst(s, h) = s
<1>1. DOMAIN s = 1..Len(s) /\ Len(s) \in Nat
  BY LenProperties
<1>2. CASE h \notin Range(s)
  BY <1>1, <1>2 DEF Range, RemoveFirst
<1>3. CASE h \in Range(s)
  <2>1. PICK k \in 1..Len(s) : s[k] = h
    BY <1>1, <1>3 DEF Range
  <2>2. {i \in 1..Len(s) : s[i] = h} = {k}
    BY <1>1, <2>1
  <2>3. Min({k}) = k
    BY DEF Min
  <2>4. SelectInSeq(s, LAMBDA v : v = h) = k
    BY <2>2, <2>3 DEF SelectInSeq
  <2> QED  BY <1>3, <2>1, <2>4 DEF RemoveFirst
<1> QED  BY <1>2, <1>3

\* No trace of h is left, and the others stay, each once.
LEMMA OwnersLeft ==
    ASSUME NEW S, NEW s \in Seq(S), NEW h,
           \A i, j \in DOMAIN s : s[i] = s[j] => i = j
    PROVE  /\ RemoveFirst(s, h) \in Seq(S)
           /\ Range(RemoveFirst(s, h)) = Range(s) \ {h}
           /\ \A i, j \in DOMAIN RemoveFirst(s, h) :
                RemoveFirst(s, h)[i] = RemoveFirst(s, h)[j] => i = j
<1>1. DOMAIN s = 1..Len(s) /\ Len(s) \in Nat
  BY LenProperties
<1>2. CASE h \notin Range(s)
  BY <1>2, OwnerRemoved
<1>3. CASE h \in Range(s)
  <2>1. PICK k \in 1..Len(s) : s[k] = h /\ RemoveFirst(s, h) = RemoveAt(s, k)
    BY <1>3, OwnerRemoved
  <2>2. PICK r : r = RemoveFirst(s, h)
    OBVIOUS
  <2>3. /\ r \in Seq(S) /\ Len(r) = Len(s) - 1
        /\ \A i \in 1..(Len(s) - 1) : r[i] = IF i < k THEN s[i] ELSE s[i + 1]
    BY <2>1, <2>2, ElementRemoved, ZenonT(60)
  <2>4. DOMAIN r = 1..(Len(s) - 1)
    BY <2>3, LenProperties
  <2>5. \A i \in 1..(Len(s) - 1) : i \in 1..Len(s) /\ i + 1 \in 1..Len(s) /\ (i < k => i # k)
                                   /\ (~(i < k) => i + 1 # k)
    BY <1>1
  <2>6. ASSUME NEW i \in 1..(Len(s) - 1), NEW j \in 1..(Len(s) - 1), r[i] = r[j] PROVE i = j
    <3>1. CASE (i < k) = (j < k)
      <4>1. i + 1 = j + 1 => i = j
        OBVIOUS
      <4> QED  BY <1>1, <2>3, <2>5, <2>6, <3>1, <4>1
    <3>2. CASE i < k /\ ~(j < k)
      <4>1. i = j + 1
        BY <1>1, <2>3, <2>5, <2>6, <3>2
      <4> QED  BY <3>2, <4>1
    <3>3. CASE ~(i < k) /\ j < k
      <4>1. j = i + 1
        BY <1>1, <2>3, <2>5, <2>6, <3>3
      <4> QED  BY <3>3, <4>1
    <3> QED  BY <3>1, <3>2, <3>3
  <2>7. ASSUME NEW i \in 1..(Len(s) - 1) PROVE r[i] \in Range(s) \ {h}
    BY <1>1, <2>1, <2>3, <2>5 DEF Range
  <2>8. ASSUME NEW x \in Range(s) \ {h} PROVE \E i \in 1..(Len(s) - 1) : r[i] = x
    <3>1. PICK j \in 1..Len(s) : s[j] = x /\ j # k
      BY <1>1, <2>1, <2>8 DEF Range
    <3>2. CASE j < k
      <4>1. j \in 1..(Len(s) - 1)
        BY <1>1, <3>2
      <4> QED  BY <2>3, <3>1, <3>2, <4>1
    <3>3. CASE ~(j < k)
      <4>1. j - 1 \in 1..(Len(s) - 1) /\ ~(j - 1 < k) /\ j - 1 + 1 = j
        BY <1>1, <3>1, <3>3
      <4> QED  BY <2>3, <3>1, <4>1
    <3> QED  BY <3>2, <3>3
  <2>9. Range(r) = Range(s) \ {h}
    <3>1. Range(r) = {r[i] : i \in 1..(Len(s) - 1)}
      BY <2>4 DEF Range
    <3>2. Range(r) \subseteq Range(s) \ {h}
      BY <2>7, <3>1
    <3>3. Range(s) \ {h} \subseteq Range(r)
      BY <2>8, <3>1
    <3> QED  BY <3>2, <3>3
  <2> QED  BY <2>2, <2>3, <2>4, <2>6, <2>9
<1> QED  BY <1>2, <1>3

\* The same of a list that may have several entries of h.
LEMMA EntriesLeft ==
    ASSUME NEW S, NEW s \in Seq(S), NEW h
    PROVE  /\ Without(s, {h}) \in Seq(S)
           /\ Range(Without(s, {h})) = Range(s) \ {h}
           /\ Len(Without(s, {h})) <= Len(s)
<1>1. Without(s, {h}) = Lists!Only(s, Range(s) \ {h})
  BY SameOnly DEF Without
<1> DEFINE T == Range(s) \ {h}
           w == Lists!Only(s, T)
<1>2. w \in Seq(S) /\ Len(w) <= Len(s) /\ Lists!Range(w) = Lists!Range(s) \cap T
  BY Lists!OnlyContents
<1>3. Lists!Range(w) = Range(w) /\ Lists!Range(s) = Range(s)
  BY DEF Lists!Range, Range
<1>4. Without(s, {h}) = w
  BY <1>1
<1>5. Lists!Range(s) \cap T = T
  BY <1>3
<1> HIDE DEF w
<1> QED  BY <1>2, <1>3, <1>4, <1>5

-----------------------------------------------------------------------------
(* Steps of the loader, seen from the tables *)

LEMMA LoaderStep ==
    ASSUME [HNext]_hvars
    PROVE  [Next]_vars
<1>1. CASE UNCHANGED hvars
  BY <1>1 DEF hvars
<1>2. CASE HNext
  BY <1>2 DEF HNext, InitCallSucceeds, InitReturnsTrue, InitReturnsFalse, DependencyFails,
              DeloadPlugin, Terminated, LoaderOnly, CallHook, DispatchReturns, Dispatch,
              HookAdds, HookRemoves, Next, Work, plugin_load_all, plugin_remove_all
<1> QED  BY <1>1, <1>2

\* Where the loader is tells which of its steps it takes.
LEMMA Whereabouts ==
    /\ Register => phase = "register"
    /\ RegistrationDone => phase = "register"
    /\ plugin_load_all => phase = "load"
    /\ ResolveDependency => phase = "load" /\ stack # <<>> /\ Top.pc \in {"requires", "after"}
    /\ LoadNext => stack = <<>>
    /\ LoadReturned => stack = <<>>
    /\ LoadAllDone => stack = <<>>
    /\ FinishArray => Top.pc \in {"requires", "after"}
    /\ plugin_remove_all => phase = "remove"
    /\ compositor_terminate => phase = "run"
<1>1. /\ Register => phase = "register"
      /\ RegistrationDone => phase = "register"
      /\ plugin_remove_all => phase = "remove"
      /\ compositor_terminate => phase = "run"
  BY DEF Register, RegisterRejects, plugin_register, RegistrationDone, plugin_remove_all,
         RemoveNext, DeloadDependent, Deload, RemoveAllDone, Removing, compositor_terminate
<1>2. ResolveDependency => phase = "load" /\ stack # <<>> /\ Top.pc \in {"requires", "after"}
  BY DEF ResolveDependency, EnterGroup, SkipMember, MissingDependency, CircularDependency,
         DependOnReady, LoadDependency, DependencyReturned, Walking
<1>3. /\ LoadNext => phase = "load" /\ stack = <<>>
      /\ LoadReturned => phase = "load" /\ stack = <<>>
      /\ LoadAllDone => phase = "load" /\ stack = <<>>
      /\ FinishArray => phase = "load" /\ Top.pc \in {"requires", "after"}
      /\ InitSucceeds \/ InitFails => phase = "load"
  BY DEF LoadNext, LoadReturned, LoadAllDone, FinishArray, Walking, InitSucceeds, InitFails,
         Initialising
<1> QED  BY <1>1, <1>2, <1>3 DEF plugin_load_all

\* Slots are taken by one object each, and only given up.
LEMMA SlotsStayUnique ==
    ASSUME NEW rank, Ranking(rank), LoaderInv(rank), SlotsUnique, [Next]_vars
    PROVE  SlotsUnique'
<1>1. LoaderInv(rank)'
  BY NextLoaderInv
<1>2. CASE phase # "register"
  <2>1. phase' # "register" /\ \A h \in Handles : slot'[h] = slot[h] \/ slot'[h] = NULL
    BY <1>2, NextGroups DEF LoaderInv
  <2>2. unread' = {}
    BY <1>1, <2>1 DEF LoaderInv, Bookkeeping, Phases
  <2> QED  BY <2>1, <2>2 DEF SlotsUnique
<1>3. ASSUME NEW p \in Objects, plugin_register(p) PROVE SlotsUnique'
  <2>1. PICK h \in Handles : Registers(p, h)
    BY <1>3 DEF plugin_register, Registers
  <2>2. slot' = slot \/ slot' = [slot EXCEPT ![h] = p]
    BY <2>1 DEF Registers
  <2>3. unread' = unread \ {p} /\ p \in unread /\ slot \in [Handles -> Objects \cup {NULL}]
    BY <1>3 DEF plugin_register, LoaderInv, TypeOK
  <2> QED  BY <2>2, <2>3 DEF SlotsUnique
<1>4. ASSUME UNCHANGED slot, unread' \subseteq unread PROVE SlotsUnique'
  BY <1>4 DEF SlotsUnique
<1>5. ASSUME NEW p \in Objects, RegisterRejects(p) PROVE SlotsUnique'
  BY <1>4, <1>5 DEF RegisterRejects, pool_tables
<1>6. CASE UNCHANGED vars \/ RegistrationDone
  BY <1>4, <1>6 DEF vars, RegistrationDone, pool_tables
<1> QED  BY <1>2, <1>3, <1>5, <1>6, Whereabouts DEF Next, Work, Register

\* What is loaded keeps its slot.
LEMMA OwnersKept ==
    ASSUME NEW rank, Ranking(rank), LoaderInv(rank), [Next]_vars
    PROVE  \A h \in Handles : slot[h] \in loaded => slot'[h] = slot[h]
<1>1. LoaderInv(rank)'
  BY NextLoaderInv
<1>2. SUFFICES ASSUME NEW h \in Handles, slot[h] \in loaded PROVE slot'[h] = slot[h]
  OBVIOUS
<1> USE DEF LoaderInv, Bookkeeping
<1>3. phase # "register"
  BY <1>2 DEF Phases
<1>4. CASE LoadNext
  <2>1. slot' = slot \/ (slot' = [slot EXCEPT ![cursor] = NULL] /\ slot[cursor] \notin loaded)
    BY <1>4 DEF LoadNext
  <2> QED  BY <1>2, <2>1 DEF TypeOK
<1>5. CASE LoadReturned
  <2>1. CASE ret = "fail"
    <3>1. ~Usable(slot[cursor]) /\ slot' = [slot EXCEPT ![cursor] = NULL]
      BY <1>5, <2>1 DEF LoadReturned, Returned, Answer
    <3>2. slot[cursor] \notin loaded
      BY <3>1 DEF Pool, Usable
    <3> QED  BY <1>2, <3>1, <3>2 DEF TypeOK
  <2>2. CASE ret # "fail"
    BY <1>5, <2>2 DEF LoadReturned
  <2> QED  BY <2>1, <2>2
<1>6. CASE RemoveAllDone
  BY <1>1, <1>2, <1>6 DEF RemoveAllDone, Removed
<1>7. CASE LoadAllDone \/ FinishArray \/ InitSucceeds \/ InitFails
  BY <1>7 DEF LoadAllDone, FinishArray, ArrayDone, InitSucceeds, InitFails, LoadFails, pool_tables
<1>8. CASE ResolveDependency
  BY <1>8 DEF ResolveDependency, EnterGroup, SkipMember, MissingDependency, CircularDependency,
              DependOnReady, LoadDependency, DependencyReturned, Step, LoadFails, Depend,
              ArrayDone, pool_tables
<1>9. CASE compositor_terminate \/ RemoveNext \/ DeloadDependent \/ Deload \/ UNCHANGED vars
  BY <1>9 DEF compositor_terminate, RemoveNext, DeloadDependent, Deload, vars, pool_tables
<1> QED  BY <1>3, <1>4, <1>5, <1>6, <1>7, <1>8, <1>9, Whereabouts
         DEF Next, Work, plugin_load_all, plugin_remove_all

\* The handle that plugin_register gave p.
LEMMA HandleOf ==
    ASSUME NEW rank, LoaderInv(rank), SlotsUnique, NEW p \in Objects, Present(p), phase # "gone"
    PROVE  /\ handle(p) \in Handles /\ slot[handle(p)] = p
           /\ \A h \in Handles : slot[h] = p => h = handle(p)
<1>1. get(Info[p].name) = p /\ Info[p].name \in Names
  BY InfoArrays DEF LoaderInv, Bookkeeping, NamesUnique
<1>2. names[Info[p].name] \in Handles /\ slot[names[Info[p].name]] = p
  BY <1>1, NullIsFresh DEF get, get_handle, LoaderInv, TypeOK
<1>3. handle(p) \in Handles /\ slot[handle(p)] = p
  BY <1>2 DEF handle
<1> QED  BY <1>3, NullIsFresh DEF SlotsUnique

LEMMA HandleKept ==
    ASSUME NEW rank, Ranking(rank), LoaderInv(rank), SlotsUnique, [Next]_vars, NEW p \in loaded
    PROVE  handle(p)' = handle(p)
<1>1. p \in Objects /\ Present(p)
  BY DEF LoaderInv, TypeOK, Present
<1>2. phase # "gone"
  BY DEF LoaderInv, Bookkeeping, Removed
<1>3. handle(p) \in Handles /\ slot[handle(p)] = p
  BY <1>1, <1>2, HandleOf
<1>4. slot'[handle(p)] = p
  BY <1>3, OwnersKept
<1>5. SlotsUnique'
  BY SlotsStayUnique
<1>6. PICK k \in Handles : k = handle(p)
  BY <1>3
<1>7. \A h \in Handles : slot'[h] = p <=> h = k
  BY <1>1, <1>4, <1>5, <1>6, NullIsFresh DEF SlotsUnique
<1>8. (CHOOSE h \in Handles : slot'[h] = p) = k
  BY <1>7
<1> QED  BY <1>6, <1>8 DEF handle

\* A plugin stops being loaded when its init fails or when it is deloaded.
LEMMA LoadedKept ==
    ASSUME NEW rank, Ranking(rank), LoaderInv(rank), [Next]_vars
    PROVE  /\ InitFails \/ Deload => loaded' = loaded \ {Top.plugin}
           /\ ~InitFails /\ ~Deload => loaded \subseteq loaded'
<1> USE DEF LoaderInv, Bookkeeping
<1>1. CASE InitFails
  <2>1. phase = "load" /\ stack # <<>> /\ Top.plugin # Core /\ LoadFails(Top.plugin)
    BY <1>1 DEF InitFails, Initialising
  <2>2. Top.plugin \in mapped /\ needed[Top.plugin] = <<>>
    BY <2>1, TopCall DEF LoadFrame, Usable
  <2>3. ~NeededBy(Top.plugin)
    BY <2>2 DEF NeededBy, Range
  <2> QED  BY <1>1, <2>1, <2>2, <2>3, Whereabouts
           DEF LoadFails, deload, Deload, Removing
<1>2. CASE Deload
  BY <1>2 DEF Deload, deload, Removing, InitFails, Initialising
<1>3. ASSUME ResolveDependency PROVE loaded \subseteq loaded'
  <2>1. Top.plugin \notin loaded
    BY <1>3, Whereabouts, TopCall DEF LoadFrame
  <2>2. ASSUME LoadFails(Top.plugin) PROVE loaded \subseteq loaded'
    BY <2>1, <2>2 DEF LoadFails, deload
  <2> QED  BY <1>3, <2>2
           DEF ResolveDependency, EnterGroup, SkipMember, MissingDependency,
               CircularDependency, DependOnReady, LoadDependency, DependencyReturned, Step,
               Depend, ArrayDone
<1>4. ASSUME LoadNext \/ LoadReturned \/ LoadAllDone \/ FinishArray \/ InitSucceeds
      PROVE  loaded \subseteq loaded'
  BY <1>4 DEF LoadNext, LoadReturned, LoadAllDone, FinishArray, ArrayDone, InitSucceeds
<1>5. ASSUME Register \/ RegistrationDone \/ compositor_terminate
      PROVE  loaded \subseteq loaded'
  BY <1>5 DEF Register, RegisterRejects, plugin_register, RegistrationDone, compositor_terminate
<1>6. ASSUME RemoveNext \/ DeloadDependent \/ RemoveAllDone \/ UNCHANGED vars
      PROVE  loaded \subseteq loaded'
  BY <1>6 DEF RemoveNext, DeloadDependent, RemoveAllDone, vars
<1>7. ~InitFails /\ ~Deload => loaded \subseteq loaded'
  BY <1>3, <1>4, <1>5, <1>6 DEF Next, Work, plugin_load_all, plugin_remove_all
<1> QED  BY <1>1, <1>2, <1>7

-----------------------------------------------------------------------------
(* The hook table *)

\* The callback plugin_deloaded leaves nothing of p in the hook table.
LEMMA CleanedTables ==
    ASSUME HooksInv, NEW p, plugin_deloaded(p)
    PROVE  /\ hooks' \in [HookTypes -> Seq(Handles)] /\ registry' \in [APIs -> Seq(Handles)]
           /\ HooksOnce'
           /\ \A t \in HookTypes : Range(hooks'[t]) = Range(hooks[t]) \ {handle(p)}
           /\ \A a \in APIs :
                /\ Len(registry'[a]) <= Len(registry[a])
                /\ Range(registry'[a]) = IF p \in loaded /\ Info[p].name = a THEN {}
                                         ELSE IF Notified(a) THEN Range(registry[a]) \ {handle(p)}
                                         ELSE Range(registry[a])
<1>1. PICK h : h = handle(p)
  OBVIOUS
<1>2. /\ hooks' = [t \in HookTypes |-> RemoveFirst(hooks[t], h)]
      /\ registry' = [a \in APIs |-> IF p \in loaded /\ Info[p].name = a THEN <<>>
                                     ELSE IF Notified(a) THEN Without(registry[a], {h})
                                     ELSE registry[a]]
  BY <1>1 DEF plugin_deloaded, remove_hooks_for_plugin, remove_compressors_for_plugin
<1>3. ASSUME NEW t \in HookTypes
      PROVE  /\ hooks'[t] \in Seq(Handles) /\ Range(hooks'[t]) = Range(hooks[t]) \ {h}
             /\ \A i, j \in DOMAIN hooks'[t] : hooks'[t][i] = hooks'[t][j] => i = j
  <2>1. PICK s \in Seq(Handles) : s = hooks[t] /\ hooks'[t] = RemoveFirst(s, h)
    BY <1>2 DEF HooksInv, HooksTypeOK
  <2>2. \A i, j \in DOMAIN s : s[i] = s[j] => i = j
    BY <2>1 DEF HooksInv, HooksOnce
  <2> QED  BY <2>1, <2>2, OwnersLeft
<1>4. ASSUME NEW a \in APIs
      PROVE  /\ registry'[a] \in Seq(Handles) /\ Len(registry'[a]) <= Len(registry[a])
             /\ Range(registry'[a]) = IF p \in loaded /\ Info[p].name = a THEN {}
                                      ELSE IF Notified(a) THEN Range(registry[a]) \ {h}
                                      ELSE Range(registry[a])
  <2>1. PICK s \in Seq(Handles) : s = registry[a]
    BY DEF HooksInv, HooksTypeOK
  <2>2. Len(s) \in Nat /\ Len(<<>>) = 0 /\ Range(<<>>) = {} /\ <<>> \in Seq(Handles)
    BY LenProperties DEF Range
  <2>3. /\ Without(s, {h}) \in Seq(Handles) /\ Range(Without(s, {h})) = Range(s) \ {h}
        /\ Len(Without(s, {h})) <= Len(s)
    BY EntriesLeft
  <2>4. CASE p \in loaded /\ Info[p].name = a
    <3>1. registry'[a] = <<>>
      BY <1>2, <2>4
    <3> QED  BY <2>1, <2>2, <2>4, <3>1
  <2>5. CASE ~(p \in loaded /\ Info[p].name = a)
    <3>1. registry'[a] = IF Notified(a) THEN Without(s, {h}) ELSE s
      BY <1>2, <2>1, <2>5
    <3>2. CASE Notified(a)
      BY <2>1, <2>3, <2>5, <3>1, <3>2
    <3>3. CASE ~Notified(a)
      BY <2>1, <2>2, <2>5, <3>1, <3>3
    <3> QED  BY <3>2, <3>3
  <2> QED  BY <2>4, <2>5
<1>5. HooksOnce'
  BY <1>3 DEF HooksOnce
<1>6. hooks' \in [HookTypes -> Seq(Handles)] /\ registry' \in [APIs -> Seq(Handles)]
  BY <1>2, <1>3, <1>4
<1> QED  BY <1>1, <1>3, <1>4, <1>5, <1>6

\* The calls of a plugin on top of the stack.
LEMMA TopCalls ==
    ASSUME TypeOK, stack # <<>>
    PROVE  /\ Calls \in Seq(RegisterCalls) /\ Len(Calls) \in Nat
           /\ made \in Nat /\ made < Len(Calls) =>
                made + 1 \in 1..Len(Calls) /\ NextCall \in RegisterCalls
<1>1. Top.plugin \in Objects
  BY TopFrame DEF TypeOK
<1>2. Calls \in Seq(RegisterCalls) /\ Len(Calls) \in Nat
  BY <1>1, HookConstants, LenProperties DEF Calls
<1>3. ASSUME made \in Nat, made < Len(Calls)
      PROVE  made + 1 \in 1..Len(Calls) /\ NextCall \in RegisterCalls
  <2>1. made + 1 \in 1..Len(Calls)
    BY <1>2, <1>3
  <2>2. Calls[made + 1] \in RegisterCalls
    BY <1>2, <2>1, ElementOfSeq
  <2> QED  BY <2>1, <2>2 DEF NextCall
<1> QED  BY <1>2, <1>3

LEMMA AddedOnce ==
    ASSUME NEW S, NEW s \in Seq(S), NEW h \in S, h \notin Range(s),
           \A i, j \in DOMAIN s : s[i] = s[j] => i = j
    PROVE  /\ Append(s, h) \in Seq(S) /\ DOMAIN Append(s, h) = 1..(Len(s) + 1)
           /\ Len(s) \in Nat /\ DOMAIN s = 1..Len(s)
           /\ \A i \in 1..Len(s) : Append(s, h)[i] = s[i]
           /\ Append(s, h)[Len(s) + 1] = h
           /\ \A i, j \in DOMAIN Append(s, h) : Append(s, h)[i] = Append(s, h)[j] => i = j
<1>1. /\ Append(s, h) \in Seq(S) /\ Len(Append(s, h)) = Len(s) + 1
      /\ \A i \in 1..Len(s) : Append(s, h)[i] = s[i]
      /\ Append(s, h)[Len(s) + 1] = h
  BY AppendProperties
<1>2. /\ Len(s) \in Nat /\ DOMAIN s = 1..Len(s)
      /\ DOMAIN Append(s, h) = 1..(Len(s) + 1)
  BY <1>1, LenProperties
<1>3. \A i \in 1..(Len(s) + 1) : i = Len(s) + 1 \/ i \in 1..Len(s)
  BY <1>2
<1>4. \A i \in 1..Len(s) : s[i] # h
  BY <1>2 DEF Range
<1>5. ASSUME NEW i \in 1..(Len(s) + 1), NEW j \in 1..(Len(s) + 1),
             Append(s, h)[i] = Append(s, h)[j]
      PROVE  i = j
  BY <1>1, <1>2, <1>3, <1>4, <1>5
<1> QED  BY <1>1, <1>2, <1>5

\* The loader goes on, and no hook is added.
LEMMA TablesShrink ==
    ASSUME NEW rank, Ranking(rank), LoaderInv(rank), HooksInv, [Next]_vars,
           hooks' \in [HookTypes -> Seq(Handles)], registry' \in [APIs -> Seq(Handles)],
           HooksOnce', made' = 0, running' = NULL,
           \A t \in HookTypes : \A h \in Range(hooks'[t]) :
              h \in Range(hooks[t]) /\ slot[h] \in loaded'
    PROVE  HooksInv'
<1>1. TypeOK' /\ SlotsUnique'
  BY NextLoaderInv, SlotsStayUnique DEF LoaderInv, HooksInv
<1>2. \A t \in HookTypes : \A h \in Range(hooks[t]) : h \in Handles /\ slot[h] \in loaded
  BY LenProperties, ElementOfSeq DEF HooksInv, HooksTypeOK, HooksAlive, Range
<1>3. HooksAlive'
  BY <1>2, OwnersKept DEF HooksAlive
<1> QED  BY <1>1, <1>3 DEF HooksInv, HooksTypeOK, CallsBound, DispatchOK

\* A plugin is deloaded, or its load fails.
LEMMA CleanedHooks ==
    ASSUME NEW rank, Ranking(rank), LoaderInv(rank), HooksInv, [Next]_vars,
           NEW p \in Objects, Present(p), phase # "gone",
           loaded \ {p} \subseteq loaded', plugin_deloaded(p),
           made' = 0, running' = NULL
    PROVE  HooksInv'
<1>1. /\ hooks' \in [HookTypes -> Seq(Handles)] /\ registry' \in [APIs -> Seq(Handles)]
      /\ HooksOnce'
      /\ \A t \in HookTypes : Range(hooks'[t]) = Range(hooks[t]) \ {handle(p)}
  BY CleanedTables
<1>2. \A h \in Handles : slot[h] = p => h = handle(p)
  BY HandleOf DEF HooksInv
<1>3. ASSUME NEW t \in HookTypes, NEW h \in Range(hooks'[t])
      PROVE  h \in Range(hooks[t]) /\ slot[h] \in loaded'
  <2>1. h \in Range(hooks[t]) /\ h # handle(p)
    BY <1>1, <1>3
  <2>2. h \in Handles /\ slot[h] \in loaded
    BY <2>1, LenProperties, ElementOfSeq DEF HooksInv, HooksTypeOK, HooksAlive, Range
  <2> QED  BY <1>2, <2>1, <2>2
<1> QED  BY <1>1, <1>3, TablesShrink

LEMMA InitCallHooks ==
    ASSUME NEW rank, LoaderInv(rank), HooksInv, InitCallSucceeds
    PROVE  HooksInv'
<1>1. /\ phase = "load" /\ stack # <<>> /\ Top.pc = "init" /\ made < Len(Calls) /\ made' = made + 1
      /\ UNCHANGED <<vars, running>>
  BY DEF InitCallSucceeds, Initialising
<1>2. Top.plugin \in Objects /\ Top.plugin \in loaded /\ made \in Nat
  BY <1>1, TopCall DEF LoaderInv, Bookkeeping, LoadFrame, HooksInv, HooksTypeOK
<1>3. PICK h \in Handles : h = handle(Top.plugin) /\ slot[h] = Top.plugin
  BY <1>1, <1>2, HandleOf DEF HooksInv, Present
<1>4. NextCall \in RegisterCalls /\ made + 1 <= Len(Calls)
  BY <1>1, <1>2, TopCalls DEF HooksInv, HooksTypeOK
<1>5. CallsBound'
  BY <1>1, <1>4 DEF CallsBound, Initialising, Calls, Top, vars
<1>6. TypeOK' /\ SlotsUnique' /\ DispatchOK'
  <2>1. running' = NULL
    BY <1>1 DEF HooksInv, DispatchOK
  <2> QED  BY <1>1, <2>1 DEF HooksInv, HooksTypeOK, TypeOK, SlotsUnique, vars, DispatchOK
<1>7. CASE NextCall.table = "hooks" /\ add_hook(h, NextCall.key)
  <2>1. PICK t \in HookTypes : t = NextCall.key
    BY <1>4, <1>7 DEF RegisterCalls
  <2>2. PICK s \in Seq(Handles) : s = hooks[t]
    BY DEF HooksInv, HooksTypeOK
  <2>3. h \notin Range(s) /\ \A i, j \in DOMAIN s : s[i] = s[j] => i = j
    BY <1>7, <2>1, <2>2 DEF add_hook, hook_exists_for_plugin, HooksInv, HooksOnce
  <2>4. /\ hooks' = [hooks EXCEPT ![t] = Append(s, h)] /\ UNCHANGED registry
        /\ Append(s, h) \in Seq(Handles) /\ Range(Append(s, h)) = Range(s) \cup {h}
        /\ \A i, j \in DOMAIN Append(s, h) : Append(s, h)[i] = Append(s, h)[j] => i = j
    BY <1>7, <2>1, <2>2, <2>3, AddedOnce, AppendedRange DEF add_hook
  <2>5. HooksOnce'
    BY <2>4 DEF HooksInv, HooksTypeOK, HooksOnce
  <2>6. HooksAlive'
    BY <1>1, <1>2, <1>3, <2>2, <2>4 DEF HooksInv, HooksTypeOK, HooksAlive, vars
  <2>7. HooksTypeOK'
    BY <1>1, <1>2, <1>6, <2>4 DEF HooksInv, HooksTypeOK, DispatchOK
  <2> QED  BY <1>5, <1>6, <2>5, <2>6, <2>7 DEF HooksInv
<1>8. CASE NextCall.table = "registry" /\ add_entry(h, NextCall.key)
  <2>1. PICK a \in APIs : a = NextCall.key
    BY <1>4, <1>8 DEF RegisterCalls
  <2>2. /\ registry' = [registry EXCEPT ![a] = Append(@, h)] /\ UNCHANGED hooks
        /\ registry' \in [APIs -> Seq(Handles)]
    BY <1>8, <2>1, AppendProperties DEF add_entry, HooksInv, HooksTypeOK
  <2> QED  BY <1>1, <1>2, <1>5, <1>6, <2>2
           DEF HooksInv, HooksTypeOK, DispatchOK, HooksOnce, HooksAlive, vars
<1> QED  BY <1>3, <1>7, <1>8 DEF InitCallSucceeds

\* The loader's own steps take no owner away.
LEMMA LoaderOnlyKeeps ==
    ASSUME NEW rank, Ranking(rank), LoaderInv(rank), HooksInv, LoaderOnly
    PROVE  ~Initialising /\ made = 0 /\ loaded \subseteq loaded'
<1>1. [Next]_vars
  BY LoaderStep DEF HNext
<1>2. ~Initialising \/ phase \in {"register", "run", "remove"}
  BY Whereabouts DEF LoaderOnly, Initialising, plugin_remove_all
<1>3. ~Initialising /\ made = 0
  BY <1>2 DEF Initialising, HooksInv, CallsBound
<1>4. CASE RemoveNext \/ DeloadDependent
  BY <1>3, <1>4 DEF RemoveNext, DeloadDependent
<1>5. CASE ~RemoveNext /\ ~DeloadDependent
  <2>1. phase # "remove"
    BY <1>5, Whereabouts DEF LoaderOnly, LoadNext, LoadReturned, LoadAllDone, FinishArray, Walking
  <2> QED  BY <1>1, <1>3, <2>1, LoadedKept DEF InitFails, Deload, Removing
<1> QED  BY <1>4, <1>5

LEMMA LoaderOnlyHooks ==
    ASSUME NEW rank, Ranking(rank), LoaderInv(rank), HooksInv, LoaderOnly
    PROVE  HooksInv'
<1>1. [Next]_vars /\ UNCHANGED <<hooks, registry, made, running>>
  BY LoaderStep DEF HNext, LoaderOnly, tables
<1>2. running = NULL
  BY Whereabouts DEF LoaderOnly, HooksInv, DispatchOK, RemoveNext, DeloadDependent, Removing,
                     LoadNext, LoadReturned, LoadAllDone, FinishArray, Walking
<1> QED  BY <1>1, <1>2, LoaderOnlyKeeps, TablesShrink
         DEF HooksInv, HooksTypeOK, HooksOnce, HooksAlive

\* A plugin whose load fails, or that is deloaded, takes its hooks with it.
LEMMA DeloadHooks ==
    ASSUME NEW rank, Ranking(rank), LoaderInv(rank), HooksInv,
           InitReturnsFalse \/ DependencyFails \/ DeloadPlugin
    PROVE  HooksInv'
<1> USE DEF LoaderInv, Bookkeeping
<1>1. [Next]_vars
  BY LoaderStep DEF HNext
<1>2. stack # <<>> /\ phase \in {"load", "remove"} /\ Top \in Frame /\ Top.plugin \in Objects
  BY Whereabouts, TopFrame
     DEF InitReturnsFalse, InitFails, Initialising, DependencyFails, DeloadPlugin, Deload,
         Removing, TypeOK
<1>3. running = NULL /\ running' = NULL
  BY <1>2 DEF HooksInv, DispatchOK, InitReturnsFalse, DependencyFails, DeloadPlugin
<1>4. CASE InitReturnsFalse
  <2>1. LoadFrame(Top) /\ Top.plugin \in loaded
    BY <1>4, TopCall DEF InitReturnsFalse, InitFails, Initialising, LoadFrame
  <2>2. ~NeededBy(Top.plugin)
    BY <2>1 DEF LoadFrame, NeededBy, Range
  <2>3. plugin_deloaded(Top.plugin)
    BY <1>4, <2>1, <2>2 DEF InitReturnsFalse, CleanUp
  <2> QED  BY <1>1, <1>2, <1>3, <1>4, <2>1, <2>3, LoadedKept, CleanedHooks
           DEF InitReturnsFalse, Present
<1>5. CASE DeloadPlugin
  <2>1. Present(Top.plugin)
    BY <1>2, <1>5, Frames DEF DeloadPlugin, Deload, Removing, RemoveStack, RemoveFrame,
                              Removable, Present, TypeOK
  <2>2. made = 0 /\ made' = 0
    BY <1>5 DEF DeloadPlugin, Deload, Removing, HooksInv, CallsBound, Initialising
  <2> QED  BY <1>1, <1>2, <1>3, <1>5, <2>1, <2>2, LoadedKept, CleanedHooks DEF DeloadPlugin
<1>6. CASE DependencyFails
  <2>1. Top.plugin \notin loaded /\ Top.pc # "init"
    BY <1>6, Whereabouts, TopCall DEF DependencyFails, LoadFrame
  <2>2. made = 0 /\ made' = 0
    BY <1>6, <2>1 DEF DependencyFails, HooksInv, CallsBound, Initialising
  <2>3. loaded \subseteq loaded'
    BY <1>1, <1>6, <2>1, Whereabouts, LoadedKept
       DEF DependencyFails, InitFails, Deload, Initialising, Removing
  <2>4. CASE UNCHANGED tables
    BY <1>1, <1>3, <2>2, <2>3, <2>4, TablesShrink
       DEF tables, HooksInv, HooksTypeOK, HooksOnce, HooksAlive
  <2>5. CASE ~(UNCHANGED tables)
    <3>1. plugin_deloaded(Top.plugin) /\ Top.plugin \in mapped
      BY <1>6, <2>1, <2>5 DEF DependencyFails, CleanUp
    <3> QED  BY <1>1, <1>2, <1>3, <2>2, <2>3, <3>1, CleanedHooks DEF Present
  <2> QED  BY <2>4, <2>5
<1> QED  BY <1>4, <1>5, <1>6

LEMMA InitReturnsHooks ==
    ASSUME NEW rank, Ranking(rank), LoaderInv(rank), HooksInv, InitReturnsTrue
    PROVE  HooksInv'
<1>1. [Next]_vars
  BY LoaderStep DEF HNext
<1>2. /\ phase = "load" /\ loaded' = loaded /\ made' = 0
      /\ UNCHANGED <<hooks, registry, running>>
  BY DEF InitReturnsTrue, InitSucceeds, Initialising, tables
<1>3. running' = NULL
  BY <1>2 DEF HooksInv, DispatchOK
<1> QED  BY <1>1, <1>2, <1>3, TablesShrink DEF HooksInv, HooksTypeOK, HooksOnce, HooksAlive

LEMMA TerminatedHooks ==
    ASSUME NEW rank, Ranking(rank), LoaderInv(rank), HooksInv, Terminated
    PROVE  HooksInv'
<1>1. [Next]_vars
  BY LoaderStep DEF HNext
<1>2. /\ phase = "remove" /\ hooks' = [t \in HookTypes |-> <<>>]
      /\ UNCHANGED <<registry, made, running>>
  BY DEF Terminated, RemoveAllDone
<1>3. running' = NULL /\ made' = 0
  BY <1>2 DEF HooksInv, DispatchOK, CallsBound, Initialising
<1>4. \A t \in HookTypes : hooks'[t] \in Seq(Handles) /\ Range(hooks'[t]) = {}
  BY <1>2 DEF Range
<1>5. HooksOnce'
  BY <1>2 DEF HooksOnce
<1> QED  BY <1>1, <1>2, <1>3, <1>4, <1>5, TablesShrink DEF HooksInv, HooksTypeOK

-----------------------------------------------------------------------------
(* Dispatches *)

LEMMA MissedFinite ==
    ASSUME NEW s, NEW at \in Nat, NEW due
    PROVE  IsFiniteSet(Missed(s, at, due)) /\ Cardinality(Missed(s, at, due)) \in Nat
<1>1. IsFiniteSet(1..at)
  BY FS_Interval
<1>2. Missed(s, at, due) \in SUBSET (1..at)
  BY DEF Missed
<1> QED  BY <1>1, <1>2, FS_Subset, FS_CardinalityType

\* Fewer positions missed.
LEMMA MissedLess ==
    ASSUME NEW s, NEW at \in Nat, NEW due, NEW shifts \in Nat,
           NEW new \in SUBSET Missed(s, at, due), Cardinality(Missed(s, at, due)) <= shifts
    PROVE  Cardinality(new) <= shifts
<1>1. PICK m : m = Missed(s, at, due) /\ IsFiniteSet(m) /\ Cardinality(m) \in Nat
  BY MissedFinite
<1>2. IsFiniteSet(new) /\ Cardinality(new) <= Cardinality(m)
  BY <1>1, FS_Subset
<1>3. Cardinality(new) \in Nat
  BY <1>2, FS_CardinalityType
<1> QED  BY <1>1, <1>2, <1>3

\* The loop calls the next hook.
LEMMA LoopCalls ==
    ASSUME NEW S, NEW s \in Seq(S), NEW at \in Nat, NEW due, NEW shifts \in Nat,
           LoopOK(s, at, due, shifts), at < Len(s),
           \A i, j \in DOMAIN s : s[i] = s[j] => i = j
    PROVE  LoopOK(s, at + 1, due \ {s[at + 1]}, shifts)
<1>1. DOMAIN s = 1..Len(s) /\ Len(s) \in Nat
  BY LenProperties
<1>2. at + 1 \in 1..Len(s)
  BY <1>1
<1>3. ASSUME NEW i \in 1..Len(s), i > at + 1 PROVE s[i] \in due \ {s[at + 1]}
  <2>1. i > at /\ i # at + 1
    BY <1>3
  <2> QED  BY <1>1, <1>2, <2>1 DEF LoopOK
<1>4. \A i \in 1..(at + 1) : i = at + 1 \/ i \in 1..at
  OBVIOUS
<1>5. Missed(s, at + 1, due \ {s[at + 1]}) \subseteq Missed(s, at, due)
  BY <1>1, <1>2, <1>4 DEF Missed
<1>6. Cardinality(Missed(s, at + 1, due \ {s[at + 1]})) <= shifts
  BY <1>5, MissedLess DEF LoopOK
<1> QED  BY <1>1, <1>3, <1>6 DEF LoopOK

\* A hook that is called adds one of the same type.
LEMMA LoopAdds ==
    ASSUME NEW S, NEW s \in Seq(S), NEW at \in Nat, NEW due, NEW shifts \in Nat,
           LoopOK(s, at, due, shifts), NEW h \in S, h \notin Range(s),
           \A i, j \in DOMAIN s : s[i] = s[j] => i = j
    PROVE  LoopOK(Append(s, h), at, due \cup {h}, shifts)
<1>1. PICK r : r = Append(s, h)
  OBVIOUS
<1>2. /\ DOMAIN r = 1..(Len(s) + 1) /\ Len(s) \in Nat /\ DOMAIN s = 1..Len(s)
      /\ \A i \in 1..Len(s) : r[i] = s[i]
      /\ r[Len(s) + 1] = h
  BY <1>1, AddedOnce
<1>3. \A i \in 1..(Len(s) + 1) : i = Len(s) + 1 \/ i \in 1..Len(s)
  BY <1>2
<1>4. \A i \in 1..Len(s) : s[i] # h /\ i \in 1..(Len(s) + 1)
  BY <1>2 DEF Range
<1>5. \A i \in DOMAIN r : i > at => r[i] \in due \cup {h}
  BY <1>2, <1>3 DEF LoopOK
<1>6. Missed(r, at, due \cup {h}) \subseteq Missed(s, at, due)
  BY <1>2, <1>4 DEF Missed
<1>7. Cardinality(Missed(r, at, due \cup {h})) <= shifts
  BY <1>6, MissedLess DEF LoopOK
<1> QED  BY <1>1, <1>5, <1>7 DEF LoopOK

\* A hook that is called removes the one at k, of the same type: when that is
\* at or below the index, the hooks above it move down and one may be missed.
LEMMA LoopRemoves ==
    ASSUME NEW S, NEW s \in Seq(S), NEW at \in Nat, NEW due, NEW shifts \in Nat,
           LoopOK(s, at, due, shifts), NEW k \in 1..Len(s),
           \A i, j \in DOMAIN s : s[i] = s[j] => i = j
    PROVE  LoopOK(RemoveAt(s, k), at, due \ {s[k]}, IF k <= at THEN shifts + 1 ELSE shifts)
<1> DEFINE f(i) == IF i < k THEN i ELSE i + 1
<1>1. DOMAIN s = 1..Len(s) /\ Len(s) \in Nat /\ k \in Nat
  BY LenProperties
<1>2. PICK r : r = RemoveAt(s, k)
  OBVIOUS
<1>3. /\ r \in Seq(S) /\ Len(r) = Len(s) - 1
      /\ \A i \in 1..(Len(s) - 1) : r[i] = IF i < k THEN s[i] ELSE s[i + 1]
  BY <1>2, ElementRemoved
<1>4. DOMAIN r = 1..(Len(s) - 1)
  BY <1>3, LenProperties
<1>5. \A i \in 1..(Len(s) - 1) : f(i) \in 1..Len(s) /\ f(i) # k /\ (i > at => f(i) > at)
  BY <1>1
<1>6. \A i \in 1..(Len(s) - 1) : r[i] = s[f(i)]
  BY <1>3
<1> DEFINE new == Missed(r, at, due \ {s[k]})
           old == Missed(s, at, due)
<1>7. \A i \in DOMAIN r : i > at => r[i] \in due \ {s[k]}
  <2> HIDE DEF f
  <2> QED  BY <1>1, <1>4, <1>5, <1>6 DEF LoopOK
<1>8. CASE ~(k <= at)
  <2>1. \A i \in 1..at : i \in 1..Len(s) => i \in 1..(Len(s) - 1) /\ i < k
    BY <1>1, <1>8
  <2>2. new \subseteq old
    BY <1>1, <1>3, <1>4, <2>1 DEF Missed
  <2>3. Cardinality(new) <= shifts
    <3> HIDE DEF new
    <3> QED  BY <2>2, MissedLess DEF LoopOK
  <2> QED  BY <1>2, <1>7, <1>8, <2>3 DEF LoopOK
<1>9. CASE k <= at
  <2>1. ASSUME NEW i \in new PROVE f(i) \in old \cup {at + 1}
    <3>1. i \in 1..at /\ f(i) \in 1..(at + 1)
      BY DEF Missed
    <3>2. f(i) \in 1..Len(s) => i \in 1..(Len(s) - 1)
      BY <1>1, <3>1
    <3>3. i \in 1..(Len(s) - 1) => s[f(i)] \in due
      <4> HIDE DEF f
      <4> QED  BY <1>4, <1>6 DEF Missed
    <3>4. f(i) = at + 1 \/ f(i) \in 1..at
      BY <3>1
    <3> HIDE DEF f, new
    <3> QED  BY <1>1, <3>2, <3>3, <3>4 DEF Missed
  <2>2. \A i, j \in new : f(i) = f(j) => i = j
    <3>1. \A i, j \in 1..at : f(i) = f(j) => i = j
      BY <1>1
    <3> HIDE DEF f
    <3> QED  BY <3>1 DEF Missed
  <2> DEFINE g == [i \in new |-> f(i)]
  <2>3. g \in Injection(new, old \cup {at + 1})
    <3> HIDE DEF f, new, old
    <3>1. g \in [new -> old \cup {at + 1}]
      BY <2>1
    <3> QED  BY <2>2, <3>1 DEF Injection, IsInjective
  <2>4. IsFiniteSet(old) /\ Cardinality(old) \in Nat
    BY MissedFinite
  <2>5. /\ IsFiniteSet(old \cup {at + 1})
        /\ Cardinality(old \cup {at + 1}) \in Nat
        /\ Cardinality(old \cup {at + 1}) <= Cardinality(old) + 1
    <3>1. at + 1 \notin old
      BY DEF Missed
    <3> HIDE DEF old
    <3>2. /\ IsFiniteSet(old \cup {at + 1})
          /\ Cardinality(old \cup {at + 1}) = Cardinality(old) + 1
      BY <2>4, <3>1, FS_AddElement
    <3> QED  BY <2>4, <3>2
  <2>6. Cardinality(new) <= Cardinality(old \cup {at + 1}) /\ Cardinality(new) \in Nat
    <3>1. IsFiniteSet(new) /\ Cardinality(new) \in Nat
      BY MissedFinite
    <3> HIDE DEF g, new, old
    <3>2. Cardinality(new) <= Cardinality(old \cup {at + 1})
      BY <2>3, <2>5, FS_Injection
    <3> QED  BY <3>1, <3>2
  <2>7. Cardinality(old) <= shifts
    BY DEF LoopOK
  <2>8. Cardinality(new) <= shifts + 1
    <3> HIDE DEF new, old
    <3> QED  BY <2>4, <2>5, <2>6, <2>7
  <2> QED  BY <1>2, <1>7, <1>9, <2>8 DEF LoopOK
<1> QED  BY <1>8, <1>9

\* A dispatch leaves the loader alone.
LEMMA DispatchStep ==
    ASSUME HooksInv, UNCHANGED <<vars, registry, made>>,
           hooks' \in [HookTypes -> Seq(Handles)], HooksOnce',
           \A t \in HookTypes : \A h \in Range(hooks'[t]) : slot[h] \in loaded,
           running' # NULL =>
              /\ running' \in Dispatches /\ phase = "run"
              /\ running'.owner # NULL => slot[running'.owner] \in loaded
              /\ LoopOK(hooks'[running'.type], running'.at, running'.due, running'.shifts)
    PROVE  HooksInv'
<1>1. TypeOK' /\ SlotsUnique' /\ CallsBound'
  BY DEF HooksInv, HooksTypeOK, TypeOK, SlotsUnique, CallsBound, Initialising, Calls, Top, vars
<1>2. HooksAlive' /\ DispatchOK'
  BY DEF HooksAlive, DispatchOK, vars
<1> QED  BY <1>1, <1>2 DEF HooksInv, HooksTypeOK

LEMMA DispatchHooks ==
    ASSUME HooksInv, NEW t \in HookTypes, Dispatch(t)
    PROVE  HooksInv'
<1>1. /\ running' = [type |-> t, at |-> 0, owner |-> NULL, due |-> Range(hooks[t]), shifts |-> 0]
      /\ phase = "run" /\ UNCHANGED <<vars, hooks, registry, made>>
  BY DEF Dispatch, tables
<1>2. /\ DOMAIN hooks[t] = 1..Len(hooks[t]) /\ Len(hooks[t]) \in Nat
      /\ \A i \in 1..Len(hooks[t]) : hooks[t][i] \in Handles
  BY LenProperties, ElementOfSeq DEF HooksInv, HooksTypeOK
<1>3. /\ Range(hooks[t]) \subseteq Handles
      /\ \A i \in DOMAIN hooks[t] : hooks[t][i] \in Range(hooks[t])
  BY <1>2 DEF Range
<1>4. running' \in Dispatches
  BY <1>1, <1>3, HookConstants DEF Dispatches
<1>5. LoopOK(hooks[t], 0, Range(hooks[t]), 0)
  <2>1. Missed(hooks[t], 0, Range(hooks[t])) = {}
    BY DEF Missed
  <2> QED  BY <1>3, <2>1, FS_EmptySet DEF LoopOK
<1> QED  BY <1>1, <1>4, <1>5, DispatchStep DEF HooksInv, HooksTypeOK, HooksOnce, HooksAlive

\* The dispatch that goes on.
LEMMA Dispatched ==
    ASSUME HooksInv, running # NULL
    PROVE  /\ running.type \in HookTypes /\ running.at \in Nat /\ running.shifts \in 0..MaxShifts
           /\ running.owner \in Handles \cup {NULL} /\ running.due \subseteq Handles
           /\ running = [type |-> running.type, at |-> running.at, owner |-> running.owner,
                         due |-> running.due, shifts |-> running.shifts]
           /\ hooks[running.type] \in Seq(Handles)
           /\ \A i, j \in DOMAIN hooks[running.type] :
                hooks[running.type][i] = hooks[running.type][j] => i = j
           /\ running.shifts \in Nat
<1>1. running \in Dispatches
  BY DEF HooksInv, HooksTypeOK
<1>2. /\ running.type \in HookTypes /\ running.at \in Nat /\ running.shifts \in 0..MaxShifts
      /\ running.owner \in Handles \cup {NULL} /\ running.due \subseteq Handles
      /\ running = [type |-> running.type, at |-> running.at, owner |-> running.owner,
                    due |-> running.due, shifts |-> running.shifts]
  BY <1>1 DEF Dispatches
<1>3. running.shifts \in Nat
  BY <1>2, HookConstants
<1> QED  BY <1>2, <1>3 DEF HooksInv, HooksTypeOK, HooksOnce

LEMMA CallHookHooks ==
    ASSUME HooksInv, CallHook
    PROVE  HooksInv'
<1>1. PICK s \in Seq(Handles), t \in HookTypes, at \in Nat, due \in SUBSET Handles, shifts \in Nat :
        /\ t = running.type /\ s = hooks[t] /\ at = running.at /\ due = running.due
        /\ shifts = running.shifts
  BY Dispatched DEF CallHook, Looping
<1>2. PICK h : h = s[at + 1]
  OBVIOUS
<1>3. /\ running' = [running EXCEPT !.at = at + 1, !.owner = h, !.due = due \ {h}]
      /\ running # NULL /\ at < Len(s) /\ UNCHANGED <<vars, hooks, registry, made>>
  BY <1>1, <1>2 DEF CallHook, Looping, tables
<1>4. at + 1 \in 1..Len(s) /\ DOMAIN s = 1..Len(s)
  BY <1>1, <1>3, LenProperties
<1>5. h \in Handles /\ slot[h] \in loaded
  BY <1>1, <1>2, <1>4, ElementOfSeq DEF HooksInv, HooksAlive, Range
<1>6. running' = [type |-> t, at |-> at + 1, owner |-> h, due |-> due \ {h}, shifts |-> shifts]
  BY <1>1, <1>3, Dispatched
<1>7. running' \in Dispatches
  BY <1>1, <1>3, <1>5, <1>6, Dispatched DEF Dispatches
<1>8. LoopOK(s, at + 1, due \ {h}, shifts)
  BY <1>1, <1>2, <1>3, Dispatched, LoopCalls DEF HooksInv, DispatchOK
<1>9. phase = "run"
  BY <1>3 DEF HooksInv, DispatchOK
<1> QED  BY <1>1, <1>3, <1>5, <1>6, <1>7, <1>8, <1>9, DispatchStep
         DEF HooksInv, HooksTypeOK, HooksOnce, HooksAlive

LEMMA DispatchReturnsHooks ==
    ASSUME HooksInv, DispatchReturns
    PROVE  HooksInv'
<1>1. running' = NULL /\ UNCHANGED <<vars, hooks, registry, made>>
  BY DEF DispatchReturns, tables
<1> QED  BY <1>1, DispatchStep DEF HooksInv, HooksTypeOK, HooksOnce, HooksAlive

LEMMA HookAddsHooks ==
    ASSUME HooksInv, NEW t \in HookTypes, HookAdds(t)
    PROVE  HooksInv'
<1>1. PICK h \in Handles : h = running.owner /\ slot[h] \in loaded
  BY Dispatched DEF HookAdds, MayChange, HooksInv, DispatchOK
<1>2. /\ running # NULL /\ phase = "run" /\ UNCHANGED <<vars, registry, made>>
      /\ h \notin Range(hooks[t]) /\ hooks' = [hooks EXCEPT ![t] = Append(@, h)]
      /\ running' = [running EXCEPT !.due = IF t = running.type THEN @ \cup {h} ELSE @]
  BY <1>1 DEF HookAdds, MayChange, add_hook, hook_exists_for_plugin, HooksInv, DispatchOK
<1>3. PICK s \in Seq(Handles) : s = hooks[t]
  BY DEF HooksInv, HooksTypeOK
<1>4. \A i, j \in DOMAIN s : s[i] = s[j] => i = j
  BY <1>3 DEF HooksInv, HooksOnce
<1>5. /\ Append(s, h) \in Seq(Handles) /\ Range(Append(s, h)) = Range(s) \cup {h}
      /\ \A i, j \in DOMAIN Append(s, h) : Append(s, h)[i] = Append(s, h)[j] => i = j
  BY <1>2, <1>3, <1>4, AddedOnce, AppendedRange
<1>6. /\ hooks' \in [HookTypes -> Seq(Handles)] /\ HooksOnce' /\ hooks'[t] = Append(s, h)
      /\ \A u \in HookTypes : u # t => hooks'[u] = hooks[u]
  BY <1>2, <1>3, <1>5 DEF HooksInv, HooksTypeOK, HooksOnce
<1>7. \A u \in HookTypes : \A k \in Range(hooks'[u]) : slot[k] \in loaded
  <2>1. \A k \in Range(hooks'[t]) : k \in Range(hooks[t]) \/ k = h
    BY <1>3, <1>5, <1>6
  <2> QED  BY <1>1, <1>6, <2>1 DEF HooksInv, HooksAlive
<1>8. CASE t # running.type
  <2>1. running' = running
    BY <1>2, <1>8, Dispatched
  <2> QED  BY <1>1, <1>2, <1>6, <1>7, <1>8, <2>1, Dispatched, DispatchStep
           DEF HooksInv, HooksTypeOK, DispatchOK
<1>9. CASE t = running.type
  <2>1. running' = [type |-> t, at |-> running.at, owner |-> h, due |-> running.due \cup {h},
                    shifts |-> running.shifts]
    BY <1>1, <1>2, <1>9, Dispatched
  <2>2. running' \in Dispatches
    BY <1>2, <2>1, Dispatched DEF Dispatches
  <2>3. LoopOK(Append(s, h), running.at, running.due \cup {h}, running.shifts)
    <3>1. LoopOK(s, running.at, running.due, running.shifts)
      BY <1>2, <1>3, <1>9 DEF HooksInv, DispatchOK
    <3> QED  BY <1>2, <1>3, <1>4, <3>1, Dispatched, LoopAdds
  <2> QED  BY <1>1, <1>2, <1>6, <1>7, <2>1, <2>2, <2>3, DispatchStep
<1> QED  BY <1>8, <1>9

LEMMA HookRemovesHooks ==
    ASSUME HooksInv, NEW t \in HookTypes, HookRemoves(t)
    PROVE  HooksInv'
<1>1. PICK h \in Handles : h = running.owner /\ slot[h] \in loaded
  BY Dispatched DEF HookRemoves, MayChange, HooksInv, DispatchOK
<1>2. /\ running # NULL /\ phase = "run" /\ UNCHANGED <<vars, registry, made>>
      /\ h \in Range(hooks[t]) /\ hooks' = [hooks EXCEPT ![t] = RemoveFirst(@, h)]
      /\ running.shifts < MaxShifts
  BY <1>1 DEF HookRemoves, MayChange, hook_exists_for_plugin, HooksInv, DispatchOK
<1>3. PICK s \in Seq(Handles) : s = hooks[t]
  BY DEF HooksInv, HooksTypeOK
<1>4. \A i, j \in DOMAIN s : s[i] = s[j] => i = j
  BY <1>3 DEF HooksInv, HooksOnce
<1>5. PICK k \in 1..Len(s) : s[k] = h /\ RemoveFirst(s, h) = RemoveAt(s, k)
  BY <1>2, <1>3, <1>4, OwnerRemoved
<1>6. /\ RemoveFirst(s, h) \in Seq(Handles) /\ Range(RemoveFirst(s, h)) = Range(s) \ {h}
      /\ \A i, j \in DOMAIN RemoveFirst(s, h) :
           RemoveFirst(s, h)[i] = RemoveFirst(s, h)[j] => i = j
  BY <1>4, OwnersLeft
<1>7. /\ hooks' \in [HookTypes -> Seq(Handles)] /\ HooksOnce' /\ hooks'[t] = RemoveFirst(s, h)
      /\ \A u \in HookTypes : u # t => hooks'[u] = hooks[u]
  BY <1>2, <1>3, <1>6 DEF HooksInv, HooksTypeOK, HooksOnce
<1>8. \A u \in HookTypes : \A j \in Range(hooks'[u]) : slot[j] \in loaded
  BY <1>3, <1>6, <1>7 DEF HooksInv, HooksAlive
<1>9. CASE t # running.type
  <2>1. running' = running
    BY <1>9 DEF HookRemoves
  <2> QED  BY <1>1, <1>2, <1>7, <1>8, <1>9, <2>1, Dispatched, DispatchStep
           DEF HooksInv, HooksTypeOK, DispatchOK
<1>10. CASE t = running.type
  <2>1. DOMAIN s = 1..Len(s) /\ Len(s) \in Nat /\ running.at \in Nat /\ running.shifts \in Nat
    BY <1>2, LenProperties, Dispatched
  <2>2. (\E i \in 1..running.at : s[i] = h) <=> k <= running.at
    <3>1. ASSUME NEW i \in 1..running.at, s[i] = h PROVE k <= running.at
      <4>1. CASE i \in DOMAIN s
        <5>1. i = k
          BY <1>4, <1>5, <2>1, <3>1, <4>1
        <5> QED  BY <2>1, <5>1
      <4>2. CASE i \notin DOMAIN s
        BY <2>1, <4>2
      <4> QED  BY <4>1, <4>2
    <3>2. k <= running.at => k \in 1..running.at
      BY <2>1
    <3> QED  BY <1>5, <3>1, <3>2
  <2>3. PICK shifts \in 0..MaxShifts :
          /\ shifts = IF k <= running.at THEN running.shifts + 1 ELSE running.shifts
          /\ running' = [type |-> t, at |-> running.at, owner |-> h, due |-> running.due \ {h},
                         shifts |-> shifts]
    <3>1. running' = [running EXCEPT !.due = @ \ {h},
                                     !.shifts = IF k <= running.at THEN @ + 1 ELSE @]
      BY <1>1, <1>3, <1>10, <2>2 DEF HookRemoves
    <3>2. running.shifts + 1 \in 0..MaxShifts /\ running.shifts \in 0..MaxShifts
      BY <1>2, <2>1, HookConstants
    <3>3. CASE k <= running.at
      BY <1>1, <1>2, <1>10, <3>1, <3>2, <3>3, Dispatched
    <3>4. CASE ~(k <= running.at)
      BY <1>1, <1>2, <1>10, <3>1, <3>2, <3>4, Dispatched
    <3> QED  BY <3>3, <3>4
  <2>4. running' \in Dispatches
    BY <1>2, <2>3, Dispatched DEF Dispatches
  <2>5. LoopOK(RemoveAt(s, k), running.at, running.due \ {h}, shifts)
    <3>1. LoopOK(s, running.at, running.due, running.shifts)
      BY <1>2, <1>3, <1>10 DEF HooksInv, DispatchOK
    <3> QED  BY <1>4, <1>5, <2>1, <2>3, <3>1, LoopRemoves
  <2> QED  BY <1>1, <1>2, <1>5, <1>7, <1>8, <2>3, <2>4, <2>5, DispatchStep
<1> QED  BY <1>9, <1>10

-----------------------------------------------------------------------------
(* The invariant of the hook table *)

LEMMA HInitHooks ==
    ASSUME NEW rank, Ranking(rank), HInit
    PROVE  LoaderInv(rank) /\ HooksInv
<1>1. LoaderInv(rank)
  BY InitLoaderInv DEF HInit
<1>2. /\ hooks = [t \in HookTypes |-> <<>>] /\ registry = [a \in APIs |-> <<>>]
      /\ made = 0 /\ running = NULL
      /\ slot = [h \in Handles |-> IF h = 1 THEN Core ELSE NULL] /\ unread = Objects \ {Core}
  BY DEF HInit, Init
<1>3. SlotsUnique
  BY <1>2, NullIsFresh DEF SlotsUnique
<1>4. \A t \in HookTypes : hooks[t] \in Seq(Handles) /\ Range(hooks[t]) = {} /\ DOMAIN hooks[t] = {}
  BY <1>2 DEF Range
<1> QED  BY <1>1, <1>2, <1>3, <1>4
         DEF HooksInv, HooksTypeOK, HooksAlive, HooksOnce, CallsBound, DispatchOK, LoaderInv

LEMMA HNextHooks ==
    ASSUME NEW rank, Ranking(rank), LoaderInv(rank), HooksInv, [HNext]_hvars
    PROVE  LoaderInv(rank)' /\ HooksInv'
<1>1. LoaderInv(rank)'
  BY LoaderStep, NextLoaderInv
<1>2. CASE UNCHANGED hvars
  BY <1>1, <1>2 DEF hvars, vars, HooksInv, HooksTypeOK, TypeOK, SlotsUnique, HooksAlive, HooksOnce,
              CallsBound, Initialising, Calls, Top, DispatchOK
<1>3. CASE HNext
  BY <1>1, <1>3, InitCallHooks, InitReturnsHooks, DeloadHooks, TerminatedHooks, LoaderOnlyHooks,
     CallHookHooks, DispatchHooks, HookAddsHooks, HookRemovesHooks, DispatchReturnsHooks
     DEF HNext
<1> QED  BY <1>1, <1>2, <1>3

\* What the rest of the development needs of HSpec.
LEMMA HooksInvariant ==
    ASSUME NEW rank, Ranking(rank)
    PROVE  HSpec => [](LoaderInv(rank) /\ HooksInv)
<1>1. HInit => LoaderInv(rank) /\ HooksInv
  BY HInitHooks
<1>2. LoaderInv(rank) /\ HooksInv /\ [HNext]_hvars => (LoaderInv(rank) /\ HooksInv)'
  BY HNextHooks
<1> QED  BY <1>1, <1>2, PTL DEF HSpec

\* The tables hold only handles that plugin_register gave out.
THEOREM HooksTypeCorrect ==
    ASSUME NEW rank \in [Names -> Nat], Ranks(rank)
    PROVE  HSpec => []HooksTypeOK
<1>1. HSpec => [](LoaderInv(rank) /\ HooksInv)
  BY HooksInvariant DEF Ranking
<1>2. LoaderInv(rank) /\ HooksInv => HooksTypeOK
  BY DEF HooksInv
<1> QED  BY <1>1, <1>2, PTL

\* Every hook that wlc's callbacks find is inside an object that is mapped
\* and whose init is under way or has succeeded.
THEOREM HooksStayAlive ==
    ASSUME NEW rank \in [Names -> Nat], Ranks(rank)
    PROVE  HSpec => []HooksAlive
<1>1. HSpec => [](LoaderInv(rank) /\ HooksInv)
  BY HooksInvariant DEF Ranking
<1>2. LoaderInv(rank) /\ HooksInv => HooksAlive
  BY DEF HooksInv
<1> QED  BY <1>1, <1>2, PTL

\* However the hooks that are called add and remove hooks, one dispatch calls
\* no hook twice, and passes over one at most for each that was removed at or
\* below the index.
THEOREM HooksCalledOnce ==
    ASSUME NEW rank \in [Names -> Nat], Ranks(rank)
    PROVE  HSpec => []CalledOnce
<1>1. HSpec => [](LoaderInv(rank) /\ HooksInv)
  BY HooksInvariant DEF Ranking
<1>2. LoaderInv(rank) /\ HooksInv => CalledOnce
  <2> SUFFICES ASSUME HooksInv, running # NULL PROVE CalledOnce
    BY DEF CalledOnce
  <2>1. PICK s \in Seq(Handles), at \in Nat, due \in SUBSET Handles, shifts \in Nat :
          /\ s = hooks[running.type] /\ at = running.at /\ due = running.due
          /\ shifts = running.shifts
    BY Dispatched
  <2>2. LoopOK(s, at, due, shifts)
    BY <2>1 DEF HooksInv, DispatchOK
  <2>3. DOMAIN s = 1..Len(s) /\ Len(s) \in Nat
    BY LenProperties
  <2>4. {i \in DOMAIN s : i <= at /\ s[i] \in due} \in SUBSET Missed(s, at, due)
    BY <2>3 DEF Missed
  <2>5. Cardinality({i \in DOMAIN s : i <= at /\ s[i] \in due}) <= shifts
    BY <2>2, <2>4, MissedLess DEF LoopOK
  <2> QED  BY <2>1, <2>2, <2>5 DEF CalledOnce, LoopOK
<1> QED  BY <1>1, <1>2, PTL

-----------------------------------------------------------------------------
(* The registries *)

\* An api with which a loaded plugin has entries runs, and is told when a
\* plugin goes.
LEMMA ApiServes ==
    ASSUME NEW rank, RequiresInv(rank), ApisRequired,
           NEW p \in loaded, NEW a \in APIs, Enters(p, a)
    PROVE  get(a) \in Ready /\ Serves(get(a), p) /\ Info[get(a)].name = a
<1> USE DEF RequiresInv, LoaderInv, Bookkeeping
<1>1. p \in Objects /\ a \in Names
  BY HookConstants DEF TypeOK
<1>2. PICK i \in DOMAIN InitCalls[p] :
        InitCalls[p][i].table = "registry" /\ InitCalls[p][i].key = a
  BY DEF Enters
<1>3. /\ a \in Range(Info[p].requires)
      /\ \A o \in Objects : a \in Range(Info[o].groups) => belongs_to_pool(Info[p].groups, a)
  BY <1>1, <1>2 DEF ApisRequired
<1>4. get_group(a) => belongs_to_pool(Info[p].groups, a)
  BY <1>1, <1>3 DEF ServedInv, GroupsNamed
<1>5. Serves(get(a), p)
  BY <1>3, <1>4 DEF ServedInv, AllServed, Served
<1>6. get(a) \in Objects
  BY <1>5 DEF Serves, Ready, TypeOK
<1> QED  BY <1>1, <1>5, <1>6, Resolves, NullIsFresh DEF Serves

\* The calls of a plugin's init.
LEMMA CallTypes ==
    ASSUME NEW p \in Objects
    PROVE  /\ Len(InitCalls[p]) \in Nat /\ DOMAIN InitCalls[p] = 1..Len(InitCalls[p])
           /\ \A i \in 1..Len(InitCalls[p]) :
                \/ InitCalls[p][i].table = "hooks" /\ InitCalls[p][i].key \in HookTypes
                \/ InitCalls[p][i].table = "registry" /\ InitCalls[p][i].key \in APIs
<1>1. InitCalls[p] \in Seq(RegisterCalls)
  BY HookConstants
<1>2. \A i \in 1..Len(InitCalls[p]) : InitCalls[p][i] \in RegisterCalls
  BY <1>1, ElementOfSeq
<1> QED  BY <1>1, <1>2, LenProperties DEF RegisterCalls

\* An api that is ready has made its hook.
LEMMA ReadyListens ==
    ASSUME NEW rank, RequiresInv(rank), HooksInv, RegistryInv, ApisListen,
           NEW a \in APIs, get(a) \in Ready, Info[get(a)].name = a
    PROVE  Notified(a)
<1> USE DEF RequiresInv, LoaderInv, Bookkeeping
<1>1. PICK q : q = get(a) /\ q \in loaded /\ q \in Objects /\ q \in Ready
  BY DEF Ready, TypeOK
<1>2. PICK i \in DOMAIN InitCalls[q] :
        InitCalls[q][i].table = "hooks" /\ InitCalls[q][i].key = "plugin.deloaded"
  BY <1>1 DEF ApisListen
<1>3. q \notin Dynamic
  BY <1>1 DEF ApisListen
<1>4. CallsMade(q) = Len(InitCalls[q])
  <2>1. ASSUME Initialising PROVE Top.plugin # q
    <3>1. Top \in Range(stack) /\ Top.pc = "init"
      BY <2>1, Frames DEF Initialising, TypeOK
    <3> QED  BY <1>1, <3>1 DEF Ready
  <2> QED  BY <2>1 DEF CallsMade
<1>5. Kept(q, i)
  BY <1>1, <1>2, <1>3, <1>4, CallTypes DEF RegistryInv
<1>6. handle(q) \in Range(hooks["plugin.deloaded"])
  BY <1>2, <1>5 DEF Kept
<1>7. phase # "gone"
  BY <1>1 DEF Removed
<1>8. slot[handle(q)] = q /\ q # NULL
  BY <1>1, <1>7, HandleOf, NullIsFresh DEF HooksInv, Present
<1> QED  BY <1>1, <1>6, <1>8 DEF Notified

\* A plugin that becomes loaded goes to its init.
LEMMA NewlyLoaded ==
    ASSUME TypeOK, [Next]_vars
    PROVE  \A q \in loaded' \ loaded : Initialising' /\ Top'.plugin = q
<1>1. ASSUME phase = "load", stack # <<>>, ArrayDone(Top), NEW q \in loaded' \ loaded
      PROVE  Initialising' /\ Top'.plugin = q
  <2>1. PICK f \in Frame : f = Call(Top.plugin, "init") /\ stack' = Become(f) /\ q = Top.plugin
    BY <1>1, TopFrame, NewFrames DEF ArrayDone, TypeOK
  <2>2. /\ stack' \in Seq(Frame) /\ Len(stack') \in Nat \ {0} /\ stack'[Len(stack')] = f
    BY <1>1, <2>1, Becomes, TopFrame DEF TypeOK
  <2>3. stack' # <<>>
    BY <2>2
  <2>4. f.pc = "init" /\ f.plugin = q
    BY <2>1 DEF Call
  <2> QED  BY <1>1, <2>2, <2>3, <2>4 DEF Initialising, Top, ArrayDone
<1>2. ASSUME ResolveDependency \/ FinishArray, NEW q \in loaded' \ loaded
      PROVE  phase = "load" /\ stack # <<>> /\ ArrayDone(Top)
  BY <1>2 DEF ResolveDependency, EnterGroup, SkipMember, MissingDependency, CircularDependency,
              DependOnReady, LoadDependency, DependencyReturned, Step, LoadFails, Depend, deload,
              FinishArray, Walking
<1>3. ASSUME LoadNext \/ LoadReturned \/ LoadAllDone \/ InitSucceeds \/ InitFails
      PROVE  loaded' \subseteq loaded
  BY <1>3 DEF LoadNext, LoadReturned, LoadAllDone, InitSucceeds, InitFails, LoadFails, deload
<1>4. ASSUME Register \/ RegistrationDone \/ compositor_terminate \/ plugin_remove_all
             \/ UNCHANGED vars
      PROVE  loaded' \subseteq loaded
  BY <1>4 DEF Register, RegisterRejects, plugin_register, RegistrationDone, compositor_terminate,
              plugin_remove_all, RemoveNext, DeloadDependent, Deload, deload, RemoveAllDone, vars
<1> QED  BY <1>1, <1>2, <1>3, <1>4 DEF Next, Work, plugin_load_all

\* What goes from the tables belonged to a plugin that goes.
LEMMA RegistryShrinks ==
    ASSUME NEW rank, Ranking(rank), LoaderInv(rank), HooksInv, RegistryInv, [Next]_vars, made' = 0,
           \A q \in loaded' \cap loaded : CallsMade(q) = Len(InitCalls[q]),
           \A a \in APIs : \A h \in Range(registry'[a]) :
              h \in Range(registry[a]) /\ slot[h] \in loaded',
           \A a \in APIs : \A h \in Range(registry[a]) :
              slot[h] \in loaded' => h \in Range(registry'[a]),
           \A t \in HookTypes : \A h \in Range(hooks[t]) :
              slot[h] \in loaded' => h \in Range(hooks'[t])
    PROVE  RegistryInv'
<1>1. LoaderInv(rank)'
  BY NextLoaderInv
<1>2. ASSUME NEW a \in APIs, NEW h \in Range(registry'[a])
      PROVE  slot'[h] \in loaded' /\ Enters(slot'[h], a)
  <2>1. h \in Range(registry[a]) /\ slot[h] \in loaded /\ slot[h] \in loaded' /\ Enters(slot[h], a)
    BY <1>2 DEF RegistryInv
  <2>2. h \in Handles
    BY <2>1, LenProperties, ElementOfSeq DEF HooksInv, HooksTypeOK, Range
  <2>3. slot'[h] = slot[h]
    BY <2>1, <2>2, OwnersKept
  <2> QED  BY <2>1, <2>3
<1>3. ASSUME NEW p \in loaded' \ Dynamic, NEW i \in 1..CallsMade(p)' PROVE Kept(p, i)'
  <2>1. p \in Objects
    BY <1>1 DEF LoaderInv, TypeOK
  <2>2. p \in loaded
    <3>1. ASSUME p \notin loaded PROVE FALSE
      <4>1. Initialising' /\ Top'.plugin = p
        BY <3>1, NewlyLoaded DEF LoaderInv
      <4>2. CallsMade(p)' = 0
        BY <4>1 DEF CallsMade
      <4> QED  BY <1>3, <4>2
    <3> QED  BY <3>1
  <2>3. CallsMade(p) = Len(InitCalls[p])
    BY <2>2
  <2>4. i \in 1..CallsMade(p) /\ i \in 1..Len(InitCalls[p])
    <3>1. CallsMade(p)' = 0 \/ CallsMade(p)' = Len(InitCalls[p])
      BY DEF CallsMade
    <3>2. CallsMade(p)' # 0
      BY <1>3
    <3> QED  BY <2>3, <3>1, <3>2
  <2>5. Kept(p, i)
    BY <2>2, <2>4 DEF RegistryInv
  <2>6. phase # "gone" /\ Present(p)
    BY <2>2 DEF LoaderInv, Bookkeeping, Removed, Present
  <2>7. PICK h : h = handle(p) /\ h = handle(p)' /\ slot[h] = p
    BY <2>1, <2>2, <2>6, HandleOf, HandleKept DEF HooksInv
  <2>8. CASE InitCalls[p][i].table = "hooks" /\ InitCalls[p][i].key \in HookTypes
    BY <2>5, <2>7, <2>8 DEF Kept
  <2>9. CASE InitCalls[p][i].table = "registry" /\ InitCalls[p][i].key \in APIs
    BY <2>5, <2>7, <2>9 DEF Kept
  <2> QED  BY <2>1, <2>4, <2>8, <2>9, CallTypes
<1> QED  BY <1>2, <1>3 DEF RegistryInv

\* The api is told, or goes itself when nobody has entries with it any more.
LEMMA CleanedRegistry ==
    ASSUME NEW rank, Ranking(rank), RequiresInv(rank), HooksInv, RegistryInv,
           ApisRequired, ApisListen, [Next]_vars, made' = 0,
           NEW p \in Objects, Present(p), phase # "gone", loaded' = loaded \ {p},
           plugin_deloaded(p), ~NeededBy(p),
           \A q \in loaded' : CallsMade(q) = Len(InitCalls[q])
    PROVE  RegistryInv'
<1> USE DEF RequiresInv, LoaderInv, Bookkeeping
<1>1. /\ handle(p) \in Handles /\ slot[handle(p)] = p
      /\ \A h \in Handles : slot[h] = p => h = handle(p)
  BY HandleOf DEF HooksInv
<1>2. /\ \A t \in HookTypes : Range(hooks'[t]) = Range(hooks[t]) \ {handle(p)}
      /\ \A a \in APIs :
           Range(registry'[a]) = IF p \in loaded /\ Info[p].name = a THEN {}
                                 ELSE IF Notified(a) THEN Range(registry[a]) \ {handle(p)}
                                 ELSE Range(registry[a])
  BY CleanedTables
<1>3. \A t \in HookTypes : \A h \in Range(hooks[t]) : slot[h] \in loaded' => h \in Range(hooks'[t])
  BY <1>1, <1>2
<1>4. ASSUME NEW a \in APIs, NEW h \in Range(registry[a])
      PROVE  /\ h \in Handles /\ slot[h] \in loaded /\ Enters(slot[h], a)
             /\ Serves(get(a), slot[h]) /\ Notified(a)
  <2>1. slot[h] \in loaded /\ Enters(slot[h], a)
    BY <1>4 DEF RegistryInv
  <2>2. get(a) \in Ready /\ Serves(get(a), slot[h]) /\ Info[get(a)].name = a
    BY <2>1, ApiServes
  <2>3. h \in Handles
    BY <1>4, LenProperties, ElementOfSeq DEF HooksInv, HooksTypeOK, Range
  <2> QED  BY <2>1, <2>2, <2>3, ReadyListens
<1>5. \A a \in APIs : \A h \in Range(registry'[a]) : h \in Range(registry[a]) /\ slot[h] \in loaded'
  <2> SUFFICES ASSUME NEW a \in APIs, NEW h \in Range(registry'[a])
               PROVE  h \in Range(registry[a]) /\ slot[h] \in loaded'
    OBVIOUS
  <2>1. h \in Range(registry[a])
    BY <1>2
  <2>2. h # handle(p)
    BY <1>2, <1>4, <2>1
  <2> QED  BY <1>1, <1>4, <2>1, <2>2
<1>6. ASSUME NEW a \in APIs, NEW h \in Range(registry[a]), p \in loaded, Info[p].name = a
      PROVE  FALSE
  <2>1. PICK q \in loaded : q = slot[h] /\ Serves(get(a), q)
    BY <1>4, <1>6
  <2>2. get(a) = p
    BY <1>6 DEF NamesUnique
  <2>3. q \in Objects /\ get(Info[q].name) = q
    BY <2>1 DEF NamesUnique, Present, TypeOK
  <2> QED  BY <2>1, <2>2, <2>3 DEF Serves, NeededBy
<1>7. \A a \in APIs : \A h \in Range(registry[a]) : slot[h] \in loaded' => h \in Range(registry'[a])
  BY <1>1, <1>2, <1>6
<1> QED  BY <1>3, <1>5, <1>7, RegistryShrinks

\* deload_plugin has gone through all of p.needed.
LEMMA NotNeeded ==
    ASSUME NEW rank, LoaderInv(rank), Top \in Frame, RemoveFrame(Top),
           Top.i > Len(needed[Top.plugin])
    PROVE  ~NeededBy(Top.plugin)
<1>1. PICK s \in Seq(Names) : s = needed[Top.plugin]
  BY DEF LoaderInv, TypeOK, Frame
<1>2. DOMAIN s = 1..Len(s) /\ Len(s) \in Nat /\ Top.i \in Nat /\ Top.i > Len(s)
  BY <1>1, LenProperties DEF Frame
<1>3. \A j \in 1..Len(s) : j < Top.i
  BY <1>2
<1>4. \A n \in Range(s) : get(n) \notin loaded
  BY <1>1, <1>2, <1>3 DEF RemoveFrame, Range
<1> QED  BY <1>1, <1>4 DEF NeededBy

LEMMA DeloadRegistry ==
    ASSUME NEW rank, Ranking(rank), RequiresInv(rank), HooksInv, RegistryInv,
           ApisRequired, ApisListen, InitReturnsFalse \/ DependencyFails \/ DeloadPlugin
    PROVE  RegistryInv'
<1> USE DEF RequiresInv, LoaderInv, Bookkeeping
<1>1. [Next]_vars
  BY LoaderStep DEF HNext
<1>2. stack # <<>> /\ phase \in {"load", "remove"} /\ Top \in Frame /\ Top.plugin \in Objects
  BY Whereabouts, TopFrame
     DEF InitReturnsFalse, InitFails, Initialising, DependencyFails, DeloadPlugin, Deload,
         Removing, TypeOK
<1>3. CASE InitReturnsFalse
  <2>1. LoadFrame(Top) /\ Top.plugin \in loaded
    BY <1>3, TopCall DEF InitReturnsFalse, InitFails, Initialising, LoadFrame
  <2>2. ~NeededBy(Top.plugin)
    BY <2>1 DEF LoadFrame, NeededBy, Range
  <2>3. plugin_deloaded(Top.plugin) /\ made' = 0
    BY <1>3, <2>1, <2>2 DEF InitReturnsFalse, CleanUp
  <2>4. loaded' = loaded \ {Top.plugin}
    BY <1>1, <1>3, LoadedKept DEF InitReturnsFalse
  <2>5. \A q \in loaded' : CallsMade(q) = Len(InitCalls[q])
    BY <2>4 DEF CallsMade
  <2> QED  BY <1>1, <1>2, <2>1, <2>2, <2>3, <2>4, <2>5, CleanedRegistry DEF Present
<1>4. ASSUME ~Initialising
      PROVE  made = 0 /\ \A q : CallsMade(q) = Len(InitCalls[q])
  BY <1>4 DEF CallsMade, HooksInv, CallsBound
<1>5. CASE DeloadPlugin
  <2>1. RemoveFrame(Top) /\ Top.plugin \in loaded \cup mapped
    BY <1>2, <1>5, Frames DEF DeloadPlugin, Deload, Removing, RemoveStack, RemoveFrame,
                              Removable, TypeOK
  <2>2. ~NeededBy(Top.plugin)
    BY <1>2, <1>5, <2>1, NotNeeded DEF DeloadPlugin, Deload
  <2>3. plugin_deloaded(Top.plugin) /\ ~Initialising /\ made' = made
    BY <1>5 DEF DeloadPlugin, Deload, Removing, Initialising
  <2>4. loaded' = loaded \ {Top.plugin}
    BY <1>1, <1>5, LoadedKept DEF DeloadPlugin
  <2> QED  BY <1>1, <1>2, <1>4, <2>1, <2>2, <2>3, <2>4, CleanedRegistry DEF Present
<1>6. CASE DependencyFails
  <2>1. Top.plugin \notin loaded /\ ~Initialising /\ made' = made
    BY <1>6, Whereabouts, TopCall DEF DependencyFails, LoadFrame, Initialising
  <2>2. loaded' = loaded
    <3>1. loaded \subseteq loaded'
      BY <1>1, <1>6, <2>1, Whereabouts, LoadedKept DEF DependencyFails, InitFails, Deload, Removing
    <3>2. ASSUME NEW q \in loaded' \ loaded PROVE FALSE
      <4>1. Initialising' /\ stack' = Under /\ Under \in Seq(Frame)
        <5>1. stack \in Seq(Frame)
          BY DEF TypeOK
        <5>2. Under \in Seq(Frame)
          BY <1>2, <5>1, Returns
        <5>3. Initialising'
          BY <1>1, <3>2, NewlyLoaded
        <5> QED  BY <1>6, <5>2, <5>3 DEF DependencyFails
      <4>2. Under # <<>> /\ Under[Len(Under)].pc = "init"
        BY <4>1 DEF Initialising, Top
      <4>3. Len(Under) \in DOMAIN Under
        BY <4>1, <4>2, EmptySeq, LenProperties
      <4>4. Under[Len(Under)] \in Range(Under)
        BY <4>3 DEF Range
      <4>5. phase = "load"
        BY <1>6, Whereabouts DEF DependencyFails
      <4> QED  BY <1>2, <4>2, <4>4, <4>5, OtherPlugins
    <3> QED  BY <3>1, <3>2
  <2>3. CASE UNCHANGED tables
    BY <1>1, <1>4, <2>1, <2>2, <2>3, RegistryShrinks DEF tables, RegistryInv
  <2>4. CASE ~(UNCHANGED tables)
    <3>1. plugin_deloaded(Top.plugin) /\ Top.plugin \in mapped /\ ~NeededBy(Top.plugin)
      BY <1>6, <2>1, <2>4 DEF DependencyFails, CleanUp
    <3> QED  BY <1>1, <1>2, <1>4, <2>1, <2>2, <3>1, CleanedRegistry DEF Present
  <2> QED  BY <2>3, <2>4
<1> QED  BY <1>3, <1>5, <1>6

LEMMA InitReturnsRegistry ==
    ASSUME NEW rank, Ranking(rank), RequiresInv(rank), HooksInv, RegistryInv, InitReturnsTrue
    PROVE  RegistryInv'
<1>1. [Next]_vars
  BY LoaderStep DEF HNext
<1>2. /\ loaded' = loaded /\ made' = 0 /\ made = Len(Calls)
      /\ UNCHANGED <<hooks, registry>>
  BY DEF InitReturnsTrue, InitSucceeds, tables
<1>3. \A q : CallsMade(q) = Len(InitCalls[q])
  BY <1>2 DEF CallsMade, Calls
<1> QED  BY <1>1, <1>2, <1>3, RegistryShrinks DEF RequiresInv, RegistryInv

\* Nobody is left, so no registry has an entry.
LEMMA TerminatedRegistry ==
    ASSUME NEW rank, Ranking(rank), RequiresInv(rank), HooksInv, RegistryInv, Terminated
    PROVE  RegistryInv'
<1>1. [Next]_vars
  BY LoaderStep DEF HNext
<1>2. phase = "remove" /\ phase' = "gone" /\ loaded' = loaded /\ UNCHANGED <<registry, made>>
  BY DEF Terminated, RemoveAllDone
<1>3. loaded = {}
  BY <1>1, <1>2, NextLoaderInv DEF RequiresInv, LoaderInv, Bookkeeping, Removed
<1> QED  BY <1>2, <1>3 DEF RegistryInv

LEMMA LoaderOnlyRegistry ==
    ASSUME NEW rank, Ranking(rank), RequiresInv(rank), HooksInv, RegistryInv, LoaderOnly
    PROVE  RegistryInv'
<1>1. [Next]_vars /\ UNCHANGED <<hooks, registry, made>>
  BY LoaderStep DEF HNext, LoaderOnly, tables
<1>2. ~Initialising /\ made = 0 /\ loaded \subseteq loaded'
  BY LoaderOnlyKeeps DEF RequiresInv
<1>3. \A q : CallsMade(q) = Len(InitCalls[q])
  BY <1>2 DEF CallsMade
<1> QED  BY <1>1, <1>2, <1>3, RegistryShrinks DEF RequiresInv, RegistryInv

LEMMA InitCallRegistry ==
    ASSUME NEW rank, RequiresInv(rank), HooksInv, RegistryInv, InitCallSucceeds
    PROVE  RegistryInv'
<1> USE DEF RequiresInv, LoaderInv, Bookkeeping
<1>1. /\ phase = "load" /\ stack # <<>> /\ Top.pc = "init" /\ made < Len(Calls) /\ made' = made + 1
      /\ UNCHANGED <<vars, running>>
  BY DEF InitCallSucceeds, Initialising
<1>2. PICK p \in Objects : p = Top.plugin /\ p \in loaded
  BY <1>1, TopCall DEF LoadFrame
<1>3. PICK h \in Handles : h = handle(p) /\ slot[h] = p
  BY <1>1, <1>2, HandleOf DEF HooksInv, Present
<1>4. /\ made + 1 \in 1..Len(InitCalls[p]) /\ made \in Nat
      /\ DOMAIN InitCalls[p] = 1..Len(InitCalls[p])
      /\ NextCall = InitCalls[p][made + 1] /\ NextCall \in RegisterCalls
  BY <1>1, <1>2, TopCalls, CallTypes DEF HooksInv, HooksTypeOK, NextCall, Calls
<1>5. /\ \A t \in HookTypes : Range(hooks[t]) \subseteq Range(hooks'[t])
      /\ \A a \in APIs : Range(registry[a]) \subseteq Range(registry'[a])
      /\ \A a \in APIs : \A k \in Range(registry'[a]) :
           k \in Range(registry[a]) \/ (k = h /\ NextCall.table = "registry" /\ NextCall.key = a)
      /\ h \in Range(IF NextCall.table = "hooks" THEN hooks'[NextCall.key]
                                                 ELSE registry'[NextCall.key])
  <2>1. CASE NextCall.table = "hooks" /\ add_hook(h, NextCall.key)
    <3>1. NextCall.key \in HookTypes
      BY <1>4, <2>1 DEF RegisterCalls
    <3>2. PICK s \in Seq(Handles) : s = hooks[NextCall.key]
      BY <3>1 DEF HooksInv, HooksTypeOK
    <3>3. Range(Append(s, h)) = Range(s) \cup {h}
      BY AppendedRange
    <3>4. hooks' = [hooks EXCEPT ![NextCall.key] = Append(s, h)] /\ registry' = registry
      BY <2>1, <3>2 DEF add_hook
    <3> QED  BY <2>1, <3>1, <3>2, <3>3, <3>4 DEF HooksInv, HooksTypeOK
  <2>2. CASE NextCall.table = "registry" /\ add_entry(h, NextCall.key)
    <3>1. NextCall.key \in APIs
      BY <1>4, <2>2 DEF RegisterCalls
    <3>2. PICK s \in Seq(Handles) : s = registry[NextCall.key]
      BY <3>1 DEF HooksInv, HooksTypeOK
    <3>3. Range(Append(s, h)) = Range(s) \cup {h}
      BY AppendedRange
    <3>4. registry' = [registry EXCEPT ![NextCall.key] = Append(s, h)] /\ hooks' = hooks
      BY <2>2, <3>2 DEF add_entry
    <3> QED  BY <2>2, <3>1, <3>2, <3>3, <3>4 DEF HooksInv, HooksTypeOK
  <2> QED  BY <1>2, <1>3, <2>1, <2>2 DEF InitCallSucceeds
<1>6. ASSUME NEW a \in APIs, NEW k \in Range(registry'[a])
      PROVE  slot'[k] \in loaded' /\ Enters(slot'[k], a)
  <2>1. CASE k \in Range(registry[a])
    BY <1>1, <2>1 DEF RegistryInv, vars
  <2>2. CASE k = h /\ NextCall.table = "registry" /\ NextCall.key = a
    <3>1. Enters(p, a)
      BY <1>4, <2>2 DEF Enters
    <3> QED  BY <1>1, <1>2, <1>3, <2>2, <3>1 DEF vars
  <2> QED  BY <1>5, <1>6, <2>1, <2>2
<1>7. ASSUME NEW q \in loaded' \ Dynamic, NEW i \in 1..CallsMade(q)' PROVE Kept(q, i)'
  <2>1. q \in loaded /\ q \in Objects
    BY <1>1 DEF vars, TypeOK
  <2>2. handle(q)' = handle(q)
    BY <1>1 DEF vars, handle
  <2>3. CallsMade(q)' = IF q = p THEN made + 1 ELSE Len(InitCalls[q])
    BY <1>1, <1>2 DEF CallsMade, Initialising, vars, Top
  <2>4. CASE q = p /\ i = made + 1
    BY <1>3, <1>4, <1>5, <2>2, <2>4 DEF Kept
  <2>5. CASE ~(q = p /\ i = made + 1)
    <3>1. i \in 1..CallsMade(q)
      <4>1. CallsMade(q) = IF q = p THEN made ELSE Len(InitCalls[q])
        BY <1>1, <1>2 DEF CallsMade, Initialising
      <4>2. q = p => i \in 1..made
        BY <1>4, <1>7, <2>3, <2>5
      <4> QED  BY <1>7, <2>3, <4>1, <4>2
    <3>2. i \in 1..Len(InitCalls[q])
      BY <1>4, <1>7, <2>1, <2>3, CallTypes
    <3>3. Kept(q, i)
      BY <1>7, <2>1, <3>1 DEF RegistryInv
    <3>4. CASE InitCalls[q][i].table = "hooks" /\ InitCalls[q][i].key \in HookTypes
      BY <1>5, <2>2, <3>3, <3>4 DEF Kept
    <3>5. CASE InitCalls[q][i].table = "registry" /\ InitCalls[q][i].key \in APIs
      BY <1>5, <2>2, <3>3, <3>5 DEF Kept
    <3> QED  BY <2>1, <3>2, <3>4, <3>5, CallTypes
  <2> QED  BY <2>4, <2>5
<1> QED  BY <1>6, <1>7 DEF RegistryInv

\* Hooks that come and go while an event is dispatched are of plugins that
\* may change theirs.
LEMMA DispatchRegistry ==
    ASSUME NEW rank, RequiresInv(rank), HooksInv, RegistryInv,
           UNCHANGED <<vars, registry, made>>,
           \A t \in HookTypes : \A h \in Range(hooks[t]) :
              slot[h] \notin Dynamic => h \in Range(hooks'[t])
    PROVE  RegistryInv'
<1> USE DEF RequiresInv, LoaderInv, Bookkeeping
<1>1. \A a \in APIs : \A h \in Range(registry'[a]) : slot'[h] \in loaded' /\ Enters(slot'[h], a)
  BY DEF RegistryInv, vars
<1>2. ASSUME NEW q \in loaded' \ Dynamic, NEW i \in 1..CallsMade(q)' PROVE Kept(q, i)'
  <2>1. q \in loaded /\ q \in Objects /\ phase # "gone"
    BY DEF vars, TypeOK, Removed
  <2>2. handle(q)' = handle(q) /\ CallsMade(q)' = CallsMade(q)
    BY DEF vars, handle, CallsMade, Initialising, Top
  <2>3. Kept(q, i)
    BY <1>2, <2>1, <2>2 DEF RegistryInv
  <2>4. slot[handle(q)] = q
    BY <2>1, HandleOf DEF HooksInv, Present
  <2>5. i \in 1..Len(InitCalls[q])
    <3>1. CallsMade(q) \in Nat /\ CallsMade(q) <= Len(InitCalls[q])
      <4>1. CASE Initialising /\ Top.plugin = q
        <5>1. made \in Nat /\ (made # 0 => made <= Len(InitCalls[q]))
          BY <4>1 DEF HooksInv, HooksTypeOK, CallsBound, Calls
        <5> QED  BY <2>1, <4>1, <5>1, CallTypes DEF CallsMade
      <4>2. CASE ~(Initialising /\ Top.plugin = q)
        BY <2>1, <4>2, CallTypes DEF CallsMade
      <4> QED  BY <4>1, <4>2
    <3> QED  BY <1>2, <2>1, <2>2, <3>1, CallTypes
  <2>6. CASE InitCalls[q][i].table = "hooks" /\ InitCalls[q][i].key \in HookTypes
    BY <1>2, <2>2, <2>3, <2>4, <2>6 DEF Kept
  <2>7. CASE InitCalls[q][i].table = "registry" /\ InitCalls[q][i].key \in APIs
    BY <2>2, <2>3, <2>7 DEF Kept
  <2> QED  BY <2>1, <2>5, <2>6, <2>7, CallTypes
<1> QED  BY <1>1, <1>2 DEF RegistryInv

LEMMA HNextRegistry ==
    ASSUME NEW rank, Ranking(rank), RequiresInv(rank), HooksInv, RegistryInv,
           ApisRequired, ApisListen, [HNext]_hvars
    PROVE  RegistryInv'
<1>1. CASE CallHook \/ DispatchReturns \/ (\E t \in HookTypes : Dispatch(t)) \/ UNCHANGED hvars
  <2>1. UNCHANGED <<vars, hooks, registry, made>>
    BY <1>1 DEF CallHook, DispatchReturns, Dispatch, hvars, tables
  <2> QED  BY <2>1, DispatchRegistry
<1>2. ASSUME NEW t \in HookTypes, HookAdds(t) PROVE RegistryInv'
  <2>1. PICK h \in Handles : h = running.owner
    BY <1>2, Dispatched DEF HookAdds, MayChange
  <2>2. PICK s \in Seq(Handles) : s = hooks[t]
    BY DEF HooksInv, HooksTypeOK
  <2>3. hooks' = [hooks EXCEPT ![t] = Append(s, h)] /\ UNCHANGED <<vars, registry, made>>
    BY <1>2, <2>1, <2>2 DEF HookAdds, add_hook
  <2>4. Range(Append(s, h)) = Range(s) \cup {h}
    BY AppendedRange
  <2>5. \A u \in HookTypes : Range(hooks[u]) \subseteq Range(hooks'[u])
    BY <2>2, <2>3, <2>4 DEF HooksInv, HooksTypeOK
  <2> QED  BY <2>3, <2>5, DispatchRegistry
<1>3. ASSUME NEW t \in HookTypes, HookRemoves(t) PROVE RegistryInv'
  <2>1. PICK h \in Handles : h = running.owner /\ slot[h] \in Dynamic
    BY <1>3, Dispatched DEF HookRemoves, MayChange
  <2>2. PICK s \in Seq(Handles) : s = hooks[t]
    BY DEF HooksInv, HooksTypeOK
  <2>3. hooks' = [hooks EXCEPT ![t] = RemoveFirst(s, h)] /\ UNCHANGED <<vars, registry, made>>
    BY <1>3, <2>1, <2>2 DEF HookRemoves
  <2>4. Range(RemoveFirst(s, h)) = Range(s) \ {h}
    BY <2>2, OwnersLeft DEF HooksInv, HooksOnce
  <2>5. \A u \in HookTypes : \A k \in Range(hooks[u]) :
          slot[k] \notin Dynamic => k \in Range(hooks'[u])
    BY <2>1, <2>2, <2>3, <2>4 DEF HooksInv, HooksTypeOK
  <2> QED  BY <2>3, <2>5, DispatchRegistry
<1> QED  BY <1>1, <1>2, <1>3, InitCallRegistry, InitReturnsRegistry, DeloadRegistry,
            TerminatedRegistry, LoaderOnlyRegistry DEF HNext

\* The invariant behind the theorems on registries.
RegistriesInv(rank) == RequiresInv(rank) /\ HooksInv /\ RegistryInv

LEMMA HInitRegistries ==
    ASSUME NEW rank, Ranking(rank), HInit
    PROVE  RegistriesInv(rank)
<1>1. LoaderInv(rank) /\ HooksInv
  BY HInitHooks
<1>2. RequiresInv(rank)
  BY <1>1 DEF HInit, Init, RequiresInv, ServedInv, GroupsNamed, get_group
<1>3. loaded = {} /\ \A a \in APIs : Range(registry[a]) = {}
  BY DEF HInit, Init, Range
<1> QED  BY <1>1, <1>2, <1>3 DEF RegistriesInv, RegistryInv

LEMMA HNextRegistries ==
    ASSUME NEW rank, Ranking(rank), GroupsLast, ApisRequired, ApisListen,
           RegistriesInv(rank), [HNext]_hvars
    PROVE  RegistriesInv(rank)'
<1>1. RequiresInv(rank)'
  BY LoaderStep, NextServed DEF RegistriesInv
<1>2. HooksInv' /\ RegistryInv'
  BY HNextHooks, HNextRegistry DEF RegistriesInv, RequiresInv
<1> QED  BY <1>1, <1>2 DEF RegistriesInv

LEMMA RegistriesInvariant ==
    ASSUME NEW rank, Ranking(rank), GroupsLast, ApisRequired, ApisListen
    PROVE  HSpec => []RegistriesInv(rank)
<1>1. HInit => RegistriesInv(rank)
  BY HInitRegistries
<1>2. RegistriesInv(rank) /\ [HNext]_hvars => RegistriesInv(rank)'
  BY HNextRegistries
<1> QED  BY <1>1, <1>2, PTL DEF HSpec

\* Every entry that a registry hands out is inside a plugin that is loaded,
\* and its api is: through inits that fail after making entries, and through
\* a teardown that takes the api down after those who use it.
THEOREM EntriesStayAlive ==
    ASSUME NEW rank \in [Names -> Nat], Ranks(rank), GroupsLast, ApisRequired, ApisListen
    PROVE  HSpec => []EntriesAlive
<1>1. HSpec => []RegistriesInv(rank)
  BY RegistriesInvariant DEF Ranking
<1>2. RegistriesInv(rank) => EntriesAlive
  BY ApiServes DEF RegistriesInv, RegistryInv, EntriesAlive, Ready
<1> QED  BY <1>1, <1>2, PTL

\* Deloading one plugin takes no hook and no entry away from another.
THEOREM RegistrationsStay ==
    ASSUME NEW rank \in [Names -> Nat], Ranks(rank), GroupsLast, ApisRequired, ApisListen
    PROVE  HSpec => []RegistrationsKept
<1>1. HSpec => []RegistriesInv(rank)
  BY RegistriesInvariant DEF Ranking
<1>2. RegistriesInv(rank) => RegistrationsKept
  <2> SUFFICES ASSUME RegistriesInv(rank), NEW p \in loaded \ Dynamic,
                      ~(stack # <<>> /\ Top.plugin = p /\ Top.pc = "init"),
                      NEW i \in DOMAIN InitCalls[p]
               PROVE  Kept(p, i)
    BY DEF RegistrationsKept, Kept
  <2>1. p \in Objects
    BY DEF RegistriesInv, RequiresInv, LoaderInv, TypeOK
  <2>2. CallsMade(p) = Len(InitCalls[p])
    BY DEF CallsMade, Initialising
  <2> QED  BY <2>1, <2>2, CallTypes DEF RegistriesInv, RegistryInv
<1> QED  BY <1>1, <1>2, PTL

\* add_keybind, add_layout and add_compressor are called for an api that has
\* gone through its init, never for one that is still inside it.
THEOREM ApisAreReady ==
    ASSUME NEW rank \in [Names -> Nat], Ranks(rank), GroupsLast, ApisRequired, ApisListen
    PROVE  HSpec => ApiReady
<1>1. HSpec => []RegistriesInv(rank)
  BY RegistriesInvariant DEF Ranking
<1>2. ASSUME RegistriesInv(rank), [HNext]_hvars, NEW a \in APIs,
             Len(registry'[a]) > Len(registry[a])
      PROVE  get(a) \in loaded /\ get(a) # Top.plugin
  <2>1. LoaderInv(rank) /\ HooksInv /\ RequiresInv(rank) /\ HooksInv'
    BY <1>2, HNextHooks DEF RegistriesInv, RequiresInv, Ranking
  <2>2. registry'[a] # registry[a] /\ Len(registry[a]) \in Nat /\ Len(registry'[a]) \in Nat
    BY <1>2, <2>1, LenProperties DEF HooksInv, HooksTypeOK
  <2>3. ~plugin_deloaded(Top.plugin)
    <3>1. plugin_deloaded(Top.plugin) => Len(registry'[a]) <= Len(registry[a])
      BY <2>1, CleanedTables
    <3> QED  BY <1>2, <2>2, <3>1
  <2>4. InitCallSucceeds
    BY <1>2, <2>2, <2>3
       DEF HNext, hvars, tables, InitReturnsTrue, InitReturnsFalse, DependencyFails, CleanUp,
           DeloadPlugin, Terminated, LoaderOnly, CallHook, DispatchReturns, Dispatch, HookAdds,
           add_hook, HookRemoves
  <2>5. /\ phase = "load" /\ stack # <<>> /\ Top.pc = "init" /\ made < Len(Calls)
        /\ NextCall.table = "registry" /\ NextCall.key = a
    BY <2>1, <2>2, <2>4 DEF InitCallSucceeds, Initialising, add_hook, add_entry, HooksInv,
                            HooksTypeOK
  <2>6. Top.plugin \in loaded /\ Top.plugin \in Objects /\ Top \in Range(stack)
    BY <2>1, <2>5, TopCall, Frames DEF LoaderInv, Bookkeeping, LoadFrame, TypeOK
  <2>7. Enters(Top.plugin, a)
    BY <2>1, <2>5, <2>6, TopCalls, CallTypes DEF Enters, HooksInv, HooksTypeOK, NextCall, Calls
  <2>8. get(a) \in Ready
    BY <2>1, <2>6, <2>7, ApiServes
  <2> QED  BY <2>5, <2>6, <2>8 DEF Ready
<1>3. RegistriesInv(rank) /\ [HNext]_hvars =>
        [\A a \in APIs : Len(registry'[a]) > Len(registry[a]) =>
            /\ get(a) \in loaded
            /\ get(a) # Top.plugin]_hvars
  BY <1>2
<1> QED  BY <1>1, <1>3, PTL DEF HSpec, ApiReady

=============================================================================
