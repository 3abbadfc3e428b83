----------------------------- MODULE FocusProofs -----------------------------
(***************************************************************************)
(* Proofs about Focus, for any number of views, outputs and spaces, and    *)
(* any families of dialogs.                                                *)
(***************************************************************************)
EXTENDS Focus, SequenceTheorems, FiniteSetTheorems, TLAPS

Raising == INSTANCE ListProofs WITH op <- raise_sibling
Trying == INSTANCE ListProofs WITH op <- try_focus

-----------------------------------------------------------------------------
(* Lists *)

LEMMA SameLists ==
  /\ \A s, T : Places(s, T) = Raising!Places(s, T) /\ Without(s, T) = Raising!Without(s, T)
  /\ \A s : Range(s) = Raising!Range(s) /\ (IsInjective(s) <=> Raising!IsInjective(s))
  /\ \A s, x, y : Above(s, x, y) <=> Raising!Above(s, x, y)
  /\ \A t : Max(t) = Raising!Max(t)
<1>1. \A s, T : Only(s, T) = Raising!Only(s, T) /\ Places(s, T) = Raising!Places(s, T)
  BY Zenon DEF Only, Raising!Only, Places, Raising!Places, Place, Raising!Place, Cardinality,
               Raising!Cardinality
<1>2. \A s : Range(s) = Raising!Range(s) /\ (IsInjective(s) <=> Raising!IsInjective(s))
  BY DEF Range, Raising!Range, IsInjective, Raising!IsInjective
<1>3. \A s, x, y : Above(s, x, y) <=> Raising!Above(s, x, y)
  BY DEF Above, Raising!Above
<1>4. \A t : Max(t) = Raising!Max(t)
  BY DEF Max, Raising!Max
<1>5. \A s, T : Without(s, T) = Raising!Without(s, T)
  BY <1>1, <1>2, Zenon DEF Without, Raising!Without
<1> QED BY <1>1, <1>2, <1>3, <1>4, <1>5

\* A list with v moved to its top.
ToFront(s, v) == Append(Without(s, {v}), v)

LEMMA FrontOrder ==
  ASSUME NEW s \in Seq(Views), IsInjective(s), NEW v \in Range(s)
  PROVE  /\ ToFront(s, v) \in Seq(Views) /\ Range(ToFront(s, v)) = Range(s)
         /\ IsInjective(ToFront(s, v))
         /\ \A x, y : Above(ToFront(s, v), x, y) <=>
              y # v /\ ((x = v /\ y \in Range(s)) \/ (x # v /\ Above(s, x, y)))
<1>1. /\ Append(Raising!Without(s, {v}), v) \in Seq(Views)
      /\ Raising!Range(Append(Raising!Without(s, {v}), v)) = Raising!Range(s)
      /\ Raising!IsInjective(Append(Raising!Without(s, {v}), v))
      /\ \A x, y : Raising!Above(Append(Raising!Without(s, {v}), v), x, y) <=>
           y # v /\ ((x = v /\ y \in Raising!Range(s)) \/ (x # v /\ Raising!Above(s, x, y)))
  BY Raising!ToTop, SameLists
<1>2. ToFront(s, v) = Append(Raising!Without(s, {v}), v)
  BY SameLists DEF ToFront
<1> QED BY <1>1, <1>2, SameLists

LEMMA TopOrder ==
  ASSUME NEW s \in Seq(Views), NEW v \in Views
  PROVE  /\ Append(s, v) \in Seq(Views) /\ Range(Append(s, v)) = Range(s) \cup {v}
         /\ IsInjective(s) /\ v \notin Range(s) => IsInjective(Append(s, v))
         /\ \A x, y : Above(Append(s, v), x, y) <=> Above(s, x, y) \/ (x = v /\ y \in Range(s))
  BY Raising!AppendOrder, SameLists

LEMMA RestOrder ==
  ASSUME NEW s \in Seq(Views), NEW T
  PROVE  /\ Without(s, T) \in Seq(Views) /\ Range(Without(s, T)) = Range(s) \ T
         /\ IsInjective(s) => IsInjective(Without(s, T))
         /\ \A x, y : Above(Without(s, T), x, y) <=> x \notin T /\ y \notin T /\ Above(s, x, y)
<1>1. PICK w : w = Raising!Without(s, T)
  OBVIOUS
<1>2. /\ w \in Seq(Views) /\ Raising!Range(w) = Raising!Range(s) \ T
      /\ Raising!IsInjective(s) => Raising!IsInjective(w)
      /\ \A x, y : Raising!Above(w, x, y) <=> x \notin T /\ y \notin T /\ Raising!Above(s, x, y)
  BY <1>1, Raising!WithoutOrder
<1>3. Without(s, T) = w
  BY <1>1, SameLists
<1> QED BY <1>2, <1>3, SameLists

LEMMA ListOrder ==
  ASSUME NEW s \in Seq(Views), IsInjective(s), NEW x, NEW y
  PROVE  /\ Above(s, x, y) => x \in Range(s) /\ y \in Range(s) /\ x # y /\ ~Above(s, y, x)
         /\ x \in Range(s) /\ y \in Range(s) /\ x # y => Above(s, x, y) \/ Above(s, y, x)
  BY Raising!Ordered, SameLists

LEMMA TopmostIs ==
  ASSUME NEW s \in Seq(Views), NEW T
  PROVE  \/ Topmost(s, T) = None /\ Range(s) \cap T = {}
         \/ /\ Topmost(s, T) \in Range(s) /\ Topmost(s, T) \in T
            /\ \A x \in Range(s) \cap T : x = Topmost(s, T) \/ Above(s, Topmost(s, T), x)
<1>1. CASE Places(s, T) = {}
  <2>1. Range(s) \cap T = {}
    BY <1>1 DEF Places, Range
  <2> QED BY <1>1, <2>1 DEF Topmost
<1>2. CASE Places(s, T) # {}
  <2>1. PICK t : t = s[Raising!Max(Raising!Places(s, T))]
    OBVIOUS
  <2>2. /\ t \in Raising!Range(s) /\ t \in T
        /\ \A x \in Raising!Range(s) \cap T : x = t \/ Raising!Above(s, t, x)
    BY <1>2, <2>1, Raising!LastPlace, SameLists
  <2>3. Topmost(s, T) = t
    BY <1>2, <2>1, SameLists DEF Topmost
  <2> QED BY <2>2, <2>3, SameLists
<1> QED BY <1>1, <1>2

LEMMA MembersAreViews ==
  ASSUME NEW s \in Seq(Views)
  PROVE  Range(s) \subseteq Views
<1>1. \A i \in DOMAIN s : s[i] \in Views
  BY LenProperties, ElementOfSeq
<1> QED BY <1>1 DEF Range

-----------------------------------------------------------------------------
(* Desks *)

Desks == [active : Views \cup {None}, action : Views \cup {None},
          stack : [Outputs -> Seq(Views)],
          mask : [Views -> 0..(Spaces - 1)], space : [Outputs -> 0..(Spaces - 1)],
          out : Outputs, parent : [Views -> Views \cup {None}],
          full : SUBSET Views, activated : SUBSET Views]

\* Each view is on at most one output, and there only once.
Sound(d) ==
    /\ d \in Desks
    /\ \A o \in Outputs : IsInjective(d.stack[o])
    /\ \A o \in Outputs, p \in Outputs : o # p => Range(d.stack[o]) \cap Range(d.stack[p]) = {}

\* e is d with another list on output o.
Relisted(d, e, o, s) ==
    /\ e \in Desks
    /\ e.stack[o] = s
    /\ \A p \in Outputs \ {o} : e.stack[p] = d.stack[p]

\* All but the lists and what concerns the focus.
Beside(d, e) ==
    /\ e.action = d.action /\ e.mask = d.mask /\ e.space = d.space /\ e.out = d.out
    /\ e.parent = d.parent /\ e.full = d.full

\* The same views on each output, perhaps in another order.
Shuffled(d, e) ==
    /\ Sound(e) /\ Beside(d, e)
    /\ \A o \in Outputs : Range(e.stack[o]) = Range(d.stack[o])

Restacked(d, e) == Shuffled(d, e) /\ e.active = d.active /\ e.activated = d.activated

LEMMA Listing ==
  ASSUME NEW d, Sound(d)
  PROVE  /\ \A o \in Outputs : /\ d.stack[o] \in Seq(Views)
                               /\ IsInjective(d.stack[o])
                               /\ Range(d.stack[o]) \subseteq Views /\ Range(d.stack[o]) \subseteq Open(d)
         /\ \A v \in Open(d) : /\ OutputOf(d, v) \in Outputs /\ v \in Views /\ v # None
                               /\ v \in Range(Listed(d, v))
         /\ \A o \in Outputs : \A v \in Range(d.stack[o]) : OutputOf(d, v) = o
<1>1. \A o \in Outputs : /\ d.stack[o] \in Seq(Views) /\ IsInjective(d.stack[o])
                         /\ Range(d.stack[o]) \subseteq Open(d)
  BY DEF Sound, Desks, Open
<1>2. \A o \in Outputs : Range(d.stack[o]) \subseteq Views
  BY <1>1, MembersAreViews
<1>3. ASSUME NEW o \in Outputs, NEW v \in Range(d.stack[o]) PROVE OutputOf(d, v) = o
  <2>1. \A p \in Outputs : v \in Range(d.stack[p]) => p = o
    BY DEF Sound
  <2> QED BY <2>1 DEF OutputOf
<1>4. ASSUME NEW v \in Open(d)
      PROVE  OutputOf(d, v) \in Outputs /\ v \in Views /\ v # None /\ v \in Range(Listed(d, v))
  <2>1. PICK o \in Outputs : v \in Range(d.stack[o])
    BY DEF Open
  <2> QED BY <1>2, <1>3, <2>1, FocusConstants DEF Listed
<1> QED BY <1>1, <1>2, <1>3, <1>4

LEMMA Fronted ==
  ASSUME NEW d, Sound(d), NEW v \in Open(d)
  PROVE  /\ Restacked(d, wlc_view_bring_to_front(d, v))
         /\ Relisted(d, wlc_view_bring_to_front(d, v), OutputOf(d, v), ToFront(Listed(d, v), v))
<1> DEFINE e == wlc_view_bring_to_front(d, v)
           o == OutputOf(d, v)
           s == ToFront(d.stack[o], v)
<1>1. o \in Outputs /\ v \in Range(d.stack[o]) /\ v # None
  BY Listing DEF Listed
<1>2. s \in Seq(Views) /\ Range(s) = Range(d.stack[o]) /\ IsInjective(s)
  BY <1>1, FrontOrder, Listing
<1>3. e = [d EXCEPT !.stack[o] = s]
  BY <1>1 DEF wlc_view_bring_to_front, ToFront
<1> HIDE DEF e, s, o
<1>4. /\ e \in Desks /\ e.stack = [d.stack EXCEPT ![o] = s]
      /\ e.active = d.active /\ e.activated = d.activated /\ Beside(d, e)
  BY <1>1, <1>2, <1>3 DEF Sound, Desks, Beside
<1>5. e.stack[o] = s /\ \A p \in Outputs \ {o} : e.stack[p] = d.stack[p]
  BY <1>1, <1>4 DEF Sound, Desks
<1>6. \A p \in Outputs : Range(e.stack[p]) = Range(d.stack[p]) /\ IsInjective(e.stack[p])
  BY <1>2, <1>5 DEF Sound
<1>7. Sound(e)
  BY <1>4, <1>6 DEF Sound
<1> QED BY <1>4, <1>5, <1>6, <1>7 DEF Restacked, Shuffled, Relisted, e, s, o, Listed

LEMMA LenIsCard ==
  ASSUME NEW s \in Seq(Views), IsInjective(s)
  PROVE  /\ IsFiniteSet(Range(s)) /\ Cardinality(Range(s)) = Len(s)
         /\ DOMAIN s = 1..Cardinality(Range(s)) /\ Len(s) \in Nat
<1>1. DOMAIN s = 1..Len(s) /\ Len(s) \in Nat
  BY LenProperties
<1>2. IsFiniteSet(1..Len(s)) /\ Cardinality(1..Len(s)) = Len(s)
  <2>1. IsFiniteSet(1..Len(s)) /\ Cardinality(1..Len(s)) = IF 1 > Len(s) THEN 0 ELSE Len(s) - 1 + 1
    BY <1>1, FS_Interval
  <2>2. (IF 1 > Len(s) THEN 0 ELSE Len(s) - 1 + 1) = Len(s)
    BY <1>1
  <2> QED BY <2>1, <2>2
<1>3. s \in Bijection(1..Len(s), Range(s))
  <2>1. s \in [1..Len(s) -> Range(s)]
    BY <1>1, LenProperties DEF Range
  <2>2. \A t \in Range(s) : \E i \in 1..Len(s) : s[i] = t
    BY <1>1 DEF Range
  <2> QED BY <1>1, <2>1, <2>2 DEF Bijection, Injection, Surjection, IsInjective
<1>4. IsFiniteSet(Range(s)) /\ Cardinality(Range(s)) = Cardinality(1..Len(s))
  <2>1. ExistsBijection(1..Len(s), Range(s))
    BY <1>3 DEF ExistsBijection
  <2> QED BY <1>2, <2>1, FS_Bijection
<1> QED BY <1>1, <1>2, <1>4

LEMMA ShuffledSame ==
  ASSUME NEW d, Sound(d), NEW e, Shuffled(d, e)
  PROVE  /\ Open(e) = Open(d)
         /\ \A o \in Outputs : DOMAIN e.stack[o] = DOMAIN d.stack[o]
         /\ \A v \in Open(d) : OutputOf(e, v) = OutputOf(d, v)
<1>1. Open(e) = Open(d)
  BY DEF Shuffled, Open
<1>2. \A o \in Outputs : DOMAIN e.stack[o] = DOMAIN d.stack[o]
  <2> SUFFICES ASSUME NEW o \in Outputs PROVE DOMAIN e.stack[o] = DOMAIN d.stack[o]
    OBVIOUS
  <2>1. /\ d.stack[o] \in Seq(Views) /\ IsInjective(d.stack[o])
        /\ e.stack[o] \in Seq(Views) /\ IsInjective(e.stack[o])
    BY Listing DEF Shuffled
  <2> QED BY <2>1, LenIsCard DEF Shuffled
<1>3. \A v \in Open(d) : OutputOf(e, v) = OutputOf(d, v)
  <2> SUFFICES ASSUME NEW v \in Open(d) PROVE OutputOf(e, v) = OutputOf(d, v)
    OBVIOUS
  <2>1. OutputOf(d, v) \in Outputs /\ v \in Range(d.stack[OutputOf(d, v)])
    BY Listing DEF Listed
  <2>2. v \in Range(e.stack[OutputOf(d, v)])
    BY <2>1 DEF Shuffled
  <2> QED BY <2>1, <2>2, Listing DEF Shuffled
<1> QED BY <1>1, <1>2, <1>3

LEMMA RestackedTwice ==
  ASSUME NEW d, Sound(d), NEW e, Restacked(d, e), NEW f, Restacked(e, f)
  PROVE  Restacked(d, f)
BY DEF Restacked, Shuffled, Beside

LEMMA RestackedSelf ==
  ASSUME NEW d, Sound(d)
  PROVE  Restacked(d, d)
BY DEF Restacked, Shuffled, Beside

-----------------------------------------------------------------------------
(* Families *)

\* Parents form no cycle: each view has a number that its parent's is below.
Ranked(d) ==
    \E n \in Nat : \E rank \in [Views -> 0..n] :
      \A v \in Views : d.parent[v] # None => rank[d.parent[v]] < rank[v]

Families(d) ==
    /\ \A v \in Views : d.parent[v] # None => v \in Open(d) /\ d.parent[v] \in Open(d)
    /\ Ranked(d)

LEMMA SiblingRaised ==
  ASSUME NEW d, Sound(d), NEW v \in Open(d), NEW i \in DOMAIN Listed(d, v)
  PROVE  Restacked(d, raise_sibling(d, [of |-> v, index |-> i]))
<1> DEFINE s == Listed(d, v)[i]
<1>1. s \in Open(d)
  BY Listing DEF Listed, Range
<1>2. raise_sibling(d, [of |-> v, index |-> i]) =
        IF s # v /\ d.parent[s] = d.parent[v] THEN wlc_view_bring_to_front(d, s) ELSE d
  BY DEF raise_sibling
<1> HIDE DEF s
<1> QED BY <1>1, <1>2, Fronted, RestackedSelf

LEMMA SiblingsRaised ==
  ASSUME NEW d, Sound(d), NEW v \in Open(d)
  PROVE  Restacked(d, raise_siblings(d, v))
<1> DEFINE s == Listed(d, v)
           todo == [i \in DOMAIN s |-> [of |-> v, index |-> i]]
           n == Len(s)
<1>1. s \in Seq(Views) /\ DOMAIN s = 1..n /\ n \in Nat
  <2>1. s \in Seq(Views)
    BY Listing DEF Listed
  <2> QED BY <2>1, LenProperties
<1> HIDE DEF s
<1>2. DOMAIN todo = 1..n /\ Len(todo) = n
  <2>1. todo \in Seq([of : Views, index : 1..n])
    <3>1. v \in Views
      BY Listing
    <3>2. todo \in [1..n -> [of : Views, index : 1..n]]
      BY <1>1, <3>1
    <3> QED BY <1>1, <3>2, SeqDef
  <2>2. DOMAIN todo = 1..n
    BY <1>1
  <2> HIDE DEF todo
  <2> QED BY <1>1, <2>1, <2>2, LenProperties
<1>3. PICK a : /\ a[0] = d
               /\ \A i \in 1..n : a[i] = raise_sibling(a[i - 1], todo[i])
               /\ raise_siblings(d, v) = a[n]
  <2>1. raise_siblings(d, v) = FoldLeft(raise_sibling, d, todo)
    BY DEF raise_siblings, s
  <2> HIDE DEF todo
  <2>2. FoldLeft(raise_sibling, d, todo) = Raising!FoldLeft(raise_sibling, d, todo)
    BY Zenon DEF FoldLeft, Raising!FoldLeft, MapThenFoldSet, Raising!MapThenFoldSet, Max, Raising!Max
  <2>3. PICK base, list : base = d /\ list = todo
    OBVIOUS
  <2>4. Len(list) \in Nat /\ DOMAIN list = 1..Len(list)
    BY <1>1, <1>2, <2>3
  <2>5. \E a : /\ a[0] = base
               /\ \A i \in 1..Len(list) : a[i] = raise_sibling(a[i - 1], list[i])
               /\ Raising!FoldLeft(raise_sibling, base, list) = a[Len(list)]
    BY <2>4, Raising!FoldUnrolled, ZenonT(60)
  <2> QED BY <1>2, <2>1, <2>2, <2>3, <2>5, Zenon
<1>4. \A i \in 1..n : a[i] = raise_sibling(a[i - 1], [of |-> v, index |-> i])
  BY <1>1, <1>3
<1> DEFINE Done == {j \in Nat : j <= n => Restacked(d, a[j])}
<1>5. 0 \in Done
  BY <1>3, RestackedSelf
<1>6. ASSUME NEW j \in Nat, j \in Done PROVE j + 1 \in Done
  <2> SUFFICES ASSUME j + 1 <= n PROVE Restacked(d, a[j + 1])
    OBVIOUS
  <2>1. Restacked(d, a[j]) /\ j + 1 \in 1..n /\ (j + 1) - 1 = j
    BY <1>1, <1>6
  <2>2. a[j + 1] = raise_sibling(a[j], [of |-> v, index |-> j + 1])
    BY <1>4, <2>1
  <2>3. PICK e : e = a[j]
    OBVIOUS
  <2>4. Sound(e) /\ v \in Open(e) /\ j + 1 \in DOMAIN Listed(e, v)
    <3>1. Shuffled(d, e) /\ Sound(e)
      BY <2>1, <2>3 DEF Restacked, Shuffled
    <3>2. OutputOf(d, v) \in Outputs
      BY Listing
    <3> QED BY <1>1, <2>1, <3>1, <3>2, ShuffledSame DEF Listed, s
  <2>5. Restacked(e, raise_sibling(e, [of |-> v, index |-> j + 1]))
    BY <2>4, SiblingRaised
  <2> QED BY <2>1, <2>2, <2>3, <2>5, RestackedTwice
<1>7. n \in Done
  <2> HIDE DEF Done
  <2> QED BY <1>1, <1>5, <1>6, Raising!Induction
<1> QED BY <1>1, <1>3, <1>7

\* raise_all up the chain of parents: what the recursion gives for each view.
LEMMA RaiseUnrolled ==
  ASSUME NEW d, Ranked(d), d.parent \in [Views -> Views \cup {None}]
  PROVE  \E r : /\ \A v \in Views : raise_all(d, v) = r[v]
                /\ \A x \in Views : r[x] =
                     IF ~is_managed(x) THEN d
                     ELSE IF d.parent[x] = None THEN wlc_view_bring_to_front(d, x)
                     ELSE wlc_view_bring_to_front(raise_siblings(r[d.parent[x]], x), x)
<1> DEFINE Step(r, x) == IF ~is_managed(x) THEN d
                         ELSE IF d.parent[x] = None THEN wlc_view_bring_to_front(d, x)
                         ELSE wlc_view_bring_to_front(raise_siblings(r[d.parent[x]], x), x)
           all == CHOOSE r : r = [x \in Views |-> Step(r, x)]
<1>1. PICK n \in Nat : \E rank \in [Views -> 0..n] :
         \A v \in Views : d.parent[v] # None => rank[d.parent[v]] < rank[v]
  BY DEF Ranked
<1>2. PICK rank \in [Views -> 0..n] :
         \A v \in Views : d.parent[v] # None => rank[d.parent[v]] < rank[v]
  BY <1>1
<1>3. \A r, q, x : (d.parent[x] # None => r[d.parent[x]] = q[d.parent[x]]) => Step(r, x) = Step(q, x)
  OBVIOUS
<1>4. \A v \in Views : raise_all(d, v) = all[v]
  BY DEF raise_all
<1> HIDE DEF Step
<1> DEFINE Done == {k \in Nat : \E r : \A x \in Views : rank[x] < k => r[x] = Step(r, x)}
<1>5. 0 \in Done
  <2>1. \A x \in Views : ~(rank[x] < 0)
    BY <1>2
  <2> QED BY <2>1
<1>6. ASSUME NEW k \in Nat, k \in Done PROVE k + 1 \in Done
  <2>1. PICK q : \A x \in Views : rank[x] < k => q[x] = Step(q, x)
    BY <1>6
  <2> DEFINE r == [x \in Views |-> IF rank[x] < k THEN q[x] ELSE Step(q, x)]
  <2>2. \A x \in Views : rank[x] < k => r[x] = q[x]
    OBVIOUS
  <2>3. \A x \in Views : rank[x] < k + 1 => r[x] = Step(q, x)
    BY <2>1
  <2> HIDE DEF r
  <2>4. ASSUME NEW x \in Views, rank[x] < k + 1 PROVE r[x] = Step(r, x)
    <3>1. d.parent[x] # None => rank[d.parent[x]] < k /\ d.parent[x] \in Views
      BY <1>2, <2>4
    <3>2. Step(r, x) = Step(q, x)
      BY <1>3, <2>2, <3>1
    <3> QED BY <2>3, <2>4, <3>2
  <2> QED BY <2>4
<1>7. n + 1 \in Done
  <2> HIDE DEF Done
  <2> QED BY <1>5, <1>6, Raising!Induction
<1>8. PICK q : \A x \in Views : q[x] = Step(q, x)
  BY <1>2, <1>7
<1> DEFINE r == [x \in Views |-> q[x]]
<1>9. r = [x \in Views |-> Step(r, x)]
  <2>1. ASSUME NEW x \in Views PROVE r[x] = Step(r, x)
    <3>1. d.parent[x] # None => r[d.parent[x]] = q[d.parent[x]]
      OBVIOUS
    <3>2. Step(r, x) = Step(q, x)
      <4> HIDE DEF r
      <4> QED BY <1>3, <3>1
    <3> QED BY <1>8, <3>2
  <2>2. r = [x \in Views |-> r[x]]
    OBVIOUS
  <2> HIDE DEF r
  <2> QED BY <2>1, <2>2
<1>10. all = [x \in Views |-> Step(all, x)]
  <2> HIDE DEF r
  <2> QED BY <1>9
<1>11. \A x \in Views : all[x] = Step(all, x)
  <2> HIDE DEF all
  <2> QED BY <1>10
<1> HIDE DEF all
<1> QED BY <1>4, <1>11 DEF Step

\* raise_all ends with the view itself on top of its list.
LEMMA AllRaised ==
  ASSUME NEW d, Sound(d), Families(d), NEW v \in Open(d), is_managed(v)
  PROVE  /\ Restacked(d, raise_all(d, v))
         /\ \A w \in Range(Listed(d, v)) \ {v} : Above(Listed(raise_all(d, v), v), v, w)
         /\ d.parent[v] = None => raise_all(d, v) = wlc_view_bring_to_front(d, v)
<1>1. d.parent \in [Views -> Views \cup {None}]
  BY DEF Sound, Desks
<1>2. PICK r : /\ \A x \in Views : raise_all(d, x) = r[x]
               /\ \A x \in Views : r[x] =
                     IF ~is_managed(x) THEN d
                     ELSE IF d.parent[x] = None THEN wlc_view_bring_to_front(d, x)
                     ELSE wlc_view_bring_to_front(raise_siblings(r[d.parent[x]], x), x)
  BY <1>1, RaiseUnrolled DEF Families
<1>3. PICK n \in Nat : \E rank \in [Views -> 0..n] :
         \A x \in Views : d.parent[x] # None => rank[d.parent[x]] < rank[x]
  BY DEF Families, Ranked
<1>4. PICK rank \in [Views -> 0..n] :
         \A x \in Views : d.parent[x] # None => rank[d.parent[x]] < rank[x]
  BY <1>3
<1> DEFINE Below(x) == IF d.parent[x] = None THEN d ELSE raise_siblings(r[d.parent[x]], x)
           Done == {k \in Nat : \A x \in Open(d) : rank[x] < k => Restacked(d, r[x])}
<1>5. \A x \in Open(d) : x \in Views /\ x # None
  BY Listing
<1>6. ASSUME NEW x \in Open(d), d.parent[x] # None => Restacked(d, r[d.parent[x]])
      PROVE  /\ Restacked(d, Below(x)) /\ x \in Open(Below(x))
             /\ OutputOf(Below(x), x) = OutputOf(d, x)
             /\ is_managed(x) => r[x] = wlc_view_bring_to_front(Below(x), x)
             /\ Restacked(d, r[x])
  <2>1. CASE d.parent[x] = None
    <3>1. Below(x) = d
      BY <2>1
    <3> QED BY <1>2, <1>5, <2>1, <3>1, Fronted, RestackedSelf
  <2>2. CASE d.parent[x] # None
    <3>1. PICK e : e = r[d.parent[x]]
      OBVIOUS
    <3>2. Restacked(d, e) /\ Sound(e) /\ x \in Open(e)
      BY <1>6, <2>2, <3>1, ShuffledSame DEF Restacked, Shuffled
    <3>3. PICK f : f = raise_siblings(e, x)
      OBVIOUS
    <3>4. Restacked(e, f)
      BY <3>2, <3>3, SiblingsRaised
    <3>5. Restacked(d, f) /\ Sound(f) /\ x \in Open(f) /\ OutputOf(f, x) = OutputOf(d, x)
      <4>1. Restacked(d, f)
        BY <3>2, <3>4, RestackedTwice
      <4> QED BY <4>1, ShuffledSame DEF Restacked, Shuffled
    <3>6. Restacked(d, wlc_view_bring_to_front(f, x))
      BY <3>5, Fronted, RestackedTwice
    <3>7. Below(x) = f
      BY <2>2, <3>1, <3>3
    <3> HIDE DEF Below
    <3>8. r[x] = IF ~is_managed(x) THEN d ELSE wlc_view_bring_to_front(f, x)
      BY <1>2, <1>5, <2>2, <3>1, <3>3
    <3> QED BY <3>5, <3>6, <3>7, <3>8, RestackedSelf
  <2> QED BY <2>1, <2>2
<1>7. 0 \in Done
  <2>1. \A x \in Open(d) : ~(rank[x] < 0)
    BY <1>4, <1>5
  <2> QED BY <2>1
<1>8. ASSUME NEW k \in Nat, k \in Done PROVE k + 1 \in Done
  <2> SUFFICES ASSUME NEW x \in Open(d), rank[x] < k + 1 PROVE Restacked(d, r[x])
    OBVIOUS
  <2>1. d.parent[x] # None => d.parent[x] \in Open(d) /\ rank[d.parent[x]] < k
    <3>1. d.parent[x] # None => d.parent[x] \in Open(d) /\ d.parent[x] \in Views
      BY <1>5 DEF Families
    <3> QED BY <1>4, <1>5, <3>1
  <2>2. d.parent[x] # None => Restacked(d, r[d.parent[x]])
    BY <1>8, <2>1
  <2> QED BY <1>6, <2>2
<1>9. n + 1 \in Done
  <2> HIDE DEF Done
  <2> QED BY <1>7, <1>8, Raising!Induction
<1>10. \A x \in Open(d) : Restacked(d, r[x])
  <2>1. \A x \in Open(d) : rank[x] < n + 1
    BY <1>4, <1>5
  <2> QED BY <1>9, <2>1
<1>11. PICK f : f = Below(v)
  OBVIOUS
<1>12. /\ Restacked(d, f) /\ v \in Open(f) /\ OutputOf(f, v) = OutputOf(d, v)
       /\ raise_all(d, v) = wlc_view_bring_to_front(f, v)
  <2>1. d.parent[v] # None => Restacked(d, r[d.parent[v]])
    BY <1>5, <1>10 DEF Families
  <2> HIDE DEF Below
  <2> QED BY <1>2, <1>5, <1>6, <1>11, <2>1
<1>13. d.parent[v] = None => f = d
  BY <1>11
<1>14. Sound(f)
  BY <1>12 DEF Restacked, Shuffled
<1> HIDE DEF Below
<1>15. PICK e : e = wlc_view_bring_to_front(f, v)
  OBVIOUS
<1>16. Restacked(d, e) /\ OutputOf(e, v) = OutputOf(d, v)
  <2>1. Restacked(f, e)
    BY <1>12, <1>14, <1>15, Fronted
  <2>2. Restacked(d, e)
    BY <1>12, <2>1, RestackedTwice
  <2> QED BY <2>2, ShuffledSame DEF Restacked
<1>17. ASSUME NEW w \in Range(Listed(d, v)) \ {v} PROVE Above(Listed(e, v), v, w)
  <2>1. PICK o \in Outputs : o = OutputOf(d, v)
    BY Listing
  <2>2. e.stack[o] = ToFront(f.stack[o], v)
    BY <1>12, <1>14, <1>15, <2>1, Fronted DEF Relisted, Listed
  <2>3. v \in Range(f.stack[o]) /\ w \in Range(f.stack[o])
    BY <1>12, <2>1, Listing DEF Listed, Restacked, Shuffled
  <2>4. PICK s \in Seq(Views) : s = f.stack[o] /\ IsInjective(s) /\ v \in Range(s) /\ w \in Range(s)
    BY <1>14, <2>1, <2>3, Listing
  <2>5. Above(ToFront(s, v), v, w)
    BY <1>17, <2>4, FrontOrder
  <2>6. Listed(e, v) = ToFront(s, v)
    BY <1>16, <2>1, <2>2, <2>4 DEF Listed
  <2> QED BY <2>5, <2>6
<1> QED BY <1>12, <1>13, <1>15, <1>16, <1>17

-----------------------------------------------------------------------------
(* focus_view *)

\* A view of a list is brought to front, if there is one to be found.
LEMMA FoundFronted ==
  ASSUME NEW d, Sound(d), NEW v \in Open(d), NEW T
  PROVE  LET t == Topmost(Listed(d, v), T) IN
         /\ Restacked(d, wlc_view_bring_to_front(d, t))
         /\ t = None \/ (t \in T /\ t \in Open(d) /\ OutputOf(d, t) = OutputOf(d, v))
<1>1. PICK t : t = Topmost(Listed(d, v), T)
  OBVIOUS
<1>2. Listed(d, v) \in Seq(Views) /\ OutputOf(d, v) \in Outputs
  BY Listing DEF Listed
<1>3. t = None \/ (t \in T /\ t \in Range(Listed(d, v)))
  BY <1>1, <1>2, TopmostIs
<1>4. t = None \/ (t \in T /\ t \in Open(d) /\ OutputOf(d, t) = OutputOf(d, v))
  BY <1>2, <1>3, Listing DEF Listed
<1>5. Restacked(d, wlc_view_bring_to_front(d, t))
  <2>1. CASE t = None
    BY <2>1, RestackedSelf DEF wlc_view_bring_to_front
  <2> QED BY <1>4, <2>1, Fronted
<1> QED BY <1>1, <1>4, <1>5

\* e is d with the focus taken by v, over everything on its output but menus.
Taken(d, e, v) ==
    /\ Shuffled(d, e)
    /\ e.active = v
    /\ e.activated = (d.activated \ ({d.active} \cap Range(d.stack[d.out])))
                     \cup ({v} \cap Range(d.stack[d.out]))
    /\ \A w \in Range(Listed(e, v)) \ {v} : Above(Listed(e, v), v, w) \/ is_bemenu(w)

LEMMA FamiliesStay ==
  ASSUME NEW d, Sound(d), Families(d), NEW e, Shuffled(d, e)
  PROVE  Families(e)
<1>1. Open(e) = Open(d) /\ e.parent = d.parent
  BY ShuffledSame DEF Shuffled, Beside
<1> QED BY <1>1 DEF Families, Ranked

LEMMA FocusTaken ==
  ASSUME NEW d, Sound(d), Families(d), NEW v \in Open(d), is_managed(v)
  PROVE  Taken(d, take_focus(d, v), v)
<1>1. PICK p : p = peek(d, v)
  OBVIOUS
<1>2. Restacked(d, p) /\ Sound(p) /\ Families(p) /\ v \in Open(p)
  <2>1. Restacked(d, p)
    BY <1>1, FoundFronted, RestackedSelf DEF peek
  <2> QED BY <2>1, ShuffledSame, FamiliesStay DEF Restacked, Shuffled
<1>3. PICK r : r = raise_all(p, v)
  OBVIOUS
<1>4. Restacked(p, r) /\ \A w \in Range(Listed(p, v)) \ {v} : Above(Listed(r, v), v, w)
  BY <1>2, <1>3, AllRaised
<1>5. Restacked(d, r) /\ Sound(r) /\ v \in Open(r) /\ OutputOf(r, v) = OutputOf(d, v)
  <2>1. Restacked(d, r)
    BY <1>2, <1>4, RestackedTwice
  <2> QED BY <2>1, ShuffledSame DEF Restacked, Shuffled
<1>6. \A w \in Range(Listed(r, v)) \ {v} : Above(Listed(r, v), v, w)
  <2>1. Range(Listed(p, v)) = Range(Listed(r, v))
    BY <1>2, <1>4, ShuffledSame, Listing DEF Listed, Restacked, Shuffled
  <2> QED BY <1>4, <2>1
<1>7. PICK t : t = Topmost(Listed(r, v), Bemenus)
  OBVIOUS
<1>8. PICK b : b = wlc_view_bring_to_front(r, t)
  OBVIOUS
<1>9. /\ Restacked(r, b)
      /\ t = None \/ (t \in Bemenus /\ t \in Open(r) /\ OutputOf(r, t) = OutputOf(r, v))
  BY <1>5, <1>7, <1>8, FoundFronted
<1>10. Restacked(d, b) /\ Sound(b) /\ OutputOf(b, v) = OutputOf(d, v) /\ OutputOf(d, v) \in Outputs
  <2>1. Restacked(d, b)
    BY <1>5, <1>9, RestackedTwice
  <2> QED BY <2>1, ShuffledSame, Listing DEF Restacked, Shuffled
<1>11. ASSUME NEW w \in Range(Listed(b, v)) \ {v} PROVE Above(Listed(b, v), v, w) \/ is_bemenu(w)
  <2>1. PICK o \in Outputs : o = OutputOf(d, v)
    BY <1>10
  <2>2. w \in Range(r.stack[o]) /\ v \in Range(r.stack[o]) /\ Above(r.stack[o], v, w)
    <3>1. Range(b.stack[o]) = Range(r.stack[o])
      BY <1>9, <2>1 DEF Restacked, Shuffled
    <3>2. w \in Range(r.stack[o])
      BY <1>10, <1>11, <2>1, <3>1 DEF Listed
    <3>3. v \in Range(r.stack[o])
      BY <1>5, <2>1, Listing DEF Listed
    <3> QED BY <1>5, <1>6, <2>1, <3>2, <3>3 DEF Listed
  <2>3. CASE t = None
    <3>1. b = r
      BY <1>8, <2>3 DEF wlc_view_bring_to_front
    <3> QED BY <1>10, <2>1, <2>2, <3>1 DEF Listed
  <2>4. CASE t # None
    <3>1. t \in Bemenus /\ t \in Open(r) /\ OutputOf(r, t) = o
      BY <1>5, <1>9, <2>1, <2>4
    <3>2. b.stack[o] = ToFront(r.stack[o], t) /\ t \in Range(r.stack[o])
      BY <1>5, <1>8, <3>1, Fronted, Listing DEF Relisted, Listed
    <3>3. \A x, y : Above(b.stack[o], x, y) <=>
              y # t /\ ((x = t /\ y \in Range(r.stack[o])) \/ (x # t /\ Above(r.stack[o], x, y)))
      BY <1>5, <2>1, <3>2, FrontOrder, Listing
    <3>4. w = t \/ Above(b.stack[o], v, w)
      BY <2>2, <3>3
    <3> QED BY <1>10, <2>1, <3>1, <3>4 DEF Bemenus, Listed
  <2> QED BY <2>3, <2>4
<1>12. PICK e : e = take_focus(d, v)
  OBVIOUS
<1>13. e = [view_focus(b, d.active, v) EXCEPT !.active = v]
  BY <1>1, <1>3, <1>7, <1>8, <1>12 DEF take_focus, bemenu_to_front
<1>14. v \in Views /\ b \in Desks
  BY <1>10, Listing DEF Sound
<1>15. /\ e \in Desks /\ e.stack = b.stack /\ Beside(b, e) /\ e.active = v
       /\ e.activated = (b.activated \ ({d.active} \cap Range(b.stack[b.out])))
                        \cup ({v} \cap Range(b.stack[b.out]))
  BY <1>13, <1>14 DEF view_focus, Desks, Beside
<1>16. /\ b.activated = d.activated /\ b.out = d.out /\ Range(b.stack[b.out]) = Range(d.stack[d.out])
       /\ Beside(d, b)
  <2>1. b.out = d.out /\ b.out \in Outputs
    BY <1>10 DEF Restacked, Shuffled, Beside, Sound, Desks
  <2> QED BY <1>10, <2>1 DEF Restacked, Shuffled
<1>17. Shuffled(d, e)
  <2>1. Sound(e)
    BY <1>10, <1>15 DEF Sound
  <2>2. \A o \in Outputs : Range(e.stack[o]) = Range(d.stack[o])
    BY <1>10, <1>15 DEF Restacked, Shuffled
  <2>3. Beside(d, e)
    BY <1>15, <1>16 DEF Beside
  <2> QED BY <2>1, <2>2, <2>3 DEF Shuffled
<1>18. Listed(e, v) = Listed(b, v)
  BY <1>15 DEF Listed, OutputOf
<1> QED BY <1>11, <1>12, <1>15, <1>16, <1>17, <1>18 DEF Taken

LEMMA ChildFound ==
  ASSUME NEW d, Sound(d), Families(d), NEW x \in Views
  PROVE  \/ child_on_top(d, x) = None
         \/ /\ child_on_top(d, x) \in Open(d) /\ child_on_top(d, x) \in Views
            /\ d.parent[child_on_top(d, x)] = x
<1> DEFINE T == {w \in Views : d.parent[w] = x}
<1>1. CASE x \in Open(d)
  <2>1. child_on_top(d, x) = Topmost(Listed(d, x), T)
    BY DEF child_on_top
  <2> HIDE DEF T
  <2>2. child_on_top(d, x) = None \/ (child_on_top(d, x) \in T /\ child_on_top(d, x) \in Open(d))
    BY <1>1, <2>1, FoundFronted
  <2> QED BY <2>2 DEF T
<1>2. CASE x \notin Open(d)
  <2>1. T = {}
    BY <1>2, FocusConstants DEF Families
  <2>2. Places(Listed(d, x), T) = {}
    BY <2>1 DEF Places
  <2> QED BY <2>2 DEF child_on_top, Topmost
<1> QED BY <1>1, <1>2

\* focus_view down the children on top: what the recursion gives for each view.
LEMMA DownUnrolled ==
  ASSUME NEW d, Sound(d), Families(d)
  PROVE  \E f : /\ \A v \in Views : focus_down(d, v) = f[v]
                /\ \A x \in Views : f[x] =
                     IF x = d.active \/ ~is_managed(x) THEN d
                     ELSE IF child_on_top(d, x) = None THEN take_focus(d, x)
                     ELSE f[child_on_top(d, x)]
<1> DEFINE child(x) == child_on_top(d, x)
           Step(f, x) == IF x = d.active \/ ~is_managed(x) THEN d
                         ELSE IF child_on_top(d, x) = None THEN take_focus(d, x)
                         ELSE f[child_on_top(d, x)]
           all == CHOOSE f : f = [x \in Views |-> Step(f, x)]
<1>1. PICK n \in Nat : \E rank \in [Views -> 0..n] :
         \A v \in Views : d.parent[v] # None => rank[d.parent[v]] < rank[v]
  BY DEF Families, Ranked
<1>2. PICK rank \in [Views -> 0..n] :
         \A v \in Views : d.parent[v] # None => rank[d.parent[v]] < rank[v]
  BY <1>1
<1>3. \A f, g, x : (child(x) # None => f[child(x)] = g[child(x)]) => Step(f, x) = Step(g, x)
  OBVIOUS
<1>4. \A v \in Views : focus_down(d, v) = all[v]
  BY DEF focus_down
<1>5. \A x \in Views : child(x) # None => child(x) \in Views /\ rank[x] < rank[child(x)]
  BY <1>2, ChildFound, FocusConstants
<1> HIDE DEF Step, child
<1> DEFINE Done == {k \in Nat : \E f : \A x \in Views : rank[x] > n - k => f[x] = Step(f, x)}
<1>6. 0 \in Done
  <2>1. \A x \in Views : ~(rank[x] > n - 0)
    BY <1>2
  <2> QED BY <2>1
<1>7. ASSUME NEW k \in Nat, k \in Done PROVE k + 1 \in Done
  <2>1. PICK g : \A x \in Views : rank[x] > n - k => g[x] = Step(g, x)
    BY <1>7
  <2> DEFINE f == [x \in Views |-> IF rank[x] > n - k THEN g[x] ELSE Step(g, x)]
  <2>2. \A x \in Views : rank[x] > n - k => f[x] = g[x]
    OBVIOUS
  <2>3. \A x \in Views : f[x] = Step(g, x)
    BY <2>1
  <2> HIDE DEF f
  <2>4. ASSUME NEW x \in Views, rank[x] > n - (k + 1) PROVE f[x] = Step(f, x)
    <3>1. child(x) # None => rank[child(x)] > n - k /\ child(x) \in Views
      <4>1. child(x) # None => child(x) \in Views /\ rank[x] < rank[child(x)]
        BY <1>5
      <4>2. rank[x] \in 0..n /\ (child(x) \in Views => rank[child(x)] \in 0..n)
        BY <1>2
      <4> QED BY <2>4, <4>1, <4>2
    <3>2. Step(f, x) = Step(g, x)
      BY <1>3, <2>2, <3>1
    <3> QED BY <2>3, <3>2
  <2> QED BY <2>4
<1>8. n + 1 \in Done
  <2> HIDE DEF Done
  <2> QED BY <1>6, <1>7, Raising!Induction
<1>9. PICK g : \A x \in Views : g[x] = Step(g, x)
  <2>1. \A x \in Views : rank[x] > n - (n + 1)
    BY <1>2
  <2> QED BY <1>8, <2>1
<1> DEFINE f == [x \in Views |-> g[x]]
<1>10. f = [x \in Views |-> Step(f, x)]
  <2>1. ASSUME NEW x \in Views PROVE f[x] = Step(f, x)
    <3>1. child(x) # None => f[child(x)] = g[child(x)]
      BY <1>5
    <3>2. Step(f, x) = Step(g, x)
      <4> HIDE DEF f
      <4> QED BY <1>3, <3>1
    <3> QED BY <1>9, <3>2
  <2>2. f = [x \in Views |-> f[x]]
    OBVIOUS
  <2> HIDE DEF f
  <2> QED BY <2>1, <2>2
<1>11. all = [x \in Views |-> Step(all, x)]
  <2> HIDE DEF f
  <2> QED BY <1>10
<1>12. \A x \in Views : all[x] = Step(all, x)
  <2> HIDE DEF all
  <2> QED BY <1>11
<1> HIDE DEF all
<1> QED BY <1>4, <1>12 DEF Step

\* The focus passes from v to its dialogs, theirs and so on: it stays in a set
\* of views that contains their dialogs.
LEMMA FocusedDown ==
  ASSUME NEW d, Sound(d), Families(d), NEW T, NEW v \in Open(d), v \in T,
         \A x \in Views : d.parent[x] \in T => x \in T
  PROVE  \/ /\ focus_down(d, v) = d
            /\ \E x \in T \cap Open(d) : x = d.active \/ ~is_managed(x)
         \/ \E x \in T \cap Open(d) : /\ is_managed(x) /\ x # d.active
                                      /\ focus_down(d, v) = take_focus(d, x)
<1> DEFINE Ends(e) == \/ /\ e = d
                         /\ \E x \in T \cap Open(d) : x = d.active \/ ~is_managed(x)
                      \/ \E x \in T \cap Open(d) : /\ is_managed(x) /\ x # d.active
                                                   /\ e = take_focus(d, x)
<1>1. PICK f : /\ \A x \in Views : focus_down(d, x) = f[x]
               /\ \A x \in Views : f[x] =
                    IF x = d.active \/ ~is_managed(x) THEN d
                    ELSE IF child_on_top(d, x) = None THEN take_focus(d, x)
                    ELSE f[child_on_top(d, x)]
  BY DownUnrolled
<1>2. PICK n \in Nat : \E rank \in [Views -> 0..n] :
         \A x \in Views : d.parent[x] # None => rank[d.parent[x]] < rank[x]
  BY DEF Families, Ranked
<1>3. PICK rank \in [Views -> 0..n] :
         \A x \in Views : d.parent[x] # None => rank[d.parent[x]] < rank[x]
  BY <1>2
<1>4. \A x \in Open(d) : x \in Views
  BY Listing
<1> DEFINE Done == {k \in Nat : \A x \in T \cap Open(d) : rank[x] > n - k => Ends(f[x])}
<1>5. 0 \in Done
  <2>1. \A x \in Open(d) : ~(rank[x] > n - 0)
    BY <1>3, <1>4
  <2> QED BY <2>1
<1>6. ASSUME NEW k \in Nat, k \in Done PROVE k + 1 \in Done
  <2> SUFFICES ASSUME NEW x \in T \cap Open(d), rank[x] > n - (k + 1) PROVE Ends(f[x])
    OBVIOUS
  <2>1. x \in Views
    BY <1>4
  <2>2. PICK c : c = child_on_top(d, x)
    OBVIOUS
  <2>3. CASE x = d.active \/ ~is_managed(x)
    BY <1>1, <2>1, <2>3
  <2>4. CASE x # d.active /\ is_managed(x) /\ c = None
    <3>1. f[x] = take_focus(d, x)
      BY <1>1, <2>1, <2>2, <2>4
    <3> HIDE DEF Done
    <3> QED BY <2>4, <3>1
  <2>5. CASE x # d.active /\ is_managed(x) /\ c # None
    <3>1. f[x] = f[c] /\ c \in Open(d) /\ c \in Views /\ d.parent[c] = x /\ x # None
      BY <1>1, <2>1, <2>2, <2>5, ChildFound, FocusConstants
    <3>2. rank[x] < rank[c] /\ rank[x] \in 0..n /\ rank[c] \in 0..n
      BY <1>3, <2>1, <3>1
    <3>3. rank[c] > n - k /\ c \in T \cap Open(d)
      BY <2>1, <3>1, <3>2
    <3>4. Ends(f[c])
      <4> HIDE DEF Ends
      <4> QED BY <1>6, <3>3
    <3> HIDE DEF Ends, Done
    <3> QED BY <3>1, <3>4
  <2> HIDE DEF Ends, Done
  <2> QED BY <2>3, <2>4, <2>5
<1>7. n + 1 \in Done
  <2> HIDE DEF Done
  <2> QED BY <1>5, <1>6, Raising!Induction
<1>8. rank[v] > n - (n + 1) /\ v \in Views
  BY <1>3, <1>4
<1>9. Ends(f[v])
  <2> HIDE DEF Ends
  <2> QED BY <1>7, <1>8
<1> QED BY <1>1, <1>8, <1>9

\* What focus_view may do.
Refocused(d, e) ==
    \/ e = d
    \/ is_bemenu(d.active) /\ e = wlc_view_bring_to_front(d, d.active)
    \/ ~is_bemenu(d.active) /\ e = [view_focus(d, d.active, None) EXCEPT !.active = None]
    \/ /\ ~is_bemenu(d.active)
       /\ \E x \in Open(d) : is_managed(x) /\ x # d.active /\ e = take_focus(d, x)

LEMMA FocusViewed ==
  ASSUME NEW d, Sound(d), Families(d), NEW v \in Open(d) \cup {None}
  PROVE  Refocused(d, focus_view(d, v))
<1>1. CASE v \notin Open(d) \/ v = d.active \/ ~is_managed(v) \/ is_bemenu(d.active)
  BY <1>1, Listing DEF focus_view, Refocused
<1>2. CASE v \in Open(d) /\ v # d.active /\ is_managed(v) /\ ~is_bemenu(d.active)
  <2>1. focus_view(d, v) = focus_down(d, v)
    BY <1>2, Listing DEF focus_view
  <2>2. \/ focus_down(d, v) = d
        \/ \E x \in Open(d) : /\ is_managed(x) /\ x # d.active
                              /\ focus_down(d, v) = take_focus(d, x)
    <3>1. PICK T : T = Views \cup {v}
      OBVIOUS
    <3>2. v \in T /\ \A x \in Views : d.parent[x] \in T => x \in T
      BY <3>1
    <3> QED BY <1>2, <3>2, FocusedDown
  <2> QED BY <1>2, <2>1, <2>2 DEF Refocused
<1> QED BY <1>1, <1>2

-----------------------------------------------------------------------------
(* The invariant *)

DeskInv(d) ==
    /\ Sound(d) /\ Families(d)
    /\ d.full \subseteq Open(d) /\ d.activated \subseteq Open(d)
    /\ d.active # None => d.active \in Open(d) /\ is_managed(d.active)

\* A bemenu opens where the focus is, and as nobody's dialog.
MenusFirst == Bemenus = {} \/ (~Elsewhere /\ Bemenus \subseteq Orphans)

MenuInv(d) == \A v \in Open(d) : is_bemenu(v) => d.active = v

PeekInv(d) ==
    d.active # None => \A f \in d.full \ {d.active} : ~Above(Listed(d, d.active), f, d.active)

OverInv(d) ==
    d.active # None /\ d.parent[d.active] \in Range(Listed(d, d.active)) =>
      Above(Listed(d, d.active), d.active, d.parent[d.active])

\* What the focus brings with it holds of the active view if a handler has
\* moved the focus, and otherwise if it held before and the handler keeps it:
\* pre tells the active view before, and what is kept.
Due(what, d, pre) == MenusFirst /\ (what \in pre.kept \/ d.active # pre.active)

FocusInv(d, pre) ==
    /\ DeskInv(d)
    /\ MenusFirst => MenuInv(d)
    /\ Due("peek", d, pre) => PeekInv(d)
    /\ Due("over", d, pre) => OverInv(d)

\* Nothing is over the view on top of a list.
LEMMA OnTop ==
  ASSUME NEW d, Sound(d), NEW v \in Open(d),
         \A w \in Range(Listed(d, v)) \ {v} : Above(Listed(d, v), v, w)
  PROVE  \A w : ~Above(Listed(d, v), w, v)
<1>1. Listed(d, v) \in Seq(Views) /\ IsInjective(Listed(d, v))
  BY Listing DEF Listed
<1>2. ASSUME NEW w, Above(Listed(d, v), w, v) PROVE FALSE
  <2>1. w \in Range(Listed(d, v)) /\ w # v /\ ~Above(Listed(d, v), v, w)
    BY <1>1, <1>2, ListOrder
  <2> QED BY <2>1
<1> QED BY <1>2

\* A view is not its own parent.
LEMMA NotOwnParent ==
  ASSUME NEW d, Sound(d), Families(d), NEW v \in Views
  PROVE  d.parent[v] # v
<1>1. PICK n \in Nat : \E rank \in [Views -> 0..n] :
         \A x \in Views : d.parent[x] # None => rank[d.parent[x]] < rank[x]
  BY DEF Families, Ranked
<1>2. PICK rank \in [Views -> 0..n] :
         \A x \in Views : d.parent[x] # None => rank[d.parent[x]] < rank[x]
  BY <1>1
<1>3. v # None /\ rank[v] \in 0..n
  BY <1>2, FocusConstants
<1> QED BY <1>2, <1>3

\* A view takes the focus, and no other menu is there to have it.
LEMMA TakenInv ==
  ASSUME NEW pre, NEW d, DeskInv(d), NEW x \in Open(d), is_managed(x), NEW e, Taken(d, e, x),
         MenusFirst => \A w \in Open(d) \ {x} : ~is_bemenu(w)
  PROVE  FocusInv(e, pre) /\ Shuffled(d, e)
<1>1. Sound(d) /\ Families(d)
  BY DEF DeskInv
<1>2. /\ Sound(e) /\ Families(e) /\ Open(e) = Open(d) /\ x \in Open(e)
      /\ e.active = x /\ e.full = d.full /\ e.parent = d.parent
  BY <1>1, FamiliesStay, ShuffledSame DEF Taken, Shuffled, Beside
<1>3. e.activated \subseteq Open(e)
  BY <1>1, <1>2 DEF Taken, DeskInv
<1>4. DeskInv(e)
  BY <1>1, <1>2, <1>3 DEF DeskInv
<1>5. \A w \in Range(Listed(e, x)) \ {x} : Above(Listed(e, x), x, w) \/ is_bemenu(w)
  BY DEF Taken
<1>6. Range(Listed(e, x)) \subseteq Open(e) /\ e.parent[x] # x
  BY <1>2, Listing, NotOwnParent DEF Listed
<1>7. MenusFirst => PeekInv(e)
  <2> SUFFICES ASSUME MenusFirst PROVE PeekInv(e)
    OBVIOUS
  <2>1. Listed(e, x) \in Seq(Views) /\ IsInjective(Listed(e, x))
    BY <1>2, Listing DEF Listed
  <2>2. ASSUME NEW f \in e.full \ {x}, Above(Listed(e, x), f, x) PROVE FALSE
    <3>1. f \in Range(Listed(e, x)) /\ ~Above(Listed(e, x), x, f)
      BY <2>1, <2>2, ListOrder
    <3>2. ~is_bemenu(f)
      BY <1>2, <1>6, <2>2, <3>1
    <3> QED BY <1>5, <2>2, <3>1, <3>2
  <2> QED BY <1>2, <2>2 DEF PeekInv
<1>8. MenusFirst => MenuInv(e)
  BY <1>2 DEF MenuInv
<1>9. MenusFirst => OverInv(e)
  <2> SUFFICES ASSUME MenusFirst, e.parent[x] \in Range(Listed(e, x))
               PROVE  Above(Listed(e, x), x, e.parent[x])
    BY <1>2 DEF OverInv
  <2>1. ~is_bemenu(e.parent[x])
    BY <1>2, <1>6
  <2> QED BY <1>5, <1>6, <2>1
<1> QED BY <1>4, <1>7, <1>8, <1>9 DEF FocusInv, Due, Taken

\* Whatever focus_view does keeps the invariant.
LEMMA RefocusedInv ==
  ASSUME NEW pre, NEW d, FocusInv(d, pre), NEW e, Refocused(d, e)
  PROVE  FocusInv(e, pre) /\ Shuffled(d, e)
<1>1. Sound(d) /\ Families(d) /\ DeskInv(d)
  BY DEF FocusInv, DeskInv
<1>2. CASE e = d
  BY <1>1, <1>2, RestackedSelf DEF Restacked
<1>3. CASE is_bemenu(d.active) /\ e = wlc_view_bring_to_front(d, d.active)
  <2>1. PICK v \in Open(d) : v = d.active
    BY <1>1, <1>3 DEF DeskInv, is_bemenu
  <2>2. /\ Restacked(d, e) /\ OutputOf(e, v) = OutputOf(d, v) /\ Open(e) = Open(d) /\ Families(e)
        /\ Listed(e, v) = ToFront(Listed(d, v), v) /\ Sound(e)
    <3>1. Restacked(d, e) /\ Relisted(d, e, OutputOf(d, v), ToFront(Listed(d, v), v))
      BY <1>1, <1>3, <2>1, Fronted
    <3> QED BY <1>1, <3>1, ShuffledSame, FamiliesStay, Listing DEF Restacked, Relisted, Listed, Shuffled
  <2>3. \A w \in Range(Listed(e, v)) \ {v} : Above(Listed(e, v), v, w)
    BY <1>1, <2>2, FrontOrder, Listing DEF Listed
  <2>4. e.active = v /\ e.full = d.full /\ e.parent = d.parent /\ e.activated = d.activated
    BY <2>1, <2>2 DEF Restacked, Shuffled, Beside
  <2>5. \A f : ~Above(Listed(e, v), f, v)
    BY <2>1, <2>2, <2>3, OnTop
  <2>6. e.parent[v] # v
    BY <2>2, NotOwnParent, Listing
  <2>7. DeskInv(e)
    BY <1>1, <2>1, <2>2, <2>4 DEF DeskInv
  <2>8. PeekInv(e) /\ (MenusFirst => MenuInv(e)) /\ OverInv(e)
    BY <2>1, <2>2, <2>3, <2>4, <2>5, <2>6 DEF FocusInv, PeekInv, MenuInv, OverInv
  <2> QED BY <2>2, <2>7, <2>8 DEF FocusInv, Restacked
<1>4. CASE ~is_bemenu(d.active) /\ e = [view_focus(d, d.active, None) EXCEPT !.active = None]
  <2>1. d \in Desks
    BY <1>1 DEF Sound
  <2>2. /\ e \in Desks /\ e.stack = d.stack /\ Beside(d, e) /\ e.active = None
        /\ e.activated \subseteq d.activated
    <3>1. None \notin Range(d.stack[d.out])
      BY <1>1, <2>1, Listing, FocusConstants DEF Desks
    <3> QED BY <1>4, <2>1, <3>1 DEF view_focus, Desks, Beside
  <2>3. Shuffled(d, e)
    BY <1>1, <2>2 DEF Shuffled, Sound
  <2>4. Sound(e) /\ Families(e) /\ Open(e) = Open(d)
    BY <1>1, <2>3, FamiliesStay, ShuffledSame DEF Shuffled
  <2>5. DeskInv(e)
    BY <1>1, <2>2, <2>4 DEF DeskInv, Beside
  <2>6. PeekInv(e) /\ OverInv(e)
    BY <2>2 DEF PeekInv, OverInv
  <2>7. MenusFirst => MenuInv(e)
    BY <1>4, <2>4 DEF FocusInv, MenuInv
  <2> QED BY <2>3, <2>5, <2>6, <2>7 DEF FocusInv
<1>5. ASSUME ~is_bemenu(d.active),
             NEW x \in Open(d), is_managed(x), x # d.active, e = take_focus(d, x)
      PROVE  FocusInv(e, pre) /\ Shuffled(d, e)
  <2>1. Taken(d, e, x)
    BY <1>1, <1>5, FocusTaken
  <2>2. MenusFirst => \A w \in Open(d) : ~is_bemenu(w)
    BY <1>5 DEF FocusInv, MenuInv
  <2> QED BY <1>1, <1>5, <2>1, <2>2, TakenInv
<1> QED BY <1>2, <1>3, <1>4, <1>5 DEF Refocused

LEMMA FocusViewKeeps ==
  ASSUME NEW pre, NEW d, FocusInv(d, pre), NEW v \in Open(d) \cup {None}
  PROVE  FocusInv(focus_view(d, v), pre) /\ Shuffled(d, focus_view(d, v))
BY FocusViewed, RefocusedInv DEF FocusInv, DeskInv

LEMMA FocusTopmostKeeps ==
  ASSUME NEW pre, NEW d, FocusInv(d, pre), NEW o \in Outputs
  PROVE  FocusInv(focus_topmost(d, o), pre) /\ Shuffled(d, focus_topmost(d, o))
<1>1. PICK t : t = Topmost(d.stack[o], {v \in Views : d.mask[v] = d.space[o]})
  OBVIOUS
<1>2. t \in Open(d) \cup {None}
  <2>1. Sound(d) /\ d.stack[o] \in Seq(Views) /\ Range(d.stack[o]) \subseteq Open(d)
    BY Listing DEF FocusInv, DeskInv
  <2> QED BY <1>1, <2>1, TopmostIs
<1>3. focus_topmost(d, o) = focus_view(d, t)
  BY <1>1 DEF focus_topmost
<1> QED BY <1>2, <1>3, FocusViewKeeps

\* Spaces, outputs and bits do not concern it.
LEMMA SameViews ==
  ASSUME NEW pre, NEW d, FocusInv(d, pre), NEW e \in Desks,
         e.stack = d.stack, e.parent = d.parent, e.full = d.full, e.active = d.active,
         e.activated \subseteq Open(d)
  PROVE  FocusInv(e, pre) /\ Open(e) = Open(d)
<1>1. Open(e) = Open(d) /\ \A v : Listed(e, v) = Listed(d, v)
  BY DEF Open, Listed, OutputOf
<1>2. DeskInv(e)
  BY <1>1 DEF FocusInv, DeskInv, Sound, Families, Ranked
<1> QED BY <1>1, <1>2 DEF FocusInv, Due, PeekInv, MenuInv, OverInv

-----------------------------------------------------------------------------
(* The handlers *)

LEMMA DeskIs ==
  /\ Desk.active = active /\ Desk.action = action /\ Desk.stack = stack /\ Desk.mask = mask
  /\ Desk.space = space /\ Desk.out = out /\ Desk.parent = parent /\ Desk.full = full
  /\ Desk.activated = activated
BY DEF Desk

LEMMA Became ==
  ASSUME NEW d \in Desks, Becomes(d)
  PROVE  Desk' = d
BY DEF Becomes, Desk, Desks

\* A view on top of a list, not yet with the focus.
OnList(c, v, o, p) == [c EXCEPT !.stack[o] = Append(@, v), !.parent[v] = p]

LEMMA ViewListed ==
  ASSUME NEW pre, NEW c, FocusInv(c, pre), NEW v \in Views, v \notin Open(c), NEW o \in Outputs,
         NEW p \in Open(c) \cup {None},
         NEW d, d = OnList(c, v, o, p)
  PROVE  /\ d \in Desks /\ DeskInv(d) /\ Open(d) = Open(c) \cup {v} /\ v \in Range(d.stack[o])
         /\ d.active = c.active /\ d.full = c.full /\ d.out = c.out /\ d.activated = c.activated
         /\ d.parent[v] = p /\ \A x \in Views : d.parent[x] # v
         /\ \A x \in Views \ {v} : d.parent[x] = c.parent[x]
         /\ MenusFirst /\ ~is_bemenu(v) => MenuInv(d)
         /\ Due("peek", d, pre) => PeekInv(d)
         /\ Due("over", d, pre) => OverInv(d)
<1> DEFINE s == Append(c.stack[o], v)
<1>1. d = [c EXCEPT !.stack[o] = s, !.parent[v] = p]
  BY DEF OnList
<1>2. Sound(c) /\ Families(c) /\ c \in Desks /\ Open(c) \subseteq Views
  BY Listing DEF FocusInv, DeskInv, Sound
<1>3. v \notin Range(c.stack[o]) /\ c.stack[o] \in Seq(Views) /\ IsInjective(c.stack[o])
  BY <1>2, Listing
<1>4. /\ s \in Seq(Views) /\ Range(s) = Range(c.stack[o]) \cup {v} /\ IsInjective(s)
      /\ \A x, y : Above(s, x, y) <=> Above(c.stack[o], x, y) \/ (x = v /\ y \in Range(c.stack[o]))
  BY <1>3, TopOrder
<1> HIDE DEF s
<1>5. /\ d \in Desks /\ d.stack = [c.stack EXCEPT ![o] = s] /\ d.parent = [c.parent EXCEPT ![v] = p]
      /\ d.active = c.active /\ d.full = c.full /\ d.out = c.out /\ d.activated = c.activated
  <2>1. s \in Seq(Views) /\ c \in Desks /\ p \in Views \cup {None}
    BY <1>2, <1>4
  <2>2. PICK m : m = [c EXCEPT !.stack[o] = s]
    OBVIOUS
  <2>3. /\ m \in Desks /\ m.stack = [c.stack EXCEPT ![o] = s] /\ m.parent = c.parent
        /\ m.active = c.active /\ m.full = c.full /\ m.out = c.out /\ m.activated = c.activated
    BY <2>1, <2>2 DEF Desks
  <2>4. PICK q : q = [m.parent EXCEPT ![v] = p]
    OBVIOUS
  <2>5. d = [m EXCEPT !.parent = q]
    BY <1>1, <2>2, <2>4
  <2>6. q \in [Views -> Views \cup {None}]
    BY <2>1, <2>3, <2>4 DEF Desks
  <2>7. /\ d \in Desks /\ d.stack = m.stack /\ d.parent = q
        /\ d.active = m.active /\ d.full = m.full /\ d.out = m.out /\ d.activated = m.activated
    BY <2>3, <2>5, <2>6 DEF Desks
  <2> QED BY <2>3, <2>4, <2>7
<1>6. /\ d.stack[o] = s /\ \A q \in Outputs \ {o} : d.stack[q] = c.stack[q]
      /\ d.parent[v] = p /\ \A x \in Views \ {v} : d.parent[x] = c.parent[x]
  BY <1>2, <1>5 DEF Desks
<1>7. Open(d) = Open(c) \cup {v}
  BY <1>4, <1>6 DEF Open
<1>8. Sound(d)
  <2>1. \A q \in Outputs : IsInjective(d.stack[q])
    BY <1>2, <1>4, <1>6, Listing
  <2>2. ASSUME NEW q \in Outputs, NEW r \in Outputs, q # r
        PROVE  Range(d.stack[q]) \cap Range(d.stack[r]) = {}
    <3>1. v \notin Range(c.stack[q]) /\ v \notin Range(c.stack[r])
      BY DEF Open
    <3> QED BY <1>2, <1>4, <1>6, <2>2, <3>1 DEF Sound
  <2> QED BY <1>5, <2>1, <2>2 DEF Sound
<1>9. v # None /\ \A x \in Views : c.parent[x] # v /\ d.parent[x] # v
  <2>1. v # None
    BY FocusConstants
  <2>2. \A x \in Views : c.parent[x] # v
    BY <1>2, <2>1 DEF Families
  <2> QED BY <1>6, <2>1, <2>2
<1>10. Families(d)
  <2>1. PICK n \in Nat : \E rank \in [Views -> 0..n] :
           \A x \in Views : c.parent[x] # None => rank[c.parent[x]] < rank[x]
    BY <1>2 DEF Families, Ranked
  <2>2. PICK rank \in [Views -> 0..n] :
           \A x \in Views : c.parent[x] # None => rank[c.parent[x]] < rank[x]
    BY <2>1
  <2> DEFINE higher == [rank EXCEPT ![v] = n + 1]
  <2>3. n + 1 \in Nat /\ higher \in [Views -> 0..(n + 1)]
    BY <2>2
  <2>4. higher[v] = n + 1 /\ \A x \in Views \ {v} : higher[x] = rank[x] /\ rank[x] \in 0..n
    BY <2>2
  <2> HIDE DEF higher
  <2>5. ASSUME NEW x \in Views, d.parent[x] # None PROVE higher[d.parent[x]] < higher[x]
    <3>1. CASE x = v
      <4>1. p \in Views \ {v} /\ d.parent[x] = p
        BY <1>2, <1>6, <2>5, <3>1
      <4> QED BY <2>4, <3>1, <4>1
    <3>2. CASE x # v
      <4>1. d.parent[x] = c.parent[x] /\ c.parent[x] \in Views \ {v}
        BY <1>2, <1>6, <1>9, <2>5, <3>2 DEF Families
      <4> QED BY <2>2, <2>4, <2>5, <3>2, <4>1
    <3> QED BY <3>1, <3>2
  <2>6. Ranked(d)
    BY <2>3, <2>5 DEF Ranked
  <2>7. ASSUME NEW x \in Views, d.parent[x] # None PROVE x \in Open(d) /\ d.parent[x] \in Open(d)
    BY <1>2, <1>6, <1>7, <2>7 DEF Families
  <2> QED BY <2>6, <2>7 DEF Families
<1>11. DeskInv(d)
  BY <1>5, <1>7, <1>8, <1>10 DEF FocusInv, DeskInv
<1>12. ASSUME d.active # None
       PROVE  /\ d.active \in Open(c) /\ d.active # v
              /\ \A x : Above(Listed(d, d.active), x, d.active) =>
                          x = v \/ Above(Listed(c, c.active), x, c.active)
              /\ \A x : Above(Listed(c, c.active), c.active, x) =>
                          Above(Listed(d, d.active), d.active, x)
              /\ Range(Listed(d, d.active)) \subseteq Range(Listed(c, c.active)) \cup {v}
  <2>1. d.active \in Open(c) /\ d.active = c.active
    BY <1>5, <1>12 DEF FocusInv, DeskInv
  <2>2. PICK q \in Outputs : q = OutputOf(c, c.active) /\ c.active \in Range(c.stack[q])
    BY <1>2, <2>1, Listing DEF Listed
  <2>3. OutputOf(d, c.active) = q
    BY <1>4, <1>6, <1>8, <2>2, Listing
  <2>4. CASE q = o
    BY <1>4, <1>6, <2>1, <2>2, <2>3, <2>4 DEF Listed
  <2>5. CASE q # o
    BY <1>6, <2>1, <2>2, <2>3, <2>5 DEF Listed
  <2> QED BY <2>1, <2>4, <2>5
<1>13. Due("peek", d, pre) => PeekInv(d)
  <2>1. v \notin c.full
    BY DEF FocusInv, DeskInv
  <2>2. Due("peek", d, pre) => PeekInv(c)
    BY <1>5 DEF FocusInv, Due
  <2> QED BY <1>5, <1>12, <2>1, <2>2 DEF PeekInv
<1>14. MenusFirst /\ ~is_bemenu(v) => MenuInv(d)
  BY <1>5, <1>7 DEF FocusInv, MenuInv
<1>15. Due("over", d, pre) => OverInv(d)
  <2> SUFFICES ASSUME OverInv(c), d.active # None,
                      d.parent[d.active] \in Range(Listed(d, d.active))
               PROVE  Above(Listed(d, d.active), d.active, d.parent[d.active])
    BY <1>5 DEF FocusInv, Due, OverInv
  <2>1. d.active \in Views \ {v} /\ d.active = c.active
    BY <1>2, <1>5, <1>12
  <2>2. d.parent[d.active] = c.parent[c.active] /\ c.parent[c.active] # v
    BY <1>6, <1>9, <2>1
  <2>3. c.parent[c.active] \in Range(Listed(c, c.active))
    BY <1>12, <2>2
  <2>4. Above(Listed(c, c.active), c.active, c.parent[c.active])
    BY <2>1, <2>3 DEF OverInv
  <2> QED BY <1>12, <2>2, <2>4
<1>16. v \in Range(d.stack[o])
  BY <1>4, <1>6
<1> QED BY <1>5, <1>6, <1>7, <1>9, <1>11, <1>13, <1>14, <1>15, <1>16

\* A view opens: it takes the focus, or nobody does.
LEMMA ViewCreated ==
  ASSUME NEW pre, FocusInv(Desk, pre), NEW v \in Views, NEW o \in Outputs,
         NEW p \in Views \cup {None},
         view_created(o, v, p)
  PROVE  /\ FocusInv(Desk', pre) /\ Open(Desk') = Open(Desk) \cup {v}
         /\ active' # active =>
              active' = v /\ is_managed(v) /\ (active = None \/ parent'[v] \in {None, active})
<1>1. PICK d : d = OnList(Desk, v, o, p)
  OBVIOUS
<1>2. PICK f : f = IF ~should_focus_on_create(d, v) THEN d
                   ELSE IF o = out THEN focus_view(d, v)
                   ELSE set_active_view_on_output(d, o, v)
  OBVIOUS
<1>3. /\ v \notin Open(Desk) /\ p \in Open(Desk) \cup {None}
      /\ p # None => v \notin Orphans
      /\ o # out => Elsewhere
      /\ ~(is_bemenu(v) /\ is_bemenu(active))
      /\ Becomes([f EXCEPT !.mask[v] = space[o]])
  BY <1>1, <1>2 DEF view_created, OnList
<1>4. /\ d \in Desks /\ DeskInv(d) /\ Open(d) = Open(Desk) \cup {v} /\ v \in Range(d.stack[o])
      /\ d.active = active /\ d.full = full /\ d.out = out /\ d.activated = activated
      /\ d.parent[v] = p /\ \A x \in Views : d.parent[x] # v
      /\ MenusFirst /\ ~is_bemenu(v) => MenuInv(d)
      /\ Due("peek", d, pre) => PeekInv(d)
      /\ Due("over", d, pre) => OverInv(d)
  BY <1>1, <1>3, ViewListed, DeskIs
<1>5. v # active /\ v # None
  BY <1>3, DeskIs, FocusConstants DEF FocusInv, DeskInv
<1> DEFINE Focused(e) == /\ FocusInv(e, pre) /\ e.parent = d.parent /\ Open(e) = Open(d)
                         /\ \/ e.active = active
                            \/ /\ e.active = v /\ is_managed(v)
                               /\ active = None \/ p \in {None, active}
<1>6. ASSUME ~should_focus_on_create(d, v) PROVE Focused(f)
  <2>1. MenusFirst => ~is_bemenu(v)
    <3>1. MenusFirst /\ is_bemenu(v) => p = None
      BY <1>3 DEF MenusFirst, Bemenus, is_bemenu
    <3> QED BY <1>4, <1>6, <3>1 DEF should_focus_on_create, is_managed, is_bemenu
  <2>2. FocusInv(d, pre)
    BY <1>4, <2>1 DEF FocusInv
  <2> QED BY <1>2, <1>4, <1>6, <2>2
<1>7. ASSUME should_focus_on_create(d, v) /\ o # out PROVE Focused(f)
  <2>1. FocusInv(d, pre)
    <3>1. MenusFirst => ~is_bemenu(v)
      BY <1>3, <1>7 DEF MenusFirst, Bemenus
    <3> QED BY <1>4, <3>1 DEF FocusInv
  <2>2. f = [d EXCEPT !.activated = (@ \ Range(d.stack[o])) \cup ({v} \cap Range(d.stack[o]))]
    BY <1>2, <1>7 DEF set_active_view_on_output
  <2>3. /\ f \in Desks /\ f.stack = d.stack /\ f.parent = d.parent /\ f.full = d.full
        /\ f.active = d.active /\ f.activated \subseteq d.activated \cup {v}
    BY <1>4, <2>2 DEF Desks
  <2>4. f.activated \subseteq Open(d)
    BY <1>4, <2>3 DEF DeskInv
  <2>5. FocusInv(f, pre)
    BY <2>1, <2>3, <2>4, SameViews
  <2>6. Open(f) = Open(d)
    BY <2>3 DEF Open
  <2> QED BY <1>4, <2>3, <2>5, <2>6
<1>8. ASSUME should_focus_on_create(d, v) /\ o = out PROVE Focused(f)
  <2>1. f = focus_view(d, v) /\ is_managed(v) /\ v \in Open(d) /\ Sound(d) /\ Families(d)
    BY <1>2, <1>4, <1>8 DEF should_focus_on_create, DeskInv
  <2>2. CASE is_bemenu(active)
    <3>1. FocusInv(d, pre)
      BY <1>3, <1>4, <2>2 DEF FocusInv
    <3>2. f = wlc_view_bring_to_front(d, active) /\ active \in Open(d)
      BY <1>4, <1>5, <2>1, <2>2 DEF focus_view, DeskInv, is_bemenu
    <3>3. FocusInv(f, pre) /\ Shuffled(d, f)
      BY <2>1, <3>1, FocusViewKeeps
    <3>4. Restacked(d, f)
      BY <2>1, <3>2, Fronted
    <3> QED BY <1>4, <2>1, <3>3, <3>4, ShuffledSame DEF Restacked, Shuffled, Beside
  <2>3. CASE ~is_bemenu(active)
    <3>1. f = take_focus(d, v)
      <4>1. f = focus_down(d, v)
        BY <1>4, <1>5, <2>1, <2>3 DEF focus_view
      <4>2. PICK T : T = {v}
        OBVIOUS
      <4>3. v \in T /\ \A x \in Views : d.parent[x] \in T => x \in T
        BY <1>4, <4>2
      <4>4. \/ /\ focus_down(d, v) = d
               /\ \E x \in T \cap Open(d) : x = d.active \/ ~is_managed(x)
            \/ \E x \in T \cap Open(d) : /\ is_managed(x) /\ x # d.active
                                         /\ focus_down(d, v) = take_focus(d, x)
        BY <2>1, <4>3, FocusedDown
      <4> QED BY <1>4, <1>5, <2>1, <4>1, <4>2, <4>4
    <3>2. Taken(d, f, v)
      BY <2>1, <3>1, FocusTaken
    <3>3. MenusFirst => \A w \in Open(d) \ {v} : ~is_bemenu(w)
      BY <1>4, <2>3, DeskIs DEF FocusInv, MenuInv
    <3>4. FocusInv(f, pre) /\ Shuffled(d, f)
      BY <1>4, <2>1, <3>2, <3>3, TakenInv
    <3>5. active = None \/ p \in {None, active}
      BY <1>4, <1>8 DEF should_focus_on_create
    <3> QED BY <1>4, <2>1, <3>2, <3>4, <3>5, ShuffledSame DEF Taken, Shuffled, Beside
  <2> QED BY <2>2, <2>3
<1>9. Focused(f)
  BY <1>6, <1>7, <1>8
<1>10. PICK e : e = [f EXCEPT !.mask[v] = space[o]]
  OBVIOUS
<1>11. /\ e \in Desks /\ e.stack = f.stack /\ e.parent = f.parent /\ e.full = f.full
       /\ e.active = f.active /\ e.activated = f.activated
  <2>1. f \in Desks
    BY <1>9 DEF FocusInv, DeskInv, Sound
  <2>2. space[o] \in 0..(Spaces - 1)
    BY DeskIs DEF FocusInv, DeskInv, Sound, Desks
  <2> QED BY <1>10, <2>1, <2>2 DEF Desks
<1>12. FocusInv(e, pre) /\ Open(e) = Open(f)
  <2>1. e.activated \subseteq Open(f)
    BY <1>9, <1>11 DEF FocusInv, DeskInv
  <2> QED BY <1>9, <1>11, <2>1, SameViews DEF Open
<1>13. Desk' = e /\ active' = e.active /\ parent' = e.parent
  BY <1>3, <1>10, <1>11, Became DEF Becomes
<1> QED BY <1>4, <1>9, <1>11, <1>12, <1>13

\* A view is closed: it takes with it its place, its bits and its parenthood.
Left(v) == IF active = v THEN [Gone(v) EXCEPT !.active = None] ELSE Gone(v)

LEMMA ViewGone ==
  ASSUME NEW pre, FocusInv(Desk, pre), NEW v \in Open(Desk), NEW g, g = Left(v)
  PROVE  /\ FocusInv(g, pre) /\ Open(g) = Open(Desk) \ {v}
         /\ g.active = IF active = v THEN None ELSE active
         /\ g.mask = [mask EXCEPT ![v] = 0] /\ g.space = space /\ g.out = out
         /\ g.action = action /\ g.activated = activated \ {v}
         /\ \A o \in Outputs : g.stack[o] = Without(stack[o], {v})
<1>1. PICK c : c = Desk
  OBVIOUS
<1>2. /\ Sound(c) /\ Families(c) /\ c \in Desks /\ v \in Views /\ v # None /\ FocusInv(c, pre)
      /\ v \in Open(c)
  BY <1>1, Listing DEF FocusInv, DeskInv, Sound
<1>3. /\ active = c.active /\ action = c.action /\ stack = c.stack /\ mask = c.mask
      /\ space = c.space /\ out = c.out /\ parent = c.parent /\ full = c.full
      /\ activated = c.activated
  BY <1>1, DeskIs
<1> DEFINE lists == [o \in Outputs |-> Without(c.stack[o], {v})]
           parents == [w \in Views |-> IF w = v \/ c.parent[w] = v THEN None ELSE c.parent[w]]
<1>4. \A o \in Outputs :
         /\ Without(c.stack[o], {v}) \in Seq(Views)
         /\ Range(Without(c.stack[o], {v})) = Range(c.stack[o]) \ {v}
         /\ IsInjective(Without(c.stack[o], {v}))
         /\ \A x, y : Above(Without(c.stack[o], {v}), x, y) <=>
                        x # v /\ y # v /\ Above(c.stack[o], x, y)
  <2> SUFFICES ASSUME NEW o \in Outputs
               PROVE  /\ Without(c.stack[o], {v}) \in Seq(Views)
                      /\ Range(Without(c.stack[o], {v})) = Range(c.stack[o]) \ {v}
                      /\ IsInjective(Without(c.stack[o], {v}))
                      /\ \A x, y : Above(Without(c.stack[o], {v}), x, y) <=>
                                     x # v /\ y # v /\ Above(c.stack[o], x, y)
    OBVIOUS
  <2>1. c.stack[o] \in Seq(Views) /\ IsInjective(c.stack[o])
    BY <1>2, Listing
  <2>2. PICK T : T = {v}
    OBVIOUS
  <2>3. /\ Without(c.stack[o], T) \in Seq(Views)
        /\ Range(Without(c.stack[o], T)) = Range(c.stack[o]) \ T
        /\ IsInjective(Without(c.stack[o], T))
        /\ \A x, y : Above(Without(c.stack[o], T), x, y) <=>
                       x \notin T /\ y \notin T /\ Above(c.stack[o], x, y)
    BY <2>1, RestOrder
  <2> QED BY <2>2, <2>3
<1>5. lists \in [Outputs -> Seq(Views)] /\ parents \in [Views -> Views \cup {None}]
  BY <1>2, <1>4 DEF Desks
<1>6. Gone(v) = [c EXCEPT !.stack = lists, !.parent = parents, !.mask[v] = 0, !.full = @ \ {v},
                          !.activated = @ \ {v}]
  BY <1>1, <1>3, Zenon DEF Gone
<1> HIDE DEF lists, parents
<1>7. PICK m : m = [c.mask EXCEPT ![v] = 0]
  OBVIOUS
<1>8. m \in [Views -> 0..(Spaces - 1)]
  <2>1. 0 \in 0..(Spaces - 1)
    BY FocusConstants
  <2> QED BY <1>2, <1>7, <2>1 DEF Desks
<1>9. PICK e : e = Gone(v)
  OBVIOUS
<1>10. /\ e \in Desks /\ e.active = c.active /\ e.action = c.action /\ e.stack = lists /\ e.mask = m
       /\ e.space = c.space /\ e.out = c.out /\ e.parent = parents /\ e.full = c.full \ {v}
       /\ e.activated = c.activated \ {v}
  <2>1. e = [[[c EXCEPT !.stack = lists, !.parent = parents] EXCEPT !.mask = m]
                EXCEPT !.full = @ \ {v}, !.activated = @ \ {v}]
    BY <1>2, <1>6, <1>7, <1>9 DEF Desks
  <2>2. PICK d : d = [c EXCEPT !.stack = lists, !.parent = parents]
    OBVIOUS
  <2>3. d \in Desks /\ d.stack = lists /\ d.parent = parents /\ d.active = c.active
        /\ d.action = c.action /\ d.space = c.space /\ d.out = c.out /\ d.full = c.full
        /\ d.activated = c.activated
    BY <1>2, <1>5, <2>2 DEF Desks
  <2>4. e = [d EXCEPT !.mask = m, !.full = @ \ {v}, !.activated = @ \ {v}]
    BY <2>1, <2>2
  <2> QED BY <1>8, <2>3, <2>4 DEF Desks
<1>11. /\ g \in Desks /\ g.active = (IF c.active = v THEN None ELSE c.active) /\ g.action = c.action
       /\ g.stack = lists /\ g.mask = m /\ g.space = c.space /\ g.out = c.out
       /\ g.parent = parents /\ g.full = c.full \ {v} /\ g.activated = c.activated \ {v}
  <2>1. (g = e /\ c.active # v) \/ (g = [e EXCEPT !.active = None] /\ c.active = v)
    BY <1>3, <1>9 DEF Left
  <2>2. CASE g = e /\ c.active # v
    BY <1>10, <2>2
  <2>3. CASE g = [e EXCEPT !.active = None] /\ c.active = v
    BY <1>10, <2>3 DEF Desks
  <2> QED BY <2>1, <2>2, <2>3
<1>12. \A o \in Outputs : g.stack[o] = Without(c.stack[o], {v})
  BY <1>11 DEF lists
<1>13. \A o \in Outputs :
         /\ Range(g.stack[o]) = Range(c.stack[o]) \ {v} /\ IsInjective(g.stack[o])
         /\ \A x, y : Above(g.stack[o], x, y) <=> x # v /\ y # v /\ Above(c.stack[o], x, y)
  <2> SUFFICES ASSUME NEW o \in Outputs, NEW s, s = g.stack[o], NEW r, r = c.stack[o]
               PROVE  /\ Range(s) = Range(r) \ {v} /\ IsInjective(s)
                      /\ \A x, y : Above(s, x, y) <=> x # v /\ y # v /\ Above(r, x, y)
    OBVIOUS
  <2>1. PICK w : w = Without(r, {v})
    OBVIOUS
  <2>2. /\ Range(w) = Range(r) \ {v} /\ IsInjective(w)
        /\ \A x, y : Above(w, x, y) <=> x # v /\ y # v /\ Above(r, x, y)
    BY <1>4, <2>1
  <2>3. s = w
    BY <1>12, <2>1
  <2> QED BY <2>2, <2>3
<1>14. \A x \in Views : g.parent[x] = IF x = v \/ c.parent[x] = v THEN None ELSE c.parent[x]
  BY <1>11 DEF parents
<1>15. Open(g) = Open(c) \ {v}
  <2>1. \A x : x \in Open(g) <=> \E o \in Outputs : x \in Range(g.stack[o])
    BY DEF Open
  <2>2. \A x : x \in Open(c) <=> \E o \in Outputs : x \in Range(c.stack[o])
    BY DEF Open
  <2>3. \A o \in Outputs : \A x : x \in Range(g.stack[o]) <=> x \in Range(c.stack[o]) /\ x # v
    BY <1>13
  <2> QED BY <2>1, <2>2, <2>3
<1>16. Sound(g)
  BY <1>2, <1>11, <1>13 DEF Sound
<1>17. Families(g)
  <2>1. PICK n \in Nat : \E rank \in [Views -> 0..n] :
           \A x \in Views : c.parent[x] # None => rank[c.parent[x]] < rank[x]
    BY <1>2 DEF Families, Ranked
  <2>2. PICK rank \in [Views -> 0..n] :
           \A x \in Views : c.parent[x] # None => rank[c.parent[x]] < rank[x]
    BY <2>1
  <2>3. \A x \in Views : g.parent[x] # None => rank[g.parent[x]] < rank[x]
    BY <1>14, <2>2
  <2>4. Ranked(g)
    BY <2>3 DEF Ranked
  <2>5. ASSUME NEW x \in Views, g.parent[x] # None PROVE x \in Open(g) /\ g.parent[x] \in Open(g)
    BY <1>2, <1>14, <1>15, <2>5 DEF Families
  <2> QED BY <2>4, <2>5 DEF Families
<1>18. DeskInv(g)
  BY <1>2, <1>11, <1>15, <1>16, <1>17 DEF FocusInv, DeskInv
<1>19. ASSUME g.active # None
       PROVE  /\ g.active = c.active /\ c.active # v /\ c.active \in Views
              /\ \A x : Above(Listed(g, g.active), x, g.active) =>
                          Above(Listed(c, c.active), x, c.active)
              /\ \A x : x # v /\ Above(Listed(c, c.active), c.active, x) =>
                          Above(Listed(g, g.active), g.active, x)
              /\ Range(Listed(g, g.active)) = Range(Listed(c, c.active)) \ {v}
  <2>1. g.active = c.active /\ c.active # v /\ c.active \in Open(c)
    BY <1>2, <1>11, <1>19 DEF FocusInv, DeskInv
  <2>2. PICK q \in Outputs : q = OutputOf(c, c.active) /\ c.active \in Range(c.stack[q])
    BY <1>2, <2>1, Listing DEF Listed
  <2>3. OutputOf(g, c.active) = q
    <3>1. c.active \in Range(g.stack[q])
      BY <1>13, <2>1, <2>2
    <3> QED BY <1>16, <3>1, Listing
  <2>4. Listed(g, g.active) = g.stack[q] /\ Listed(c, c.active) = c.stack[q]
    BY <2>1, <2>2, <2>3 DEF Listed
  <2>5. c.active \in Views
    BY <1>2, <2>1, Listing
  <2>6. PICK s, r : s = g.stack[q] /\ r = c.stack[q]
    OBVIOUS
  <2>7. Range(s) = Range(r) \ {v} /\ \A x, y : Above(s, x, y) <=> x # v /\ y # v /\ Above(r, x, y)
    BY <1>13, <2>2, <2>6
  <2> QED BY <2>1, <2>4, <2>5, <2>6, <2>7
<1>20. Due("peek", g, pre) => PeekInv(g)
  <2>1. Due("peek", g, pre) /\ g.active # None => PeekInv(c)
    BY <1>2, <1>19 DEF FocusInv, Due
  <2> QED BY <1>11, <1>19, <2>1 DEF PeekInv
<1>21. MenusFirst => MenuInv(g)
  BY <1>2, <1>11, <1>15 DEF FocusInv, MenuInv
<1>22. Due("over", g, pre) => OverInv(g)
  <2> SUFFICES ASSUME OverInv(c), g.active # None,
                      g.parent[g.active] \in Range(Listed(g, g.active))
               PROVE  Above(Listed(g, g.active), g.active, g.parent[g.active])
    BY <1>2, <1>19 DEF FocusInv, Due, OverInv
  <2>1. g.parent[g.active] # None
    BY <1>2, <1>16, <1>18, Listing DEF DeskInv, Listed
  <2>2. g.parent[g.active] = c.parent[c.active] /\ c.parent[c.active] # v
    BY <1>14, <1>19, <2>1
  <2>3. Above(Listed(c, c.active), c.active, c.parent[c.active])
    <3>1. c.active # None /\ c.parent[c.active] \in Range(Listed(c, c.active))
      BY <1>19, <2>2
    <3> QED BY <3>1 DEF OverInv
  <2> QED BY <1>19, <2>2, <2>3
<1>23. FocusInv(g, pre)
  BY <1>18, <1>20, <1>21, <1>22 DEF FocusInv
<1> QED BY <1>1, <1>3, <1>7, <1>11, <1>12, <1>14, <1>15, <1>23

LEMMA GoneParents ==
  ASSUME NEW v, NEW g, g = Left(v)
  PROVE  g.parent = [w \in Views |-> IF w = v \/ parent[w] = v THEN None ELSE parent[w]]
<1>1. Gone(v).parent = [w \in Views |-> IF w = v \/ parent[w] = v THEN None ELSE parent[w]]
  BY DEF Gone, Desk
<1>2. g.parent = Gone(v).parent
  BY DEF Left, Gone, Desk
<1> QED BY <1>1, <1>2

LEMMA ViewDestroyed ==
  ASSUME NEW pre, FocusInv(Desk, pre), NEW v \in Views, view_destroyed(v)
  PROVE  FocusInv(Desk', pre) /\ Open(Desk') = Open(Desk) \ {v}
<1>1. v \in Open(Desk)
  BY DEF view_destroyed
<1>2. Sound(Desk) /\ Families(Desk)
  BY DEF FocusInv, DeskInv
<1>3. CASE active # v
  <2>1. PICK g : g = Gone(v)
    OBVIOUS
  <2>2. FocusInv(g, pre) /\ Open(g) = Open(Desk) \ {v}
    <3>1. g = Left(v)
      BY <1>3, <2>1 DEF Left
    <3> QED BY <1>1, <3>1, ViewGone
  <2>3. Desk' = g
    BY <1>3, <2>1, <2>2, Became DEF view_destroyed, FocusInv, DeskInv, Sound
  <2> QED BY <2>2, <2>3
<1>4. CASE active = v
  <2>1. PICK g : g = [Gone(v) EXCEPT !.active = None]
    OBVIOUS
  <2>2. FocusInv(g, pre) /\ Open(g) = Open(Desk) \ {v}
    <3>1. g = Left(v)
      BY <1>4, <2>1 DEF Left
    <3> QED BY <1>1, <3>1, ViewGone
  <2>3. PICK f : /\ f = IF parent[v] # None THEN focus_view(g, parent[v])
                         ELSE focus_topmost(g, OutputOf(Desk, v))
                 /\ Becomes(f)
    <3>1. IF parent[v] # None THEN Becomes(focus_view(g, parent[v]))
                              ELSE Becomes(focus_topmost(g, OutputOf(Desk, v)))
      BY <1>4, <2>1, Zenon DEF view_destroyed
    <3>2. CASE parent[v] # None
      BY <3>1, <3>2
    <3>3. CASE parent[v] = None
      BY <3>1, <3>3
    <3> QED BY <3>2, <3>3
  <2>4. FocusInv(f, pre) /\ Shuffled(g, f)
    <3>1. CASE parent[v] # None
      <4>1. parent[v] \in Open(Desk)
        BY <1>2, <3>1, DeskIs DEF Families
      <4>2. parent[v] # v
        BY <1>2, NotOwnParent, DeskIs
      <4> QED BY <2>2, <2>3, <3>1, <4>1, <4>2, FocusViewKeeps
    <3>2. CASE parent[v] = None
      <4>1. OutputOf(Desk, v) \in Outputs
        BY <1>1, <1>2, Listing
      <4> QED BY <2>2, <2>3, <3>2, <4>1, FocusTopmostKeeps
    <3> QED BY <3>1, <3>2
  <2>5. Open(f) = Open(g)
    BY <2>2, <2>4, ShuffledSame DEF FocusInv, DeskInv
  <2>6. Desk' = f
    BY <2>3, <2>4, Became DEF Shuffled, Sound
  <2> QED BY <2>2, <2>4, <2>5, <2>6
<1> QED BY <1>3, <1>4

\* The handler opens and closes no view.
Handled(pre) == FocusInv(Desk', pre) /\ Open(Desk') = Open(Desk)

LEMMA Focused ==
  ASSUME NEW pre, FocusInv(Desk, pre), NEW d, FocusInv(d, pre), Open(d) = Open(Desk),
         NEW e, FocusInv(e, pre) /\ Shuffled(d, e), Becomes(e)
  PROVE  Handled(pre)
<1>1. Open(e) = Open(d)
  BY ShuffledSame DEF FocusInv, DeskInv
<1>2. Desk' = e
  BY Became DEF Shuffled, Sound
<1> QED BY <1>1, <1>2 DEF Handled

LEMMA SpaceFocused ==
  ASSUME NEW pre, FocusInv(Desk, pre), NEW i \in 0..(Spaces - 1), focus_space(i)
  PROVE  Handled(pre)
<1>1. PICK d : d = [Desk EXCEPT !.space[out] = i]
  OBVIOUS
<1>2. Desk \in Desks
  BY DEF FocusInv, DeskInv, Sound
<1>3. /\ d \in Desks /\ d.stack = Desk.stack /\ d.parent = Desk.parent /\ d.full = Desk.full
      /\ d.active = Desk.active /\ d.activated = Desk.activated
  BY <1>1, <1>2 DEF Desks
<1>4. FocusInv(d, pre) /\ Open(d) = Open(Desk)
  <2>1. d.activated \subseteq Open(Desk)
    BY <1>3 DEF FocusInv, DeskInv
  <2> QED BY <1>3, <2>1, SameViews
<1>5. out \in Outputs
  BY <1>2, DeskIs DEF Desks
<1>6. Becomes(focus_topmost(d, out))
  BY <1>1 DEF focus_space
<1> QED BY <1>4, <1>5, <1>6, FocusTopmostKeeps, Focused

LEMMA MovedToSpace ==
  ASSUME NEW pre, FocusInv(Desk, pre), NEW i \in 0..(Spaces - 1), move_to_space(i)
  PROVE  Handled(pre)
<1>1. PICK d : d = [Desk EXCEPT !.mask[active] = i, !.space[out] = i]
  OBVIOUS
<1>2. Desk \in Desks
  BY DEF FocusInv, DeskInv, Sound
<1>3. /\ d \in Desks /\ d.stack = Desk.stack /\ d.parent = Desk.parent /\ d.full = Desk.full
      /\ d.active = Desk.active /\ d.activated = Desk.activated
  <2>1. PICK c : c = [Desk EXCEPT !.mask[active] = i]
    OBVIOUS
  <2>2. /\ c \in Desks /\ c.stack = Desk.stack /\ c.parent = Desk.parent /\ c.full = Desk.full
        /\ c.active = Desk.active /\ c.activated = Desk.activated
    BY <1>2, <2>1 DEF Desks
  <2>3. d = [c EXCEPT !.space[out] = i]
    BY <1>1, <1>2, <2>1 DEF Desks
  <2> QED BY <2>2, <2>3 DEF Desks
<1>4. FocusInv(d, pre) /\ Open(d) = Open(Desk)
  <2>1. d.activated \subseteq Open(Desk)
    BY <1>3 DEF FocusInv, DeskInv
  <2> QED BY <1>3, <2>1, SameViews
<1>5. out \in Outputs
  BY <1>2, DeskIs DEF Desks
<1>6. Becomes(focus_topmost(d, out))
  BY <1>1 DEF move_to_space
<1> QED BY <1>4, <1>5, <1>6, FocusTopmostKeeps, Focused

LEMMA SpaceRotated ==
  ASSUME NEW pre, FocusInv(Desk, pre), NEW dir \in {"NEXT", "PREV"},
         focus_next_or_previous_space(dir)
  PROVE  Handled(pre)
<1>1. space[out] \in 0..(Spaces - 1)
  BY DeskIs DEF FocusInv, DeskInv, Sound, Desks
<1>2. rotate_mask(space[out], dir) \in 0..(Spaces - 1)
  BY <1>1, FocusConstants DEF rotate_mask
<1> QED BY <1>2, SpaceFocused DEF focus_next_or_previous_space

\* Another output gets the focus.
LEMMA OutputFocused ==
  ASSUME NEW pre, NEW d, FocusInv(d, pre), NEW o \in Outputs
  PROVE  LET e == focus_output(d, o) IN FocusInv(e, pre) /\ Shuffled([d EXCEPT !.out = o], e)
<1>1. PICK c : c = [d EXCEPT !.out = o]
  OBVIOUS
<1>2. d \in Desks
  BY DEF FocusInv, DeskInv, Sound
<1>3. /\ c \in Desks /\ c.stack = d.stack /\ c.parent = d.parent /\ c.full = d.full
      /\ c.active = d.active /\ c.activated = d.activated
  BY <1>1, <1>2 DEF Desks
<1>4. FocusInv(c, pre)
  <2>1. c.activated \subseteq Open(d)
    BY <1>3 DEF FocusInv, DeskInv
  <2> QED BY <1>3, <2>1, SameViews
<1>5. focus_output(d, o) = focus_topmost(c, o)
  BY <1>1 DEF focus_output
<1> QED BY <1>1, <1>4, <1>5, FocusTopmostKeeps

LEMMA NextIsOutput ==
  ASSUME NEW pre, FocusInv(Desk, pre)
  PROVE  get_next_output(out) \in Outputs
<1>1. out \in Outputs
  BY DeskIs DEF FocusInv, DeskInv, Sound, Desks
<1>2. PICK n : n = Len(OutputList)
  OBVIOUS
<1>3. n \in Nat /\ DOMAIN OutputList = 1..n
  BY <1>2, FocusConstants, LenProperties
<1>4. PICK at : at = CHOOSE i \in DOMAIN OutputList : OutputList[i] = out
  OBVIOUS
<1>5. at \in 1..n
  BY <1>1, <1>3, <1>4 DEF Outputs, Range
<1>6. 1 + (at % n) \in DOMAIN OutputList
  BY <1>3, <1>5
<1>7. get_next_output(out) = OutputList[1 + (at % n)]
  BY <1>2, <1>4 DEF get_next_output
<1> QED BY <1>6, <1>7 DEF Outputs, Range

LEMMA NextOutputFocused ==
  ASSUME NEW pre, FocusInv(Desk, pre), key_cb_focus_next_output
  PROVE  Handled(pre)
<1>1. get_next_output(out) \in Outputs
  BY NextIsOutput
<1>2. PICK o \in Outputs : o = get_next_output(out)
  BY <1>1
<1>3. PICK d : d = [Desk EXCEPT !.out = o]
  OBVIOUS
<1>4. FocusInv(d, pre) /\ Open(d) = Open(Desk)
  <2>1. Desk \in Desks
    BY DEF FocusInv, DeskInv, Sound
  <2>2. /\ d \in Desks /\ d.stack = Desk.stack /\ d.parent = Desk.parent /\ d.full = Desk.full
        /\ d.active = Desk.active /\ d.activated = Desk.activated
    BY <1>3, <2>1 DEF Desks
  <2>3. d.activated \subseteq Open(Desk)
    BY <2>2 DEF FocusInv, DeskInv
  <2> QED BY <2>2, <2>3, SameViews
<1>5. Becomes(focus_output(Desk, o))
  BY <1>2 DEF key_cb_focus_next_output
<1>6. FocusInv(focus_output(Desk, o), pre) /\ Shuffled(d, focus_output(Desk, o))
  BY <1>3, OutputFocused
<1> QED BY <1>4, <1>5, <1>6, Focused

\* The active view goes to the top of another output's list.
Sent(d, v, o, to) == [d EXCEPT !.stack[o] = Without(@, {v}), !.stack[to] = Append(@, v)]

LEMMA ViewSent ==
  ASSUME NEW pre, NEW d, FocusInv(d, pre), NEW v \in Open(d), v = d.active, NEW to \in Outputs,
         NEW from, from = OutputOf(d, v), from # to, NEW m, m = Sent(d, v, from, to)
  PROVE  FocusInv(m, pre) /\ Open(m) = Open(d)
<1>1. /\ Sound(d) /\ Families(d) /\ d \in Desks /\ from \in Outputs /\ v \in Views
      /\ v \in Range(d.stack[from]) /\ from # to
  BY Listing DEF FocusInv, DeskInv, Sound, Listed
<1>2. PICK w, a : w = Without(d.stack[from], {v}) /\ a = Append(d.stack[to], v)
  OBVIOUS
<1>3. w \in Seq(Views) /\ Range(w) = Range(d.stack[from]) \ {v} /\ IsInjective(w)
  <2>1. PICK T : T = {v}
    OBVIOUS
  <2>2. d.stack[from] \in Seq(Views) /\ IsInjective(d.stack[from]) /\ w = Without(d.stack[from], T)
    BY <1>1, <1>2, <2>1, Listing
  <2>3. w \in Seq(Views) /\ Range(w) = Range(d.stack[from]) \ T /\ IsInjective(w)
    BY <2>2, RestOrder
  <2> QED BY <2>1, <2>3
<1>4. /\ a \in Seq(Views) /\ Range(a) = Range(d.stack[to]) \cup {v} /\ IsInjective(a)
      /\ \A x, y : Above(a, x, y) <=> Above(d.stack[to], x, y) \/ (x = v /\ y \in Range(d.stack[to]))
      /\ v \notin Range(d.stack[to])
  <2>1. d.stack[to] \in Seq(Views) /\ IsInjective(d.stack[to]) /\ v \notin Range(d.stack[to])
    BY <1>1, Listing DEF Sound
  <2> QED BY <1>1, <1>2, <2>1, TopOrder
<1>5. PICK lists : lists = [[d.stack EXCEPT ![from] = w] EXCEPT ![to] = a]
  OBVIOUS
<1>6. /\ lists \in [Outputs -> Seq(Views)] /\ lists[from] = w /\ lists[to] = a
      /\ \A p \in Outputs \ {from, to} : lists[p] = d.stack[p]
  BY <1>1, <1>3, <1>4, <1>5 DEF Desks
<1>7. m = [d EXCEPT !.stack = lists]
  BY <1>1, <1>2, <1>5 DEF Sent, Desks
<1>8. /\ m \in Desks /\ m.stack = lists /\ m.activated = d.activated
      /\ m.active = d.active /\ m.mask = d.mask /\ m.space = d.space /\ m.out = d.out
      /\ m.parent = d.parent /\ m.full = d.full /\ m.action = d.action
  BY <1>1, <1>6, <1>7 DEF Desks
<1>9. /\ Range(m.stack[from]) = Range(d.stack[from]) \ {v}
       /\ Range(m.stack[to]) = Range(d.stack[to]) \cup {v}
       /\ \A p \in Outputs \ {from, to} : m.stack[p] = d.stack[p]
  BY <1>3, <1>4, <1>6, <1>8
<1>10. Open(m) = Open(d)
  <2>1. \A x : x \in Open(m) <=> \E p \in Outputs : x \in Range(m.stack[p])
    BY DEF Open
  <2>2. \A x : x \in Open(d) <=> \E p \in Outputs : x \in Range(d.stack[p])
    BY DEF Open
  <2>3. ASSUME NEW x \in Open(m) PROVE x \in Open(d)
    <3>1. PICK p \in Outputs : x \in Range(m.stack[p])
      BY <2>1
    <3>2. x = v \/ x \in Range(d.stack[p])
      BY <1>9, <3>1
    <3> QED BY <2>2, <3>2
  <2>4. ASSUME NEW x \in Open(d) PROVE x \in Open(m)
    <3>1. PICK p \in Outputs : x \in Range(d.stack[p])
      BY <2>2
    <3>2. x \in Range(m.stack[p]) \/ x \in Range(m.stack[to])
      BY <1>9, <3>1
    <3> QED BY <2>1, <3>2
  <2> QED BY <2>3, <2>4
<1>11. Sound(m)
  <2>1. \A p \in Outputs : IsInjective(m.stack[p])
    BY <1>1, <1>3, <1>4, <1>6, <1>8, Listing
  <2>2. ASSUME NEW p \in Outputs, NEW q \in Outputs, p # q
        PROVE  Range(m.stack[p]) \cap Range(m.stack[q]) = {}
    <3>1. Range(d.stack[p]) \cap Range(d.stack[q]) = {}
      BY <1>1, <2>2 DEF Sound
    <3>2. v \in Range(d.stack[p]) => p = from
      BY <1>1 DEF Sound
    <3>3. v \in Range(d.stack[q]) => q = from
      BY <1>1 DEF Sound
    <3> QED BY <1>1, <1>9, <2>2, <3>1, <3>2, <3>3
  <2> QED BY <1>8, <2>1, <2>2 DEF Sound
<1>12. Families(m)
  BY <1>1, <1>8, <1>10 DEF Families, Ranked
<1>13. DeskInv(m)
  BY <1>8, <1>10, <1>11, <1>12 DEF FocusInv, DeskInv
<1>14. Listed(m, v) = a /\ m.active = v
  <2>1. OutputOf(m, v) = to
    <3>1. v \in Range(m.stack[to])
      BY <1>9
    <3> QED BY <1>11, <3>1, Listing
  <2> QED BY <1>6, <1>8, <2>1 DEF Listed
<1>15. \A y \in Range(a) \ {v} : Above(a, v, y)
  BY <1>4
<1>16. \A x : ~Above(Listed(m, v), x, v)
  BY <1>10, <1>11, <1>14, <1>15, OnTop
<1>17. m.parent[v] # v
  BY <1>1, <1>8, NotOwnParent
<1>18. FocusInv(m, pre)
  <2>1. PeekInv(m) /\ OverInv(m)
    BY <1>8, <1>14, <1>15, <1>16, <1>17 DEF PeekInv, OverInv
  <2>2. MenusFirst => MenuInv(m)
    BY <1>8, <1>10 DEF FocusInv, MenuInv
  <2> QED BY <1>13, <2>1, <2>2 DEF FocusInv
<1> QED BY <1>10, <1>18

LEMMA ViewMovedToOutput ==
  ASSUME NEW pre, NEW d, FocusInv(d, pre), NEW v \in Open(d), v = d.active, NEW to \in Outputs
  PROVE  LET e == view_move_to_output(d, v, to) IN FocusInv(e, pre) /\ Open(e) = Open(d)
<1>1. PICK from : from = OutputOf(d, v)
  OBVIOUS
<1>2. from \in Outputs /\ v \in Views
  BY <1>1, Listing DEF FocusInv, DeskInv
<1>3. CASE from = to
  BY <1>1, <1>3 DEF view_move_to_output
<1>4. CASE from # to
  <2>1. PICK m : m = Sent(d, v, from, to)
    OBVIOUS
  <2>2. FocusInv(m, pre) /\ Open(m) = Open(d)
    BY <1>1, <1>4, <2>1, ViewSent
  <2>3. PICK a : a = IF v \in m.activated THEN set_active_view_on_output(m, to, v) ELSE m
    OBVIOUS
  <2>4. FocusInv(a, pre) /\ Open(a) = Open(m)
    <3>1. CASE v \notin m.activated
      BY <2>2, <2>3, <3>1
    <3>2. CASE v \in m.activated
      <4>1. m \in Desks
        BY <2>2 DEF FocusInv, DeskInv, Sound
      <4>2. a = [m EXCEPT !.activated = (@ \ Range(m.stack[to])) \cup ({v} \cap Range(m.stack[to]))]
        BY <2>3, <3>2 DEF set_active_view_on_output
      <4>3. /\ a \in Desks /\ a.stack = m.stack /\ a.parent = m.parent /\ a.full = m.full
            /\ a.active = m.active /\ a.activated \subseteq m.activated \cup {v}
        BY <1>2, <4>1, <4>2 DEF Desks
      <4>4. a.activated \subseteq Open(m)
        BY <2>2, <4>3 DEF FocusInv, DeskInv
      <4> QED BY <2>2, <4>3, <4>4, SameViews
    <3> QED BY <3>1, <3>2
  <2>5. view_move_to_output(d, v, to) = focus_topmost(a, from)
    BY <1>1, <1>4, <2>1, <2>3 DEF view_move_to_output, Sent
  <2>6. FocusInv(focus_topmost(a, from), pre) /\ Shuffled(a, focus_topmost(a, from))
    BY <1>2, <2>4, FocusTopmostKeeps
  <2>7. Open(focus_topmost(a, from)) = Open(a)
    BY <2>4, <2>6, ShuffledSame DEF FocusInv, DeskInv
  <2> QED BY <2>2, <2>4, <2>5, <2>6, <2>7
<1> QED BY <1>3, <1>4

LEMMA MovedToOutput ==
  ASSUME NEW pre, FocusInv(Desk, pre), NEW o \in Outputs, move_to_output(o)
  PROVE  Handled(pre)
<1>1. PICK d : d = [Desk EXCEPT !.mask[active] = space[o]]
  OBVIOUS
<1>2. Desk \in Desks /\ active \in Open(Desk)
  BY DeskIs DEF FocusInv, DeskInv, Sound, move_to_output
<1>3. /\ d \in Desks /\ d.stack = Desk.stack /\ d.parent = Desk.parent /\ d.full = Desk.full
      /\ d.active = Desk.active /\ d.activated = Desk.activated
  <2>1. space[o] \in 0..(Spaces - 1)
    BY <1>2, DeskIs DEF Desks
  <2> QED BY <1>1, <1>2, <2>1 DEF Desks
<1>4. FocusInv(d, pre) /\ Open(d) = Open(Desk)
  <2>1. d.activated \subseteq Open(Desk)
    BY <1>3 DEF FocusInv, DeskInv
  <2> QED BY <1>3, <2>1, SameViews
<1>5. PICK e : e = view_move_to_output(d, active, o)
  OBVIOUS
<1>6. FocusInv(e, pre) /\ Open(e) = Open(d)
  <2>1. active \in Open(d) /\ active = d.active
    BY <1>2, <1>3, <1>4, DeskIs
  <2> QED BY <1>4, <1>5, <2>1, ViewMovedToOutput
<1>7. PICK c : c = [e EXCEPT !.out = o]
  OBVIOUS
<1>8. FocusInv(c, pre) /\ Open(c) = Open(e)
  <2>1. e \in Desks
    BY <1>6 DEF FocusInv, DeskInv, Sound
  <2>2. /\ c \in Desks /\ c.stack = e.stack /\ c.parent = e.parent /\ c.full = e.full
        /\ c.active = e.active /\ c.activated = e.activated
    BY <1>7, <2>1 DEF Desks
  <2>3. c.activated \subseteq Open(e)
    BY <1>6, <2>2 DEF FocusInv, DeskInv
  <2> QED BY <1>6, <2>2, <2>3, SameViews
<1>9. Becomes(focus_output(e, o))
  BY <1>1, <1>5 DEF move_to_output
<1>10. FocusInv(focus_output(e, o), pre) /\ Shuffled(c, focus_output(e, o))
  BY <1>6, <1>7, OutputFocused
<1> QED BY <1>4, <1>6, <1>8, <1>9, <1>10, Focused

\* A view becomes fullscreen, or no longer: the active one, or any.
LEMMA Toggled ==
  ASSUME NEW pre, FocusInv(Desk, pre), NEW v \in Open(Desk), Becomes(toggled(v)),
         v = active \/ ("peek" \notin pre.kept /\ pre.active = active)
  PROVE  Handled(pre)
<1>1. PICK c : c = Desk
  OBVIOUS
<1>2. c \in Desks /\ FocusInv(c, pre) /\ c.active = active /\ v \in Open(c) /\ v \in Views /\ Sound(c)
  BY <1>1, DeskIs, Listing DEF FocusInv, DeskInv, Sound
<1>3. PICK t : t = IF v \in c.full THEN c.full \ {v} ELSE c.full \cup {v}
  OBVIOUS
<1>4. t \subseteq c.full \cup {v} /\ c.full \subseteq Open(c) /\ c.full \subseteq Views
  BY <1>2, <1>3, Listing DEF FocusInv, DeskInv
<1>5. PICK e : e = [c EXCEPT !.full = t]
  OBVIOUS
<1>6. /\ e \in Desks /\ e.stack = c.stack /\ e.parent = c.parent /\ e.full = t
      /\ e.active = c.active /\ e.activated = c.activated
  BY <1>2, <1>4, <1>5 DEF Desks
<1>7. Desk' = e
  <2>1. Becomes(e)
    BY <1>1, <1>3, <1>5, DeskIs DEF toggled
  <2> QED BY <1>6, <2>1, Became
<1>8. Open(e) = Open(c) /\ \A w : Listed(e, w) = Listed(c, w)
  BY <1>6 DEF Open, Listed, OutputOf
<1>9. DeskInv(e)
  <2>1. e.full \subseteq Open(c)
    BY <1>2, <1>4, <1>6
  <2> QED BY <1>2, <1>6, <1>8, <2>1 DEF FocusInv, DeskInv, Sound, Families, Ranked
<1>10. Due("peek", e, pre) => PeekInv(e)
  <2> SUFFICES ASSUME Due("peek", e, pre) PROVE PeekInv(e)
    OBVIOUS
  <2>1. v = active
    BY <1>2, <1>6 DEF Due
  <2>2. PeekInv(c)
    BY <1>2, <1>6 DEF FocusInv, Due
  <2> QED BY <1>2, <1>4, <1>6, <1>8, <2>1, <2>2 DEF PeekInv
<1>11. (MenusFirst => MenuInv(e)) /\ (Due("over", e, pre) => OverInv(e))
  BY <1>2, <1>6, <1>8 DEF FocusInv, Due, MenuInv, OverInv
<1> QED BY <1>1, <1>7, <1>8, <1>9, <1>10, <1>11 DEF Handled, FocusInv

LEMMA FullscreenToggled ==
  ASSUME NEW pre, FocusInv(Desk, pre), key_cb_toggle_fullscreen
  PROVE  Handled(pre)
<1>1. active \in Open(Desk)
  BY DeskIs DEF key_cb_toggle_fullscreen, FocusInv, DeskInv
<1> QED BY <1>1, Toggled DEF key_cb_toggle_fullscreen

LEMMA StateRequested ==
  ASSUME NEW pre, FocusInv(Desk, pre), "peek" \notin pre.kept, pre.active = active,
         NEW v \in Views, view_state_request(v)
  PROVE  Handled(pre)
BY Toggled DEF view_state_request

LEMMA ViewShown ==
  ASSUME NEW pre, FocusInv(Desk, pre)
  PROVE  Shown \subseteq Open(Desk)
BY DeskIs, Listing DEF FocusInv, DeskInv, Sound, Desks, Shown

LEMMA ViewClicked ==
  ASSUME NEW pre, FocusInv(Desk, pre), NEW v \in Views, key_cb_focus_view(v)
  PROVE  Handled(pre)
<1>1. v \in Open(Desk) /\ Becomes(focus_view(Desk, v))
  BY ViewShown DEF key_cb_focus_view
<1> QED BY <1>1, FocusViewKeeps, Focused

LEMMA PointerMoved ==
  ASSUME NEW pre, FocusInv(Desk, pre), NEW v \in Views \cup {None}, pointer_motion(v)
  PROVE  Handled(pre)
<1>1. v \in Open(Desk) \cup {None} /\ Becomes(focus_view(Desk, v))
  BY ViewShown DEF pointer_motion
<1> QED BY <1>1, FocusViewKeeps, Focused

LEMMA DragStopped ==
  ASSUME NEW pre, FocusInv(Desk, pre), stop_interactive_action
  PROVE  Handled(pre)
<1>1. PICK d : d = [Desk EXCEPT !.action = None]
  OBVIOUS
<1>2. Desk \in Desks
  BY DEF FocusInv, DeskInv, Sound
<1>3. /\ d \in Desks /\ d.stack = Desk.stack /\ d.parent = Desk.parent /\ d.full = Desk.full
      /\ d.active = Desk.active /\ d.activated = Desk.activated
  BY <1>1, <1>2 DEF Desks
<1>4. Desk' = d
  <2>1. Becomes(d)
    BY <1>1 DEF stop_interactive_action
  <2> QED BY <1>3, <2>1, Became
<1>5. d.activated \subseteq Open(Desk)
  BY <1>3 DEF FocusInv, DeskInv
<1> QED BY <1>3, <1>4, <1>5, SameViews DEF Handled

\* The views get another order, and the focus stays: of what it had brought
\* with it nothing is kept.
LEMMA OrderChanged ==
  ASSUME NEW pre, NEW d, FocusInv(d, pre), pre.kept = {}, pre.active = d.active,
         NEW e, Restacked(d, e)
  PROVE  FocusInv(e, pre) /\ Shuffled(d, e)
<1>1. /\ Sound(d) /\ Families(d) /\ Shuffled(d, e) /\ Sound(e)
      /\ e.active = d.active /\ e.full = d.full /\ e.activated = d.activated
  BY DEF FocusInv, DeskInv, Restacked, Shuffled, Beside
<1>2. Open(e) = Open(d) /\ Families(e)
  BY <1>1, ShuffledSame, FamiliesStay
<1>3. DeskInv(e) /\ (MenusFirst => MenuInv(e))
  BY <1>1, <1>2 DEF FocusInv, DeskInv, MenuInv
<1> QED BY <1>1, <1>3 DEF FocusInv, Due

\* By a drag.
LEMMA DragStarted ==
  ASSUME NEW pre, FocusInv(Desk, pre), pre.kept = {}, pre.active = active,
         NEW v \in Views, start_interactive_action(v)
  PROVE  Handled(pre)
<1>1. PICK d : d = [Desk EXCEPT !.action = v]
  OBVIOUS
<1>2. Desk \in Desks
  BY DEF FocusInv, DeskInv, Sound
<1>3. /\ d \in Desks /\ d.stack = Desk.stack /\ d.parent = Desk.parent /\ d.full = Desk.full
      /\ d.active = Desk.active /\ d.activated = Desk.activated
  BY <1>1, <1>2 DEF Desks
<1>4. FocusInv(d, pre) /\ Open(d) = Open(Desk)
  <2>1. d.activated \subseteq Open(Desk)
    BY <1>3 DEF FocusInv, DeskInv
  <2> QED BY <1>3, <2>1, SameViews
<1>5. PICK e : e = wlc_view_bring_to_front(d, v)
  OBVIOUS
<1>6. Becomes(e) /\ v \in Open(d)
  BY <1>1, <1>4, <1>5, ViewShown DEF start_interactive_action
<1>7. Restacked(d, e)
  BY <1>4, <1>5, <1>6, Fronted DEF FocusInv, DeskInv
<1>8. FocusInv(e, pre) /\ Shuffled(d, e)
  BY <1>3, <1>4, <1>7, OrderChanged, DeskIs
<1> QED BY <1>4, <1>6, <1>8, Focused

\* The least of a set of places.
LEMMA MinOfSet ==
  ASSUME NEW n \in Nat, NEW at \in SUBSET (1..n), at # {}
  PROVE  Min(at) \in at /\ \A i \in at : Min(at) <= i
<1>1. PICK up : up = {n + 1 - i : i \in at}
  OBVIOUS
<1>2. up \in SUBSET (1..n) /\ up # {}
  <2>1. \A i \in at : n + 1 - i \in 1..n
    OBVIOUS
  <2>2. \A x \in up : x \in 1..n
    BY <1>1, <2>1
  <2>3. PICK i : i \in at
    OBVIOUS
  <2>4. n + 1 - i \in up
    BY <1>1, <2>3
  <2> QED BY <2>2, <2>4
<1>3. PICK m : m \in up /\ \A x \in up : x <= m
  BY <1>2, Raising!MaxOfSet
<1>4. PICK k \in at : m = n + 1 - k
  BY <1>1, <1>3
<1>5. ASSUME NEW i \in at PROVE k <= i
  <2>1. n + 1 - i <= n + 1 - k
    BY <1>1, <1>3, <1>4
  <2> QED BY <1>4, <2>1
<1> QED BY <1>5 DEF Min

\* The other views of a list, and itself, are of the list.
LEMMA GoneAround ==
  ASSUME NEW s \in Seq(Views), NEW at \in DOMAIN s, NEW dir
  PROVE  /\ DOMAIN Around(s, at, dir) = DOMAIN s
         /\ \A k \in DOMAIN s : Around(s, at, dir)[k] \in Range(s)
<1>1. PICK n : n = Len(s) /\ n \in Nat /\ DOMAIN s = 1..n
  BY LenProperties
<1>2. PICK a : a = Around(s, at, dir)
  OBVIOUS
<1>3. a = [k \in 1..n |-> s[1 + ((IF dir = "NEXT" THEN at + k - 1 ELSE at + n - k - 1) % n)]]
  BY <1>1, <1>2 DEF Around
<1>4. ASSUME NEW k \in 1..n PROVE a[k] \in Range(s)
  <2>1. PICK x : x = IF dir = "NEXT" THEN at + k - 1 ELSE at + n - k - 1
    OBVIOUS
  <2>2. n > 0 /\ x \in Int
    BY <1>1, <2>1
  <2>3. x % n \in 0..(n - 1)
    BY <1>1, <2>2
  <2>4. 1 + (x % n) \in DOMAIN s
    BY <1>1, <2>3
  <2>5. a[k] = s[1 + (x % n)]
    BY <1>3, <2>1
  <2> QED BY <2>4, <2>5 DEF Range
<1> QED BY <1>1, <1>2, <1>3, <1>4

\* What is tried is of one list.
LEMMA CandidatesListed ==
  ASSUME NEW pre, FocusInv(Desk, pre), NEW dir \in {"NEXT", "PREV"}
  PROVE  /\ Len(Candidates(dir)) \in Nat
         /\ DOMAIN Candidates(dir) = 1..Len(Candidates(dir))
         /\ \A k \in 1..Len(Candidates(dir)) :
              Candidates(dir)[k] \in Range(IF active = None THEN stack[out] ELSE Listed(Desk, active))
<1>1. PICK s : s = IF active = None THEN stack[out] ELSE Listed(Desk, active)
  OBVIOUS
<1> DEFINE at == IF active # None THEN CHOOSE i \in DOMAIN s : s[i] = active
                 ELSE IF dir = "NEXT" THEN 1 ELSE Len(s)
<1> HIDE DEF at
<1>2. PICK all : all = Around(s, at, dir)
  OBVIOUS
<1>3. PICK showing : showing = {k \in DOMAIN s : mask[all[k]] = space[out]}
  OBVIOUS
<1>4. PICK c : c = Candidates(dir)
  OBVIOUS
<1>5. c = IF active # None THEN all ELSE IF showing = {} THEN <<>> ELSE <<all[Min(showing)]>>
  BY <1>1, <1>2, <1>3, <1>4 DEF at, Candidates
<1>6. Sound(Desk) /\ out \in Outputs /\ Desk \in Desks /\ stack = Desk.stack
  BY DeskIs DEF FocusInv, DeskInv, Sound, Desks
<1>7. s \in Seq(Views) /\ (active # None => active \in Range(s))
  <2>1. CASE active = None
    BY <1>1, <1>6, <2>1, Listing
  <2>2. CASE active # None
    <3>1. active \in Open(Desk)
      BY <2>2, DeskIs DEF FocusInv, DeskInv
    <3> QED BY <1>1, <1>6, <2>2, <3>1, Listing DEF Listed
  <2> QED BY <2>1, <2>2
<1>8. PICK n : n = Len(s) /\ n \in Nat /\ DOMAIN s = 1..n
  BY <1>7, LenProperties
<1>9. DOMAIN s # {} => at \in DOMAIN s
  <2>1. CASE active # None
    <3>1. \E i \in DOMAIN s : s[i] = active
      BY <1>7, <2>1 DEF Range
    <3> QED BY <2>1, <3>1 DEF at
  <2>2. CASE active = None
    BY <1>8, <2>2 DEF at
  <2> QED BY <2>1, <2>2
<1>10. ASSUME NEW k \in DOMAIN s PROVE DOMAIN all = 1..n /\ all[k] \in Range(s)
  BY <1>2, <1>7, <1>8, <1>9, <1>10, GoneAround
<1>11. c \in Seq(Range(s))
  <2>1. CASE active # None
    <3>1. DOMAIN s # {}
      BY <1>7, <2>1 DEF Range
    <3>2. all = [k \in 1..n |-> all[k]]
      BY <1>2, <1>8 DEF Around
    <3>3. all \in [1..n -> Range(s)]
      BY <1>8, <1>10, <3>2
    <3> QED BY <1>5, <1>8, <2>1, <3>3, SeqDef
  <2>2. CASE active = None /\ showing = {}
    <3>1. c = <<>>
      BY <1>5, <2>2
    <3> QED BY <3>1
  <2>3. CASE active = None /\ showing # {}
    <3>1. Min(showing) \in DOMAIN s
      BY <1>3, <1>8, <2>3, MinOfSet
    <3>2. PICK x \in Range(s) : x = all[Min(showing)]
      BY <1>10, <3>1
    <3>3. c = <<x>>
      BY <1>5, <2>3, <3>2
    <3> QED BY <3>3
  <2> QED BY <2>1, <2>2, <2>3
<1>12. /\ Len(c) \in Nat /\ DOMAIN c = 1..Len(c)
       /\ \A k \in 1..Len(c) : c[k] \in Range(s)
  BY <1>11, LenProperties, ElementOfSeq
<1> QED BY <1>1, <1>4, <1>12

LEMMA CandidatesOpen ==
  ASSUME NEW pre, FocusInv(Desk, pre), NEW dir \in {"NEXT", "PREV"}
  PROVE  /\ Len(Candidates(dir)) \in Nat
         /\ DOMAIN Candidates(dir) = 1..Len(Candidates(dir))
         /\ \A k \in 1..Len(Candidates(dir)) : Candidates(dir)[k] \in Open(Desk)
<1>1. PICK s : s = IF active = None THEN stack[out] ELSE Listed(Desk, active)
  OBVIOUS
<1>2. Sound(Desk) /\ out \in Outputs /\ stack = Desk.stack /\ (active # None => active \in Open(Desk))
  BY DeskIs DEF FocusInv, DeskInv, Sound, Desks
<1>3. Range(s) \subseteq Open(Desk)
  BY <1>1, <1>2, Listing DEF Listed
<1> QED BY <1>1, <1>3, CandidatesListed

\* The tries, one by one.
LEMMA TriesUnrolled ==
  ASSUME NEW pre, FocusInv(Desk, pre), NEW dir \in {"NEXT", "PREV"}, NEW n, n = Len(Candidates(dir))
  PROVE  \E a : /\ a[0] = Desk
                /\ \A k \in 1..n : a[k] = try_focus(a[k - 1], Candidates(dir)[k])
                /\ FoldLeft(try_focus, Desk, Candidates(dir)) = a[n]
<1>1. PICK base, list : base = Desk /\ list = Candidates(dir)
  OBVIOUS
<1>2. Len(list) \in Nat /\ DOMAIN list = 1..Len(list)
  BY <1>1, CandidatesOpen
<1>3. FoldLeft(try_focus, base, list) = Trying!FoldLeft(try_focus, base, list)
  BY Zenon DEF FoldLeft, Trying!FoldLeft, MapThenFoldSet, Trying!MapThenFoldSet, Max, Trying!Max
<1>4. \E a : /\ a[0] = base
             /\ \A k \in 1..Len(list) : a[k] = try_focus(a[k - 1], list[k])
             /\ Trying!FoldLeft(try_focus, base, list) = a[Len(list)]
  BY <1>2, Trying!FoldUnrolled, ZenonT(60)
<1> QED BY <1>1, <1>3, <1>4, Zenon

LEMMA ViewRotated ==
  ASSUME NEW pre, FocusInv(Desk, pre), NEW dir \in {"NEXT", "PREV"},
         focus_next_or_previous_view(dir)
  PROVE  Handled(pre)
<1>1. PICK n, c : n = Len(Candidates(dir)) /\ c = Candidates(dir)
  OBVIOUS
<1>2. n \in Nat /\ \A k \in 1..n : c[k] \in Open(Desk)
  BY <1>1, CandidatesOpen
<1>3. PICK a : /\ a[0] = Desk
               /\ \A k \in 1..n : a[k] = try_focus(a[k - 1], c[k])
               /\ FoldLeft(try_focus, Desk, c) = a[n]
  BY <1>1, TriesUnrolled, ZenonT(60)
<1> DEFINE Done == {k \in Nat : k <= n => FocusInv(a[k], pre) /\ Open(a[k]) = Open(Desk)}
<1>4. 0 \in Done
  BY <1>3
<1>5. ASSUME NEW k \in Nat, k \in Done PROVE k + 1 \in Done
  <2> SUFFICES ASSUME k + 1 <= n PROVE FocusInv(a[k + 1], pre) /\ Open(a[k + 1]) = Open(Desk)
    OBVIOUS
  <2>1. PICK d : d = a[k]
    OBVIOUS
  <2>2. FocusInv(d, pre) /\ Open(d) = Open(Desk) /\ k + 1 \in 1..n /\ (k + 1) - 1 = k
    BY <1>2, <1>5, <2>1
  <2>3. a[k + 1] = try_focus(d, c[k + 1]) /\ c[k + 1] \in Open(d)
    BY <1>2, <1>3, <2>1, <2>2
  <2>4. PICK v \in Open(d) : v = c[k + 1]
    BY <2>3
  <2>5. FocusInv(focus_view(d, v), pre) /\ Open(focus_view(d, v)) = Open(d)
    BY <2>2, FocusViewKeeps, ShuffledSame DEF FocusInv, DeskInv
  <2>6. a[k + 1] = d \/ a[k + 1] = focus_view(d, v)
    BY <2>3, <2>4 DEF try_focus
  <2> QED BY <2>2, <2>5, <2>6
<1>6. n \in Done
  <2> HIDE DEF Done
  <2> QED BY <1>2, <1>4, <1>5, Raising!Induction
<1>7. PICK e : e = a[n]
  OBVIOUS
<1>8. FocusInv(e, pre) /\ Open(e) = Open(Desk)
  BY <1>2, <1>6, <1>7
<1>9. Becomes(e)
  BY <1>1, <1>3, <1>7 DEF focus_next_or_previous_view
<1>10. Desk' = e
  BY <1>8, <1>9, Became DEF FocusInv, DeskInv, Sound
<1> QED BY <1>8, <1>10 DEF Handled

\* A list whose places are exchanged.
LEMMA Permuted ==
  ASSUME NEW P, NEW s, DOMAIN s = P, IsInjective(s), NEW t, DOMAIN t = P, NEW g,
         \A i \in P : g[i] \in P, \A i \in P : t[i] = s[g[i]],
         \A i, j \in P : g[i] = g[j] => i = j,
         \A k \in P : \E i \in P : g[i] = k
  PROVE  Range(t) = Range(s) /\ IsInjective(t)
<1>1. Range(t) = Range(s)
  <2>1. ASSUME NEW x \in Range(s) PROVE x \in Range(t)
    BY DEF Range
  <2>2. ASSUME NEW x \in Range(t) PROVE x \in Range(s)
    BY DEF Range
  <2> QED BY <2>1, <2>2
<1>2. IsInjective(t)
  <2> SUFFICES ASSUME NEW i \in P, NEW j \in P, t[i] = t[j] PROVE i = j
    BY DEF IsInjective
  <2>1. s[g[i]] = s[g[j]] /\ g[i] \in P /\ g[j] \in P
    OBVIOUS
  <2>2. g[i] = g[j]
    BY <2>1 DEF IsInjective
  <2> QED BY <2>2
<1> QED BY <1>1, <1>2

\* Each place of a set takes what the next has, and the last what the first has.
Follower(at) == [i \in at |-> IF i = Max(at) THEN Min(at) ELSE Min({j \in at : j > i})]
Cycled(s, at) == [i \in DOMAIN s |-> IF i \in at THEN s[Follower(at)[i]] ELSE s[i]]

LEMMA PlacesCycled ==
  ASSUME NEW s \in Seq(Views), IsInjective(s), NEW at \in SUBSET DOMAIN s
  PROVE  /\ Cycled(s, at) \in Seq(Views) /\ Range(Cycled(s, at)) = Range(s)
         /\ IsInjective(Cycled(s, at))
<1>1. PICK n \in Nat : DOMAIN s = 1..n /\ n = Len(s)
  BY LenProperties
<1> DEFINE f == Follower(at)
<1>2. \A i \in at : f[i] = IF i = Max(at) THEN Min(at) ELSE Min({j \in at : j > i})
  BY DEF Follower
<1> HIDE DEF f
<1>3. \A i \in at : i \in 1..n
  BY <1>1
<1>4. ASSUME at # {}
      PROVE  Max(at) \in at /\ Min(at) \in at /\ \A i \in at : i <= Max(at) /\ Min(at) <= i
  <2>1. Max(at) \in at /\ \A i \in at : i <= Max(at)
    BY <1>1, <1>4, Raising!MaxOfSet, SameLists
  <2>2. Min(at) \in at /\ \A i \in at : Min(at) <= i
    BY <1>1, <1>4, MinOfSet
  <2> QED BY <2>1, <2>2
<1>5. ASSUME NEW i \in at, i # Max(at)
      PROVE  f[i] \in at /\ i < f[i] /\ \A j \in at : i < j => f[i] <= j
  <2>1. PICK over : over = {j \in at : j > i}
    OBVIOUS
  <2>2. Max(at) \in over
    BY <1>3, <1>4, <1>5, <2>1
  <2>3. over \in SUBSET (1..n) /\ over # {}
    BY <1>3, <2>1, <2>2
  <2>4. Min(over) \in over /\ \A j \in over : Min(over) <= j
    BY <2>3, MinOfSet
  <2>5. f[i] = Min(over)
    BY <1>2, <1>5, <2>1
  <2> QED BY <1>3, <2>1, <2>4, <2>5
<1>6. at # {} => f[Max(at)] = Min(at)
  BY <1>2, <1>4
<1>7. \A i \in at : f[i] \in at
  BY <1>4, <1>5, <1>6
<1>8. ASSUME NEW i \in at, NEW j \in at, i < j PROVE f[i] # f[j]
  <2>1. i # Max(at) /\ f[i] <= j /\ i < f[i] /\ f[i] \in at
    <3>1. i # Max(at)
      BY <1>3, <1>4, <1>8
    <3> QED BY <1>5, <1>8, <3>1
  <2>2. CASE j = Max(at)
    <3>1. f[j] <= i
      BY <1>4, <1>6, <2>2
    <3> QED BY <1>3, <2>1, <3>1
  <2>3. CASE j # Max(at)
    <3>1. j < f[j] /\ f[j] \in at
      BY <1>5, <2>3
    <3> QED BY <1>3, <2>1, <3>1
  <2> QED BY <2>2, <2>3
<1>9. ASSUME NEW i \in at, NEW j \in at, f[i] = f[j] PROVE i = j
  <2>1. i < j \/ j < i \/ i = j
    BY <1>3
  <2> QED BY <1>8, <1>9, <2>1
<1>10. ASSUME NEW k \in at PROVE \E i \in at : f[i] = k
  <2>1. CASE k = Min(at)
    BY <1>4, <1>6, <2>1
  <2>2. CASE k # Min(at)
    <3>1. PICK under : under = {j \in at : j < k}
      OBVIOUS
    <3>2. Min(at) \in under
      BY <1>3, <1>4, <2>2, <3>1
    <3>3. under \in SUBSET (1..n) /\ under # {}
      BY <1>3, <3>1, <3>2
    <3>4. PICK i : i \in under /\ \A j \in under : j <= i
      BY <3>3, Raising!MaxOfSet
    <3>5. i \in at /\ i < k /\ k \in 1..n /\ i \in 1..n
      BY <1>3, <3>1, <3>4
    <3>6. i # Max(at)
      BY <1>3, <1>4, <3>5
    <3>7. f[i] \in at /\ i < f[i] /\ f[i] <= k
      BY <1>5, <3>5, <3>6
    <3>8. ~(f[i] < k)
      BY <1>3, <3>1, <3>4, <3>5, <3>7
    <3>9. f[i] = k
      BY <1>3, <3>5, <3>7, <3>8
    <3> QED BY <3>5, <3>9
  <2> QED BY <2>1, <2>2
<1>11. PICK g : g = [i \in 1..n |-> IF i \in at THEN f[i] ELSE i]
  OBVIOUS
<1>12. PICK t : t = Cycled(s, at)
  OBVIOUS
<1>13. /\ t = [i \in 1..n |-> t[i]]
       /\ \A i \in 1..n : t[i] = IF i \in at THEN s[f[i]] ELSE s[i]
  BY <1>1, <1>12 DEF Cycled, f
<1>14. /\ \A i \in 1..n : g[i] \in 1..n
       /\ \A i \in 1..n : t[i] = s[g[i]]
  <2>1. ASSUME NEW i \in 1..n PROVE g[i] \in 1..n
    BY <1>3, <1>7, <1>11
  <2>2. ASSUME NEW i \in 1..n PROVE t[i] = s[g[i]]
    BY <1>11, <1>13
  <2> QED BY <2>1, <2>2
<1>15. \A i, j \in 1..n : g[i] = g[j] => i = j
  BY <1>7, <1>9, <1>11
<1>16. ASSUME NEW k \in 1..n PROVE \E i \in 1..n : g[i] = k
  <2>1. CASE k \in at
    BY <1>3, <1>10, <1>11, <2>1
  <2>2. CASE k \notin at
    BY <1>11, <2>2
  <2> QED BY <2>1, <2>2
<1>17. t \in Seq(Views) /\ DOMAIN t = 1..n
  <2>1. \A i \in 1..n : s[i] \in Views
    BY <1>1, ElementOfSeq
  <2>2. t \in [1..n -> Views]
    BY <1>13, <1>14, <2>1
  <2> QED BY <2>2, SeqDef
<1>18. DOMAIN s = 1..n
  BY <1>1
<1>19. Range(t) = Range(s) /\ IsInjective(t)
  <2>1. PICK P : P = 1..n
    OBVIOUS
  <2>2. \A i \in P : g[i] \in P
    BY <1>14, <2>1
  <2>3. \A i \in P : t[i] = s[g[i]]
    BY <1>14, <2>1
  <2>4. \A i, j \in P : g[i] = g[j] => i = j
    BY <1>15, <2>1
  <2>5. \A k \in P : \E i \in P : g[i] = k
    BY <1>16, <2>1
  <2>6. DOMAIN s = P /\ DOMAIN t = P
    BY <1>17, <1>18, <2>1
  <2> QED BY <2>2, <2>3, <2>4, <2>5, <2>6, Permuted
<1> QED BY <1>12, <1>17, <1>19

LEMMA OutputCycled ==
  ASSUME NEW d, Sound(d), NEW o \in Outputs
  PROVE  Restacked(d, cycle_output(d, o))
<1>1. PICK s : s = d.stack[o]
  OBVIOUS
<1>2. PICK at : at = Places(s, {v \in Views : is_tiled(d, v) /\ d.mask[v] = d.space[o]})
  OBVIOUS
<1>3. PICK t : t = Cycled(s, at)
  OBVIOUS
<1>4. s \in Seq(Views) /\ IsInjective(s) /\ at \in SUBSET DOMAIN s /\ d \in Desks
  BY <1>1, <1>2, Listing DEF Places, Sound
<1>5. t \in Seq(Views) /\ Range(t) = Range(s) /\ IsInjective(t)
  BY <1>3, <1>4, PlacesCycled
<1>6. PICK e : e = cycle_output(d, o)
  OBVIOUS
<1>7. e = [d EXCEPT !.stack[o] = t]
  <2>1. e = [d EXCEPT !.stack[o] =
               [i \in DOMAIN s |-> IF i \in at
                  THEN s[IF i = Max(at) THEN Min(at) ELSE Min({j \in at : j > i})] ELSE s[i]]]
    BY <1>1, <1>2, <1>6 DEF cycle_output
  <2>2. t = [i \in DOMAIN s |-> IF i \in at
               THEN s[IF i = Max(at) THEN Min(at) ELSE Min({j \in at : j > i})] ELSE s[i]]
    <3>1. \A i \in at : Follower(at)[i] = IF i = Max(at) THEN Min(at) ELSE Min({j \in at : j > i})
      BY DEF Follower
    <3> QED BY <1>3, <3>1 DEF Cycled
  <2> QED BY <2>1, <2>2
<1>8. /\ e \in Desks /\ e.stack = [d.stack EXCEPT ![o] = t]
      /\ e.active = d.active /\ e.activated = d.activated /\ Beside(d, e)
  BY <1>4, <1>5, <1>7 DEF Desks, Beside
<1>9. \A p \in Outputs : e.stack[p] = IF p = o THEN t ELSE d.stack[p]
  BY <1>4, <1>8 DEF Desks
<1>10. \A p \in Outputs : Range(e.stack[p]) = Range(d.stack[p]) /\ IsInjective(e.stack[p])
  BY <1>1, <1>5, <1>9 DEF Sound
<1>11. Sound(e)
  BY <1>8, <1>10 DEF Sound
<1> QED BY <1>6, <1>8, <1>10, <1>11 DEF Restacked, Shuffled

LEMMA ClientsCycled ==
  ASSUME NEW pre, FocusInv(Desk, pre), pre.kept = {}, pre.active = active, key_cb_cycle_clients
  PROVE  Handled(pre)
<1>1. PICK e : e = cycle_output(Desk, out)
  OBVIOUS
<1>2. Sound(Desk) /\ out \in Outputs
  BY DeskIs DEF FocusInv, DeskInv, Sound, Desks
<1>3. FocusInv(e, pre) /\ Shuffled(Desk, e)
  BY <1>1, <1>2, OutputCycled, OrderChanged, DeskIs
<1> QED BY <1>1, <1>3, Focused DEF key_cb_cycle_clients

-----------------------------------------------------------------------------
(* The safety theorems *)

FocusHolds == DeskInv(Desk) /\ (MenusFirst => MenuInv(Desk))

\* Where nothing is said of what the focus had brought with it.
LEMMA HoldsBefore ==
  ASSUME FocusHolds
  PROVE  FocusInv(Desk, [kept |-> {}, active |-> active])
BY DeskIs DEF FocusHolds, FocusInv, Due

LEMMA InitHolds == Init => FocusHolds
<1> SUFFICES ASSUME Init PROVE FocusHolds
  OBVIOUS
<1>1. PICK d : d = Desk
  OBVIOUS
<1>2. /\ d.active = None /\ d.action = None /\ d.stack = [o \in Outputs |-> <<>>]
      /\ d.mask = [v \in Views |-> 0] /\ d.space = [o \in Outputs |-> 0] /\ d.out = OutputList[1]
      /\ d.parent = [v \in Views |-> None] /\ d.full = {} /\ d.activated = {}
  BY <1>1, DeskIs DEF Init
<1>3. OutputList[1] \in Outputs /\ 0 \in 0..(Spaces - 1)
  <2>1. DOMAIN OutputList = 1..Len(OutputList) /\ Len(OutputList) \in Nat \ {0}
    BY FocusConstants, LenProperties, EmptySeq
  <2>2. 1 \in DOMAIN OutputList
    BY <2>1
  <2> QED BY <2>2, FocusConstants DEF Outputs, Range
<1>4. d \in Desks
  <2>1. /\ [o \in Outputs |-> <<>>] \in [Outputs -> Seq(Views)]
        /\ [v \in Views |-> 0] \in [Views -> 0..(Spaces - 1)]
        /\ [o \in Outputs |-> 0] \in [Outputs -> 0..(Spaces - 1)]
        /\ [v \in Views |-> None] \in [Views -> Views \cup {None}]
    BY <1>3
  <2>2. d = [active |-> d.active, action |-> d.action, stack |-> d.stack, mask |-> d.mask,
             space |-> d.space, out |-> d.out, parent |-> d.parent, full |-> d.full,
             activated |-> d.activated]
    BY <1>1 DEF Desk
  <2> QED BY <1>2, <1>3, <2>1, <2>2 DEF Desks
<1>5. \A o \in Outputs : Range(d.stack[o]) = {} /\ IsInjective(d.stack[o])
  BY <1>2 DEF Range, IsInjective
<1>6. Sound(d) /\ Open(d) = {}
  BY <1>4, <1>5 DEF Sound, Open
<1>7. Families(d)
  <2>1. PICK n \in Nat : n = 0
    OBVIOUS
  <2>2. [v \in Views |-> 0] \in [Views -> 0..n]
    BY <2>1
  <2>3. \A v \in Views : d.parent[v] = None
    BY <1>2
  <2> QED BY <2>2, <2>3 DEF Families, Ranked
<1>8. DeskInv(d) /\ MenuInv(d)
  BY <1>2, <1>6, <1>7 DEF DeskInv, MenuInv
<1> QED BY <1>1, <1>8 DEF FocusHolds

\* A step leaves the desk alone, or is a handler's.
LEMMA StepKeeps ==
  ASSUME NEW pre, FocusInv(Desk, pre), pre.active = active, [Next]_fvars,
         Reordered => pre.kept = {},
         \A v \in Views : view_state_request(v) => "peek" \notin pre.kept
  PROVE  /\ FocusInv(Desk', pre)
         /\ \/ Open(Desk') \subseteq Open(Desk)
            \/ \E v \in Views, o \in Outputs, p \in Views \cup {None} : view_created(o, v, p)
<1>1. CASE UNCHANGED fvars
  <2>1. Desk' = Desk
    BY <1>1 DEF fvars, Desk
  <2> QED BY <2>1
<1>2. ASSUME NEW v \in Views, NEW o \in Outputs, NEW p \in Views \cup {None}, view_created(o, v, p)
      PROVE  FocusInv(Desk', pre)
  BY <1>2, ViewCreated
<1>3. ASSUME NEW v \in Views, view_destroyed(v)
      PROVE  FocusInv(Desk', pre) /\ Open(Desk') \subseteq Open(Desk)
  BY <1>3, ViewDestroyed
<1>4. ASSUME NEW v \in Views, key_cb_focus_view(v) \/ view_state_request(v) PROVE Handled(pre)
  BY <1>4, ViewClicked, StateRequested
<1>5. ASSUME (\E v \in Views : start_interactive_action(v)) \/ key_cb_cycle_clients PROVE Handled(pre)
  <2>1. pre.kept = {}
    BY <1>5 DEF Reordered
  <2> QED BY <1>5, <2>1, DragStarted, ClientsCycled
<1>6. ASSUME NEW v \in Views \cup {None}, pointer_motion(v) PROVE Handled(pre)
  BY <1>6, PointerMoved
<1>7. ASSUME NEW i \in 0..(Spaces - 1), focus_space(i) \/ move_to_space(i) PROVE Handled(pre)
  BY <1>7, SpaceFocused, MovedToSpace
<1>8. ASSUME NEW dir \in {"NEXT", "PREV"},
             focus_next_or_previous_space(dir) \/ focus_next_or_previous_view(dir)
      PROVE  Handled(pre)
  BY <1>8, SpaceRotated, ViewRotated
<1>9. ASSUME NEW o \in Outputs, move_to_output(o) PROVE Handled(pre)
  BY <1>9, MovedToOutput
<1>10. ASSUME stop_interactive_action \/ key_cb_focus_next_output \/ key_cb_toggle_fullscreen
      PROVE  Handled(pre)
  BY <1>10, DragStopped, NextOutputFocused, FullscreenToggled
<1> QED BY <1>1, <1>2, <1>3, <1>4, <1>5, <1>6, <1>7, <1>8, <1>9, <1>10 DEF Next, Handled

\* Only view_destroyed closes a view.
LEMMA ClosedBy ==
  ASSUME FocusHolds, Next, NEW v \in Open(Desk), v \notin Open(Desk')
  PROVE  view_destroyed(v)
<1>1. PICK pre : pre = [kept |-> {}, active |-> active]
  OBVIOUS
<1>2. FocusInv(Desk, pre) /\ pre.kept = {} /\ pre.active = active
  BY <1>1, HoldsBefore
<1>3. ~Handled(pre)
  BY DEF Handled
<1>4. \A w \in Views, o \in Outputs, p \in Views \cup {None} : ~view_created(o, w, p)
  BY <1>2, ViewCreated
<1>5. \A w \in Views :
         ~key_cb_focus_view(w) /\ ~start_interactive_action(w) /\ ~view_state_request(w)
  BY <1>2, <1>3, ViewClicked, DragStarted, StateRequested
<1>6. \A w \in Views \cup {None} : ~pointer_motion(w)
  BY <1>2, <1>3, PointerMoved
<1>7. \A i \in 0..(Spaces - 1) : ~focus_space(i) /\ ~move_to_space(i)
  BY <1>2, <1>3, SpaceFocused, MovedToSpace
<1>8. \A dir \in {"NEXT", "PREV"} :
         ~focus_next_or_previous_space(dir) /\ ~focus_next_or_previous_view(dir)
  BY <1>2, <1>3, SpaceRotated, ViewRotated
<1>9. \A o \in Outputs : ~move_to_output(o)
  BY <1>2, <1>3, MovedToOutput
<1>10. /\ ~stop_interactive_action /\ ~key_cb_focus_next_output
       /\ ~key_cb_toggle_fullscreen /\ ~key_cb_cycle_clients
  BY <1>2, <1>3, DragStopped, NextOutputFocused, FullscreenToggled, ClientsCycled
<1>11. PICK w \in Views : view_destroyed(w)
  BY <1>4, <1>5, <1>6, <1>7, <1>8, <1>9, <1>10 DEF Next
<1>12. w = v
  BY <1>2, <1>11, ViewDestroyed
<1> QED BY <1>11, <1>12

LEMMA Holding == Spec => []FocusHolds
<1>1. FocusHolds /\ [Next]_fvars => FocusHolds'
  <2> SUFFICES ASSUME FocusHolds, [Next]_fvars PROVE FocusHolds'
    OBVIOUS
  <2>1. PICK pre : pre = [kept |-> {}, active |-> active]
    OBVIOUS
  <2>2. FocusInv(Desk, pre) /\ pre.kept = {} /\ pre.active = active
    BY <2>1, HoldsBefore
  <2>3. FocusInv(Desk', pre)
    BY <2>2, StepKeeps
  <2> QED BY <2>3 DEF FocusHolds, FocusInv
<1> QED BY <1>1, InitHolds, PTL DEF Spec

\* The model keeps to its types: each view is in one list at most, and there
\* once; handles, spaces and bits are those of views and outputs there are.
THEOREM FocusTypeCorrect == Spec => []TypeOK
<1>1. FocusHolds => TypeOK
  <2> SUFFICES ASSUME FocusHolds PROVE TypeOK
    OBVIOUS
  <2>1. Sound(Desk) /\ Desk \in Desks
    BY DEF FocusHolds, DeskInv, Sound
  <2>2. \A o \in Outputs : Len(stack[o]) = Cardinality(Range(stack[o]))
    BY <2>1, Listing, LenIsCard, DeskIs
  <2>3. ASSUME NEW v \in Views
        PROVE  Cardinality({o \in Outputs : v \in Range(stack[o])}) <= 1
    <3>1. PICK O : O = {o \in Outputs : v \in Range(stack[o])}
      OBVIOUS
    <3>2. \A o, p \in O : o = p
      BY <2>1, <3>1, DeskIs DEF Sound
    <3>3. O = {} \/ \E o : O = {o}
      BY <3>2
    <3>4. Cardinality(O) = 0 \/ Cardinality(O) = 1
      <4>1. CASE O = {}
        BY <4>1, FS_EmptySet
      <4>2. CASE \E o : O = {o}
        <5>1. PICK o : O = {o}
          BY <4>2
        <5> QED BY <5>1, FS_Singleton
      <4> QED BY <3>3, <4>1, <4>2
    <3> QED BY <3>1, <3>4
  <2>4. full \subseteq Open(Desk) /\ activated \subseteq Open(Desk)
    BY DeskIs DEF FocusHolds, DeskInv
  <2>5. /\ active \in Views \cup {None} /\ action \in Views \cup {None}
        /\ stack \in [Outputs -> Seq(Views)] /\ mask \in [Views -> 0..(Spaces - 1)]
        /\ space \in [Outputs -> 0..(Spaces - 1)] /\ out \in Outputs
        /\ parent \in [Views -> Views \cup {None}]
    BY <2>1, DeskIs DEF Desks
  <2> QED BY <2>2, <2>3, <2>4, <2>5 DEF TypeOK
<1> QED BY <1>1, Holding, PTL

\* plugin.active.view is never the handle of a view that is closed, nor a
\* tooltip's, whatever is opened, closed, dragged and moved about.
THEOREM ActiveStaysOpen == Spec => []ActiveIsOpen
<1>1. FocusHolds => ActiveIsOpen
  BY DeskIs DEF FocusHolds, DeskInv, ActiveIsOpen
<1> QED BY <1>1, Holding, PTL

\* A view that gets the focus comes to be over every fullscreen view of its
\* list, and stays there, whatever opens, closes and is moved about: until the
\* list gets another order, or a client makes one of its views fullscreen.
THEOREM PeekStays ==
  ASSUME MenusFirst
  PROVE  Spec => PeekLasts
<1>1. FocusHolds /\ [Next]_fvars =>
        [PeekKept \/ active' # active =>
           PeekKept' \/ Reordered \/ \E v \in Views : view_state_request(v)]_fvars
  <2> SUFFICES ASSUME FocusHolds, [Next]_fvars, PeekKept \/ active' # active,
                      ~Reordered, \A v \in Views : ~view_state_request(v)
               PROVE  PeekKept'
    OBVIOUS
  <2>1. PICK pre : pre = [kept |-> IF PeekKept THEN {"peek"} ELSE {}, active |-> active]
    OBVIOUS
  <2>2. pre.active = active /\ (PeekKept => "peek" \in pre.kept)
        /\ FocusInv(Desk, pre)
    BY <2>1, DeskIs DEF FocusHolds, FocusInv, Due, PeekInv, PeekKept
  <2>3. FocusInv(Desk', pre)
    BY <2>2, StepKeeps
  <2>4. Desk.active' = active'
    BY DEF Desk
  <2>5. PeekInv(Desk')
    BY <2>2, <2>3, <2>4 DEF FocusInv, Due
  <2> QED BY <2>5 DEF PeekInv, PeekKept, Desk
<1> QED BY <1>1, Holding, PTL DEF Spec, PeekLasts

\* A bemenu that is open has the focus, if it opens on the focused output and
\* as nobody's dialog.
THEOREM BemenuKeepsFocus ==
  ASSUME MenusFirst
  PROVE  Spec => []BemenuHasFocus
<1>1. FocusHolds => BemenuHasFocus
  BY DeskIs DEF FocusHolds, MenuInv, BemenuHasFocus
<1> QED BY <1>1, Holding, PTL

\* A dialog that gets the focus comes to be above its parent in their list, and
\* stays there, until the list gets another order.
THEOREM DialogOverParent ==
  ASSUME MenusFirst
  PROVE  Spec => OverParentLasts
<1>1. FocusHolds /\ [Next]_fvars =>
        [NotUnderParent \/ active' # active => NotUnderParent' \/ Reordered]_fvars
  <2> SUFFICES ASSUME FocusHolds, [Next]_fvars, NotUnderParent \/ active' # active, ~Reordered
               PROVE  NotUnderParent'
    OBVIOUS
  <2>1. PICK pre : pre = [kept |-> IF NotUnderParent THEN {"over"} ELSE {}, active |-> active]
    OBVIOUS
  <2>2. /\ pre.active = active /\ (NotUnderParent => "over" \in pre.kept)
        /\ "peek" \notin pre.kept /\ FocusInv(Desk, pre)
    BY <2>1, DeskIs DEF FocusHolds, FocusInv, Due, OverInv, NotUnderParent
  <2>3. FocusInv(Desk', pre)
    BY <2>2, StepKeeps
  <2>4. Desk.active' = active'
    BY DEF Desk
  <2>5. OverInv(Desk')
    BY <2>2, <2>3, <2>4 DEF FocusInv, Due
  <2> QED BY <2>5 DEF OverInv, NotUnderParent, Desk
<1> QED BY <1>1, Holding, PTL DEF Spec, OverParentLasts

\* A view that opens gives the focus to itself or to nobody; never to a tooltip,
\* and to a dialog only if its parent had it.
THEOREM OpeningStealsNothing == Spec => NoStealing
<1>1. FocusHolds /\ [Next]_fvars =>
        [\A v \in Open(Desk') \ Open(Desk) :
           active' # active =>
             active' = v /\ is_managed(v) /\ (active = None \/ parent'[v] \in {None, active})]_fvars
  <2> SUFFICES ASSUME FocusHolds, [Next]_fvars, NEW v \in Open(Desk') \ Open(Desk),
                      active' # active
               PROVE  /\ active' = v /\ is_managed(v)
                      /\ active = None \/ parent'[v] \in {None, active}
    OBVIOUS
  <2>1. PICK pre : pre = [kept |-> {}, active |-> active]
    OBVIOUS
  <2>2. FocusInv(Desk, pre) /\ pre.kept = {} /\ pre.active = active
    BY <2>1, HoldsBefore
  <2>3. PICK w \in Views, o \in Outputs, p \in Views \cup {None} : view_created(o, w, p)
    BY <2>2, StepKeeps
  <2> QED BY <2>2, <2>3, ViewCreated
<1> QED BY <1>1, Holding, PTL DEF Spec, NoStealing

\* A second bemenu does not open, under the same hypothesis: the one that is
\* open has the focus, and is seen there by view_created.
THEOREM OneBemenuOpen ==
  ASSUME MenusFirst
  PROVE  Spec => []OneBemenu
<1>1. FocusHolds => OneBemenu
  <2> SUFFICES ASSUME FocusHolds PROVE OneBemenu
    OBVIOUS
  <2>1. PICK M : M = {v \in Open(Desk) : is_bemenu(v)}
    OBVIOUS
  <2>2. \A v \in M : v = active
    BY <2>1, DeskIs DEF FocusHolds, MenuInv
  <2>3. M = {} \/ M = {active}
    BY <2>2
  <2>4. Cardinality(M) = 0 \/ Cardinality(M) = 1
    BY <2>3, FS_EmptySet, FS_Singleton
  <2> QED BY <2>1, <2>4 DEF OneBemenu
<1> QED BY <1>1, Holding, PTL

\* Up the chain of parents: what the recursion says of each view.
LEMMA UnderUnrolled ==
  ASSUME NEW pre, FocusInv(Desk, pre), NEW p
  PROVE  /\ \A x \in Views : Under(x, p) <=> x = p \/ (parent[x] # None /\ Under(parent[x], p))
         /\ \A x : Under(x, p) => x # None
<1> DEFINE Step(r, x) == x = p \/ (parent[x] # None /\ r[parent[x]])
           all == CHOOSE r : r = [x \in Views |-> Step(r, x)]
<1>1. parent \in [Views -> Views \cup {None}]
  BY DeskIs DEF FocusInv, DeskInv, Sound, Desks
<1>2. PICK n \in Nat : \E rank \in [Views -> 0..n] :
         \A v \in Views : parent[v] # None => rank[parent[v]] < rank[v]
  BY DeskIs DEF FocusInv, DeskInv, Families, Ranked
<1>3. PICK rank \in [Views -> 0..n] :
         \A v \in Views : parent[v] # None => rank[parent[v]] < rank[v]
  BY <1>2
<1>4. \A r, q, x : (parent[x] # None => r[parent[x]] = q[parent[x]]) => Step(r, x) = Step(q, x)
  OBVIOUS
<1>5. \A v : Under(v, p) <=> v # None /\ all[v]
  BY DEF Under
<1> HIDE DEF Step
<1> DEFINE Done == {k \in Nat : \E r : \A x \in Views : rank[x] < k => r[x] = Step(r, x)}
<1>6. 0 \in Done
  <2>1. \A x \in Views : ~(rank[x] < 0)
    BY <1>3
  <2> QED BY <2>1
<1>7. ASSUME NEW k \in Nat, k \in Done PROVE k + 1 \in Done
  <2>1. PICK q : \A x \in Views : rank[x] < k => q[x] = Step(q, x)
    BY <1>7
  <2> DEFINE r == [x \in Views |-> IF rank[x] < k THEN q[x] ELSE Step(q, x)]
  <2>2. \A x \in Views : rank[x] < k => r[x] = q[x]
    OBVIOUS
  <2>3. \A x \in Views : rank[x] < k + 1 => r[x] = Step(q, x)
    BY <2>1
  <2> HIDE DEF r
  <2>4. ASSUME NEW x \in Views, rank[x] < k + 1 PROVE r[x] = Step(r, x)
    <3>1. parent[x] # None => rank[parent[x]] < k /\ parent[x] \in Views
      BY <1>1, <1>3, <2>4
    <3>2. Step(r, x) = Step(q, x)
      BY <1>4, <2>2, <3>1
    <3> QED BY <2>3, <2>4, <3>2
  <2> QED BY <2>4
<1>8. n + 1 \in Done
  <2> HIDE DEF Done
  <2> QED BY <1>6, <1>7, Raising!Induction
<1>9. PICK q : \A x \in Views : q[x] = Step(q, x)
  BY <1>3, <1>8
<1> DEFINE r == [x \in Views |-> q[x]]
<1>10. r = [x \in Views |-> Step(r, x)]
  <2>1. ASSUME NEW x \in Views PROVE r[x] = Step(r, x)
    <3>1. parent[x] # None => r[parent[x]] = q[parent[x]]
      BY <1>1
    <3>2. Step(r, x) = Step(q, x)
      <4> HIDE DEF r
      <4> QED BY <1>4, <3>1
    <3> QED BY <1>9, <3>2
  <2>2. r = [x \in Views |-> r[x]]
    OBVIOUS
  <2> HIDE DEF r
  <2> QED BY <2>1, <2>2
<1>11. all = [x \in Views |-> Step(all, x)]
  <2> HIDE DEF r
  <2> QED BY <1>10
<1>12. \A x \in Views : all[x] = Step(all, x)
  <2> HIDE DEF all
  <2> QED BY <1>11
<1> HIDE DEF all
<1>13. \A x \in Views : all[x] <=> x = p \/ (parent[x] # None /\ all[parent[x]])
  BY <1>12 DEF Step
<1>14. \A x \in Views : x # None
  BY FocusConstants
<1> QED BY <1>5, <1>13, <1>14

NoTooltips == \A v \in Views : Kind[v] # "tooltip"

\* A dialog that closes with the focus gives it to its parent or to another
\* view of that family, if there are no tooltips for it to get lost at.
THEOREM DialogGivesBack ==
  ASSUME NoTooltips
  PROVE  Spec => BackToParent
<1>1. FocusHolds /\ [Next]_fvars =>
        [\A v \in Views :
           active = v /\ v \notin Open(Desk') /\ parent[v] # None => Under(active', parent[v])]_fvars
  <2> SUFFICES ASSUME FocusHolds, Next, NEW v \in Views,
                      active = v, v \notin Open(Desk'), parent[v] # None
               PROVE  Under(active', parent[v])
    OBVIOUS
  <2>1. PICK pre : pre = [kept |-> {}, active |-> active]
    OBVIOUS
  <2>2. FocusInv(Desk, pre)
    BY <2>1, HoldsBefore
  <2>3. v \in Open(Desk) /\ Sound(Desk) /\ Families(Desk)
    BY <2>2, DeskIs, FocusConstants DEF FocusInv, DeskInv
  <2>4. view_destroyed(v)
    BY <2>3, ClosedBy
  <2>5. PICK g : g = Left(v)
    OBVIOUS
  <2>6. FocusInv(g, pre) /\ Open(g) = Open(Desk) \ {v} /\ g.active = None
    BY <2>2, <2>3, <2>5, ViewGone
  <2>7. \A x \in Views : g.parent[x] = None \/ g.parent[x] = parent[x]
    <3>1. g.parent = [w \in Views |-> IF w = v \/ parent[w] = v THEN None ELSE parent[w]]
      BY <2>5, GoneParents
    <3> QED BY <3>1
  <2>8. PICK p : p = parent[v]
    OBVIOUS
  <2>9. p \in Open(g) /\ p \in Views /\ is_managed(p)
    <3>1. parent[v] \in Open(Desk) /\ parent[v] # v
      BY <2>3, NotOwnParent, DeskIs DEF Families
    <3>2. p \in Views
      BY <2>3, <2>8, <3>1, Listing
    <3> QED BY <2>6, <2>8, <3>1, <3>2 DEF NoTooltips, is_managed
  <2>10. PICK f : f = focus_view(g, p) /\ Becomes(f)
    <3>1. Becomes(focus_view([Gone(v) EXCEPT !.active = None], parent[v]))
      BY <2>4, Zenon DEF view_destroyed
    <3>2. g = [Gone(v) EXCEPT !.active = None]
      BY <2>5 DEF Left
    <3> QED BY <2>8, <3>1, <3>2
  <2>11. f = focus_down(g, p)
    BY <2>3, <2>6, <2>9, <2>10, Listing, FocusConstants DEF focus_view, is_bemenu
  <2>12. PICK T : T = {x \in Views : Under(x, p)}
    OBVIOUS
  <2>13. p \in T
    BY <2>2, <2>9, <2>12, UnderUnrolled
  <2>14. \A x \in Views : g.parent[x] \in T => x \in T
    <3> SUFFICES ASSUME NEW x \in Views, g.parent[x] \in T PROVE Under(x, p)
      BY <2>12
    <3>1. Under(g.parent[x], p) /\ g.parent[x] # None
      BY <2>2, <2>12, UnderUnrolled
    <3>2. g.parent[x] = parent[x]
      BY <2>7, <3>1
    <3> QED BY <2>2, <3>1, <3>2, UnderUnrolled
  <2>15. \/ /\ focus_down(g, p) = g
            /\ \E x \in T \cap Open(g) : x = g.active \/ ~is_managed(x)
         \/ \E x \in T \cap Open(g) : /\ is_managed(x) /\ x # g.active
                                      /\ focus_down(g, p) = take_focus(g, x)
    <3>1. Sound(g) /\ Families(g)
      BY <2>6 DEF FocusInv, DeskInv
    <3> QED BY <2>9, <2>13, <2>14, <3>1, FocusedDown
  <2>16. PICK x \in T \cap Open(g) : is_managed(x) /\ f = take_focus(g, x)
    <3>1. \A x \in T \cap Open(g) : x # None /\ is_managed(x)
      BY <2>12, FocusConstants DEF NoTooltips, is_managed
    <3> QED BY <2>6, <2>11, <2>15, <3>1
  <2>17. f.active = x
    <3>1. Sound(g) /\ Families(g)
      BY <2>6 DEF FocusInv, DeskInv
    <3> QED BY <2>16, <3>1, FocusTaken DEF Taken
  <2> QED BY <2>8, <2>10, <2>12, <2>16, <2>17 DEF Becomes
<1> QED BY <1>1, Holding, PTL DEF Spec, BackToParent

\* A window without a parent that closes with the focus passes it on, if one
\* is left to pass it to: on a single output, and without tooltips, of which
\* view_destroyed would try the topmost one and stop there.
THEOREM ClosingPassesOn ==
  ASSUME NoTooltips, \A o, p \in Outputs : o = p
  PROVE  Spec => PassedOn
<1>1. FocusHolds /\ [Next]_fvars =>
        [active # None /\ parent[active] = None /\ active \notin Open(Desk') =>
           active' # None \/ \A v \in Shown' : ~is_managed(v)]_fvars
  <2> SUFFICES ASSUME FocusHolds, Next, active # None, parent[active] = None,
                      active \notin Open(Desk'), NEW w \in Shown'
               PROVE  active' # None
    OBVIOUS
  <2>1. PICK pre : pre = [kept |-> {}, active |-> active]
    OBVIOUS
  <2>2. FocusInv(Desk, pre)
    BY <2>1, HoldsBefore
  <2>3. active \in Open(Desk) /\ Sound(Desk) /\ Families(Desk)
    BY <2>2, DeskIs DEF FocusInv, DeskInv
  <2>4. PICK v \in Views : v = active
    BY <2>3, Listing
  <2>5. view_destroyed(v)
    BY <2>3, <2>4, ClosedBy
  <2>6. PICK g : g = Left(v)
    OBVIOUS
  <2>7. FocusInv(g, pre) /\ g.active = None
    BY <2>2, <2>3, <2>4, <2>6, ViewGone
  <2>8. Sound(g) /\ Families(g) /\ g.out \in Outputs
    BY <2>7 DEF FocusInv, DeskInv, Sound, Desks
  <2>9. PICK o \in Outputs : o = OutputOf(Desk, v)
    BY <2>3, <2>4, Listing
  <2>10. PICK f : f = focus_topmost(g, o) /\ Becomes(f)
    <3>1. g = [Gone(v) EXCEPT !.active = None]
      BY <2>4, <2>6 DEF Left
    <3> QED BY <2>4, <2>5, <2>9, <3>1 DEF view_destroyed
  <2>11. Shuffled(g, f)
    BY <2>7, <2>10, FocusTopmostKeeps
  <2>12. active' = f.active /\ stack' = f.stack /\ mask' = f.mask /\ space' = f.space /\ out' = f.out
    BY <2>10 DEF Becomes
  <2>13. PICK T : T = {x \in Views : g.mask[x] = g.space[o]}
    OBVIOUS
  <2>14. PICK t : t = Topmost(g.stack[o], T)
    OBVIOUS
  <2>15. w \in Range(g.stack[o]) \cap T
    <3>1. f.out = o
      BY <2>8, <2>11 DEF Shuffled, Beside
    <3>2. w \in Range(f.stack[o]) /\ f.mask[w] = f.space[o]
      BY <2>12, <3>1 DEF Shown
    <3>3. w \in Range(g.stack[o]) /\ g.mask[w] = g.space[o]
      BY <2>11, <3>2 DEF Shuffled, Beside
    <3> QED BY <2>8, <2>13, <3>3, Listing
  <2>16. t \in Open(g)
    <3>1. g.stack[o] \in Seq(Views) /\ Range(g.stack[o]) \subseteq Open(g)
      BY <2>8, Listing
    <3> QED BY <2>14, <2>15, <3>1, TopmostIs
  <2>17. \A x \in Open(g) : x \in Views /\ x # None /\ is_managed(x)
    BY <2>8, Listing DEF NoTooltips, is_managed
  <2>18. f = focus_down(g, t)
    <3>1. f = focus_view(g, t)
      BY <2>10, <2>13, <2>14 DEF focus_topmost
    <3> QED BY <2>7, <2>16, <2>17, <3>1 DEF focus_view, is_bemenu
  <2>19. PICK x \in Open(g) : f = take_focus(g, x)
    <3>1. t \in Views \cup {t} /\ \A y \in Views : g.parent[y] \in Views \cup {t} => y \in Views \cup {t}
      OBVIOUS
    <3>2. \/ \E x \in Open(g) : x = g.active \/ ~is_managed(x)
          \/ \E x \in Open(g) : focus_down(g, t) = take_focus(g, x)
      BY <2>8, <2>16, <3>1, FocusedDown
    <3> QED BY <2>7, <2>17, <2>18, <3>2
  <2>20. f.active = x
    BY <2>8, <2>17, <2>19, FocusTaken DEF Taken
  <2> QED BY <2>12, <2>17, <2>19, <2>20
<1> QED BY <1>1, Holding, PTL DEF Spec, PassedOn

-----------------------------------------------------------------------------
(* Plain windows: nothing but orphans that are neither menus nor tooltips. *)

Plain == Orphans = Views /\ \A v \in Views : Kind[v] = "window"

Calm(d, pre) == FocusInv(d, pre) /\ \A v \in Views : d.parent[v] = None

\* The lists of other outputs than v's stay as they are.
LEMMA TakenApart ==
  ASSUME NEW d, Sound(d), Families(d), NEW v \in Open(d), is_managed(v), d.parent[v] = None
  PROVE  \A q \in Outputs \ {OutputOf(d, v)} : take_focus(d, v).stack[q] = d.stack[q]
<1>1. ASSUME NEW c, Sound(c), v \in Open(c), NEW t,
             t = None \/ (t \in Open(c) /\ OutputOf(c, t) = OutputOf(c, v))
      PROVE  /\ Restacked(c, wlc_view_bring_to_front(c, t))
             /\ \A q \in Outputs \ {OutputOf(c, v)} :
                  wlc_view_bring_to_front(c, t).stack[q] = c.stack[q]
  <2>1. CASE t = None
    BY <1>1, <2>1, RestackedSelf DEF wlc_view_bring_to_front
  <2>2. CASE t \in Open(c) /\ OutputOf(c, t) = OutputOf(c, v)
    BY <1>1, <2>2, Fronted DEF Relisted
  <2> QED BY <1>1, <2>1, <2>2
<1>2. PICK p : p = peek(d, v)
  OBVIOUS
<1>3. Restacked(d, p) /\ \A q \in Outputs \ {OutputOf(d, v)} : p.stack[q] = d.stack[q]
  <2>1. CASE is_bemenu(v)
    BY <1>2, <2>1, RestackedSelf DEF peek
  <2>2. CASE ~is_bemenu(v)
    <3>1. PICK t : t = Topmost(Listed(d, v), d.full)
      OBVIOUS
    <3>2. t = None \/ (t \in Open(d) /\ OutputOf(d, t) = OutputOf(d, v))
      BY <3>1, FoundFronted
    <3>3. p = wlc_view_bring_to_front(d, t)
      BY <1>2, <2>2, <3>1 DEF peek
    <3> QED BY <1>1, <3>2, <3>3
  <2> QED BY <2>1, <2>2
<1>4. Sound(p) /\ Families(p) /\ v \in Open(p) /\ OutputOf(p, v) = OutputOf(d, v) /\ p.parent[v] = None
  BY <1>3, ShuffledSame, FamiliesStay DEF Restacked, Shuffled, Beside
<1>5. PICK r : r = raise_all(p, v)
  OBVIOUS
<1>6. Restacked(p, r) /\ \A q \in Outputs \ {OutputOf(p, v)} : r.stack[q] = p.stack[q]
  <2>1. r = wlc_view_bring_to_front(p, v)
    BY <1>4, <1>5, AllRaised
  <2> QED BY <1>1, <1>4, <2>1
<1>7. Sound(r) /\ v \in Open(r) /\ OutputOf(r, v) = OutputOf(d, v)
  BY <1>4, <1>6, ShuffledSame DEF Restacked, Shuffled
<1>8. PICK b : b = bemenu_to_front(r, v)
  OBVIOUS
<1>9. \A q \in Outputs \ {OutputOf(r, v)} : b.stack[q] = r.stack[q]
  <2>1. PICK t : t = Topmost(Listed(r, v), Bemenus)
    OBVIOUS
  <2>2. t = None \/ (t \in Open(r) /\ OutputOf(r, t) = OutputOf(r, v))
    BY <1>7, <2>1, FoundFronted
  <2>3. b = wlc_view_bring_to_front(r, t)
    BY <1>8, <2>1 DEF bemenu_to_front
  <2> QED BY <1>1, <1>7, <2>2, <2>3
<1>10. b \in Desks
  <2>1. PICK t : t = Topmost(Listed(r, v), Bemenus)
    OBVIOUS
  <2>2. Restacked(r, wlc_view_bring_to_front(r, t))
    BY <1>7, <2>1, FoundFronted
  <2> QED BY <1>8, <2>1, <2>2 DEF bemenu_to_front, Restacked, Shuffled, Sound
<1>11. take_focus(d, v) = [view_focus(b, d.active, v) EXCEPT !.active = v]
  BY <1>2, <1>5, <1>8 DEF take_focus
<1>12. take_focus(d, v).stack = b.stack
  BY <1>10, <1>11 DEF view_focus, Desks
<1> QED BY <1>3, <1>4, <1>6, <1>7, <1>9, <1>12

\* Among plain windows focus_view does as it is asked.
LEMMA PlainFocus ==
  ASSUME NEW pre, Plain, NEW d, Calm(d, pre), NEW v \in Open(d) \cup {None}, NEW e,
         e = focus_view(d, v)
  PROVE  /\ Calm(e, pre) /\ Shuffled(d, e) /\ e.active = v
         /\ v = d.active => e = d
         /\ v # d.active =>
              /\ e.activated = (d.activated \ ({d.active} \cap Range(d.stack[d.out])))
                               \cup ({v} \cap Range(d.stack[d.out]))
              /\ \A q \in Outputs : v \notin Range(d.stack[q]) => e.stack[q] = d.stack[q]
              /\ \A q \in Outputs : v \in Range(d.stack[q]) =>
                   \A w \in Range(d.stack[q]) \ {v} : Above(e.stack[q], v, w)
<1>1. FocusInv(d, pre) /\ Sound(d) /\ Families(d) /\ d \in Desks /\ \A x \in Views : d.parent[x] = None
  BY DEF Calm, FocusInv, DeskInv, Sound
<1>2. \A x \in Views \cup {None} : is_managed(x) /\ ~is_bemenu(x)
  BY FocusConstants DEF Plain, is_managed, is_bemenu
<1>3. v \in Views \cup {None} /\ d.active \in Views \cup {None}
  BY <1>1, Listing DEF Desks
<1>4. Calm(e, pre) /\ Shuffled(d, e)
  <2>1. FocusInv(e, pre) /\ Shuffled(d, e)
    BY <1>1, FocusViewKeeps
  <2> QED BY <1>1, <2>1 DEF Calm, Shuffled, Beside
<1>5. CASE v = d.active
  <2>1. e = d
    BY <1>5 DEF focus_view
  <2> QED BY <1>4, <1>5, <2>1
<1>6. CASE v # d.active /\ v = None
  <2>1. e = [view_focus(d, d.active, None) EXCEPT !.active = None]
    BY <1>2, <1>3, <1>6 DEF focus_view
  <2>2. /\ e.active = None /\ e.stack = d.stack
        /\ e.activated = (d.activated \ ({d.active} \cap Range(d.stack[d.out])))
                         \cup ({None} \cap Range(d.stack[d.out]))
    BY <1>1, <2>1 DEF view_focus, Desks
  <2>3. \A q \in Outputs : None \notin Range(d.stack[q])
    BY <1>1, Listing, FocusConstants
  <2> QED BY <1>4, <1>6, <2>2, <2>3
<1>7. CASE v # d.active /\ v # None
  <2>1. v \in Open(d) /\ v \in Views /\ is_managed(v)
    BY <1>2, <1>3, <1>7
  <2>2. e = take_focus(d, v)
    <3>1. e = focus_down(d, v)
      BY <1>2, <1>3, <1>7 DEF focus_view
    <3>2. PICK T : T = {v}
      OBVIOUS
    <3>3. v \in T /\ \A x \in Views : d.parent[x] \in T => x \in T
      BY <1>1, <1>7, <3>2
    <3>4. \/ /\ focus_down(d, v) = d
             /\ \E x \in T \cap Open(d) : x = d.active \/ ~is_managed(x)
          \/ \E x \in T \cap Open(d) : /\ is_managed(x) /\ x # d.active
                                       /\ focus_down(d, v) = take_focus(d, x)
      BY <1>1, <2>1, <3>3, FocusedDown
    <3> QED BY <1>7, <2>1, <3>1, <3>2, <3>4
  <2>3. Taken(d, e, v)
    BY <1>1, <2>1, <2>2, FocusTaken
  <2>4. PICK o \in Outputs : o = OutputOf(d, v) /\ v \in Range(d.stack[o])
    BY <1>1, <2>1, Listing DEF Listed
  <2>5. \A q \in Outputs : v \in Range(d.stack[q]) <=> q = o
    BY <1>1, <2>4, Listing
  <2>6. \A q \in Outputs \ {o} : e.stack[q] = d.stack[q]
    BY <1>1, <2>1, <2>2, <2>4, TakenApart
  <2>7. OutputOf(e, v) = o
    BY <1>1, <1>4, <2>1, <2>4, ShuffledSame
  <2>8. \A w \in Range(d.stack[o]) \ {v} : Above(e.stack[o], v, w)
    <3>1. Range(e.stack[o]) = Range(d.stack[o]) /\ Range(d.stack[o]) \subseteq Views
      BY <1>1, <1>4, <2>4, Listing DEF Shuffled
    <3>2. \A w \in Range(e.stack[o]) \ {v} : Above(e.stack[o], v, w) \/ is_bemenu(w)
      BY <2>3, <2>7 DEF Taken, Listed
    <3> QED BY <1>2, <3>1, <3>2
  <2> QED BY <1>4, <1>7, <2>3, <2>5, <2>6, <2>8 DEF Taken
<1> QED BY <1>5, <1>6, <1>7

\* The views of output o that its space shows, and the one on top of them.
Seen(d, o) == {v \in Range(d.stack[o]) : d.mask[v] = d.space[o]}

OnTopOf(d, o, t) ==
    /\ t \in Seen(d, o)
    /\ \A w \in Seen(d, o) : w = t \/ Above(d.stack[o], t, w)

Lit(d, o) == d.activated \cap Range(d.stack[o])

SeenInv(d) == IF Seen(d, d.out) = {} THEN d.active = None ELSE d.active \in Seen(d, d.out)

\* The active view is on top of those its output shows, and where the focus
\* left an output the view that had it still is.
LitInv(d) ==
    /\ \A o \in Outputs : \A w \in Lit(d, o) : OnTopOf(d, o, w)
    /\ Lit(d, d.out) = {d.active} \ {None}
    /\ d.active # None => OnTopOf(d, d.out, d.active)

\* What focus_topmost of the focused output needs for that: what shows there
\* may have changed, or the focus has come from another output.
LitBefore(d) ==
    /\ \A o \in Outputs \ {d.out} : \A w \in Lit(d, o) : OnTopOf(d, o, w)
    /\ \/ Lit(d, d.out) = {d.active} \ {None}
       \/ /\ d.active \notin Range(d.stack[d.out])
          /\ \A w \in Lit(d, d.out) : OnTopOf(d, d.out, w)

LEMMA OneOnTop ==
  ASSUME NEW d, Sound(d), NEW o \in Outputs, NEW t, NEW u, OnTopOf(d, o, t), OnTopOf(d, o, u)
  PROVE  t = u
<1>1. d.stack[o] \in Seq(Views) /\ IsInjective(d.stack[o])
  BY Listing
<1> QED BY <1>1, ListOrder DEF OnTopOf

\* What an output shows depends on its list, its space and the masks there.
LEMMA SameOnTop ==
  ASSUME NEW d, NEW e, NEW o \in Outputs, e.stack[o] = d.stack[o], e.space[o] = d.space[o],
         \A v \in Range(d.stack[o]) : e.mask[v] = d.mask[v]
  PROVE  Seen(e, o) = Seen(d, o) /\ \A t : OnTopOf(e, o, t) <=> OnTopOf(d, o, t)
<1>1. Seen(e, o) = Seen(d, o)
  BY DEF Seen
<1> QED BY <1>1 DEF OnTopOf

\* A view of the focused output takes the focus among plain windows.
LEMMA LitFocus ==
  ASSUME NEW pre, Plain, NEW d, Calm(d, pre), NEW v \in Range(d.stack[d.out]) \cup {None},
         v # d.active,
         \A o \in Outputs \ {d.out} : \A w \in Lit(d, o) : OnTopOf(d, o, w),
         Lit(d, d.out) \subseteq {d.active, v},
         NEW e, e = focus_view(d, v)
  PROVE  /\ \A o \in Outputs \ {d.out} : \A w \in Lit(e, o) : OnTopOf(e, o, w)
         /\ Lit(e, d.out) = {v} \ {None}
         /\ v \in Seen(d, d.out) => OnTopOf(e, d.out, v)
<1>1. /\ FocusInv(d, pre) /\ Sound(d) /\ d \in Desks /\ d.out \in Outputs
  BY DEF Calm, FocusInv, DeskInv, Sound, Desks
<1>2. v \in Open(d) \cup {None}
  BY <1>1, Listing
<1>3. /\ Calm(e, pre) /\ Shuffled(d, e) /\ e.active = v
      /\ e.activated = (d.activated \ ({d.active} \cap Range(d.stack[d.out])))
                       \cup ({v} \cap Range(d.stack[d.out]))
      /\ \A q \in Outputs : v \notin Range(d.stack[q]) => e.stack[q] = d.stack[q]
      /\ \A q \in Outputs : v \in Range(d.stack[q]) =>
           \A w \in Range(d.stack[q]) \ {v} : Above(e.stack[q], v, w)
  BY <1>2, PlainFocus
<1>4. e.mask = d.mask /\ e.space = d.space /\ \A q \in Outputs : Range(e.stack[q]) = Range(d.stack[q])
  BY <1>3 DEF Shuffled, Beside
<1>5. ASSUME NEW o \in Outputs \ {d.out}, NEW w \in Lit(e, o) PROVE OnTopOf(e, o, w)
  <2>1. v \notin Range(d.stack[o])
    BY <1>1, Listing, FocusConstants DEF Sound
  <2>2. e.stack[o] = d.stack[o]
    BY <1>3, <2>1
  <2>3. w \in Lit(d, o)
    BY <1>3, <1>4, <2>1 DEF Lit
  <2> QED BY <1>4, <2>2, <2>3, SameOnTop
<1>6. Lit(e, d.out) = {v} \ {None}
  <2>1. None \notin Range(d.stack[d.out])
    BY <1>1, Listing, FocusConstants
  <2> QED BY <1>1, <1>3, <1>4, <2>1 DEF Lit
<1>7. ASSUME v \in Seen(d, d.out) PROVE OnTopOf(e, d.out, v)
  BY <1>1, <1>3, <1>4, <1>7 DEF OnTopOf, Seen
<1> QED BY <1>5, <1>6, <1>7

\* focus_topmost of the focused output restores both invariants.
LEMMA PlainTopmost ==
  ASSUME NEW pre, Plain, NEW d, Calm(d, pre), NEW e, e = focus_topmost(d, d.out)
  PROVE  /\ Calm(e, pre) /\ Shuffled(d, e) /\ SeenInv(e)
         /\ LitBefore(d) => LitInv(e)
<1>1. PICK o : o = d.out
  OBVIOUS
<1>2. FocusInv(d, pre) /\ Sound(d) /\ o \in Outputs /\ d.stack[o] \in Seq(Views)
  BY <1>1, Listing DEF Calm, FocusInv, DeskInv, Sound, Desks
<1>3. PICK T : T = {v \in Views : d.mask[v] = d.space[o]}
  OBVIOUS
<1>4. PICK t : t = Topmost(d.stack[o], T)
  OBVIOUS
<1>5. e = focus_view(d, t)
  BY <1>1, <1>3, <1>4 DEF focus_topmost
<1>6. \/ t = None /\ Seen(d, o) = {}
      \/ OnTopOf(d, o, t)
  <2>1. \/ t = None /\ Range(d.stack[o]) \cap T = {}
        \/ /\ t \in Range(d.stack[o]) /\ t \in T
           /\ \A x \in Range(d.stack[o]) \cap T : x = t \/ Above(d.stack[o], t, x)
    BY <1>2, <1>4, TopmostIs
  <2>2. Seen(d, o) = Range(d.stack[o]) \cap T
    BY <1>2, <1>3, Listing DEF Seen
  <2> QED BY <2>1, <2>2 DEF OnTopOf
<1>7. t \in Range(d.stack[o]) \cup {None} /\ t \in Open(d) \cup {None}
  BY <1>2, <1>6, Listing DEF OnTopOf, Seen
<1>8. /\ Calm(e, pre) /\ Shuffled(d, e) /\ e.active = t /\ (t = d.active => e = d)
  BY <1>5, <1>7, PlainFocus
<1>9. /\ e.mask = d.mask /\ e.space = d.space /\ e.out = o
      /\ \A q \in Outputs : Range(e.stack[q]) = Range(d.stack[q])
  BY <1>1, <1>8 DEF Shuffled, Beside
<1>10. Seen(e, o) = Seen(d, o)
  BY <1>2, <1>9 DEF Seen
<1>11. None \notin Range(d.stack[o])
  BY <1>2, Listing, FocusConstants
<1>12. SeenInv(e)
  BY <1>6, <1>8, <1>9, <1>10, <1>11 DEF SeenInv, OnTopOf
<1>13. ASSUME LitBefore(d) PROVE LitInv(e)
  <2>1. /\ \A q \in Outputs \ {o} : \A w \in Lit(d, q) : OnTopOf(d, q, w)
        /\ \/ Lit(d, o) = {d.active} \ {None}
           \/ d.active \notin Range(d.stack[o]) /\ \A w \in Lit(d, o) : OnTopOf(d, o, w)
    BY <1>1, <1>13 DEF LitBefore
  <2>2. CASE t = d.active
    <3>1. e = d /\ (t # None => t \in Range(d.stack[o]))
      BY <1>7, <1>8, <2>2
    <3>2. Lit(d, o) = {t} \ {None}
      <4>1. CASE Lit(d, o) = {d.active} \ {None}
        BY <2>2, <4>1
      <4>2. CASE d.active \notin Range(d.stack[o]) /\ \A w \in Lit(d, o) : OnTopOf(d, o, w)
        <5>1. t = None /\ Seen(d, o) = {}
          BY <1>6, <1>7, <1>11, <2>2, <4>2 DEF OnTopOf, Seen
        <5>2. Lit(d, o) = {}
          BY <4>2, <5>1 DEF OnTopOf
        <5> QED BY <5>1, <5>2
      <4> QED BY <2>1, <4>1, <4>2
    <3>3. t # None => OnTopOf(d, o, t)
      BY <1>6
    <3> QED BY <1>1, <2>1, <2>2, <3>1, <3>2, <3>3 DEF LitInv
  <2>3. CASE t # d.active
    <3>1. Lit(d, o) \subseteq {d.active, t}
      <4>1. CASE Lit(d, o) = {d.active} \ {None}
        BY <4>1
      <4>2. CASE \A w \in Lit(d, o) : OnTopOf(d, o, w)
        BY <1>2, <1>6, <4>2, OneOnTop DEF OnTopOf
      <4> QED BY <2>1, <4>1, <4>2
    <3>2. /\ \A q \in Outputs \ {d.out} : \A w \in Lit(e, q) : OnTopOf(e, q, w)
          /\ Lit(e, d.out) = {t} \ {None}
          /\ t \in Seen(d, d.out) => OnTopOf(e, d.out, t)
      BY <1>1, <1>5, <1>7, <2>1, <2>3, <3>1, LitFocus
    <3>3. t # None => OnTopOf(e, o, t)
      BY <1>1, <1>6, <3>2 DEF OnTopOf
    <3> QED BY <1>1, <1>8, <1>9, <3>2, <3>3 DEF LitInv
  <2> QED BY <2>2, <2>3
<1> QED BY <1>8, <1>12, <1>13

PlainInv(d, pre) ==
    /\ Calm(d, pre)
    /\ ~FollowFocus => SeenInv(d)
    /\ "lit" \in pre.kept => LitInv(d)

\* Handlers that end in focus_topmost of the focused output.
LEMMA PlainEnd ==
  ASSUME NEW pre, Plain, NEW d, Calm(d, pre), "lit" \in pre.kept => LitBefore(d),
         Becomes(focus_topmost(d, d.out))
  PROVE  PlainInv(Desk', pre)
<1>1. PICK e : e = focus_topmost(d, d.out)
  OBVIOUS
<1>2. Calm(e, pre) /\ SeenInv(e) /\ (LitBefore(d) => LitInv(e))
  BY <1>1, PlainTopmost
<1>3. Desk' = e
  BY <1>1, <1>2, Became DEF Calm, FocusInv, DeskInv, Sound
<1> QED BY <1>2, <1>3 DEF PlainInv

\* The same views, without the parts that concern neither focus nor spaces.
LEMMA SameSeen ==
  ASSUME NEW d, NEW e, e.stack = d.stack, e.mask = d.mask, e.space = d.space, e.out = d.out,
         e.active = d.active, e.activated = d.activated
  PROVE  (SeenInv(d) => SeenInv(e)) /\ (LitInv(d) => LitInv(e))
<1>1. \A o : Seen(e, o) = Seen(d, o) /\ Lit(e, o) = Lit(d, o)
  BY DEF Seen, Lit
<1>2. \A o, t : OnTopOf(e, o, t) <=> OnTopOf(d, o, t)
  BY <1>1 DEF OnTopOf
<1> QED BY <1>1, <1>2 DEF SeenInv, LitInv

\* A plain window that shows on the focused output gets the focus; none does
\* only where the pointer decides.
LEMMA SeenFocus ==
  ASSUME NEW pre, Plain, NEW d, PlainInv(d, pre), NEW v \in Seen(d, d.out) \cup {None},
         v = None => FollowFocus,
         NEW e, e = focus_view(d, v)
  PROVE  PlainInv(e, pre) /\ Shuffled(d, e)
<1>1. Calm(d, pre) /\ Sound(d) /\ d.out \in Outputs
  BY DEF PlainInv, Calm, FocusInv, DeskInv, Sound, Desks
<1>2. v \in Range(d.stack[d.out]) \cup {None} /\ v \in Open(d) \cup {None}
  BY <1>1, Listing DEF Seen
<1>3. Calm(e, pre) /\ Shuffled(d, e) /\ e.active = v /\ (v = d.active => e = d)
  BY <1>1, <1>2, PlainFocus
<1>4. e.out = d.out /\ Seen(e, d.out) = Seen(d, d.out)
  BY <1>1, <1>3 DEF Seen, Shuffled, Beside
<1>5. ~FollowFocus => SeenInv(e)
  BY <1>3, <1>4 DEF SeenInv
<1>6. ASSUME "lit" \in pre.kept, v # d.active PROVE LitInv(e)
  <2>1. LitInv(d)
    BY <1>6 DEF PlainInv
  <2>2. Lit(d, d.out) \subseteq {d.active, v}
    BY <2>1 DEF LitInv
  <2>3. \A o \in Outputs \ {d.out} : \A w \in Lit(d, o) : OnTopOf(d, o, w)
    BY <2>1 DEF LitInv
  <2>4. /\ \A o \in Outputs \ {d.out} : \A w \in Lit(e, o) : OnTopOf(e, o, w)
        /\ Lit(e, d.out) = {v} \ {None}
        /\ v \in Seen(d, d.out) => OnTopOf(e, d.out, v)
    BY <1>1, <1>2, <1>6, <2>2, <2>3, LitFocus
  <2> QED BY <1>3, <1>4, <2>4 DEF LitInv
<1>7. ("lit" \in pre.kept => LitInv(d)) /\ ("lit" \in pre.kept /\ v = d.active => LitInv(e))
  BY <1>3 DEF PlainInv
<1> QED BY <1>3, <1>5, <1>6, <1>7 DEF PlainInv

LEMMA PlainSpace ==
  ASSUME NEW pre, Plain, PlainInv(Desk, pre), NEW i \in 0..(Spaces - 1),
         focus_space(i) \/ move_to_space(i)
  PROVE  PlainInv(Desk', pre)
<1>1. PICK c : c = Desk
  OBVIOUS
<1>2. /\ Calm(c, pre) /\ FocusInv(c, pre) /\ Sound(c) /\ c \in Desks /\ c.out \in Outputs /\ c.out = out
      /\ c.active = active /\ ("lit" \in pre.kept => LitInv(c))
  BY <1>1, DeskIs DEF PlainInv, Calm, FocusInv, DeskInv, Sound, Desks
<1>3. PICK m : /\ m = IF focus_space(i) THEN c.mask ELSE [c.mask EXCEPT ![c.active] = i]
  OBVIOUS
<1>4. PICK r : r = [c.space EXCEPT ![c.out] = i]
  OBVIOUS
<1>5. m \in [Views -> 0..(Spaces - 1)] /\ r \in [Outputs -> 0..(Spaces - 1)]
  BY <1>2, <1>3, <1>4 DEF Desks
<1>6. PICK d : d = [c EXCEPT !.mask = m, !.space = r]
  OBVIOUS
<1>7. /\ d \in Desks /\ d.stack = c.stack /\ d.parent = c.parent /\ d.full = c.full
      /\ d.active = c.active /\ d.activated = c.activated /\ d.out = c.out
      /\ d.mask = m /\ d.space = r
  BY <1>2, <1>5, <1>6 DEF Desks
<1>8. Becomes(focus_topmost(d, d.out))
  <2>1. CASE focus_space(i)
    <3>1. d = [c EXCEPT !.space[c.out] = i]
      BY <1>2, <1>3, <1>4, <1>6, <2>1 DEF Desks
    <3> QED BY <1>1, <1>2, <1>7, <2>1, <3>1 DEF focus_space
  <2>2. CASE ~focus_space(i) /\ move_to_space(i)
    <3>1. d = [c EXCEPT !.mask[c.active] = i, !.space[c.out] = i]
      BY <1>2, <1>3, <1>4, <1>6, <2>2 DEF Desks
    <3> QED BY <1>1, <1>2, <1>7, <2>2, <3>1 DEF move_to_space
  <2> QED BY <2>1, <2>2
<1>9. Calm(d, pre)
  <2>1. d.activated \subseteq Open(c)
    BY <1>2, <1>7 DEF FocusInv, DeskInv
  <2> QED BY <1>2, <1>7, <2>1, SameViews DEF Calm
<1>10. ASSUME "lit" \in pre.kept PROVE LitBefore(d)
  <2>1. LitInv(c)
    BY <1>2, <1>10
  <2>2. \A o : Lit(d, o) = Lit(c, o)
    BY <1>7 DEF Lit
  <2>3. ASSUME NEW o \in Outputs \ {c.out}, NEW w \in Lit(c, o) PROVE OnTopOf(d, o, w)
    <3>1. OnTopOf(c, o, w)
      BY <2>1, <2>3 DEF LitInv
    <3>2. c.active \notin Range(c.stack[o])
      <4>1. c.active # None => c.active \in Range(c.stack[c.out])
        BY <2>1 DEF LitInv, OnTopOf, Seen
      <4> QED BY <1>2, <4>1, Listing, FocusConstants DEF Sound
    <3>3. \A v \in Range(c.stack[o]) : d.mask[v] = c.mask[v]
      BY <1>2, <1>3, <1>7, <3>2, Listing DEF Desks
    <3>4. d.space[o] = c.space[o]
      BY <1>2, <1>4, <1>7 DEF Desks
    <3> QED BY <1>7, <3>1, <3>3, <3>4, SameOnTop
  <2> QED BY <1>7, <2>1, <2>2, <2>3 DEF LitBefore, LitInv
<1> QED BY <1>8, <1>9, <1>10, PlainEnd

LEMMA PlainRotate ==
  ASSUME NEW pre, Plain, PlainInv(Desk, pre), NEW dir \in {"NEXT", "PREV"},
         focus_next_or_previous_space(dir)
  PROVE  PlainInv(Desk', pre)
<1>1. space[out] \in 0..(Spaces - 1)
  BY DeskIs DEF PlainInv, Calm, FocusInv, DeskInv, Sound, Desks
<1>2. rotate_mask(space[out], dir) \in 0..(Spaces - 1)
  BY <1>1, FocusConstants DEF rotate_mask
<1> QED BY <1>2, PlainSpace DEF focus_next_or_previous_space

\* focus_output: what may show as active on the output that gets the focus is
\* the view that focus_topmost finds there.
LEMMA PlainOutput ==
  ASSUME NEW pre, Plain, NEW d, Calm(d, pre), "lit" \in pre.kept => LitInv(d), NEW o \in Outputs,
         Becomes(focus_output(d, o))
  PROVE  PlainInv(Desk', pre)
<1>1. FocusInv(d, pre) /\ Sound(d) /\ d \in Desks /\ d.out \in Outputs
  BY DEF Calm, FocusInv, DeskInv, Sound, Desks
<1>2. PICK c : c = [d EXCEPT !.out = o]
  OBVIOUS
<1>3. /\ c \in Desks /\ c.stack = d.stack /\ c.parent = d.parent /\ c.full = d.full
      /\ c.active = d.active /\ c.activated = d.activated /\ c.out = o
      /\ c.mask = d.mask /\ c.space = d.space
  BY <1>1, <1>2 DEF Desks
<1>4. Calm(c, pre)
  <2>1. c.activated \subseteq Open(d)
    BY <1>1, <1>3 DEF FocusInv, DeskInv
  <2> QED BY <1>1, <1>3, <2>1, SameViews DEF Calm
<1>5. ASSUME "lit" \in pre.kept PROVE LitBefore(c)
  <2>1. LitInv(d)
    BY <1>5
  <2>2. \A q : Lit(c, q) = Lit(d, q)
    BY <1>3 DEF Lit
  <2>3. \A q \in Outputs : \A w \in Lit(c, q) : OnTopOf(c, q, w)
    BY <1>3, <2>1, <2>2, SameOnTop DEF LitInv
  <2>4. CASE o = d.out
    BY <1>3, <2>1, <2>2, <2>3, <2>4 DEF LitInv, LitBefore
  <2>5. CASE o # d.out
    <3>1. c.active \notin Range(c.stack[o])
      <4>1. d.active # None => d.active \in Range(d.stack[d.out])
        BY <2>1 DEF LitInv, OnTopOf, Seen
      <4>2. None \notin Range(d.stack[o])
        BY <1>1, Listing, FocusConstants
      <4> QED BY <1>1, <1>3, <2>5, <4>1, <4>2 DEF Sound
    <3> QED BY <1>3, <2>3, <3>1 DEF LitBefore
  <2> QED BY <2>4, <2>5
<1>6. Becomes(focus_topmost(c, c.out))
  BY <1>2, <1>3 DEF focus_output
<1> QED BY <1>4, <1>5, <1>6, PlainEnd

LEMMA PlainNextOutput ==
  ASSUME NEW pre, Plain, PlainInv(Desk, pre), key_cb_focus_next_output
  PROVE  PlainInv(Desk', pre)
<1>1. FocusInv(Desk, pre)
  BY DEF PlainInv, Calm
<1>2. get_next_output(out) \in Outputs
  BY <1>1, NextIsOutput
<1> QED BY <1>2, PlainOutput DEF PlainInv, key_cb_focus_next_output

\* A plain window that is sent to another output arrives there on top, and
\* leaves its own to the view below.
LEMMA PlainSent ==
  ASSUME NEW pre, Plain, NEW d, Calm(d, pre), NEW v \in Open(d), v = d.active, NEW to \in Outputs,
         d.mask[v] = d.space[to],
         "lit" \in pre.kept => /\ v \in Range(d.stack[d.out]) /\ v \in d.activated
                               /\ Lit(d, d.out) = {v}
                               /\ \A o \in Outputs \ {d.out} : \A w \in Lit(d, o) : OnTopOf(d, o, w)
                               /\ to = d.out => OnTopOf(d, to, v),
         NEW e, e = view_move_to_output(d, v, to)
  PROVE  Calm(e, pre) /\ ("lit" \in pre.kept => LitInv(e))
<1>1. FocusInv(d, pre) /\ Sound(d) /\ d \in Desks /\ d.out \in Outputs /\ v \in Views /\ v # None
  BY Listing DEF Calm, FocusInv, DeskInv, Sound, Desks
<1>2. PICK from \in Outputs : from = OutputOf(d, v) /\ v \in Range(d.stack[from])
  BY <1>1, Listing DEF Listed
<1>3. "lit" \in pre.kept => from = d.out
  BY <1>1, <1>2, Listing
<1>4. CASE from = to
  <2>1. e = d
    BY <1>2, <1>4 DEF view_move_to_output
  <2>2. ASSUME "lit" \in pre.kept PROVE LitInv(d)
    <3>1. Lit(d, d.out) = {v} /\ to = d.out /\ OnTopOf(d, d.out, v)
      BY <1>3, <1>4, <2>2
    <3>2. \A o \in Outputs \ {d.out} : \A w \in Lit(d, o) : OnTopOf(d, o, w)
      BY <2>2
    <3> QED BY <1>1, <3>1, <3>2 DEF LitInv
  <2> QED BY <2>1, <2>2
<1>5. CASE from # to
  <2>1. PICK m : m = Sent(d, v, from, to)
    OBVIOUS
  <2>2. FocusInv(m, pre) /\ Open(m) = Open(d)
    BY <1>1, <1>2, <1>5, <2>1, ViewSent
  <2>3. /\ m.stack = [[d.stack EXCEPT ![from] = Without(d.stack[from], {v})]
                                EXCEPT ![to] = Append(d.stack[to], v)]
        /\ m.activated = d.activated /\ m.active = v /\ m.mask = d.mask /\ m.space = d.space
        /\ m.out = d.out /\ m.parent = d.parent /\ m.full = d.full
    BY <1>1, <1>2, <1>5, <2>1 DEF Sent, Desks
  <2>4. /\ m.stack[from] = Without(d.stack[from], {v}) /\ m.stack[to] = Append(d.stack[to], v)
        /\ \A q \in Outputs \ {from, to} : m.stack[q] = d.stack[q]
    BY <1>1, <1>2, <1>5, <2>3 DEF Desks
  <2>5. m \in Desks
    BY <2>2 DEF FocusInv, DeskInv, Sound
  <2>6. /\ Range(m.stack[from]) = Range(d.stack[from]) \ {v}
        /\ Range(m.stack[to]) = Range(d.stack[to]) \cup {v}
        /\ \A y \in Range(d.stack[to]) : Above(m.stack[to], v, y)
    <3>1. PICK w : w = Without(d.stack[from], {v})
      OBVIOUS
    <3>2. Range(w) = Range(d.stack[from]) \ {v}
      BY <1>1, <3>1, Listing, RestOrder
    <3>3. /\ Range(Append(d.stack[to], v)) = Range(d.stack[to]) \cup {v}
          /\ \A y \in Range(d.stack[to]) : Above(Append(d.stack[to], v), v, y)
      BY <1>1, Listing, TopOrder
    <3> QED BY <2>4, <3>1, <3>2, <3>3, ZenonT(60)
  <2>7. PICK a : a = IF v \in m.activated THEN set_active_view_on_output(m, to, v) ELSE m
    OBVIOUS
  <2>8. /\ a \in Desks /\ a.stack = m.stack /\ a.parent = m.parent /\ a.full = m.full
        /\ a.active = v /\ a.mask = m.mask /\ a.space = m.space /\ a.out = m.out
        /\ a.activated = IF v \in m.activated
                         THEN (m.activated \ Range(m.stack[to])) \cup ({v} \cap Range(m.stack[to]))
                         ELSE m.activated
    <3>1. CASE v \in m.activated
      <4>1. a = [m EXCEPT !.activated = (@ \ Range(m.stack[to])) \cup ({v} \cap Range(m.stack[to]))]
        BY <2>7, <3>1 DEF set_active_view_on_output
      <4> QED BY <1>1, <2>3, <2>5, <3>1, <4>1 DEF Desks
    <3>2. CASE v \notin m.activated
      BY <2>3, <2>5, <2>7, <3>2
    <3> QED BY <3>1, <3>2
  <2>9. Calm(a, pre)
    <3>1. a.activated \subseteq Open(m)
      BY <2>2, <2>8 DEF FocusInv, DeskInv
    <3> QED BY <2>2, <2>3, <2>8, <3>1, SameViews DEF Calm
  <2>10. e = focus_topmost(a, from)
    BY <1>2, <1>5, <2>1, <2>7 DEF view_move_to_output, Sent
  <2>11. Calm(e, pre)
    <3>1. FocusInv(e, pre) /\ Shuffled(a, e)
      BY <1>2, <2>9, <2>10, FocusTopmostKeeps DEF Calm
    <3> QED BY <2>9, <3>1 DEF Calm, Shuffled, Beside
  <2>12. ASSUME "lit" \in pre.kept PROVE LitInv(e)
    <3>1. from = a.out /\ from = d.out /\ v \in d.activated /\ Lit(d, from) = {v}
      BY <1>3, <2>3, <2>8, <2>12
    <3>2. \A o \in Outputs \ {from} : \A w \in Lit(d, o) : OnTopOf(d, o, w)
      BY <1>3, <2>12
    <3>3. a.activated = (d.activated \ Range(a.stack[to])) \cup {v}
      BY <2>3, <2>6, <2>8, <3>1
    <3>4. Lit(a, from) = {} /\ v \notin Range(a.stack[from])
      BY <2>6, <2>8, <3>1, <3>3 DEF Lit
    <3>5. OnTopOf(a, to, v) /\ Lit(a, to) = {v}
      BY <2>3, <2>6, <2>8, <3>3 DEF OnTopOf, Seen, Lit
    <3>6. ASSUME NEW o \in Outputs \ {from, to}, NEW w \in Lit(a, o) PROVE OnTopOf(a, o, w)
      <4>1. v \notin Range(d.stack[o]) /\ a.stack[o] = d.stack[o]
        BY <1>1, <1>2, <2>4, <2>8 DEF Sound
      <4>2. w \in Lit(d, o)
        BY <3>3, <4>1 DEF Lit
      <4> QED BY <2>3, <2>8, <3>2, <4>1, <4>2, SameOnTop
    <3>7. LitBefore(a)
      BY <2>8, <3>1, <3>4, <3>5, <3>6 DEF LitBefore
    <3> QED BY <2>9, <2>10, <3>1, <3>7, PlainTopmost
  <2> QED BY <2>11, <2>12
<1> QED BY <1>4, <1>5

LEMMA PlainMove ==
  ASSUME NEW pre, Plain, PlainInv(Desk, pre), NEW o \in Outputs, move_to_output(o)
  PROVE  PlainInv(Desk', pre)
<1>1. PICK c : c = Desk
  OBVIOUS
<1>2. /\ Calm(c, pre) /\ FocusInv(c, pre) /\ Sound(c) /\ c \in Desks /\ c.out \in Outputs /\ c.space = space
      /\ c.active = active /\ active \in Open(c) /\ active \in Views /\ active # None
      /\ ("lit" \in pre.kept => LitInv(c))
  BY <1>1, DeskIs, Listing DEF PlainInv, Calm, FocusInv, DeskInv, Sound, Desks, move_to_output
<1>3. PICK d : d = [c EXCEPT !.mask[active] = c.space[o]]
  OBVIOUS
<1>4. /\ d \in Desks /\ d.stack = c.stack /\ d.parent = c.parent /\ d.full = c.full
      /\ d.active = active /\ d.activated = c.activated /\ d.out = c.out
      /\ d.mask = [c.mask EXCEPT ![active] = c.space[o]] /\ d.space = c.space
  <2>1. c.space[o] \in 0..(Spaces - 1)
    BY <1>2 DEF Desks
  <2> QED BY <1>2, <1>3, <2>1 DEF Desks
<1>5. /\ d.mask[active] = d.space[o]
      /\ \A v \in Views \ {active} : d.mask[v] = c.mask[v]
  BY <1>2, <1>4 DEF Desks
<1>6. Calm(d, pre) /\ Open(d) = Open(c)
  <2>1. d.activated \subseteq Open(c)
    BY <1>2, <1>4 DEF FocusInv, DeskInv
  <2> QED BY <1>2, <1>4, <2>1, SameViews DEF Calm
<1>7. PICK e : e = view_move_to_output(d, active, o)
  OBVIOUS
<1>8. "lit" \in pre.kept => /\ active \in Range(d.stack[d.out]) /\ active \in d.activated
                            /\ Lit(d, d.out) = {active}
                            /\ \A q \in Outputs \ {d.out} : \A w \in Lit(d, q) : OnTopOf(d, q, w)
                            /\ o = d.out => OnTopOf(d, o, active)
  <2> SUFFICES ASSUME "lit" \in pre.kept
               PROVE  /\ active \in Range(d.stack[d.out]) /\ active \in d.activated
                      /\ Lit(d, d.out) = {active}
                      /\ \A q \in Outputs \ {d.out} : \A w \in Lit(d, q) : OnTopOf(d, q, w)
                      /\ o = d.out => OnTopOf(d, o, active)
    OBVIOUS
  <2>1. LitInv(c)
    BY <1>2
  <2>2. /\ OnTopOf(c, c.out, active) /\ Lit(c, c.out) = {active}
        /\ \A q \in Outputs : \A w \in Lit(c, q) : OnTopOf(c, q, w)
    BY <1>2, <2>1 DEF LitInv
  <2>3. \A q : Lit(d, q) = Lit(c, q)
    BY <1>4 DEF Lit
  <2>4. active \in Range(c.stack[c.out]) /\ active \in c.activated /\ c.mask[active] = c.space[c.out]
    BY <2>2 DEF OnTopOf, Seen, Lit
  <2>5. ASSUME NEW q \in Outputs \ {c.out}, NEW w \in Lit(c, q) PROVE OnTopOf(d, q, w)
    <3>1. active \notin Range(c.stack[q])
      BY <1>2, <2>4 DEF Sound
    <3>2. \A v \in Range(c.stack[q]) : d.mask[v] = c.mask[v]
      BY <1>2, <1>5, <3>1, Listing
    <3>3. OnTopOf(c, q, w)
      BY <2>2
    <3> QED BY <1>4, <3>2, <3>3, SameOnTop
  <2>6. ASSUME o = c.out PROVE OnTopOf(d, o, active)
    <3>1. \A v \in Range(c.stack[o]) : d.mask[v] = c.mask[v]
      BY <1>2, <1>4, <1>5, <2>4, <2>6, Listing
    <3> QED BY <1>4, <2>2, <2>6, <3>1, SameOnTop
  <2> QED BY <1>4, <2>2, <2>3, <2>4, <2>5, <2>6
<1>9. Calm(e, pre) /\ ("lit" \in pre.kept => LitInv(e))
  BY <1>2, <1>4, <1>5, <1>6, <1>7, <1>8, PlainSent
<1>10. Becomes(focus_output(e, o))
  BY <1>1, <1>2, <1>3, <1>7 DEF move_to_output
<1> QED BY <1>9, <1>10, PlainOutput


\* A plain window opens on top: with the focus where that is, alone with the
\* activated look on another output.
LEMMA PlainCreated ==
  ASSUME NEW pre, Plain, PlainInv(Desk, pre), NEW v \in Views, NEW o \in Outputs,
         NEW p \in Views \cup {None},
         view_created(o, v, p)
  PROVE  PlainInv(Desk', pre)
<1>1. PICK c : c = Desk
  OBVIOUS
<1>2. /\ Calm(c, pre) /\ FocusInv(c, pre) /\ Sound(c) /\ c \in Desks /\ c.out \in Outputs
      /\ (~FollowFocus => SeenInv(c)) /\ ("lit" \in pre.kept => LitInv(c))
      /\ c.active \in Open(c) \cup {None}
  BY <1>1 DEF PlainInv, Calm, FocusInv, DeskInv, Sound, Desks
<1>3. c.out = out /\ c.space = space /\ c.active = active
  BY <1>1, DeskIs
<1>4. PICK d : d = OnList(c, v, o, p)
  OBVIOUS
<1>5. PICK f : f = IF ~should_focus_on_create(d, v) THEN d
                   ELSE IF o = out THEN focus_view(d, v)
                   ELSE set_active_view_on_output(d, o, v)
  OBVIOUS
<1>6. PICK e : e = [f EXCEPT !.mask[v] = c.space[o]]
  OBVIOUS
<1>7. v \notin Open(c) /\ p = None /\ Becomes(e)
  BY <1>1, <1>3, <1>4, <1>5, <1>6 DEF view_created, OnList, Plain
<1>8. /\ d \in Desks /\ DeskInv(d) /\ Open(d) = Open(c) \cup {v} /\ v \in Range(d.stack[o])
      /\ d.active = c.active /\ d.full = c.full /\ d.out = c.out /\ d.activated = c.activated
      /\ d.parent[v] = None
      /\ \A x \in Views \ {v} : d.parent[x] = c.parent[x]
      /\ MenusFirst /\ ~is_bemenu(v) => MenuInv(d)
      /\ Due("peek", d, pre) => PeekInv(d)
      /\ Due("over", d, pre) => OverInv(d)
  BY <1>2, <1>4, <1>7, ViewListed
<1>9. /\ d.mask = c.mask /\ d.space = c.space
      /\ d.stack[o] = Append(c.stack[o], v)
      /\ \A q \in Outputs \ {o} : d.stack[q] = c.stack[q]
  BY <1>2, <1>4 DEF OnList, Desks
<1>10. is_managed(v) /\ ~is_bemenu(v) /\ v # None /\ v # c.active
  BY <1>2, <1>7, FocusConstants DEF Plain, is_managed, is_bemenu
<1>11. Calm(d, pre) /\ Sound(d)
  BY <1>2, <1>8, <1>10 DEF Calm, FocusInv, DeskInv
<1>12. should_focus_on_create(d, v)
  BY <1>8, <1>10 DEF should_focus_on_create
<1>13. /\ Range(d.stack[o]) = Range(c.stack[o]) \cup {v}
       /\ \A y \in Range(c.stack[o]) : Above(d.stack[o], v, y)
       /\ \A q \in Outputs \ {o} : v \notin Range(d.stack[q])
       /\ \A q \in Outputs : v \notin Range(c.stack[q])
  <2>1. c.stack[o] \in Seq(Views)
    BY <1>2, Listing
  <2>2. /\ Range(d.stack[o]) = Range(c.stack[o]) \cup {v}
        /\ \A y \in Range(c.stack[o]) : Above(d.stack[o], v, y)
    BY <1>9, <2>1, TopOrder
  <2>3. \A q \in Outputs : v \notin Range(c.stack[q])
    BY <1>2, <1>7, Listing
  <2> QED BY <1>9, <2>2, <2>3
<1>14. ASSUME f \in Desks PROVE
         /\ e \in Desks /\ e.stack = f.stack /\ e.parent = f.parent /\ e.full = f.full
         /\ e.active = f.active /\ e.activated = f.activated /\ e.space = f.space /\ e.out = f.out
         /\ e.mask = [f.mask EXCEPT ![v] = c.space[o]]
  <2>1. c.space[o] \in 0..(Spaces - 1)
    BY <1>2 DEF Desks
  <2> QED BY <1>6, <1>14, <2>1 DEF Desks
<1>15. ASSUME Calm(f, pre), f.mask = c.mask PROVE
         /\ Calm(e, pre) /\ e.mask[v] = c.space[o]
         /\ \A x \in Views \ {v} : e.mask[x] = c.mask[x]
  <2>1. f \in Desks /\ FocusInv(f, pre) /\ f.activated \subseteq Open(f)
    BY <1>15 DEF Calm, FocusInv, DeskInv, Sound
  <2>2. Calm(e, pre)
    BY <1>14, <1>15, <2>1, SameViews DEF Calm
  <2> QED BY <1>14, <1>15, <2>1, <2>2 DEF Desks
<1>16. CASE o = out
  <2>1. f = focus_view(d, v) /\ o = d.out
    BY <1>3, <1>5, <1>8, <1>12, <1>16
  <2>2. /\ Calm(f, pre) /\ Shuffled(d, f) /\ f.active = v
        /\ \A w \in Range(d.stack[o]) \ {v} : Above(f.stack[o], v, w)
    <3>1. v \in Open(d) \cup {None} /\ v # d.active /\ o \in Outputs /\ v \in Range(d.stack[o])
      BY <1>8, <1>10
    <3>2. /\ Calm(f, pre) /\ Shuffled(d, f) /\ f.active = v
          /\ \A q \in Outputs : v \in Range(d.stack[q]) =>
               \A w \in Range(d.stack[q]) \ {v} : Above(f.stack[q], v, w)
      BY <1>11, <2>1, <3>1, PlainFocus
    <3> QED BY <3>1, <3>2
  <2>3. /\ f.mask = c.mask /\ f.space = c.space /\ f.out = o
        /\ \A q \in Outputs : Range(f.stack[q]) = Range(d.stack[q])
    BY <1>9, <2>1, <2>2 DEF Shuffled, Beside
  <2>4. f \in Desks
    BY <2>2 DEF Shuffled, Sound
  <2>5. OnTopOf(e, o, v)
    BY <1>8, <1>14, <1>15, <2>2, <2>3, <2>4 DEF OnTopOf, Seen
  <2>6. SeenInv(e)
    BY <1>14, <2>2, <2>3, <2>4, <2>5 DEF SeenInv, OnTopOf
  <2>7. ASSUME "lit" \in pre.kept PROVE LitInv(e)
    <3>1. LitInv(c)
      BY <1>2, <2>7
    <3>2. ASSUME NEW q \in Outputs \ {d.out}, NEW w \in Lit(d, q) PROVE OnTopOf(d, q, w)
      <4>1. w \in Lit(c, q) /\ d.stack[q] = c.stack[q]
        BY <1>8, <1>9, <2>1, <3>2 DEF Lit
      <4>2. OnTopOf(c, q, w)
        BY <3>1, <4>1 DEF LitInv
      <4> QED BY <1>9, <4>1, <4>2, SameOnTop
    <3>3. Lit(d, d.out) \subseteq {d.active, v}
      BY <1>8, <1>13, <2>1, <3>1 DEF LitInv, Lit
    <3>4. /\ \A q \in Outputs \ {d.out} : \A w \in Lit(f, q) : OnTopOf(f, q, w)
          /\ Lit(f, d.out) = {v} \ {None}
      BY <1>8, <1>10, <1>11, <2>1, <3>2, <3>3, LitFocus
    <3>5. ASSUME NEW q \in Outputs \ {o}, NEW w \in Lit(f, q) PROVE OnTopOf(e, q, w)
      <4>1. OnTopOf(f, q, w)
        BY <2>1, <3>4, <3>5
      <4>2. \A x \in Range(f.stack[q]) : e.mask[x] = f.mask[x]
        BY <1>11, <1>13, <1>15, <2>2, <2>3, Listing
      <4> QED BY <1>14, <2>4, <4>1, <4>2, SameOnTop
    <3>6. \A q : Lit(e, q) = Lit(f, q)
      BY <1>14, <2>4 DEF Lit
    <3> QED BY <1>10, <1>14, <2>1, <2>2, <2>3, <2>4, <2>5, <3>4, <3>5, <3>6 DEF LitInv
  <2>8. Calm(e, pre) /\ e \in Desks
    BY <1>14, <1>15, <2>2, <2>3, <2>4
  <2> QED BY <1>7, <2>6, <2>7, <2>8, Became DEF PlainInv
<1>17. CASE o # out
  <2>1. f = [d EXCEPT !.activated = (@ \ Range(d.stack[o])) \cup ({v} \cap Range(d.stack[o]))]
    BY <1>5, <1>12, <1>17 DEF set_active_view_on_output
  <2>2. /\ f \in Desks /\ f.stack = d.stack /\ f.parent = d.parent /\ f.full = d.full
        /\ f.active = d.active /\ f.mask = d.mask /\ f.space = d.space /\ f.out = d.out
        /\ f.activated = (d.activated \ Range(d.stack[o])) \cup {v}
    BY <1>8, <2>1 DEF Desks
  <2>3. Calm(f, pre)
    <3>1. f.activated \subseteq Open(d)
      BY <1>8, <2>2 DEF DeskInv
    <3> QED BY <1>11, <2>2, <3>1, SameViews DEF Calm
  <2>4. Calm(e, pre) /\ e \in Desks
    BY <1>9, <1>14, <1>15, <2>2, <2>3
  <2>5. ASSUME NEW q \in Outputs \ {o}
        PROVE  /\ Seen(e, q) = Seen(c, q) /\ \A t : OnTopOf(e, q, t) <=> OnTopOf(c, q, t)
               /\ Lit(e, q) = Lit(c, q)
    <3>1. e.stack[q] = c.stack[q] /\ e.space[q] = c.space[q]
      BY <1>9, <1>14, <2>2
    <3>2. \A x \in Range(c.stack[q]) : e.mask[x] = c.mask[x]
      BY <1>2, <1>9, <1>13, <1>15, <2>2, <2>3, Listing
    <3>3. \A x \in Range(c.stack[q]) : x \notin Range(d.stack[o])
      BY <1>9, <1>11 DEF Sound
    <3>4. Lit(e, q) = Lit(c, q)
      BY <1>8, <1>13, <1>14, <2>2, <3>1, <3>3 DEF Lit
    <3> QED BY <3>1, <3>2, <3>4, SameOnTop
  <2>6. e.out = c.out /\ e.active = c.active /\ c.out # o
    BY <1>3, <1>8, <1>14, <1>17, <2>2
  <2>7. SeenInv(c) => SeenInv(e)
    BY <1>2, <2>5, <2>6 DEF SeenInv
  <2>8. OnTopOf(e, o, v) /\ Lit(e, o) = {v}
    <3>1. e.stack[o] = d.stack[o] /\ e.space[o] = c.space[o] /\ e.mask[v] = c.space[o]
      BY <1>9, <1>14, <1>15, <2>2, <2>3
    <3>2. e.activated = (d.activated \ Range(d.stack[o])) \cup {v}
      BY <1>14, <2>2
    <3>3. \A w \in Range(e.stack[o]) : w = v \/ Above(e.stack[o], v, w)
      BY <1>13, <3>1
    <3> QED BY <1>8, <3>1, <3>2, <3>3 DEF OnTopOf, Seen, Lit
  <2>9. LitInv(c) => LitInv(e)
    BY <1>2, <2>5, <2>6, <2>8 DEF LitInv
  <2> QED BY <1>2, <1>7, <2>4, <2>7, <2>9, Became DEF PlainInv
<1> QED BY <1>16, <1>17

LEMMA PlainDestroyed ==
  ASSUME NEW pre, Plain, PlainInv(Desk, pre), NEW v \in Views, view_destroyed(v)
  PROVE  PlainInv(Desk', pre)
<1>1. PICK c : c = Desk
  OBVIOUS
<1>2. /\ Calm(c, pre) /\ FocusInv(c, pre) /\ Sound(c) /\ c \in Desks /\ c.out \in Outputs
      /\ (~FollowFocus => SeenInv(c)) /\ ("lit" \in pre.kept => LitInv(c)) /\ v \in Open(c)
  BY <1>1 DEF PlainInv, Calm, FocusInv, DeskInv, Sound, Desks, view_destroyed
<1>3. /\ c.out = out /\ c.space = space /\ c.active = active /\ c.stack = stack /\ c.mask = mask
      /\ c.activated = activated /\ c.parent = parent
  BY <1>1, DeskIs
<1>4. PICK g : g = Left(v)
  OBVIOUS
<1>5. /\ FocusInv(g, pre)
      /\ g.active = IF active = v THEN None ELSE active
      /\ g.mask = [mask EXCEPT ![v] = 0] /\ g.space = space /\ g.out = out
      /\ g.activated = activated \ {v}
      /\ \A q \in Outputs : g.stack[q] = Without(stack[q], {v})
  <2>1. FocusInv(Desk, pre) /\ v \in Open(Desk)
    BY <1>1, <1>2
  <2>2. FocusInv(g, pre)
    BY <1>4, <2>1, ViewGone
  <2>3. g.active = IF active = v THEN None ELSE active
    BY <1>4, <2>1, ViewGone
  <2>4. g.mask = [mask EXCEPT ![v] = 0] /\ g.space = space /\ g.out = out
    BY <1>4, <2>1, ViewGone
  <2>5. g.activated = activated \ {v}
    BY <1>4, <2>1, ViewGone
  <2>6. \A q \in Outputs : g.stack[q] = Without(stack[q], {v})
    <3>1. g.stack = [o \in Outputs |-> Without(stack[o], {v})]
      BY <1>4 DEF Left, Gone, Desk
    <3> QED BY <3>1
  <2> QED BY <2>2, <2>3, <2>4, <2>5, <2>6
<1>6. Calm(g, pre) /\ g \in Desks
  <2>1. g.parent = [w \in Views |-> IF w = v \/ parent[w] = v THEN None ELSE parent[w]]
    BY <1>4, GoneParents
  <2> QED BY <1>2, <1>3, <1>5, <2>1 DEF Calm, FocusInv, DeskInv, Sound
<1>7. \A x \in Views \ {v} : g.mask[x] = c.mask[x]
  BY <1>2, <1>3, <1>5 DEF Desks
<1>8. ASSUME NEW q \in Outputs
      PROVE  /\ Range(g.stack[q]) = Range(c.stack[q]) \ {v}
             /\ Seen(g, q) = Seen(c, q) \ {v} /\ Lit(g, q) = Lit(c, q) \ {v}
             /\ \A t : OnTopOf(c, q, t) /\ t # v => OnTopOf(g, q, t)
  <2>1. PICK s, w : s \in Seq(Views) /\ s = c.stack[q] /\ w = Without(s, {v})
    BY <1>2, Listing
  <2>2. /\ Range(w) = Range(s) \ {v}
        /\ \A x, y : Above(w, x, y) <=> x \notin {v} /\ y \notin {v} /\ Above(s, x, y)
    BY <2>1, RestOrder
  <2>3. g.stack[q] = w
    BY <1>3, <1>5, <2>1
  <2>4. Range(s) \subseteq Views
    BY <1>2, <2>1, Listing
  <2>5. Seen(g, q) = Seen(c, q) \ {v} /\ Lit(g, q) = Lit(c, q) \ {v}
    <3>1. Range(g.stack[q]) = Range(c.stack[q]) \ {v} /\ Range(c.stack[q]) \subseteq Views
      BY <2>1, <2>2, <2>3, <2>4
    <3>2. g.activated = c.activated \ {v} /\ g.space = c.space
      BY <1>3, <1>5
    <3>3. Seen(g, q) = Seen(c, q) \ {v}
      BY <1>7, <3>1, <3>2 DEF Seen
    <3> QED BY <3>1, <3>2, <3>3 DEF Lit
  <2> QED BY <2>1, <2>2, <2>3, <2>5 DEF OnTopOf
<1>9. CASE active # v
  <2>1. Becomes(g)
    BY <1>4, <1>9 DEF view_destroyed, Left
  <2>2. SeenInv(c) => SeenInv(g)
    BY <1>2, <1>3, <1>5, <1>8, <1>9, FocusConstants DEF SeenInv, Seen
  <2>3. LitInv(c) => LitInv(g)
    <3>1. v # None
      BY <1>2, Listing
    <3> QED BY <1>2, <1>3, <1>5, <1>8, <1>9, <3>1 DEF LitInv
  <2> QED BY <1>2, <1>6, <2>1, <2>2, <2>3, Became DEF PlainInv
<1>10. CASE active = v
  <2>1. g = [Gone(v) EXCEPT !.active = None] /\ parent[v] = None
    BY <1>2, <1>3, <1>4, <1>10 DEF Left, Calm
  <2>2. Becomes(focus_topmost(g, OutputOf(c, v)))
    BY <1>1, <1>10, <2>1 DEF view_destroyed
  <2>3. v # None
    BY <1>2, Listing
  <2>4. PICK o \in Outputs : o = OutputOf(c, v)
    BY <1>2, Listing
  <2>5. PICK e : e = focus_topmost(g, o)
    OBVIOUS
  <2>6. FocusInv(e, pre) /\ Shuffled(g, e)
    BY <1>5, <2>4, <2>5, FocusTopmostKeeps
  <2>7. Calm(e, pre) /\ Desk' = e
    BY <1>6, <2>2, <2>4, <2>5, <2>6, Became DEF Calm, Shuffled, Beside, Sound
  <2>8. SeenInv(c) \/ LitInv(c) => o = g.out
    BY <1>2, <1>3, <1>5, <1>10, <2>3, <2>4, Listing DEF SeenInv, LitInv, OnTopOf, Seen
  <2>9. LitInv(c) => LitBefore(g)
    BY <1>2, <1>3, <1>5, <1>8, <1>10 DEF LitInv, LitBefore
  <2>10. o = g.out => SeenInv(e) /\ (LitBefore(g) => LitInv(e))
    BY <1>6, <2>5, PlainTopmost
  <2> QED BY <1>2, <2>7, <2>8, <2>9, <2>10 DEF PlainInv
<1> QED BY <1>9, <1>10


LEMMA PlainClicked ==
  ASSUME NEW pre, Plain, PlainInv(Desk, pre), NEW v \in Views \cup {None},
         key_cb_focus_view(v) \/ pointer_motion(v)
  PROVE  PlainInv(Desk', pre)
<1>1. Shown = Seen(Desk, Desk.out)
  BY DeskIs DEF Shown, Seen
<1>2. v \in Seen(Desk, Desk.out) \cup {None} /\ (v \in Seen(Desk, Desk.out) \/ FollowFocus)
  BY <1>1 DEF key_cb_focus_view, pointer_motion
<1>3. v = None => FollowFocus
  <2>1. None \notin Range(Desk.stack[Desk.out])
    BY Listing, FocusConstants DEF PlainInv, Calm, FocusInv, DeskInv, Sound, Desks
  <2> QED BY <1>2, <2>1 DEF Seen
<1>4. PICK e : e = focus_view(Desk, v)
  OBVIOUS
<1>5. PlainInv(e, pre) /\ Shuffled(Desk, e)
  BY <1>2, <1>3, <1>4, SeenFocus
<1>6. Becomes(e)
  BY <1>4 DEF key_cb_focus_view, pointer_motion
<1> QED BY <1>5, <1>6, Became DEF Shuffled, Sound

\* Fullscreen and the end of a drag leave lists and focus alone.
LEMMA PlainToggled ==
  ASSUME NEW pre, Plain, PlainInv(Desk, pre), FocusInv(Desk', pre),
         stop_interactive_action \/ \E v \in Views \cup {None} : Becomes(toggled(v))
  PROVE  PlainInv(Desk', pre)
<1>1. PICK c : c = Desk
  OBVIOUS
<1>2. c \in Desks /\ PlainInv(c, pre)
  BY <1>1 DEF PlainInv, Calm, FocusInv, DeskInv, Sound
<1>3. PICK d : /\ Becomes(d)
               /\ \/ d = [c EXCEPT !.action = None]
                  \/ \E v \in Views \cup {None} :
                       d = [c EXCEPT !.full = IF v \in @ THEN @ \ {v} ELSE @ \cup {v}]
  BY <1>1 DEF toggled, stop_interactive_action
<1>4. /\ d.stack = c.stack /\ d.mask = c.mask /\ d.space = c.space /\ d.out = c.out
      /\ d.active = c.active /\ d.activated = c.activated /\ d.parent = c.parent
  BY <1>2, <1>3 DEF Desks
<1>5. PICK e : e = Desk'
  OBVIOUS
<1>6. /\ e.stack = d.stack /\ e.mask = d.mask /\ e.space = d.space /\ e.out = d.out
      /\ e.active = d.active /\ e.activated = d.activated /\ e.parent = d.parent
  BY <1>3, <1>5 DEF Becomes, Desk
<1>7. (SeenInv(c) => SeenInv(e)) /\ (LitInv(c) => LitInv(e))
  BY <1>4, <1>6, SameSeen
<1> QED BY <1>2, <1>4, <1>5, <1>6, <1>7 DEF PlainInv, Calm

\* A new order leaves the focus with a view that shows.
LEMMA PlainReordered ==
  ASSUME NEW pre, Plain, PlainInv(Desk, pre), pre.kept = {}, FocusInv(Desk', pre),
         NEW a \in Views \cup {None}, NEW e, Restacked([Desk EXCEPT !.action = a], e), Becomes(e)
  PROVE  PlainInv(Desk', pre)
<1>1. PICK c : c = Desk
  OBVIOUS
<1>2. c \in Desks /\ Calm(c, pre) /\ (~FollowFocus => SeenInv(c)) /\ c.out \in Outputs
  BY <1>1 DEF PlainInv, Calm, FocusInv, DeskInv, Sound, Desks
<1>3. PICK d : d = [c EXCEPT !.action = a]
  OBVIOUS
<1>4. /\ d \in Desks /\ d.stack = c.stack /\ d.parent = c.parent /\ d.active = c.active
      /\ d.mask = c.mask /\ d.space = c.space /\ d.out = c.out
  BY <1>2, <1>3 DEF Desks
<1>5. Restacked(d, e)
  BY <1>1, <1>3
<1>6. Desk' = e
  BY <1>5, Became DEF Restacked, Shuffled, Sound
<1>7. /\ e.active = c.active /\ e.mask = c.mask /\ e.space = c.space /\ e.out = c.out
      /\ e.parent = c.parent /\ \A q \in Outputs : Range(e.stack[q]) = Range(c.stack[q])
  BY <1>4, <1>5 DEF Restacked, Shuffled, Beside
<1>8. SeenInv(c) => SeenInv(e)
  BY <1>2, <1>7 DEF SeenInv, Seen
<1> QED BY <1>2, <1>6, <1>7, <1>8 DEF PlainInv, Calm

LEMMA PlainDragged ==
  ASSUME NEW pre, Plain, PlainInv(Desk, pre), pre.kept = {}, FocusInv(Desk', pre),
         NEW v \in Views, start_interactive_action(v)
  PROVE  PlainInv(Desk', pre)
<1>1. Sound(Desk) /\ Desk \in Desks /\ Desk.out \in Outputs
  BY DEF PlainInv, Calm, FocusInv, DeskInv, Sound, Desks
<1>2. PICK d : d = [Desk EXCEPT !.action = v]
  OBVIOUS
<1>3. d \in Desks /\ d.stack = Desk.stack
  BY <1>1, <1>2 DEF Desks
<1>4. Sound(d) /\ v \in Open(d)
  <2>1. v \in Range(Desk.stack[Desk.out])
    BY DeskIs DEF start_interactive_action, Shown
  <2> QED BY <1>1, <1>3, <2>1 DEF Sound, Open
<1>5. PICK e : e = wlc_view_bring_to_front(d, v)
  OBVIOUS
<1>6. Restacked(d, e)
  BY <1>4, <1>5, Fronted
<1>7. Becomes(e)
  BY <1>2, <1>5 DEF start_interactive_action
<1> QED BY <1>2, <1>6, <1>7, PlainReordered

LEMMA PlainCycled ==
  ASSUME NEW pre, Plain, PlainInv(Desk, pre), pre.kept = {}, FocusInv(Desk', pre),
         key_cb_cycle_clients
  PROVE  PlainInv(Desk', pre)
<1>1. PICK c : c = Desk
  OBVIOUS
<1>2. Sound(c) /\ c \in Desks /\ c.out \in Outputs /\ c.action \in Views \cup {None} /\ c.out = out
  BY <1>1, DeskIs DEF PlainInv, Calm, FocusInv, DeskInv, Sound, Desks
<1>3. PICK a \in Views \cup {None} : a = c.action
  BY <1>2
<1>4. [c EXCEPT !.action = a] = c
  BY <1>2, <1>3 DEF Desks
<1>5. PICK e : e = cycle_output(c, c.out)
  OBVIOUS
<1>6. Restacked(c, e)
  BY <1>2, <1>5, OutputCycled
<1>7. Becomes(e)
  BY <1>1, <1>2, <1>5 DEF key_cb_cycle_clients
<1> QED BY <1>1, <1>4, <1>6, <1>7, PlainReordered

LEMMA PlainViewRotated ==
  ASSUME NEW pre, Plain, PlainInv(Desk, pre), NEW dir \in {"NEXT", "PREV"},
         focus_next_or_previous_view(dir)
  PROVE  PlainInv(Desk', pre)
<1>1. PICK n, c : n = Len(Candidates(dir)) /\ c = Candidates(dir)
  OBVIOUS
<1>2. /\ Calm(Desk, pre) /\ FocusInv(Desk, pre) /\ Sound(Desk) /\ out \in Outputs /\ stack = Desk.stack
      /\ (~FollowFocus => SeenInv(Desk)) /\ ("lit" \in pre.kept => LitInv(Desk))
  BY DeskIs DEF PlainInv, Calm, FocusInv, DeskInv, Sound, Desks
<1>3. n \in Nat /\ \A k \in 1..n : c[k] \in Open(Desk)
  BY <1>1, <1>2, CandidatesOpen
<1>4. ~FollowFocus \/ "lit" \in pre.kept => \A k \in 1..n : c[k] \in Range(stack[out])
  <2> SUFFICES ASSUME ~FollowFocus \/ "lit" \in pre.kept PROVE \A k \in 1..n : c[k] \in Range(stack[out])
    OBVIOUS
  <2>1. active # None => active \in Range(stack[out])
    BY <1>2, DeskIs DEF SeenInv, LitInv, OnTopOf, Seen
  <2>2. (IF active = None THEN stack[out] ELSE Listed(Desk, active)) = stack[out]
    BY <1>2, <2>1, Listing DEF Listed
  <2> QED BY <1>1, <1>2, <2>2, CandidatesListed
<1>5. PICK a : /\ a[0] = Desk
               /\ \A k \in 1..n : a[k] = try_focus(a[k - 1], c[k])
               /\ FoldLeft(try_focus, Desk, c) = a[n]
  <2>1. FocusInv(Desk, pre)
    BY <1>2
  <2> QED BY <1>1, <2>1, TriesUnrolled, ZenonT(60)
<1> DEFINE Done == {k \in Nat : k <= n => PlainInv(a[k], pre) /\ Shuffled(Desk, a[k])}
<1>6. 0 \in Done
  BY <1>2, <1>5, RestackedSelf DEF Restacked
<1>7. ASSUME NEW k \in Nat, k \in Done PROVE k + 1 \in Done
  <2> SUFFICES ASSUME k + 1 <= n PROVE PlainInv(a[k + 1], pre) /\ Shuffled(Desk, a[k + 1])
    OBVIOUS
  <2>1. PICK d : d = a[k]
    OBVIOUS
  <2>2. /\ PlainInv(d, pre) /\ Calm(d, pre) /\ FocusInv(d, pre) /\ Shuffled(Desk, d)
        /\ k + 1 \in 1..n /\ (k + 1) - 1 = k
    BY <1>3, <1>7, <2>1 DEF PlainInv, Calm
  <2>3. PICK v : v = c[k + 1]
    OBVIOUS
  <2>4. a[k + 1] = try_focus(d, v)
    BY <1>5, <2>1, <2>2, <2>3
  <2>5. /\ d.mask = mask /\ d.space = space /\ d.out = out /\ Open(d) = Open(Desk)
        /\ Range(d.stack[out]) = Range(stack[out])
    BY <1>2, <2>2, DeskIs, ShuffledSame DEF Shuffled, Beside
  <2>6. PICK e : e = focus_view(d, v)
    OBVIOUS
  <2>7. ASSUME mask[v] = space[out] PROVE PlainInv(e, pre) /\ Shuffled(d, e)
    <3>1. CASE ~FollowFocus \/ "lit" \in pre.kept
      <4>1. v \in Seen(d, d.out)
        BY <1>4, <2>2, <2>3, <2>5, <2>7, <3>1 DEF Seen
      <4>2. v # None
        BY <1>2, <1>3, <2>2, <2>3, Listing
      <4> QED BY <2>2, <2>6, <4>1, <4>2, SeenFocus
    <3>2. CASE ~(~FollowFocus \/ "lit" \in pre.kept)
      <4>1. v \in Open(d)
        BY <1>3, <2>2, <2>3, <2>5
      <4>2. FocusInv(e, pre) /\ Shuffled(d, e)
        BY <2>2, <2>6, <4>1, FocusViewKeeps
      <4> QED BY <2>2, <3>2, <4>2 DEF PlainInv, Calm, Shuffled, Beside
    <3> QED BY <3>1, <3>2
  <2>8. a[k + 1] = d \/ (a[k + 1] = e /\ mask[v] = space[out])
    BY <2>4, <2>6 DEF try_focus
  <2>9. Shuffled(d, e) => Shuffled(Desk, e)
    BY <2>2 DEF Shuffled, Beside
  <2> QED BY <2>2, <2>7, <2>8, <2>9
<1>8. n \in Done
  <2> HIDE DEF Done
  <2> QED BY <1>3, <1>6, <1>7, Raising!Induction
<1>9. PICK e : e = a[n]
  OBVIOUS
<1>10. PlainInv(e, pre) /\ Shuffled(Desk, e)
  BY <1>3, <1>8, <1>9
<1>11. Becomes(e)
  BY <1>1, <1>5, <1>9 DEF focus_next_or_previous_view
<1> QED BY <1>10, <1>11, Became DEF Shuffled, Sound

LEMMA PlainStep ==
  ASSUME NEW pre, Plain, PlainInv(Desk, pre), pre.active = active, [Next]_fvars,
         Reordered => pre.kept = {}, "peek" \notin pre.kept
  PROVE  PlainInv(Desk', pre)
<1>1. CASE UNCHANGED fvars
  <2>1. Desk' = Desk
    BY <1>1 DEF fvars, Desk
  <2> QED BY <2>1
<1>2. FocusInv(Desk', pre)
  BY StepKeeps DEF PlainInv, Calm
<1>3. ASSUME NEW v \in Views, NEW o \in Outputs, NEW p \in Views \cup {None}, view_created(o, v, p)
      PROVE  PlainInv(Desk', pre)
  BY <1>3, PlainCreated
<1>4. ASSUME NEW v \in Views, view_destroyed(v) \/ key_cb_focus_view(v)
      PROVE  PlainInv(Desk', pre)
  BY <1>4, PlainDestroyed, PlainClicked
<1>5. ASSUME (\E v \in Views : start_interactive_action(v)) \/ key_cb_cycle_clients
      PROVE  PlainInv(Desk', pre)
  <2>1. pre.kept = {}
    BY <1>5 DEF Reordered
  <2> QED BY <1>2, <1>5, <2>1, PlainDragged, PlainCycled
<1>6. ASSUME NEW v \in Views \cup {None}, pointer_motion(v) PROVE PlainInv(Desk', pre)
  BY <1>6, PlainClicked
<1>7. ASSUME NEW i \in 0..(Spaces - 1), focus_space(i) \/ move_to_space(i) PROVE PlainInv(Desk', pre)
  BY <1>7, PlainSpace
<1>8. ASSUME NEW dir \in {"NEXT", "PREV"},
             focus_next_or_previous_space(dir) \/ focus_next_or_previous_view(dir)
      PROVE  PlainInv(Desk', pre)
  BY <1>8, PlainRotate, PlainViewRotated
<1>9. ASSUME NEW o \in Outputs, move_to_output(o) PROVE PlainInv(Desk', pre)
  BY <1>9, PlainMove
<1>10. ASSUME key_cb_focus_next_output PROVE PlainInv(Desk', pre)
  BY <1>10, PlainNextOutput
<1>11. ASSUME \/ stop_interactive_action
              \/ key_cb_toggle_fullscreen
              \/ \E v \in Views : view_state_request(v)
      PROVE  PlainInv(Desk', pre)
  <2>1. active \in Views \cup {None}
    BY DeskIs DEF PlainInv, Calm, FocusInv, DeskInv, Sound, Desks
  <2>2. stop_interactive_action \/ \E v \in Views \cup {None} : Becomes(toggled(v))
    BY <1>11, <2>1 DEF key_cb_toggle_fullscreen, view_state_request
  <2> QED BY <1>2, <2>2, PlainToggled
<1> QED BY <1>1, <1>3, <1>4, <1>5, <1>6, <1>7, <1>8, <1>9, <1>10, <1>11 DEF Next

PlainHolds == FocusHolds /\ (\A v \in Views : parent[v] = None) /\ (~FollowFocus => SeenInv(Desk))

\* The looks are kept if they are right, and nothing else is asked of them.
Looks == [kept |-> IF LitInv(Desk) THEN {"lit"} ELSE {}, active |-> active]

LEMMA PlainBefore ==
  ASSUME PlainHolds
  PROVE  /\ PlainInv(Desk, [kept |-> {}, active |-> active])
         /\ PlainInv(Desk, Looks)
<1>1. PICK pre : pre = [kept |-> {}, active |-> active]
  OBVIOUS
<1>2. FocusInv(Desk, pre) /\ pre.kept = {}
  BY <1>1, HoldsBefore DEF PlainHolds
<1>3. Calm(Desk, pre)
  BY <1>2, DeskIs DEF PlainHolds, Calm
<1>4. PlainInv(Desk, pre)
  BY <1>2, <1>3 DEF PlainHolds, PlainInv
<1>5. PICK lit : lit = Looks
  OBVIOUS
<1>6. lit.active = active /\ "peek" \notin lit.kept /\ "over" \notin lit.kept
      /\ ("lit" \in lit.kept => LitInv(Desk))
  BY <1>5 DEF Looks
<1>7. FocusInv(Desk, lit)
  BY <1>6, DeskIs DEF PlainHolds, FocusHolds, FocusInv, Due
<1>8. PlainInv(Desk, lit)
  BY <1>6, <1>7, DeskIs DEF PlainHolds, PlainInv, Calm
<1> QED BY <1>1, <1>4, <1>5, <1>8

LEMMA PlainInit == Init => PlainHolds
<1> SUFFICES ASSUME Init PROVE PlainHolds
  OBVIOUS
<1>1. FocusHolds
  BY InitHolds
<1>2. PICK d : d = Desk
  OBVIOUS
<1>3. /\ d.active = None /\ d.stack = [o \in Outputs |-> <<>>] /\ d.out \in Outputs
      /\ parent = [v \in Views |-> None]
  BY <1>1, <1>2, DeskIs DEF Init, FocusHolds, DeskInv, Sound, Desks
<1>4. Seen(d, d.out) = {}
  BY <1>3 DEF Seen, Range
<1>5. SeenInv(d)
  BY <1>3, <1>4 DEF SeenInv
<1> QED BY <1>1, <1>2, <1>3, <1>5 DEF PlainHolds

LEMMA PlainHolding ==
  ASSUME Plain
  PROVE  Spec => []PlainHolds
<1>1. PlainHolds /\ [Next]_fvars => PlainHolds'
  <2> SUFFICES ASSUME PlainHolds, [Next]_fvars PROVE PlainHolds'
    OBVIOUS
  <2>1. PICK pre : pre = [kept |-> {}, active |-> active]
    OBVIOUS
  <2>2. PlainInv(Desk, pre) /\ pre.kept = {} /\ pre.active = active
    BY <2>1, PlainBefore
  <2>3. PlainInv(Desk', pre)
    BY <2>2, PlainStep
  <2>4. Desk.parent' = parent'
    BY DEF Desk
  <2> QED BY <2>3, <2>4 DEF PlainHolds, FocusHolds, PlainInv, Calm, FocusInv
<1> QED BY <1>1, PlainInit, PTL DEF Spec

\* Plain windows, wherever they are moved, cycled, and whichever the user
\* drags: the keyboard is with one that is shown on the focused output, if
\* there is one.  focus_follows_mouse, with which the pointer takes the focus
\* away over the bare background (pointer_motion), is off.
THEOREM ShownKeepsFocus ==
  ASSUME Plain, ~FollowFocus
  PROVE  Spec => []ShownHasFocus
<1>1. PlainHolds => ShownHasFocus
  <2> SUFFICES ASSUME PlainHolds PROVE ShownHasFocus
    OBVIOUS
  <2>1. SeenInv(Desk) /\ Shown = Seen(Desk, Desk.out)
    BY DeskIs DEF PlainHolds, Shown, Seen
  <2> QED BY <2>1, DeskIs DEF SeenInv, ShownHasFocus
<1> QED BY <1>1, PlainHolding, PTL

\* On top of what an output shows is the one view that Topmost finds there.
LEMMA TopSeen ==
  ASSUME NEW d, Sound(d), NEW o \in Outputs, NEW t \in Range(d.stack[o])
  PROVE  OnTopOf(d, o, t) <=> t = Topmost(d.stack[o], {v \in Views : d.mask[v] = d.space[o]})
<1>1. PICK s, T, top : /\ s = d.stack[o] /\ T = {v \in Views : d.mask[v] = d.space[o]}
                       /\ top = Topmost(s, T)
  OBVIOUS
<1>2. s \in Seq(Views) /\ None \notin Range(s) /\ Seen(d, o) = Range(s) \cap T
  BY <1>1, Listing, FocusConstants DEF Seen
<1>3. \/ top = None /\ Seen(d, o) = {}
      \/ OnTopOf(d, o, top)
  <2>1. \/ top = None /\ Range(s) \cap T = {}
        \/ /\ top \in Range(s) /\ top \in T
           /\ \A x \in Range(s) \cap T : x = top \/ Above(s, top, x)
    BY <1>1, <1>2, TopmostIs
  <2> QED BY <1>1, <1>2, <2>1 DEF OnTopOf
<1>4. ASSUME OnTopOf(d, o, t) PROVE t = top
  <2>1. Seen(d, o) # {}
    BY <1>4 DEF OnTopOf
  <2> QED BY <1>3, <1>4, <2>1, OneOnTop
<1>5. ASSUME t = top PROVE OnTopOf(d, o, t)
  BY <1>1, <1>2, <1>3, <1>5
<1> QED BY <1>1, <1>4, <1>5

LEMMA LooksLit ==
  ASSUME NEW d, Sound(d)
  PROVE  LitInv(d) <=>
           /\ \A o \in Outputs :
                Lit(d, o) \subseteq {Topmost(d.stack[o], {v \in Views : d.mask[v] = d.space[o]})}
           /\ Lit(d, d.out) = {d.active} \ {None}
<1>1. ASSUME NEW o \in Outputs
      PROVE  Lit(d, o) \subseteq {Topmost(d.stack[o], {v \in Views : d.mask[v] = d.space[o]})}
               <=> \A w \in Lit(d, o) : OnTopOf(d, o, w)
  <2>1. PICK top : top = Topmost(d.stack[o], {v \in Views : d.mask[v] = d.space[o]})
    OBVIOUS
  <2>2. \A w \in Lit(d, o) : OnTopOf(d, o, w) <=> w = top
    BY <2>1, TopSeen DEF Lit
  <2> QED BY <2>1, <2>2
<1>2. Lit(d, d.out) = {d.active} \ {None} /\ d.active # None => d.active \in Lit(d, d.out)
  OBVIOUS
<1>3. d.out \in Outputs
  BY DEF Sound, Desks
<1> QED BY <1>1, <1>2, <1>3 DEF LitInv

\* Plain windows: the handlers, view_focus, set_active_view_on_output and
\* view_move_to_output together keep the activated look with the view that has
\* the focus, and on other outputs with none but the one on top there, as long
\* as the order of the views changes with the focus only.
THEOREM OneLooksActive ==
  ASSUME Plain
  PROVE  Spec => LooksKept
<1>1. PlainHolds /\ [Next]_fvars => [LooksActive => LooksActive' \/ Reordered]_fvars
  <2> SUFFICES ASSUME PlainHolds, [Next]_fvars, LooksActive, ~Reordered PROVE LooksActive'
    OBVIOUS
  <2>1. LitInv(Desk)
    BY LooksLit, DeskIs DEF PlainHolds, FocusHolds, DeskInv, LooksActive, Lit
  <2>2. PICK pre : pre = Looks
    OBVIOUS
  <2>3. PlainInv(Desk, pre) /\ pre.kept = {"lit"} /\ pre.active = active
    BY <2>1, <2>2, PlainBefore DEF Looks
  <2>4. PlainInv(Desk', pre)
    BY <2>3, PlainStep
  <2>5. LitInv(Desk') /\ Sound(Desk')
    BY <2>3, <2>4 DEF PlainInv, Calm, FocusInv, DeskInv
  <2>6. PICK e : e = Desk'
    OBVIOUS
  <2>7. /\ e.active = active' /\ e.stack = stack' /\ e.mask = mask' /\ e.space = space'
        /\ e.out = out' /\ e.activated = activated'
    BY <2>6 DEF Desk
  <2> QED BY <2>5, <2>6, <2>7, LooksLit DEF LooksActive, Lit
<1> QED BY <1>1, PlainHolding, PTL DEF Spec, LooksKept
=============================================================================
