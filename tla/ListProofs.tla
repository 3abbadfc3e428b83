----------------------------- MODULE ListProofs -----------------------------
(***************************************************************************)
(* What the operators on lists compute, for lists of any length: the loops *)
(* over an array that the models write as a fold of the community modules, *)
(* and the parts of a list of module Lists.  A module of proofs takes the  *)
(* lemmas with INSTANCE, for the operator that it folds.                   *)
(***************************************************************************)
EXTENDS Lists, SequencesExt, SequenceTheorems, FiniteSetTheorems, WellFoundedInduction, TLAPS

CONSTANT op(_, _)   \* the body of a loop

\* Induction over the numbers, said of a set: what holds of 0 and passes from
\* each number to the next holds of all.
LEMMA Induction ==
  ASSUME NEW S, 0 \in S, \A n \in Nat : n \in S => n + 1 \in S
  PROVE  \A n \in Nat : n \in S
<1> DEFINE T == Nat \ S
           R == {ss \in Nat \X Nat : ss[1] < ss[2]}
<1> SUFFICES ASSUME T # {} PROVE FALSE
  OBVIOUS
<1>1. IsWellFoundedOn(R, Nat)
  BY NatLessThanWellFounded DEF OpToRel
<1>2. PICK x \in T : \A y \in T : <<y, x>> \notin R
  <2> HIDE DEF R
  <2>1. T \subseteq Nat
    OBVIOUS
  <2> HIDE DEF T
  <2> QED BY <1>1, <2>1, WFMin
<1>3. x # 0 /\ x \in Nat
  OBVIOUS
<1>4. x - 1 \in Nat /\ x - 1 < x /\ (x - 1) + 1 = x
  BY <1>3
<1>5. x - 1 \in T
  BY <1>4
<1>6. <<x - 1, x>> \in R
  BY <1>4, <1>3
<1> QED
  BY <1>2, <1>5, <1>6

\* A set of positions has a greatest one.
LEMMA MaxOfSet ==
  ASSUME NEW k \in Nat, NEW t \in SUBSET (1..k), t # {}
  PROVE  Max(t) \in t /\ \A x \in t : x <= Max(t)
<1> DEFINE S == {n \in Nat : \A u \in SUBSET (1..n) :
                    u # {} => \E m \in u : \A x \in u : x <= m}
<1>1. 0 \in S
  <2>1. 1..0 = {}
    OBVIOUS
  <2> QED BY <2>1
<1>2. ASSUME NEW n \in Nat, n \in S PROVE n + 1 \in S
  <2> SUFFICES ASSUME NEW u \in SUBSET (1..(n + 1)), u # {}
               PROVE  \E m \in u : \A x \in u : x <= m
    OBVIOUS
  <2>1. CASE n + 1 \in u
    BY <2>1
  <2>2. CASE n + 1 \notin u
    <3>1. u \in SUBSET (1..n)
      BY <2>2
    <3> QED BY <3>1, <1>2
  <2> QED BY <2>1, <2>2
<1>3. k \in S
  <2> HIDE DEF S
  <2> QED BY <1>1, <1>2, Induction
<1>4. \E m \in t : \A x \in t : x <= m
  BY <1>3
<1>5. \E m \in t : \A x \in t : m >= x
  BY <1>4
<1>6. Max(t) \in t /\ \A x \in t : Max(t) >= x
  BY <1>5 DEF Max
<1> QED BY <1>6

\* What FoldLeft computes, one element after the other.
LEMMA FoldUnrolled ==
  ASSUME NEW base, NEW s, Len(s) \in Nat, DOMAIN s = 1..Len(s)
  PROVE  \E a : /\ a[0] = base
                /\ \A i \in 1..Len(s) : a[i] = op(a[i - 1], s[i])
                /\ FoldLeft(op, base, s) = a[Len(s)]
<1> DEFINE Good(g, D) == g = [t \in SUBSET D |-> IF t = {} THEN base
                                ELSE op(g[t \ {Max(t)}], s[Max(t)])]
           iter == CHOOSE g : Good(g, DOMAIN s)
           S == {k \in Nat : \E g : Good(g, 1..k)}
<1>1. FoldLeft(op, base, s) = iter[DOMAIN s]
  BY Zenon DEF FoldLeft, MapThenFoldSet
<1>2. 0 \in S
  <2> DEFINE g0 == [t \in SUBSET (1..0) |-> base]
  <2>1. Good(g0, 1..0)
    OBVIOUS
  <2> QED BY <2>1, Zenon
<1>3. ASSUME NEW n \in Nat, n \in S PROVE n + 1 \in S
  <2>1. PICK g : Good(g, 1..n)
    BY <1>3
  <2> DEFINE h == [t \in SUBSET (1..(n + 1)) |->
                      IF n + 1 \in t THEN op(g[t \ {n + 1}], s[n + 1]) ELSE g[t]]
  <2>2. ASSUME NEW t \in SUBSET (1..(n + 1))
        PROVE  h[t] = IF t = {} THEN base ELSE op(h[t \ {Max(t)}], s[Max(t)])
    <3>1. CASE n + 1 \in t
      <4>1. Max(t) = n + 1
        <5>1. n + 1 \in Nat /\ t # {}
          BY <3>1
        <5>2. Max(t) \in t /\ n + 1 <= Max(t)
          BY <5>1, <3>1, MaxOfSet
        <5>3. Max(t) \in 1..(n + 1)
          BY <5>2
        <5> QED BY <5>2, <5>3
      <4>2. t \ {n + 1} \in SUBSET (1..n)
        OBVIOUS
      <4>3. h[t \ {n + 1}] = g[t \ {n + 1}]
        BY <4>2
      <4>4. h[t] = op(g[t \ {n + 1}], s[n + 1])
        BY <3>1
      <4> QED BY <3>1, <4>1, <4>3, <4>4
    <3>2. CASE n + 1 \notin t /\ t # {}
      <4>1. t \in SUBSET (1..n)
        BY <3>2
      <4>2. Max(t) \in t
        BY <4>1, <3>2, MaxOfSet
      <4>3. t \ {Max(t)} \in SUBSET (1..(n + 1)) /\ n + 1 \notin t \ {Max(t)}
        BY <3>2
      <4>4. h[t \ {Max(t)}] = g[t \ {Max(t)}]
        BY <4>3
      <4>5. h[t] = g[t]
        BY <3>2
      <4>6. g[t] = op(g[t \ {Max(t)}], s[Max(t)])
        BY <2>1, <3>2, <4>1
      <4> QED BY <4>4, <4>5, <4>6, <3>2
    <3>3. CASE t = {}
      <4>1. h[t] = g[t] /\ g[t] = base
        BY <2>1, <3>3
      <4> QED BY <4>1, <3>3
    <3> QED BY <3>1, <3>2, <3>3
  <2>3. Good(h, 1..(n + 1))
    <3> HIDE DEF h
    <3>1. h = [t \in SUBSET (1..(n + 1)) |-> h[t]]
      BY DEF h
    <3> QED BY <3>1, <2>2
  <2> QED BY <2>3, n + 1 \in Nat
<1>4. Len(s) \in S
  <2> HIDE DEF S
  <2> QED BY <1>2, <1>3, Induction
<1>5. Good(iter, DOMAIN s)
  <2>1. \E g : Good(g, DOMAIN s)
    BY <1>4
  <2> QED BY <2>1
<1> DEFINE a == [i \in 0..Len(s) |-> iter[1..i]]
<1>6. a[0] = base
  <2>1. 1..0 = {} /\ 0 \in 0..Len(s) /\ {} \in SUBSET (DOMAIN s)
    OBVIOUS
  <2> HIDE DEF iter
  <2>2. iter[{}] = base
    BY <1>5, <2>1
  <2> QED BY <2>1, <2>2
<1>7. ASSUME NEW i \in 1..Len(s) PROVE a[i] = op(a[i - 1], s[i])
  <2>1. 1..i \in SUBSET (DOMAIN s) /\ i \in 1..i /\ 1..i # {}
    <3>1. i \in 1..i /\ 1..i \subseteq 1..Len(s)
      OBVIOUS
    <3> QED BY <3>1
  <2>2. Max(1..i) = i
    <3>1. i \in Nat /\ 1..i \in SUBSET (1..i)
      OBVIOUS
    <3>2. Max(1..i) \in 1..i /\ i <= Max(1..i)
      BY <2>1, <3>1, MaxOfSet
    <3> QED BY <3>2
  <2>3. (1..i) \ {i} = 1..(i - 1)
    OBVIOUS
  <2>4. iter[1..i] = op(iter[1..(i - 1)], s[i])
    <3> HIDE DEF iter
    <3> QED BY <1>5, <2>1, <2>2, <2>3
  <2> HIDE DEF iter
  <2> QED BY <2>4
<1>8. a[Len(s)] = iter[DOMAIN s]
  OBVIOUS
<1> HIDE DEF a, iter
<1> QED BY <1>1, <1>6, <1>7, <1>8

-----------------------------------------------------------------------------
(* Parts of a list *)

LEMMA PlacesFinite ==
  ASSUME NEW S, NEW s \in Seq(S), NEW T
  PROVE  /\ Len(s) \in Nat /\ DOMAIN s = 1..Len(s) /\ Places(s, T) \subseteq 1..Len(s)
         /\ IsFiniteSet(Places(s, T))
         /\ Cardinality(Places(s, T)) \in Nat /\ Cardinality(Places(s, T)) <= Len(s)
<1>1. Len(s) \in Nat /\ DOMAIN s = 1..Len(s)
  BY LenProperties
<1>2. IsFiniteSet(1..Len(s)) /\ Cardinality(1..Len(s)) = Len(s)
  <2>1. Cardinality(1..Len(s)) = IF 1 > Len(s) THEN 0 ELSE Len(s) - 1 + 1
    BY <1>1, FS_Interval
  <2>2. (IF 1 > Len(s) THEN 0 ELSE Len(s) - 1 + 1) = Len(s)
    BY <1>1
  <2> QED BY <1>1, <2>1, <2>2, FS_Interval
<1>3. Places(s, T) \in SUBSET (1..Len(s))
  BY <1>1 DEF Places
<1> QED BY <1>1, <1>2, <1>3, FS_Subset, FS_CardinalityType

\* The places of s with an element of T are numbered from the first to the
\* last.
LEMMA PlaceOrder ==
  ASSUME NEW S, NEW s \in Seq(S), NEW T
  PROVE  /\ \A j \in 1..Cardinality(Places(s, T)) :
              /\ Place(Places(s, T), j) \in Places(s, T)
              /\ \A i \in 1..Cardinality(Places(s, T)) :
                   i < j => Place(Places(s, T), i) < Place(Places(s, T), j)
         /\ \A i \in Places(s, T) :
              \E j \in 1..Cardinality(Places(s, T)) : Place(Places(s, T), j) = i
<1> DEFINE at == Places(s, T)
           n == Cardinality(at)
           upto(i) == {k \in at : k <= i}
           nth(j) == CHOOSE i \in at : Cardinality(upto(i)) = j
<1>1. IsFiniteSet(at) /\ n \in Nat /\ at \subseteq Nat
  BY PlacesFinite
<1> HIDE DEF at
<1>2. ASSUME NEW i \in at
      PROVE  IsFiniteSet(upto(i)) /\ Cardinality(upto(i)) \in 1..n
  <2>1. upto(i) \in SUBSET at /\ upto(i) # {}
    <3>1. i \in upto(i)
      BY <1>1
    <3> QED BY <3>1
  <2> HIDE DEF upto
  <2>2. IsFiniteSet(upto(i)) /\ Cardinality(upto(i)) <= n
    BY <1>1, <2>1, FS_Subset
  <2>3. Cardinality(upto(i)) \in Nat /\ Cardinality(upto(i)) # 0
    BY <2>1, <2>2, FS_CardinalityType, FS_EmptySet
  <2> QED BY <1>1, <2>2, <2>3
<1>3. ASSUME NEW i \in at, NEW j \in at, i < j
      PROVE  Cardinality(upto(i)) < Cardinality(upto(j))
  <2>1. upto(i) \in SUBSET upto(j) /\ j \in upto(j) /\ j \notin upto(i)
    <3>1. i \in Nat /\ j \in Nat /\ \A k \in at : k \in Nat
      BY <1>1
    <3>2. \A k \in at : k <= i => k <= j
      BY <1>3, <3>1
    <3>3. j <= j /\ ~(j <= i)
      BY <1>3, <3>1
    <3> QED BY <3>2, <3>3
  <2> HIDE DEF upto, n
  <2>2. IsFiniteSet(upto(j)) /\ Cardinality(upto(i)) \in Nat /\ Cardinality(upto(j)) \in Nat
    <3>1. Cardinality(upto(i)) \in 1..n /\ Cardinality(upto(j)) \in 1..n
      BY <1>2
    <3> QED BY <1>1, <1>2, <3>1
  <2>3. Cardinality(upto(i)) <= Cardinality(upto(j))
    BY <2>1, <2>2, FS_Subset
  <2>4. Cardinality(upto(i)) # Cardinality(upto(j))
    BY <2>1, <2>2, FS_Subset
  <2> QED BY <2>2, <2>3, <2>4
<1>4. ASSUME NEW i \in at, NEW j \in at, Cardinality(upto(i)) = Cardinality(upto(j))
      PROVE  i = j
  <2> HIDE DEF upto, n
  <2>1. Cardinality(upto(i)) \in Nat /\ Cardinality(upto(j)) \in Nat /\ i \in Nat /\ j \in Nat
    <3>1. Cardinality(upto(i)) \in 1..n /\ Cardinality(upto(j)) \in 1..n
      BY <1>2
    <3> QED BY <1>1, <3>1
  <2>2. ~(i < j) /\ ~(j < i)
    BY <1>3, <1>4, <2>1
  <2> QED BY <2>1, <2>2
<1>5. ASSUME NEW j \in 1..n PROVE nth(j) \in at /\ Cardinality(upto(nth(j))) = j
  <2> DEFINE f == [i \in at |-> Cardinality(upto(i))]
  <2>1. f \in [at -> 1..n]
    BY <1>2
  <2>2. f \in Injection(at, 1..n)
    BY <1>4, <2>1 DEF Injection, IsInjective
  <2>3. IsFiniteSet(1..n) /\ Cardinality(1..n) = n
    <3>1. Cardinality(1..n) = IF 1 > n THEN 0 ELSE n - 1 + 1
      <4> HIDE DEF n
      <4> QED BY <1>1, FS_Interval
    <3>2. (IF 1 > n THEN 0 ELSE n - 1 + 1) = n
      BY <1>1
    <3> QED BY <1>1, <3>1, <3>2, FS_Interval
  <2>4. f \in Surjection(at, 1..n)
    <3> HIDE DEF f
    <3> QED BY <1>1, <2>2, <2>3, FS_Injection
  <2>5. \E i \in at : Cardinality(upto(i)) = j
    BY <2>4 DEF Surjection
  <2> HIDE DEF upto
  <2> QED BY <2>5
<1>6. ASSUME NEW j \in 1..n, NEW i \in 1..n, i < j PROVE nth(i) < nth(j)
  <2>1. nth(i) \in at /\ nth(j) \in at /\ nth(i) \in Nat /\ nth(j) \in Nat
    BY <1>1, <1>5
  <2>2. Cardinality(upto(nth(i))) = i /\ Cardinality(upto(nth(j))) = j
    BY <1>5
  <2> HIDE DEF upto, nth
  <2>3. ~(nth(j) < nth(i)) /\ nth(i) # nth(j)
    BY <1>1, <1>3, <1>6, <2>1, <2>2
  <2> QED BY <2>1, <2>3
<1>7. ASSUME NEW i \in at PROVE \E j \in 1..n : nth(j) = i
  <2>1. PICK j \in 1..n : j = Cardinality(upto(i))
    BY <1>2
  <2>2. nth(j) \in at /\ Cardinality(upto(nth(j))) = Cardinality(upto(i))
    BY <1>5, <2>1
  <2> HIDE DEF upto, nth
  <2> QED BY <1>4, <2>1, <2>2
<1>8. \A j : Place(Places(s, T), j) = nth(j)
  BY DEF Place, at
<1> HIDE DEF nth
<1>9. /\ \A j \in 1..n : /\ nth(j) \in at
                         /\ \A i \in 1..n : i < j => nth(i) < nth(j)
      /\ \A i \in at : \E j \in 1..n : nth(j) = i
  BY <1>5, <1>6, <1>7
<1> QED BY <1>8, <1>9 DEF at, n

LEMMA OnlyContents ==
  ASSUME NEW S, NEW s \in Seq(S), NEW T
  PROVE  /\ Only(s, T) \in Seq(S) /\ Len(Only(s, T)) <= Len(s)
         /\ Len(Only(s, T)) = Cardinality(Places(s, T))
         /\ Range(Only(s, T)) = Range(s) \cap T
<1> DEFINE n == Cardinality(Places(s, T))
           w == Only(s, T)
<1>1. n \in Nat /\ DOMAIN s = 1..Len(s) /\ \A i \in 1..Len(s) : s[i] \in S
  BY PlacesFinite, ElementOfSeq
<1>2. \A j \in 1..n : Place(Places(s, T), j) \in 1..Len(s) /\ s[Place(Places(s, T), j)] \in T
  BY PlaceOrder, <1>1 DEF Places
<1>3. \A i \in 1..Len(s) : s[i] \in T => \E j \in 1..n : Place(Places(s, T), j) = i
  <2>1. \A i \in 1..Len(s) : s[i] \in T => i \in Places(s, T)
    BY <1>1 DEF Places
  <2> QED BY <2>1, PlaceOrder
<1>4. w = [j \in 1..n |-> s[Place(Places(s, T), j)]]
  BY DEF Only
<1> HIDE DEF n, w
<1>5. w \in [1..n -> S]
  BY <1>1, <1>2, <1>4
<1>6. w \in Seq(S) /\ DOMAIN w = 1..n /\ Len(w) = n
  <2>1. w \in Seq(S) /\ DOMAIN w = 1..n
    BY <1>1, <1>5, SeqDef
  <2> QED BY <1>1, <2>1, LenProperties
<1>7. Range(w) = Range(s) \cap T
  <2>1. ASSUME NEW j \in 1..n PROVE w[j] \in Range(s) \cap T
    BY <1>1, <1>2, <1>4 DEF Range
  <2>2. ASSUME NEW x \in Range(s) \cap T PROVE \E j \in 1..n : w[j] = x
    BY <1>1, <1>3, <1>4 DEF Range
  <2>3. Range(w) = {w[j] : j \in 1..n}
    BY <1>6 DEF Range
  <2> QED BY <2>1, <2>2, <2>3
<1> QED BY <1>6, <1>7, PlacesFinite DEF n, w

\* What stands before the first element that goes keeps its place.
LEMMA FirstPlaces ==
  ASSUME NEW S, NEW s \in Seq(S), NEW T, NEW k \in 0..Len(s), \A i \in 1..k : s[i] \in T
  PROVE  /\ k <= Cardinality(Places(s, T))
         /\ \A i \in 1..k : Place(Places(s, T), i) = i
<1> DEFINE n == Cardinality(Places(s, T))
           nth(j) == Place(Places(s, T), j)
           Fixed == {j \in Nat : j <= k => j <= n /\ \A i \in 1..j : nth(i) = i}
<1>1. n \in Nat /\ DOMAIN s = 1..Len(s) /\ Len(s) \in Nat /\ k \in Nat
  BY PlacesFinite
<1>2. \A j \in 1..n : /\ nth(j) \in 1..Len(s)
                      /\ \A i \in 1..n : i < j => nth(i) < nth(j)
  BY PlaceOrder, PlacesFinite
<1>3. \A i \in 1..k : \E j \in 1..n : nth(j) = i
  <2>1. \A i \in 1..k : i \in Places(s, T)
    BY <1>1 DEF Places
  <2> QED BY <2>1, PlaceOrder
<1> HIDE DEF n, nth
<1>4. 0 \in Fixed
  <2>1. 1..0 = {}
    OBVIOUS
  <2> QED BY <1>1, <2>1
<1>5. ASSUME NEW j \in Nat, j \in Fixed PROVE j + 1 \in Fixed
  <2>1. SUFFICES ASSUME j + 1 <= k PROVE j + 1 <= n /\ \A i \in 1..(j + 1) : nth(i) = i
    OBVIOUS
  <2>2. \A i \in 1..j : nth(i) = i
    BY <1>1, <1>5, <2>1
  <2>3. PICK m \in 1..n : nth(m) = j + 1
    BY <1>1, <1>3, <2>1
  <2>4. m > j
    BY <1>1, <2>2, <2>3
  <2>5. j + 1 \in 1..n
    BY <1>1, <2>4
  <2>6. nth(j + 1) = j + 1
    <3>1. CASE m = j + 1
      BY <2>3, <3>1
    <3>2. CASE m > j + 1
      <4>1. nth(j + 1) < j + 1 /\ nth(j + 1) \in 1..Len(s)
        BY <1>2, <2>3, <2>5, <3>2
      <4>2. PICK q \in 1..j : q = nth(j + 1)
        BY <1>1, <4>1
      <4>3. nth(q) = q /\ nth(q) < nth(j + 1)
        BY <1>1, <1>2, <2>2, <2>5
      <4> QED BY <4>2, <4>3
    <3> QED BY <1>1, <2>4, <3>1, <3>2
  <2>7. \A i \in 1..(j + 1) : i \in 1..j \/ i = j + 1
    OBVIOUS
  <2> QED BY <1>1, <2>2, <2>5, <2>6, <2>7
<1>6. k \in Fixed
  <2> HIDE DEF Fixed
  <2> QED BY <1>1, <1>4, <1>5, Induction
<1>7. k <= n /\ \A i \in 1..k : nth(i) = i
  BY <1>1, <1>6
<1> QED BY <1>7 DEF n, nth

LEMMA PrefixStays ==
  ASSUME NEW S, NEW s \in Seq(S), NEW T, NEW k \in 0..Len(s), \A i \in 1..k : s[i] \in T
  PROVE  /\ k <= Len(Only(s, T))
         /\ \A i \in 1..k : Only(s, T)[i] = s[i]
<1> DEFINE n == Cardinality(Places(s, T))
<1>1. n \in Nat /\ k <= n /\ k \in Nat /\ \A i \in 1..k : Place(Places(s, T), i) = i
  <2>1. n \in Nat /\ Len(s) \in Nat
    BY PlacesFinite
  <2>2. k <= n /\ \A i \in 1..k : Place(Places(s, T), i) = i
    BY FirstPlaces
  <2> QED BY <2>1, <2>2
<1>2. Only(s, T) = [j \in 1..n |-> s[Place(Places(s, T), j)]] /\ Len(Only(s, T)) = n
  BY OnlyContents DEF Only
<1> HIDE DEF n
<1>3. \A i \in 1..k : i \in 1..n
  BY <1>1
<1> QED BY <1>1, <1>2, <1>3

LEMMA AllStay ==
  ASSUME NEW S, NEW s \in Seq(S), NEW T, Range(s) \subseteq T
  PROVE  Only(s, T) = s
<1>1. Len(s) \in Nat /\ DOMAIN s = 1..Len(s) /\ Len(s) \in 0..Len(s)
  BY PlacesFinite
<1>2. \A i \in 1..Len(s) : s[i] \in T
  BY <1>1 DEF Range
<1>3. /\ Len(s) <= Len(Only(s, T)) /\ Len(Only(s, T)) <= Len(s)
      /\ \A i \in 1..Len(s) : Only(s, T)[i] = s[i]
  BY <1>1, <1>2, PrefixStays, OnlyContents
<1>4. Only(s, T) \in Seq(S) /\ Len(Only(s, T)) \in Nat
  BY OnlyContents, LenProperties
<1>5. Len(Only(s, T)) = Len(s)
  BY <1>1, <1>3, <1>4
<1> QED BY <1>3, <1>4, <1>5, SeqEqual

\* A part of a list without duplicates has none.
LEMMA OnlyDistinct ==
  ASSUME NEW S, NEW s \in Seq(S), NEW T, IsInjective(s)
  PROVE  IsInjective(Only(s, T))
<1> DEFINE n == Cardinality(Places(s, T))
           nth(j) == Place(Places(s, T), j)
<1>1. n \in Nat /\ DOMAIN s = 1..Len(s)
  BY PlacesFinite
<1>2. \A j \in 1..n : /\ nth(j) \in 1..Len(s)
                      /\ \A i \in 1..n : i < j => nth(i) < nth(j)
  BY PlaceOrder, PlacesFinite
<1>3. Only(s, T) = [j \in 1..n |-> s[nth(j)]]
  BY DEF Only
<1> HIDE DEF n, nth
<1>4. ASSUME NEW i \in 1..n, NEW j \in 1..n, nth(i) = nth(j) PROVE i = j
  BY <1>1, <1>2, <1>4
<1>5. ASSUME NEW i \in 1..n, NEW j \in 1..n, s[nth(i)] = s[nth(j)] PROVE i = j
  BY <1>1, <1>2, <1>4, <1>5 DEF IsInjective
<1> QED BY <1>3, <1>5 DEF IsInjective

-----------------------------------------------------------------------------
(* What is above what *)

\* A part of a list keeps its order.
LEMMA OnlyOrder ==
  ASSUME NEW S, NEW s \in Seq(S), NEW T, NEW x, NEW y
  PROVE  Above(Only(s, T), x, y) <=> x \in T /\ y \in T /\ Above(s, x, y)
<1> DEFINE n == Cardinality(Places(s, T))
           nth(j) == Place(Places(s, T), j)
           w == Only(s, T)
<1>1. n \in Nat /\ DOMAIN s = 1..Len(s) /\ Len(s) \in Nat
  BY PlacesFinite
<1>2. \A j \in 1..n : /\ nth(j) \in 1..Len(s) /\ s[nth(j)] \in T
                      /\ \A i \in 1..n : i < j => nth(i) < nth(j)
  <2>1. \A j \in 1..n : nth(j) \in Places(s, T) /\ \A i \in 1..n : i < j => nth(i) < nth(j)
    BY PlaceOrder
  <2>2. \A i \in Places(s, T) : i \in 1..Len(s) /\ s[i] \in T
    BY <1>1 DEF Places
  <2> QED BY <2>1, <2>2
<1>3. \A i \in 1..Len(s) : s[i] \in T => \E j \in 1..n : nth(j) = i
  <2>1. \A i \in 1..Len(s) : s[i] \in T => i \in Places(s, T)
    BY <1>1 DEF Places
  <2> QED BY <2>1, PlaceOrder
<1>4. DOMAIN w = 1..n /\ \A j \in 1..n : w[j] = s[nth(j)]
  BY DEF Only
<1> HIDE DEF n, nth, w
<1>5. ASSUME Above(w, x, y) PROVE x \in T /\ y \in T /\ Above(s, x, y)
  <2>1. PICK i \in 1..n, j \in 1..n : i > j /\ w[i] = x /\ w[j] = y
    BY <1>4, <1>5 DEF Above
  <2>2. nth(i) \in DOMAIN s /\ nth(j) \in DOMAIN s /\ nth(i) > nth(j)
    BY <1>1, <1>2, <2>1
  <2> QED BY <1>2, <1>4, <2>1, <2>2 DEF Above
<1>6. ASSUME x \in T, y \in T, Above(s, x, y) PROVE Above(w, x, y)
  <2>1. PICK i \in 1..Len(s), j \in 1..Len(s) : i > j /\ s[i] = x /\ s[j] = y
    BY <1>1, <1>6 DEF Above
  <2>2. PICK a \in 1..n, b \in 1..n : nth(a) = i /\ nth(b) = j
    BY <1>3, <1>6, <2>1
  <2>3. a > b
    <3>1. a < b => nth(a) < nth(b)
      BY <1>2
    <3>2. a # b
      BY <2>1, <2>2
    <3> QED BY <1>1, <2>1, <2>2, <3>1, <3>2
  <2> QED BY <1>4, <2>1, <2>2, <2>3 DEF Above
<1> QED BY <1>5, <1>6 DEF w

\* What stands twice nowhere is ordered.
LEMMA Ordered ==
  ASSUME NEW S, NEW s \in Seq(S), IsInjective(s), NEW x, NEW y
  PROVE  /\ Above(s, x, y) => x \in Range(s) /\ y \in Range(s) /\ x # y /\ ~Above(s, y, x)
         /\ x \in Range(s) /\ y \in Range(s) /\ x # y => Above(s, x, y) \/ Above(s, y, x)
<1>1. DOMAIN s = 1..Len(s) /\ Len(s) \in Nat
  BY LenProperties
<1>2. \A i, j \in 1..Len(s) : s[i] = s[j] => i = j
  BY <1>1 DEF IsInjective
<1>3. Range(s) = {s[i] : i \in 1..Len(s)}
  BY <1>1 DEF Range
<1>4. Above(s, x, y) => x \in Range(s) /\ y \in Range(s) /\ x # y /\ ~Above(s, y, x)
  BY <1>1, <1>2, <1>3 DEF Above
<1>5. ASSUME x \in Range(s), y \in Range(s), x # y PROVE Above(s, x, y) \/ Above(s, y, x)
  <2>1. PICK i \in 1..Len(s), j \in 1..Len(s) : s[i] = x /\ s[j] = y
    BY <1>3, <1>5
  <2>2. i > j \/ j > i
    BY <1>1, <1>5, <2>1
  <2> QED BY <1>1, <2>1, <2>2 DEF Above
<1> QED BY <1>4, <1>5

LEMMA AppendOrder ==
  ASSUME NEW S, NEW s \in Seq(S), NEW v \in S
  PROVE  /\ Append(s, v) \in Seq(S)
         /\ Range(Append(s, v)) = Range(s) \cup {v}
         /\ IsInjective(s) /\ v \notin Range(s) => IsInjective(Append(s, v))
         /\ \A x, y : Above(Append(s, v), x, y) <=> Above(s, x, y) \/ (x = v /\ y \in Range(s))
<1> DEFINE n == Len(s)
           w == Append(s, v)
<1>1. DOMAIN s = 1..n /\ n \in Nat
  BY LenProperties
<1>2. /\ w \in Seq(S) /\ DOMAIN w = 1..(n + 1)
      /\ \A i \in 1..n : w[i] = s[i]
      /\ w[n + 1] = v
  <2>1. /\ w \in Seq(S) /\ Len(w) = n + 1
        /\ \A i \in 1..n : w[i] = s[i]
        /\ w[n + 1] = v
    BY AppendProperties
  <2> HIDE DEF w
  <2> QED BY <2>1, LenProperties
<1> HIDE DEF w, n
<1>3. \A i : i \in 1..(n + 1) <=> i \in 1..n \/ i = n + 1
  BY <1>1
<1>4. Range(s) = {s[i] : i \in 1..n} /\ Range(w) = {w[i] : i \in 1..(n + 1)}
  BY <1>1, <1>2 DEF Range
<1>5. Range(w) = Range(s) \cup {v}
  BY <1>2, <1>3, <1>4
<1>6. ASSUME IsInjective(s), v \notin Range(s) PROVE IsInjective(w)
  <2>1. \A i, j \in 1..n : s[i] = s[j] => i = j
    BY <1>1, <1>6 DEF IsInjective
  <2>2. \A i \in 1..n : s[i] # v
    BY <1>4, <1>6
  <2>3. \A i, j \in 1..(n + 1) : w[i] = w[j] => i = j
    BY <1>2, <1>3, <2>1, <2>2
  <2> QED BY <1>2, <2>3 DEF IsInjective
<1>7. ASSUME NEW x, NEW y
      PROVE  Above(w, x, y) <=> Above(s, x, y) \/ (x = v /\ y \in Range(s))
  <2>1. ASSUME Above(w, x, y) PROVE Above(s, x, y) \/ (x = v /\ y \in Range(s))
    <3>1. PICK i \in 1..(n + 1), j \in 1..(n + 1) : i > j /\ w[i] = x /\ w[j] = y
      BY <1>2, <2>1 DEF Above
    <3>2. j \in 1..n
      BY <1>1, <3>1
    <3>3. CASE i = n + 1
      BY <1>2, <1>4, <3>1, <3>2, <3>3
    <3>4. CASE i \in 1..n
      BY <1>1, <1>2, <3>1, <3>2, <3>4 DEF Above
    <3> QED BY <1>3, <3>3, <3>4
  <2>2. ASSUME Above(s, x, y) PROVE Above(w, x, y)
    BY <1>1, <1>2, <1>3, <2>2 DEF Above
  <2>3. ASSUME x = v, y \in Range(s) PROVE Above(w, x, y)
    <3>1. PICK j \in 1..n : s[j] = y
      BY <1>4, <2>3
    <3>2. n + 1 \in 1..(n + 1) /\ j \in 1..(n + 1) /\ n + 1 > j
      BY <1>1
    <3> QED BY <1>2, <2>3, <3>1, <3>2 DEF Above
  <2> QED BY <2>1, <2>2, <2>3
<1> QED BY <1>2, <1>5, <1>6, <1>7 DEF w

LEMMA WithoutOrder ==
  ASSUME NEW S, NEW s \in Seq(S), NEW T
  PROVE  /\ Without(s, T) \in Seq(S) /\ Range(Without(s, T)) = Range(s) \ T
         /\ IsInjective(s) => IsInjective(Without(s, T))
         /\ \A x, y : Above(Without(s, T), x, y) <=> x \notin T /\ y \notin T /\ Above(s, x, y)
<1>1. Range(s) \cap (Range(s) \ T) = Range(s) \ T
  OBVIOUS
<1>2. \A x, y : Above(s, x, y) => x \in Range(s) /\ y \in Range(s)
  BY DEF Above, Range
<1>3. \A x, y : Above(Without(s, T), x, y) <=>
                  x \in Range(s) \ T /\ y \in Range(s) \ T /\ Above(s, x, y)
  BY OnlyOrder DEF Without
<1> QED BY <1>1, <1>2, <1>3, OnlyContents, OnlyDistinct DEF Without

\* An element that is moved to the top.
LEMMA ToTop ==
  ASSUME NEW S, NEW s \in Seq(S), IsInjective(s), NEW v \in Range(s)
  PROVE  LET t == Append(Without(s, {v}), v) IN
         /\ t \in Seq(S) /\ Range(t) = Range(s) /\ IsInjective(t)
         /\ \A x, y : Above(t, x, y) <=>
              y # v /\ ((x = v /\ y \in Range(s)) \/ (x # v /\ Above(s, x, y)))
<1> DEFINE w == Without(s, {v})
<1>1. v \in S
  BY ElementOfSeq, LenProperties DEF Range
<1>2. /\ w \in Seq(S) /\ Range(w) = Range(s) \ {v} /\ IsInjective(w)
      /\ \A x, y : Above(w, x, y) <=> x # v /\ y # v /\ Above(s, x, y)
  BY WithoutOrder
<1> HIDE DEF w
<1>3. /\ Append(w, v) \in Seq(S) /\ Range(Append(w, v)) = Range(w) \cup {v}
      /\ IsInjective(Append(w, v))
      /\ \A x, y : Above(Append(w, v), x, y) <=> Above(w, x, y) \/ (x = v /\ y \in Range(w))
  BY <1>1, <1>2, AppendOrder
<1>4. Range(Append(w, v)) = Range(s)
  BY <1>2, <1>3
<1>5. ASSUME NEW x, NEW y
      PROVE  Above(Append(w, v), x, y) <=>
               y # v /\ ((x = v /\ y \in Range(s)) \/ (x # v /\ Above(s, x, y)))
  BY <1>2, <1>3
<1> QED BY <1>3, <1>4, <1>5 DEF w

\* The topmost element of T.
LEMMA LastPlace ==
  ASSUME NEW S, NEW s \in Seq(S), NEW T, Places(s, T) # {}
  PROVE  LET t == s[Max(Places(s, T))] IN
         /\ t \in Range(s) /\ t \in T
         /\ \A x \in Range(s) \cap T : x = t \/ Above(s, t, x)
<1> DEFINE k == Max(Places(s, T))
<1>1. /\ Len(s) \in Nat /\ DOMAIN s = 1..Len(s) /\ Places(s, T) \in SUBSET (1..Len(s))
  BY PlacesFinite
<1>2. k \in Places(s, T) /\ \A i \in Places(s, T) : i <= k
  BY <1>1, MaxOfSet
<1> HIDE DEF k
<1>3. k \in 1..Len(s) /\ s[k] \in T
  BY <1>1, <1>2 DEF Places
<1>4. ASSUME NEW x \in Range(s) \cap T PROVE x = s[k] \/ Above(s, s[k], x)
  <2>1. PICK i \in 1..Len(s) : s[i] = x
    BY <1>1 DEF Range
  <2>2. i \in Places(s, T)
    BY <1>1, <2>1 DEF Places
  <2>3. i = k \/ k > i
    BY <1>1, <1>2, <1>3, <2>2
  <2> QED BY <1>1, <1>3, <2>1, <2>3 DEF Above
<1>5. s[k] \in Range(s)
  BY <1>1, <1>3 DEF Range
<1> QED BY <1>3, <1>4, <1>5 DEF k
=============================================================================
