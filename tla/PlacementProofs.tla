--------------------------- MODULE PlacementProofs ---------------------------
(***************************************************************************)
(* The tilings, for regions of every size and any number of views, and the *)
(* invariants of Layout and Placement.                                     *)
(***************************************************************************)
EXTENDS Placement, SequenceTheorems, FiniteSetTheorems, TLAPS

Lists == INSTANCE ListProofs WITH op <- swap

-----------------------------------------------------------------------------
(* Arithmetic *)

LEMMA Division ==
  ASSUME NEW a \in Nat, NEW b \in Nat, b > 0
  PROVE  a \div b \in Nat /\ b * (a \div b) <= a /\ a < b * (a \div b) + b
  OBVIOUS

LEMMA Product ==
  ASSUME NEW a \in Nat, NEW b \in Nat
  PROVE  a * b \in Nat
  OBVIOUS

LEMMA ProductGrows ==
  ASSUME NEW a \in Nat, NEW b \in Nat, NEW c \in Nat, a <= b
  PROVE  a * c <= b * c /\ c * a <= c * b
  OBVIOUS

LEMMA ProductOfNext ==
  ASSUME NEW a \in Int, NEW c \in Int
  PROVE  (a + 1) * c = a * c + c
  OBVIOUS

LEMMA MaxOfTwo ==
  ASSUME NEW a \in Int, NEW b \in Int
  PROVE  Max({a, b}) = IF a >= b THEN a ELSE b
  BY DEF Max

LEMMA MinOfTwo ==
  ASSUME NEW a \in Int, NEW b \in Int
  PROVE  Min({a, b}) = IF a <= b THEN a ELSE b
  BY DEF Min

\* Marks that do not fall cut the numbers from the first to the last into
\* intervals.
LEMMA Marks ==
  ASSUME NEW m \in Nat, NEW mark \in [0..m -> Int],
         \A k \in 1..m : mark[k - 1] <= mark[k]
  PROVE  /\ \A i \in 0..m, j \in 0..m : i <= j => mark[i] <= mark[j]
         /\ \A p \in Int : mark[0] <= p /\ p < mark[m]
               => \E k \in 1..m : mark[k - 1] <= p /\ p < mark[k]
<1> DEFINE Rise == {d \in Nat : \A i \in 0..m : i + d <= m => mark[i] <= mark[i + d]}
           Cut == {k \in Nat : k <= m => \A p \in Int : mark[0] <= p /\ p < mark[k]
                                => \E j \in 1..k : mark[j - 1] <= p /\ p < mark[j]}
<1>1. 0 \in Rise
  OBVIOUS
<1>2. ASSUME NEW d \in Nat, d \in Rise PROVE d + 1 \in Rise
  <2> SUFFICES ASSUME NEW i \in 0..m, i + (d + 1) <= m PROVE mark[i] <= mark[i + (d + 1)]
    OBVIOUS
  <2>1. i + d \in 0..m /\ i + (d + 1) \in 1..m /\ (i + (d + 1)) - 1 = i + d
    OBVIOUS
  <2>2. mark[i] <= mark[i + d] /\ mark[i + d] <= mark[i + (d + 1)]
    BY <1>2, <2>1
  <2>3. mark[i] \in Int /\ mark[i + d] \in Int /\ mark[i + (d + 1)] \in Int
    BY <2>1
  <2> QED BY <2>2, <2>3
<1>3. \A d \in Nat : d \in Rise
  <2> HIDE DEF Rise
  <2> QED BY <1>1, <1>2, Lists!Induction
<1>4. ASSUME NEW i \in 0..m, NEW j \in 0..m, i <= j PROVE mark[i] <= mark[j]
  <2>1. j - i \in Nat /\ i + (j - i) = j
    BY <1>4
  <2>2. j - i \in Rise
    BY <1>3, <2>1
  <2> QED BY <2>1, <2>2
<1>5. 0 \in Cut
  OBVIOUS
<1>6. ASSUME NEW k \in Nat, k \in Cut PROVE k + 1 \in Cut
  <2> SUFFICES ASSUME k + 1 <= m, NEW p \in Int, mark[0] <= p, p < mark[k + 1]
               PROVE  \E j \in 1..(k + 1) : mark[j - 1] <= p /\ p < mark[j]
    OBVIOUS
  <2>1. k \in 0..m /\ k + 1 \in 0..m /\ mark[k] \in Int /\ mark[k + 1] \in Int
    OBVIOUS
  <2>2. CASE p < mark[k]
    <3>1. PICK j \in 1..k : mark[j - 1] <= p /\ p < mark[j]
      BY <1>6, <2>2
    <3> QED BY <3>1
  <2>3. CASE mark[k] <= p
    <3>1. k + 1 \in 1..(k + 1) /\ (k + 1) - 1 = k
      OBVIOUS
    <3> QED BY <2>3, <3>1
  <2> QED BY <2>1, <2>2, <2>3
<1>7. m \in Cut
  <2> HIDE DEF Cut
  <2> QED BY <1>5, <1>6, Lists!Induction
<1> QED BY <1>4, <1>7

-----------------------------------------------------------------------------
(* The tilings of core-layouts *)

\* The pixels of g are those from left and top to before right and bottom.
Spans(g, left, right, top, bottom) ==
    /\ \A q \in Pixels(g) :
          /\ q[1] \in Int /\ q[2] \in Int /\ q = <<q[1], q[2]>>
          /\ left <= q[1] /\ q[1] < right /\ top <= q[2] /\ q[2] < bottom
    /\ \A a \in Int, b \in Int :
          left <= a /\ a < right /\ top <= b /\ b < bottom => <<a, b>> \in Pixels(g)

LEMMA PixelsOf ==
  ASSUME NEW x \in Int, NEW y \in Int, NEW w \in Int, NEW h \in Int
  PROVE  Spans(Geometry(x, y, w, h), x, x + w, y, y + h)
<1>1. /\ Geometry(x, y, w, h).origin[1] = x /\ Geometry(x, y, w, h).origin[2] = y
      /\ Geometry(x, y, w, h).size[1] = w /\ Geometry(x, y, w, h).size[2] = h
  BY DEF Geometry
<1>2. Pixels(Geometry(x, y, w, h)) = (x .. x + w - 1) \X (y .. y + h - 1)
  BY <1>1 DEF Pixels
<1>3. \A a : a \in x .. x + w - 1 <=> a \in Int /\ x <= a /\ a < x + w
  OBVIOUS
<1>4. \A b : b \in y .. y + h - 1 <=> b \in Int /\ y <= b /\ b < y + h
  OBVIOUS
<1> QED BY <1>2, <1>3, <1>4 DEF Spans

\* A region that an output has to offer.
Regions == {Geometry(x, y, w, h) : x \in Int, y \in Int, w \in Nat, h \in Nat}

\* The heights of nmaster: where the rows of the stack begin, and where the
\* last one ends.
LEMMA NMasterRows ==
  ASSUME NEW y \in Int, NEW h \in Nat, NEW n \in Nat, n >= 2,
         NEW height \in Nat, (n - 1) * height <= h,
         NEW fheight, fheight = h - height * (n - 2),
         NEW mark, mark = [k \in 0..(n - 1) |->
                             IF k = 0 THEN y ELSE y + fheight + (k - 1) * height]
  PROVE  /\ fheight \in Nat
         /\ mark \in [0..(n - 1) -> Int] /\ mark[0] = y /\ mark[n - 1] = y + h
         /\ mark[1] = y + fheight
         /\ \A k \in 2..(n - 1) : /\ mark[k - 1] = y + fheight + (k - 2) * height
                                  /\ mark[k] = mark[k - 1] + height
         /\ \A k \in 1..(n - 1) : mark[k - 1] <= mark[k]
<1>1. n - 1 \in Nat /\ n - 2 \in Nat /\ (n - 2) + 1 = n - 1
  OBVIOUS
<1>2. (n - 1) * height = (n - 2) * height + height
  BY <1>1, ProductOfNext
<1>3. (n - 2) * height \in Nat /\ height * (n - 2) = (n - 2) * height
  BY <1>1, Product
<1>4. fheight \in Nat /\ fheight + (n - 2) * height = h
  BY <1>1, <1>2, <1>3
<1>5. \A k \in 1..(n - 1) : (k - 1) * height \in Nat
  BY Product
<1>6. mark \in [0..(n - 1) -> Int] /\ mark[0] = y /\ mark[1] = y + fheight
  BY <1>1, <1>4, <1>5
<1>7. mark[n - 1] = y + h
  <2>1. n - 1 \in 0..(n - 1) /\ n - 1 # 0 /\ (n - 1) - 1 = n - 2
    OBVIOUS
  <2>2. mark[n - 1] = y + fheight + (n - 2) * height
    BY <2>1
  <2> QED BY <1>3, <1>4, <2>2
<1>8. ASSUME NEW k \in 2..(n - 1)
      PROVE  /\ mark[k - 1] = y + fheight + (k - 2) * height
             /\ mark[k] = mark[k - 1] + height
  <2>1. k \in 0..(n - 1) /\ k - 1 \in 0..(n - 1) /\ k # 0 /\ k - 1 # 0 /\ (k - 1) - 1 = k - 2
    OBVIOUS
  <2>2. k - 2 \in Nat /\ (k - 2) + 1 = k - 1
    OBVIOUS
  <2>3. (k - 1) * height = (k - 2) * height + height /\ (k - 2) * height \in Nat
    BY <2>2, Product, ProductOfNext
  <2>4. mark[k - 1] = y + fheight + (k - 2) * height
    BY <2>1
  <2>5. mark[k] = y + fheight + (k - 1) * height
    BY <2>1
  <2> QED BY <1>4, <2>3, <2>4, <2>5
<1>9. ASSUME NEW k \in 1..(n - 1) PROVE mark[k - 1] <= mark[k]
  <2>1. CASE k = 1
    BY <1>4, <1>6, <2>1
  <2>2. CASE k \in 2..(n - 1)
    <3>1. mark[k - 1] \in Int
      BY <1>6
    <3> QED BY <1>8, <2>2, <3>1
  <2> QED BY <2>1, <2>2
<1> QED BY <1>4, <1>6, <1>7, <1>8, <1>9

\* The master and, beside it, rows between marks.
MasterAndRows(tiles, x, y, w, h, n) ==
    \E slave \in 0..w, mark \in [0..(n - 1) -> Int] :
        /\ mark[0] = y /\ mark[n - 1] = y + h
        /\ \A k \in 1..(n - 1) : mark[k - 1] <= mark[k]
        /\ DOMAIN tiles = 1..n
        /\ tiles[1] = Geometry(x, y, w - slave, h)
        /\ \A k \in 1..(n - 1) :
             tiles[k + 1] = Geometry(x + w - slave, mark[k - 1], slave, mark[k] - mark[k - 1])

LEMMA NMasterTiles ==
  ASSUME NEW x \in Int, NEW y \in Int, NEW w \in Nat, NEW h \in Nat,
         NEW n \in Nat, n >= 2, NEW c \in 0..100
  PROVE  MasterAndRows(nmaster(Geometry(x, y, w, h), n, c), x, y, w, h, n)
<1> DEFINE slave == (w * c) \div 100
           height == h \div Max({n - 1, 1})
           fheight == h - height * (n - 2)
           mark == [k \in 0..(n - 1) |->
                      IF k = 0 THEN y ELSE y + fheight + (k - 1) * height]
           tiles == nmaster(Geometry(x, y, w, h), n, c)
<1>1. /\ Geometry(x, y, w, h).origin[1] = x /\ Geometry(x, y, w, h).origin[2] = y
      /\ Geometry(x, y, w, h).size[1] = w /\ Geometry(x, y, w, h).size[2] = h
  BY DEF Geometry
<1>2. tiles = [i \in 1..n |->
            IF n = 1 THEN Geometry(x, y, w, h)
            ELSE IF i = 1 THEN Geometry(x, y, w - slave, h)
            ELSE IF i = 2 THEN Geometry(x + w - slave, y, slave, fheight)
            ELSE Geometry(x + w - slave, y + fheight + (i - 3) * height, slave, height)]
  BY <1>1 DEF nmaster
<1>3. slave \in 0..w
  <2>1. w * c \in Nat /\ w * c <= w * 100
    BY Product, ProductGrows
  <2>2. (w * c) \div 100 \in Nat /\ 100 * ((w * c) \div 100) <= w * c
    BY <2>1, Division
  <2> QED BY <2>1, <2>2
<1>4. height \in Nat /\ (n - 1) * height <= h
  <2>1. Max({n - 1, 1}) = n - 1
    BY MaxOfTwo
  <2> QED BY <2>1, Division
<1>5. fheight = h - height * (n - 2) /\ mark = [k \in 0..(n - 1) |->
                      IF k = 0 THEN y ELSE y + fheight + (k - 1) * height]
  OBVIOUS
<1> HIDE DEF slave, height, fheight, mark, tiles
<1>6. /\ fheight \in Nat
      /\ mark \in [0..(n - 1) -> Int] /\ mark[0] = y /\ mark[n - 1] = y + h
      /\ mark[1] = y + fheight
      /\ \A k \in 2..(n - 1) : /\ mark[k - 1] = y + fheight + (k - 2) * height
                               /\ mark[k] = mark[k - 1] + height
      /\ \A k \in 1..(n - 1) : mark[k - 1] <= mark[k]
  BY <1>4, <1>5, NMasterRows
<1>7. DOMAIN tiles = 1..n /\ tiles[1] = Geometry(x, y, w - slave, h)
  BY <1>2
<1>8. ASSUME NEW k \in 1..(n - 1)
      PROVE  tiles[k + 1] = Geometry(x + w - slave, mark[k - 1], slave, mark[k] - mark[k - 1])
  <2>1. CASE k = 1
    <3>1. tiles[2] = Geometry(x + w - slave, y, slave, fheight)
      BY <1>2
    <3>2. mark[1] - mark[0] = fheight
      BY <1>6
    <3> QED BY <1>6, <2>1, <3>1, <3>2
  <2>2. CASE k # 1
    <3>1. k \in 2..(n - 1) /\ k + 1 \in 1..n /\ k + 1 # 1 /\ k + 1 # 2 /\ (k + 1) - 3 = k - 2
      BY <2>2
    <3>2. tiles[k + 1] = Geometry(x + w - slave, y + fheight + (k - 2) * height, slave, height)
      BY <1>2, <3>1
    <3>3. mark[k] = mark[k - 1] + height /\ mark[k - 1] \in Int /\ mark[k] \in Int
      <4>1. k - 1 \in 0..(n - 1) /\ k \in 0..(n - 1)
        OBVIOUS
      <4> QED BY <1>6, <3>1, <4>1
    <3>4. mark[k] - mark[k - 1] = height
      BY <1>4, <3>3
    <3> QED BY <1>6, <3>1, <3>2, <3>4
  <2> QED BY <2>1, <2>2
<1>9. MasterAndRows(tiles, x, y, w, h, n)
  BY <1>3, <1>6, <1>7, <1>8 DEF MasterAndRows
<1> QED BY <1>9 DEF tiles

\* nmaster fills the region without overlap, for any number of views.
LEMMA NMasterPartition ==
  ASSUME NEW r \in Regions, NEW n \in Nat, n >= 1, NEW c \in 0..100
  PROVE  Partition(nmaster(r, n, c), r)
<1> PICK x \in Int, y \in Int, w \in Nat, h \in Nat : r = Geometry(x, y, w, h)
  BY DEF Regions
<1> DEFINE tiles == nmaster(Geometry(x, y, w, h), n, c)
<1>1. CASE n = 1
  <2>1. DOMAIN tiles = {1} /\ tiles[1] = r
    BY <1>1 DEF nmaster
  <2> HIDE DEF tiles
  <2>2. Partition(tiles, r)
    BY <2>1 DEF Partition, Inside, Apart, Covered
  <2> QED BY <2>2 DEF tiles
<1>2. CASE n >= 2
  <2> MasterAndRows(tiles, x, y, w, h, n)
    BY <1>2, NMasterTiles
  <2> HIDE DEF tiles
  <2>1. PICK slave \in 0..w, mark \in [0..(n - 1) -> Int] :
           /\ mark[0] = y /\ mark[n - 1] = y + h
           /\ \A k \in 1..(n - 1) : mark[k - 1] <= mark[k]
           /\ DOMAIN tiles = 1..n
           /\ tiles[1] = Geometry(x, y, w - slave, h)
           /\ \A k \in 1..(n - 1) : tiles[k + 1]
                = Geometry(x + w - slave, mark[k - 1], slave, mark[k] - mark[k - 1])
    BY DEF MasterAndRows
  <2>2. n - 1 \in Nat
    BY <1>2
  <2>3. /\ \A i \in 0..(n - 1), j \in 0..(n - 1) : i <= j => mark[i] <= mark[j]
        /\ \A p \in Int : mark[0] <= p /\ p < mark[n - 1]
             => \E k \in 1..(n - 1) : mark[k - 1] <= p /\ p < mark[k]
    BY <2>1, <2>2, Marks
  <2>4. \A i \in 1..n : i = 1 \/ (i - 1 \in 1..(n - 1) /\ (i - 1) + 1 = i)
    BY <1>2
  <2>5. Spans(r, x, x + w, y, y + h)
    BY PixelsOf
  <2>6. Spans(tiles[1], x, x + w - slave, y, y + h)
    <3>1. w - slave \in Int /\ x + (w - slave) = x + w - slave
      OBVIOUS
    <3>2. Spans(Geometry(x, y, w - slave, h), x, x + (w - slave), y, y + h)
      BY <3>1, PixelsOf
    <3> QED BY <2>1, <3>1, <3>2
  <2>7. ASSUME NEW k \in 1..(n - 1)
        PROVE  Spans(tiles[k + 1], x + w - slave, x + w, mark[k - 1], mark[k])
    <3>1. k - 1 \in 0..(n - 1) /\ k \in 0..(n - 1)
      OBVIOUS
    <3>2. mark[k - 1] \in Int /\ mark[k] \in Int
      BY <3>1
    <3>3. PICK left \in Int, top \in Int, high \in Int :
            left = x + w - slave /\ top = mark[k - 1] /\ high = mark[k] - mark[k - 1]
      BY <3>2
    <3>4. Spans(Geometry(left, top, slave, high), left, left + slave, top, top + high)
      <4> slave \in Int
        OBVIOUS
      <4> QED BY PixelsOf
    <3>5. top + high = mark[k] /\ left + slave = x + w
      BY <3>2, <3>3
    <3>6. tiles[k + 1] = Geometry(left, top, slave, high)
      BY <2>1, <3>3
    <3> QED BY <3>3, <3>4, <3>5, <3>6
  <2>8. ASSUME NEW k \in 1..(n - 1) PROVE y <= mark[k - 1] /\ mark[k] <= y + h
    <3>1. k - 1 \in 0..(n - 1) /\ k \in 0..(n - 1) /\ 0 \in 0..(n - 1) /\ n - 1 \in 0..(n - 1)
      BY <2>2
    <3> QED BY <2>1, <2>3, <3>1
  <2>9. Inside(tiles, r)
    <3> SUFFICES ASSUME NEW i \in 1..n, NEW q \in Pixels(tiles[i]) PROVE q \in Pixels(r)
      BY <2>1 DEF Inside
    <3>1. CASE i = 1
      BY <2>5, <2>6, <3>1 DEF Spans
    <3>2. CASE i # 1
      <4>1. PICK k \in 1..(n - 1) : i = k + 1
        BY <2>4, <3>2
      <4>2. k - 1 \in 0..(n - 1) /\ k \in 0..(n - 1)
        OBVIOUS
      <4>3. mark[k - 1] \in Int /\ mark[k] \in Int /\ y <= mark[k - 1] /\ mark[k] <= y + h
        BY <2>8, <4>2
      <4>4. /\ q[1] \in Int /\ q[2] \in Int /\ x + w - slave <= q[1] /\ q[1] < x + w
            /\ mark[k - 1] <= q[2] /\ q[2] < mark[k] /\ q = <<q[1], q[2]>>
        BY <2>7, <4>1 DEF Spans
      <4>5. y <= q[2] /\ q[2] < y + h
        <5>1. \A a \in Int, m \in Int, e \in Int : a <= m /\ m <= e => a <= e
          OBVIOUS
        <5>2. \A a \in Int, m \in Int, e \in Int : a < m /\ m <= e => a < e
          OBVIOUS
        <5>3. y + h \in Int
          OBVIOUS
        <5> QED BY <4>3, <4>4, <5>1, <5>2, <5>3
      <4>6. x <= q[1]
        BY <4>4
      <4> QED BY <2>5, <4>4, <4>5, <4>6 DEF Spans
    <3> QED BY <3>1, <3>2
  <2>10. Apart(tiles)
    <3> SUFFICES ASSUME NEW i \in 1..n, NEW j \in 1..n, i < j, NEW q,
                        q \in Pixels(tiles[i]), q \in Pixels(tiles[j])
                 PROVE  FALSE
      <4>1. \A i \in 1..n, j \in 1..n : i # j => i < j \/ j < i
        OBVIOUS
      <4> QED BY <2>1, <4>1 DEF Apart
    <3>1. PICK l \in 1..(n - 1) : j = l + 1
      BY <2>4
    <3>2. q[1] \in Int /\ q[2] \in Int /\ x + w - slave <= q[1] /\ mark[l - 1] <= q[2]
      BY <2>7, <3>1 DEF Spans
    <3>3. CASE i = 1
      <4>1. q[1] < x + w - slave
        BY <2>6, <3>3 DEF Spans
      <4> QED BY <3>2, <4>1
    <3>4. CASE i # 1
      <4>1. PICK k \in 1..(n - 1) : i = k + 1
        BY <2>4, <3>4
      <4>2. q[2] < mark[k]
        BY <2>7, <4>1 DEF Spans
      <4>3. k \in 0..(n - 1) /\ l - 1 \in 0..(n - 1) /\ k <= l - 1
        BY <3>1, <4>1
      <4>4. mark[k] <= mark[l - 1] /\ mark[k] \in Int /\ mark[l - 1] \in Int
        BY <2>3, <4>3
      <4> QED BY <3>2, <4>2, <4>4
    <3> QED BY <3>3, <3>4
  <2>11. Covered(tiles, r)
    <3> SUFFICES ASSUME NEW q \in Pixels(r) PROVE \E i \in 1..n : q \in Pixels(tiles[i])
      BY <2>1 DEF Covered
    <3>1. /\ q[1] \in Int /\ q[2] \in Int /\ x <= q[1] /\ q[1] < x + w /\ y <= q[2]
          /\ q[2] < y + h /\ q = <<q[1], q[2]>>
      BY <2>5 DEF Spans
    <3>2. CASE q[1] < x + w - slave
      <4>1. <<q[1], q[2]>> \in Pixels(tiles[1]) /\ 1 \in 1..n
        BY <2>6, <3>1, <3>2 DEF Spans
      <4> QED BY <3>1, <4>1
    <3>3. CASE x + w - slave <= q[1]
      <4>1. PICK k \in 1..(n - 1) : mark[k - 1] <= q[2] /\ q[2] < mark[k]
        BY <2>1, <2>3, <3>1
      <4>2. <<q[1], q[2]>> \in Pixels(tiles[k + 1])
        BY <2>7, <3>1, <3>3, <4>1 DEF Spans
      <4>3. k + 1 \in 1..n
        BY <2>2
      <4> QED BY <3>1, <4>2, <4>3
    <3> QED BY <3>1, <3>2, <3>3
  <2> QED BY <2>9, <2>10, <2>11 DEF Partition, tiles
<1>3. n = 1 \/ n >= 2
  OBVIOUS
<1> QED BY <1>1, <1>2, <1>3

\* The row of view i in the grid, and the column: 0 or 1.
LEMMA GridRows ==
  ASSUME NEW n \in Nat, NEW i \in 1..n
  PROVE  /\ (i - 1) \div 2 \in Nat /\ (i - 1) \div 2 + 1 <= (1 + n) \div 2
         /\ \A j \in 1..n : i < j =>
              \/ (i - 1) \div 2 + 1 <= (j - 1) \div 2
              \/ (i - 1) \div 2 = (j - 1) \div 2 /\ i % 2 = 1 /\ j % 2 = 0
  OBVIOUS

\* Two columns of rows of one height.
TwoColumns(tiles, x, y, w, h, n) ==
    \E half \in Nat, height \in Nat :
        /\ half + half <= w
        /\ DOMAIN tiles = 1..n
        /\ \A i \in 1..n :
             /\ y + ((i - 1) \div 2) * height + height <= y + h
             /\ tiles[i] = Geometry(IF i % 2 = 0 THEN x + half ELSE x,
                                    y + ((i - 1) \div 2) * height,
                                    IF i % 2 = 1 /\ i = n THEN w ELSE half, height)

LEMMA GridTiles ==
  ASSUME NEW x \in Int, NEW y \in Int, NEW w \in Nat, NEW h \in Nat, NEW n \in Nat, n >= 1
  PROVE  TwoColumns(grid(Geometry(x, y, w, h), n), x, y, w, h, n)
<1> DEFINE half == w \div 2
           height == h \div Max({(1 + n) \div 2, 1})
           tiles == grid(Geometry(x, y, w, h), n)
<1>1. /\ Geometry(x, y, w, h).origin[1] = x /\ Geometry(x, y, w, h).origin[2] = y
      /\ Geometry(x, y, w, h).size[1] = w /\ Geometry(x, y, w, h).size[2] = h
  BY DEF Geometry
<1>2. tiles = [i \in 1..n |->
                 Geometry(IF i % 2 = 0 THEN x + half ELSE x, y + ((i - 1) \div 2) * height,
                          IF i % 2 = 1 /\ i = n THEN w ELSE half, height)]
  BY <1>1 DEF grid
<1>3. half \in Nat /\ half + half <= w
  OBVIOUS
<1>4. PICK rows \in Nat : rows = (1 + n) \div 2 /\ rows >= 1
  OBVIOUS
<1>5. height \in Nat /\ rows * height <= h
  <2>1. Max({(1 + n) \div 2, 1}) = rows
    BY <1>4, MaxOfTwo
  <2> QED BY <1>4, <2>1, Division
<1> HIDE DEF half, height
<1>6. ASSUME NEW i \in 1..n PROVE y + ((i - 1) \div 2) * height + height <= y + h
  <2>1. PICK row \in Nat : row = (i - 1) \div 2 /\ row + 1 <= rows
    BY <1>4, GridRows
  <2>2. (row + 1) * height <= rows * height /\ (row + 1) * height = row * height + height
    BY <1>5, <2>1, ProductGrows, ProductOfNext
  <2>3. row * height \in Nat /\ rows * height \in Nat
    BY <1>5, Product
  <2>4. y + row * height + height <= y + h
    BY <1>5, <2>2, <2>3
  <2> QED BY <2>1, <2>4
<1> HIDE DEF tiles
<1>7. DOMAIN tiles = 1..n
  BY <1>2
<1>8. TwoColumns(tiles, x, y, w, h, n)
  BY <1>2, <1>3, <1>5, <1>6, <1>7 DEF TwoColumns
<1> QED BY <1>8 DEF tiles

\* grid stays inside the region and its tiles do not overlap.
LEMMA GridApart ==
  ASSUME NEW r \in Regions, NEW n \in Nat
  PROVE  Inside(grid(r, n), r) /\ Apart(grid(r, n))
<1> PICK x \in Int, y \in Int, w \in Nat, h \in Nat : r = Geometry(x, y, w, h)
  BY DEF Regions
<1> DEFINE tiles == grid(Geometry(x, y, w, h), n)
<1>1. CASE n = 0
  <2>1. DOMAIN tiles = {}
    BY <1>1 DEF grid
  <2> HIDE DEF tiles
  <2>2. Inside(tiles, r) /\ Apart(tiles)
    BY <2>1 DEF Inside, Apart
  <2> QED BY <2>2 DEF tiles
<1>2. CASE n >= 1
  <2> TwoColumns(tiles, x, y, w, h, n)
    BY <1>2, GridTiles
  <2> HIDE DEF tiles
  <2>1. PICK half \in Nat, height \in Nat :
           /\ half + half <= w
           /\ DOMAIN tiles = 1..n
           /\ \A i \in 1..n :
                /\ y + ((i - 1) \div 2) * height + height <= y + h
                /\ tiles[i] = Geometry(IF i % 2 = 0 THEN x + half ELSE x,
                                       y + ((i - 1) \div 2) * height,
                                       IF i % 2 = 1 /\ i = n THEN w ELSE half, height)
    BY DEF TwoColumns
  <2>2. Spans(r, x, x + w, y, y + h)
    BY PixelsOf
  <2>3. ASSUME NEW i \in 1..n
        PROVE  \E left \in Int, wide \in Nat, top \in Int :
                 /\ Spans(tiles[i], left, left + wide, top, top + height)
                 /\ x <= left /\ left + wide <= x + w
                 /\ y <= top /\ top = y + ((i - 1) \div 2) * height /\ top + height <= y + h
                 /\ i % 2 = 0 => left = x + half
                 /\ i % 2 = 1 /\ i # n => left + wide = x + half
    <3>1. PICK row \in Nat : row = (i - 1) \div 2
      BY GridRows
    <3>2. row * height \in Nat
      BY Product
    <3>3. PICK left \in Int, wide \in Nat, top \in Int :
            /\ left = (IF i % 2 = 0 THEN x + half ELSE x)
            /\ wide = (IF i % 2 = 1 /\ i = n THEN w ELSE half)
            /\ top = y + row * height
      BY <3>2
    <3>4. tiles[i] = Geometry(left, top, wide, height) /\ top + height <= y + h
      BY <2>1, <3>1, <3>3
    <3>5. Spans(tiles[i], left, left + wide, top, top + height)
      BY <3>4, PixelsOf
    <3>6. y <= top
      BY <3>2, <3>3
    <3>7. x <= left /\ left + wide <= x + w
      BY <2>1, <3>3
    <3>8. (i % 2 = 0 => left = x + half) /\ (i % 2 = 1 /\ i # n => left + wide = x + half)
      BY <3>3
    <3> QED BY <3>1, <3>3, <3>4, <3>5, <3>6, <3>7, <3>8
  <2>4. Inside(tiles, r)
    <3> SUFFICES ASSUME NEW i \in 1..n, NEW q \in Pixels(tiles[i]) PROVE q \in Pixels(r)
      BY <2>1 DEF Inside
    <3>1. PICK left \in Int, wide \in Nat, top \in Int :
                 /\ Spans(tiles[i], left, left + wide, top, top + height)
                 /\ x <= left /\ left + wide <= x + w
                 /\ y <= top /\ top + height <= y + h
      BY <2>3
    <3>2. /\ q[1] \in Int /\ q[2] \in Int /\ q = <<q[1], q[2]>>
          /\ left <= q[1] /\ q[1] < left + wide /\ top <= q[2] /\ q[2] < top + height
      BY <3>1 DEF Spans
    <3>3. x <= q[1] /\ q[1] < x + w /\ y <= q[2] /\ q[2] < y + h
      BY <3>1, <3>2
    <3> QED BY <2>2, <3>2, <3>3 DEF Spans
  <2>5. Apart(tiles)
    <3> SUFFICES ASSUME NEW i \in 1..n, NEW j \in 1..n, i < j, NEW q,
                        q \in Pixels(tiles[i]), q \in Pixels(tiles[j])
                 PROVE  FALSE
      <4>1. \A i \in 1..n, j \in 1..n : i # j => i < j \/ j < i
        OBVIOUS
      <4> QED BY <2>1, <4>1 DEF Apart
    <3>1. PICK left \in Int, wide \in Nat, top \in Int :
                 /\ Spans(tiles[i], left, left + wide, top, top + height)
                 /\ top = y + ((i - 1) \div 2) * height
                 /\ i % 2 = 1 /\ i # n => left + wide = x + half
      BY <2>3
    <3>2. PICK left2 \in Int, wide2 \in Nat, top2 \in Int :
                 /\ Spans(tiles[j], left2, left2 + wide2, top2, top2 + height)
                 /\ top2 = y + ((j - 1) \div 2) * height
                 /\ j % 2 = 0 => left2 = x + half
      BY <2>3
    <3>3. /\ q[1] \in Int /\ q[2] \in Int /\ q[1] < left + wide /\ q[2] < top + height
          /\ left2 <= q[1] /\ top2 <= q[2]
      BY <3>1, <3>2 DEF Spans
    <3>4. PICK row \in Nat, row2 \in Nat : row = (i - 1) \div 2 /\ row2 = (j - 1) \div 2
      BY GridRows
    <3>5. CASE row + 1 <= row2
      <4>1. (row + 1) * height <= row2 * height /\ (row + 1) * height = row * height + height
        BY <3>5, ProductGrows, ProductOfNext
      <4>2. row * height \in Nat /\ row2 * height \in Nat
        BY Product
      <4>3. top + height <= top2
        BY <3>1, <3>2, <3>4, <4>1, <4>2
      <4> QED BY <3>3, <4>3
    <3>6. CASE i % 2 = 1 /\ j % 2 = 0
      <4>1. i # n
        OBVIOUS
      <4> QED BY <3>1, <3>2, <3>3, <3>6, <4>1
    <3>7. row + 1 <= row2 \/ (i % 2 = 1 /\ j % 2 = 0)
      BY <3>4, GridRows
    <3> QED BY <3>5, <3>6, <3>7
  <2> QED BY <2>4, <2>5 DEF tiles
<1>3. n = 0 \/ n >= 1
  OBVIOUS
<1> QED BY <1>1, <1>2, <1>3

\* TilingsCover, for regions of every size, every number of views and every
\* cut: nmaster fills the region without overlap, and grid stays inside
\* without overlap.
THEOREM TilingsFit ==
  /\ \A r \in Regions, memb \in Nat \ {0}, c \in 0..100 : Partition(nmaster(r, memb, c), r)
  /\ \A r \in Regions, memb \in Nat : Inside(grid(r, memb), r) /\ Apart(grid(r, memb))
<1>1. \A memb \in Nat \ {0} : memb \in Nat /\ memb >= 1
  OBVIOUS
<1> QED BY <1>1, NMasterPartition, GridApart

-----------------------------------------------------------------------------
(* The registry of layouts *)

\* The index of an output is 0 or in range: what removals keep.
RegistryInv ==
    /\ RegistryTypeOK
    /\ \A o \in Outputs : active[o] = 0 \/ active[o] < Len(layouts)

LEMMA SameOnly ==
  \A s, T : Only(s, T) = Lists!Only(s, T) /\ Places(s, T) = Lists!Places(s, T)
BY Zenon DEF Only, Lists!Only, Places, Lists!Places, Place, Lists!Place, Cardinality,
             Lists!Cardinality

LEMMA OnlyContents ==
  ASSUME NEW S, NEW s \in Seq(S), NEW T
  PROVE  /\ Only(s, T) \in Seq(S) /\ Range(Only(s, T)) = Range(s) \cap T
         /\ IsInjective(s) => IsInjective(Only(s, T))
<1>1. \A t : Lists!Range(t) = Range(t) /\ (Lists!IsInjective(t) <=> IsInjective(t))
  BY DEF Range, Lists!Range, IsInjective, Lists!IsInjective
<1>2. /\ Lists!Only(s, T) \in Seq(S) /\ Lists!Range(Lists!Only(s, T)) = Lists!Range(s) \cap T
      /\ Lists!IsInjective(s) => Lists!IsInjective(Lists!Only(s, T))
  BY Lists!OnlyContents, Lists!OnlyDistinct
<1>3. Only(s, T) = Lists!Only(s, T)
  BY SameOnly
<1> QED BY <1>1, <1>2, <1>3

LEMMA WithoutContents ==
  ASSUME NEW S, NEW s \in Seq(S), NEW T
  PROVE  /\ Without(s, T) \in Seq(S) /\ Range(Without(s, T)) = Range(s) \ T
         /\ IsInjective(s) => IsInjective(Without(s, T))
<1>1. Range(s) \cap (Range(s) \ T) = Range(s) \ T
  OBVIOUS
<1> QED BY <1>1, OnlyContents DEF Without

\* What stands before all that is removed keeps its place.
LEMMA WithoutKeepsPrefix ==
  ASSUME NEW S, NEW s \in Seq(S), NEW T, NEW k \in 0..Len(s), \A i \in 1..k : s[i] \notin T
  PROVE  k <= Len(Without(s, T)) /\ \A i \in 1..k : Without(s, T)[i] = s[i]
<1>1. DOMAIN s = 1..Len(s) /\ Len(s) \in Nat
  BY LenProperties
<1>2. \A i \in 1..k : s[i] \in Range(s) \ T
  BY <1>1 DEF Range
<1>3. Without(s, T) = Lists!Only(s, Range(s) \ T)
  BY SameOnly DEF Without
<1> QED BY <1>2, <1>3, Lists!PrefixStays

LEMMA DropKeeps ==
  ASSUME RegistryInv, NEW gone, Drop(gone)
  PROVE  /\ RegistryInv' \/ alive' \notin SUBSET Plugins
         /\ Range(layouts') = Range(layouts) \ gone
         /\ \A o \in Outputs :
              \/ active'[o] = 0 /\ \E i \in 1..(active[o] + 1) :
                    i \in DOMAIN layouts /\ layouts[i] \in gone
              \/ /\ active'[o] = active[o]
                 /\ active[o] < Len(layouts) =>
                      active[o] < Len(layouts') /\ layouts'[active[o] + 1] = layouts[active[o] + 1]
<1>1. /\ layouts \in Seq(Layouts) /\ DOMAIN layouts = 1..Len(layouts) /\ Len(layouts) \in Nat
      /\ \A o \in Outputs : active[o] \in Nat
  BY LenProperties DEF RegistryInv, RegistryTypeOK
<1>2. /\ layouts' = Without(layouts, gone) /\ layouts' \in Seq(Layouts)
      /\ Range(layouts') = Range(layouts) \ gone
  BY <1>1, WithoutContents DEF Drop
<1>3. ASSUME NEW o \in Outputs
      PROVE  \/ active'[o] = 0 /\ \E i \in 1..(active[o] + 1) :
                    i \in DOMAIN layouts /\ layouts[i] \in gone
             \/ /\ active'[o] = active[o]
                /\ active[o] < Len(layouts) =>
                     active[o] < Len(layouts') /\ layouts'[active[o] + 1] = layouts[active[o] + 1]
  <2>1. CASE \E i \in DOMAIN layouts : layouts[i] \in gone /\ i - 1 <= active[o]
    BY <1>1, <2>1 DEF Drop
  <2>2. CASE ~\E i \in DOMAIN layouts : layouts[i] \in gone /\ i - 1 <= active[o]
    <3>1. active'[o] = active[o]
      BY <2>2 DEF Drop
    <3>2. ASSUME active[o] < Len(layouts)
          PROVE  active[o] < Len(layouts') /\ layouts'[active[o] + 1] = layouts[active[o] + 1]
      <4>1. PICK k \in 1..Len(layouts) : k = active[o] + 1
        BY <1>1, <3>2
      <4>2. \A i \in 1..k : layouts[i] \notin gone
        BY <1>1, <2>2, <4>1
      <4>3. k <= Len(Without(layouts, gone)) /\ Without(layouts, gone)[k] = layouts[k]
        BY <1>1, <4>2, WithoutKeepsPrefix
      <4>4. Len(layouts') \in Nat
        BY <1>2, LenProperties
      <4> QED BY <1>1, <1>2, <4>1, <4>3, <4>4
    <3> QED BY <3>1, <3>2
  <2> QED BY <2>1, <2>2
<1>4. active' \in [Outputs -> Nat]
  BY <1>1 DEF Drop
<1>5. \A o \in Outputs : active'[o] = 0 \/ active'[o] < Len(layouts')
  BY <1>3 DEF RegistryInv
<1> QED BY <1>2, <1>3, <1>4, <1>5 DEF RegistryInv, RegistryTypeOK

\* What a step of the plugin layout does to the list and the indices.
RegistryMove == RegistryNext \/ \E o \in Outputs : next_layout(o)

LEMMA RegistryMoves ==
  ASSUME RegistryInv, RegistryMove
  PROVE  \/ \E l \in Layouts : add_layout(l)
         \/ alive' \subseteq Plugins /\ \E gone : Drop(gone)
         \/ \E o \in Outputs : next_layout(o)
<1>1. ASSUME NEW l \in Layouts, remove_layout(l) PROVE alive' \subseteq Plugins /\ Drop({l})
  BY <1>1 DEF remove_layout, RegistryInv, RegistryTypeOK
<1>2. ASSUME NEW p \in Plugins, plugin_deloaded(p)
      PROVE  alive' \subseteq Plugins /\ Drop({l \in Range(layouts) : l.owner = p})
  BY <1>2 DEF plugin_deloaded, RegistryInv, RegistryTypeOK
<1> QED BY <1>1, <1>2 DEF RegistryMove, RegistryNext

LEMMA NextIndex ==
  ASSUME RegistryInv, NEW o \in Outputs
  PROVE  next_index(o) \in Nat /\ (next_index(o) = 0 \/ next_index(o) < Len(layouts))
<1>1. active[o] + 1 \in Nat /\ layouts \in Seq(Layouts) /\ Len(layouts) \in Nat
  BY LenProperties DEF RegistryInv, RegistryTypeOK
<1>2. CASE layouts = <<>>
  <2>1. next_index(o) = (active[o] + 1) % 1
    BY <1>2 DEF next_index
  <2> QED BY <1>1, <2>1
<1>3. CASE layouts # <<>>
  <2>1. next_index(o) = (active[o] + 1) % Len(layouts)
    BY <1>3 DEF next_index
  <2>2. Len(layouts) > 0
    BY <1>1, <1>3, EmptySeq
  <2> QED BY <1>1, <2>1, <2>2
<1> QED BY <1>2, <1>3

LEMMA RegistryStays ==
  ASSUME RegistryInv, RegistryMove \/ UNCHANGED registry
  PROVE  RegistryInv'
<1>1. ASSUME NEW l \in Layouts, add_layout(l) PROVE RegistryInv'
  <2>1. /\ layouts' \in Seq(Layouts) /\ Len(layouts') = Len(layouts) + 1 /\ Len(layouts) \in Nat
        /\ active' = active /\ alive' = alive
    BY <1>1, LenProperties, AppendProperties DEF add_layout, RegistryInv, RegistryTypeOK
  <2>2. \A o \in Outputs : active'[o] = 0 \/ active'[o] < Len(layouts')
    BY <2>1 DEF RegistryInv, RegistryTypeOK
  <2> QED BY <2>1, <2>2 DEF RegistryInv, RegistryTypeOK
<1>2. ASSUME NEW gone, Drop(gone), alive' \subseteq Plugins PROVE RegistryInv'
  BY <1>2, DropKeeps
<1>3. ASSUME NEW o \in Outputs, next_layout(o) PROVE RegistryInv'
  BY <1>3, NextIndex DEF next_layout, RegistryInv, RegistryTypeOK
<1>4. CASE UNCHANGED registry
  BY <1>4 DEF registry, RegistryInv, RegistryTypeOK
<1> QED BY <1>1, <1>2, <1>3, <1>4, RegistryMoves

\* The step of LayoutKept.
OthersKeepLayout ==
    \A o \in Outputs :
         \/ layout_for_output(o) = NULL
         \/ layout_for_output(o)' = layout_for_output(o)
         \/ \E i \in 1..(active[o] + 1) : layouts[i] \notin Range(layouts')
         \/ /\ active' = [active EXCEPT ![o] = active'[o]]
            /\ layout_for_output(o)' = LayoutAt(layouts, next_index(o))

LEMMA LayoutsAreKept ==
  ASSUME RegistryInv, RegistryMove
  PROVE  OthersKeepLayout
<1>1. /\ layouts \in Seq(Layouts) /\ DOMAIN layouts = 1..Len(layouts) /\ Len(layouts) \in Nat
      /\ active \in [Outputs -> Nat]
  BY LenProperties DEF RegistryInv, RegistryTypeOK
<1>2. SUFFICES ASSUME NEW o \in Outputs, layout_for_output(o) # NULL
      PROVE  \/ layout_for_output(o)' = layout_for_output(o)
             \/ \E i \in 1..(active[o] + 1) : layouts[i] \notin Range(layouts')
             \/ /\ active' = [active EXCEPT ![o] = active'[o]]
                /\ layout_for_output(o)' = LayoutAt(layouts, next_index(o))
  BY DEF OthersKeepLayout
<1>3. active[o] < Len(layouts) /\ layout_for_output(o) = layouts[active[o] + 1]
  BY <1>2 DEF layout_for_output, LayoutAt
<1>4. ASSUME NEW l \in Layouts, add_layout(l) PROVE layout_for_output(o)' = layout_for_output(o)
  <2>1. /\ layouts' = Append(layouts, l) /\ active' = active
        /\ Len(layouts') = Len(layouts) + 1 /\ active[o] + 1 \in 1..Len(layouts)
    BY <1>1, <1>3, <1>4, AppendProperties DEF add_layout
  <2>2. layouts'[active[o] + 1] = layouts[active[o] + 1]
    BY <1>1, <2>1, AppendProperties
  <2>3. active'[o] < Len(layouts')
    BY <1>1, <1>3, <2>1
  <2> QED BY <1>3, <2>1, <2>2, <2>3 DEF layout_for_output, LayoutAt
<1>5. ASSUME NEW gone, Drop(gone)
      PROVE  \/ layout_for_output(o)' = layout_for_output(o)
             \/ \E i \in 1..(active[o] + 1) : layouts[i] \notin Range(layouts')
  <2>1. Range(layouts') = Range(layouts) \ gone
    BY <1>5, DropKeeps
  <2>2. CASE \E i \in 1..(active[o] + 1) : i \in DOMAIN layouts /\ layouts[i] \in gone
    BY <2>1, <2>2
  <2>3. CASE ~\E i \in 1..(active[o] + 1) : i \in DOMAIN layouts /\ layouts[i] \in gone
    <3>1. /\ active'[o] = active[o] /\ active[o] < Len(layouts')
          /\ layouts'[active[o] + 1] = layouts[active[o] + 1]
      BY <1>3, <1>5, <2>3, DropKeeps
    <3> QED BY <1>3, <3>1 DEF layout_for_output, LayoutAt
  <2> QED BY <2>2, <2>3
<1>6. ASSUME NEW p \in Outputs, next_layout(p)
      PROVE  \/ layout_for_output(o)' = layout_for_output(o)
             \/ /\ active' = [active EXCEPT ![o] = active'[o]]
                /\ layout_for_output(o)' = LayoutAt(layouts, next_index(o))
  BY <1>1, <1>6 DEF next_layout, layout_for_output
<1> QED BY <1>4, <1>5, <1>6, RegistryMoves

LEMMA LayoutsInRange ==
  ASSUME RegistryInv
  PROVE  EveryOutputHasLayout
<1>1. layouts \in Seq(Layouts) /\ Len(layouts) \in Nat /\ \A o \in Outputs : active[o] \in Nat
  BY LenProperties DEF RegistryInv, RegistryTypeOK
<1>2. ASSUME NEW o \in Outputs, layouts # <<>> PROVE layout_for_output(o) # NULL
  <2>1. Len(layouts) > 0
    BY <1>1, <1>2, EmptySeq
  <2>2. active[o] < Len(layouts)
    BY <1>1, <2>1 DEF RegistryInv
  <2>3. active[o] + 1 \in 1..Len(layouts)
    BY <1>1, <2>2
  <2>4. layouts[active[o] + 1] \in Layouts
    BY <1>1, <2>3, ElementOfSeq
  <2> QED BY <2>2, <2>4, LayoutConstants DEF layout_for_output, LayoutAt
<1> QED BY <1>2 DEF EveryOutputHasLayout

-----------------------------------------------------------------------------
(* The loop of cycle_output *)

\* What the loop makes of s, with tiled views in T.
Cycled(s, T) ==
    LET at == Places(s, T)
    IN  FoldLeft(swap, [list |-> s, last |-> 0],
                 [j \in 1..Cardinality(at) |-> Place(at, j)]).list

\* The list when the loop has been at the first j places.
Turned(s, at, j, l) ==
    /\ l = [i \in DOMAIN s |-> l[i]]
    /\ \A k \in 1..(j - 1) : l[Place(at, k)] = s[Place(at, k + 1)]
    /\ j >= 1 => l[Place(at, j)] = s[Place(at, 1)]
    /\ \A i \in DOMAIN s : (\A k \in 1..j : Place(at, k) # i) => l[i] = s[i]

LEMMA PlacesInOrder ==
  ASSUME NEW S, NEW s \in Seq(S), NEW T
  PROVE  /\ Cardinality(Places(s, T)) \in Nat /\ Places(s, T) \subseteq DOMAIN s
         /\ DOMAIN s = 1..Len(s) /\ Len(s) \in Nat
         /\ \A j \in 1..Cardinality(Places(s, T)) :
              /\ Place(Places(s, T), j) \in Places(s, T)
              /\ \A i \in 1..Cardinality(Places(s, T)) :
                   i < j => Place(Places(s, T), i) < Place(Places(s, T), j)
         /\ \A i \in Places(s, T) :
              \E j \in 1..Cardinality(Places(s, T)) : Place(Places(s, T), j) = i
<1>1. Places(s, T) = Lists!Places(s, T)
  BY SameOnly
<1>2. \A at, j : Place(at, j) = Lists!Place(at, j)
  BY Zenon DEF Place, Lists!Place, Cardinality, Lists!Cardinality
<1>3. \A at : Cardinality(at) = Lists!Cardinality(at)
  BY Zenon DEF Cardinality, Lists!Cardinality
<1>4. /\ Len(s) \in Nat /\ DOMAIN s = 1..Len(s) /\ Lists!Places(s, T) \subseteq 1..Len(s)
      /\ Lists!Cardinality(Lists!Places(s, T)) \in Nat
  BY Lists!PlacesFinite
<1>5. /\ \A j \in 1..Lists!Cardinality(Lists!Places(s, T)) :
              /\ Lists!Place(Lists!Places(s, T), j) \in Lists!Places(s, T)
              /\ \A i \in 1..Lists!Cardinality(Lists!Places(s, T)) :
                   i < j => Lists!Place(Lists!Places(s, T), i) < Lists!Place(Lists!Places(s, T), j)
      /\ \A i \in Lists!Places(s, T) :
              \E j \in 1..Lists!Cardinality(Lists!Places(s, T)) :
                 Lists!Place(Lists!Places(s, T), j) = i
  BY Lists!PlaceOrder
<1> QED BY <1>1, <1>2, <1>3, <1>4, <1>5

LEMMA LoopTurns ==
  ASSUME NEW S, NEW s \in Seq(S), NEW T
  PROVE  Turned(s, Places(s, T), Cardinality(Places(s, T)), Cycled(s, T))
<1> DEFINE at == Places(s, T)
           n == Cardinality(at)
           nth(j) == Place(at, j)
           todo == [j \in 1..n |-> nth(j)]
           start == [list |-> s, last |-> 0]
<1>1. /\ n \in Nat /\ at \subseteq DOMAIN s /\ DOMAIN s = 1..Len(s) /\ Len(s) \in Nat
      /\ \A j \in 1..n : nth(j) \in at /\ \A i \in 1..n : i < j => nth(i) < nth(j)
  BY PlacesInOrder
<1>2. Cycled(s, T) = FoldLeft(swap, start, todo).list
  BY DEF Cycled
<1> HIDE DEF at, n, nth, start
<1>3. todo \in Seq(at) /\ DOMAIN todo = 1..n /\ Len(todo) = n
  <2>1. todo \in [1..n -> at]
    BY <1>1
  <2>2. todo \in Seq(at)
    BY <1>1, <2>1, SeqDef
  <2> QED BY <1>1, <2>1, <2>2, LenProperties
<1>4. PICK a : /\ a[0] = start
               /\ \A i \in 1..n : a[i] = swap(a[i - 1], todo[i])
               /\ FoldLeft(swap, start, todo) = a[n]
  <2> HIDE DEF todo
  <2>1. FoldLeft(swap, start, todo) = Lists!FoldLeft(swap, start, todo)
    BY Zenon DEF FoldLeft, Lists!FoldLeft, MapThenFoldSet, Lists!MapThenFoldSet, Max, Lists!Max
  <2>2. \E a : /\ a[0] = start
               /\ \A i \in 1..Len(todo) : a[i] = swap(a[i - 1], todo[i])
               /\ Lists!FoldLeft(swap, start, todo) = a[Len(todo)]
    <3>1. Len(todo) \in Nat /\ DOMAIN todo = 1..Len(todo)
      BY <1>1, <1>3
    <3>2. PICK base, list : base = start /\ list = todo
      OBVIOUS
    <3>3. Len(list) \in Nat /\ DOMAIN list = 1..Len(list)
      BY <3>1, <3>2
    <3>4. \E a : /\ a[0] = base
                 /\ \A i \in 1..Len(list) : a[i] = swap(a[i - 1], list[i])
                 /\ Lists!FoldLeft(swap, base, list) = a[Len(list)]
      BY <3>3, Lists!FoldUnrolled, ZenonT(60)
    <3> QED BY <3>2, <3>4
  <2> QED BY <1>3, <2>1, <2>2, Zenon
<1>5. \A i \in 1..n : a[i] = swap(a[i - 1], nth(i))
  BY <1>4
<1> HIDE DEF todo
<1> DEFINE Good(j) == /\ a[j] = [list |-> a[j].list, last |-> a[j].last]
                      /\ a[j].last = (IF j = 0 THEN 0 ELSE nth(j))
                      /\ Turned(s, at, j, a[j].list)
           Done == {j \in Nat : j <= n => Good(j)}
<1>6. 0 \in Done
  <2>1. a[0] = [list |-> s, last |-> 0] /\ a[0].list = s /\ a[0].last = 0
    BY <1>4 DEF start
  <2>2. Turned(s, at, 0, s)
    BY DEF Turned
  <2> QED BY <2>1, <2>2
<1>7. ASSUME NEW j \in Nat, j \in Done PROVE j + 1 \in Done
  <2> SUFFICES ASSUME j + 1 <= n PROVE Good(j + 1)
    OBVIOUS
  <2>1. j <= n /\ j + 1 \in 1..n /\ (j + 1) - 1 = j
    BY <1>1
  <2>2. Good(j) /\ a[j + 1] = swap(a[j], nth(j + 1))
    BY <1>5, <1>7, <2>1
  <2>3. PICK l : l = a[j].list
    OBVIOUS
  <2>4. nth(j + 1) \in DOMAIN s
    BY <1>1, <2>1
  <2>5. CASE j = 0
    <3>1. a[j].last = 0 /\ Turned(s, at, 0, l) /\ a[j] = [list |-> l, last |-> 0]
      BY <2>2, <2>3, <2>5
    <3>2. a[j + 1] = [list |-> l, last |-> nth(1)]
      BY <2>2, <2>5, <3>1 DEF swap
    <3>3. l = [i \in DOMAIN s |-> l[i]] /\ \A i \in DOMAIN s : l[i] = s[i]
      BY <3>1 DEF Turned
    <3>4. Turned(s, at, 1, l)
      BY <2>4, <2>5, <3>3 DEF Turned, nth
    <3> QED BY <2>5, <3>2, <3>4
  <2>6. CASE j # 0
    <3>1. j \in 1..n /\ nth(j) \in 1..Len(s) /\ nth(j) < nth(j + 1)
      BY <1>1, <2>1, <2>6
    <3>2. /\ a[j].last = nth(j) /\ nth(j) # 0 /\ Turned(s, at, j, l)
          /\ a[j] = [list |-> l, last |-> nth(j)]
      BY <2>2, <2>3, <2>6, <3>1
    <3>3. PICK m : m = [l EXCEPT ![nth(j)] = l[nth(j + 1)], ![nth(j + 1)] = l[nth(j)]]
      OBVIOUS
    <3>4. a[j + 1] = [list |-> m, last |-> nth(j + 1)]
      BY <2>2, <3>2, <3>3 DEF swap
    <3>5a. l = [i \in DOMAIN s |-> l[i]]
      BY <3>2, Zenon DEF Turned
    <3>5b. DOMAIN l = DOMAIN s
      BY <3>5a
    <3>5. /\ \A k \in 1..(j - 1) : l[nth(k)] = s[nth(k + 1)]
          /\ l[nth(j)] = s[nth(1)]
          /\ \A i \in DOMAIN s : (\A k \in 1..j : nth(k) # i) => l[i] = s[i]
      <4>1. j >= 1
        BY <2>6
      <4> QED BY <3>2, <4>1 DEF Turned, nth
    <3>6. \A k \in 1..j : nth(k) < nth(j + 1) /\ nth(k) \in DOMAIN s
      BY <1>1, <2>1
    <3>7. l[nth(j + 1)] = s[nth(j + 1)]
      <4>1. \A k \in 1..j : nth(k) # nth(j + 1)
        BY <1>1, <2>4, <3>6
      <4> QED BY <2>4, <3>5, <4>1
    <3>8. /\ m = [i \in DOMAIN s |-> m[i]] /\ m[nth(j)] = s[nth(j + 1)] /\ m[nth(j + 1)] = s[nth(1)]
          /\ \A i \in DOMAIN s : i # nth(j) /\ i # nth(j + 1) => m[i] = l[i]
      BY <1>1, <2>4, <3>1, <3>3, <3>5a, <3>5b, <3>5, <3>7
    <3>9. ASSUME NEW k \in 1..j PROVE m[nth(k)] = s[nth(k + 1)]
      <4>1. CASE k = j
        BY <3>8, <4>1
      <4>2. CASE k # j
        <5>1. k \in 1..(j - 1) /\ k \in 1..n /\ k < j
          BY <1>1, <2>1, <4>2
        <5>2. nth(k) < nth(j) /\ nth(k) < nth(j + 1) /\ nth(k) \in DOMAIN s
          BY <1>1, <3>1, <3>6, <5>1
        <5>3. nth(k) # nth(j) /\ nth(k) # nth(j + 1)
          BY <1>1, <2>4, <3>1, <5>2
        <5>4. m[nth(k)] = l[nth(k)]
          BY <3>8, <5>2, <5>3
        <5>5. l[nth(k)] = s[nth(k + 1)]
          BY <3>5, <5>1
        <5> QED BY <5>4, <5>5
      <4> QED BY <4>1, <4>2
    <3>10. ASSUME NEW i \in DOMAIN s, \A k \in 1..(j + 1) : nth(k) # i PROVE m[i] = s[i]
      <4>1. i # nth(j) /\ i # nth(j + 1) /\ \A k \in 1..j : nth(k) # i
        BY <3>1, <3>10
      <4> QED BY <3>5, <3>8, <4>1
    <3>11. Turned(s, at, j + 1, m)
      BY <2>1, <3>8, <3>9, <3>10 DEF Turned, nth
    <3> QED BY <3>4, <3>11
  <2> QED BY <2>5, <2>6
<1>8. n \in Done
  <2> HIDE DEF Done
  <2> QED BY <1>1, <1>6, <1>7, Lists!Induction
<1>9. Turned(s, at, n, a[n].list)
  BY <1>1, <1>8
<1> QED BY <1>2, <1>4, <1>9 DEF at, n

\* The loop turns the views in T round by one place and leaves the others
\* where they are.
LEMMA CycledList ==
  ASSUME NEW S, NEW s \in Seq(S), NEW T
  PROVE  /\ Cycled(s, T) \in Seq(S) /\ Range(Cycled(s, T)) = Range(s)
         /\ IsInjective(s) => IsInjective(Cycled(s, T))
         /\ Only(s, T) # <<>> =>
              Only(Cycled(s, T), T) = Append(Tail(Only(s, T)), Head(Only(s, T)))
         /\ \A i \in DOMAIN s : s[i] \notin T => Cycled(s, T)[i] = s[i]
<1> DEFINE at == Places(s, T)
           n == Cardinality(at)
           nth(j) == Place(at, j)
           c == Cycled(s, T)
<1>1. /\ n \in Nat /\ at \subseteq DOMAIN s /\ DOMAIN s = 1..Len(s) /\ Len(s) \in Nat
      /\ \A j \in 1..n : nth(j) \in at /\ \A i \in 1..n : i < j => nth(i) < nth(j)
      /\ \A i \in at : \E j \in 1..n : nth(j) = i
  BY PlacesInOrder
<1>2. /\ c = [i \in DOMAIN s |-> c[i]]
      /\ \A k \in 1..(n - 1) : c[nth(k)] = s[nth(k + 1)]
      /\ n >= 1 => c[nth(n)] = s[nth(1)]
      /\ \A i \in DOMAIN s : (\A k \in 1..n : nth(k) # i) => c[i] = s[i]
  BY LoopTurns DEF Turned
<1>3. \A i \in DOMAIN s : i \in at <=> s[i] \in T
  BY DEF Places
<1>4. Only(s, T) = [j \in 1..n |-> s[nth(j)]]
  BY DEF Only
<1> HIDE DEF at, n, nth, c
<1>5. \A i \in DOMAIN s : i \notin at => c[i] = s[i]
  BY <1>1, <1>2
<1>6. PICK from : from = [i \in DOMAIN s |->
                            IF i \notin at THEN i
                            ELSE IF i = nth(n) THEN nth(1)
                            ELSE nth((CHOOSE k \in 1..(n - 1) : nth(k) = i) + 1)]
  OBVIOUS
<1>7. ASSUME NEW k \in 1..(n - 1) PROVE from[nth(k)] = nth(k + 1)
  <2>1. k \in 1..n /\ n \in 1..n /\ k < n /\ nth(k) < nth(n) /\ nth(k) \in DOMAIN s /\ nth(k) \in at
    BY <1>1
  <2>2. nth(k) # nth(n)
    BY <1>1, <2>1
  <2>3. \A m \in 1..(n - 1) : nth(m) = nth(k) => m = k
    BY <1>1, <2>1
  <2>4. (CHOOSE m \in 1..(n - 1) : nth(m) = nth(k)) = k
    BY <2>3
  <2> QED BY <1>6, <2>1, <2>2, <2>4
<1>8. \A i \in at : \E k \in 1..n : /\ i = nth(k)
                                  /\ from[i] = (IF k = n THEN nth(1) ELSE nth(k + 1))
  <2> TAKE i \in at
  <2>1. PICK k \in 1..n : i = nth(k)
    BY <1>1
  <2>2. CASE k = n
    BY <1>1, <1>6, <2>1, <2>2
  <2>3. CASE k # n
    <3>1. k \in 1..(n - 1)
      BY <1>1, <2>3
    <3> QED BY <1>7, <2>1, <2>3, <3>1
  <2> QED BY <2>2, <2>3
<1>9. ASSUME NEW i \in DOMAIN s
      PROVE  from[i] \in DOMAIN s /\ c[i] = s[from[i]] /\ (i \in at <=> from[i] \in at)
  <2>1. CASE i \notin at
    BY <1>5, <1>6, <2>1
  <2>2. CASE i \in at
    <3>1. PICK k \in 1..n : i = nth(k) /\ from[i] = (IF k = n THEN nth(1) ELSE nth(k + 1))
      BY <1>8, <2>2
    <3>2. CASE k = n
      <4>1. 1 \in 1..n
        BY <1>1
      <4> QED BY <1>1, <1>2, <2>2, <3>1, <3>2, <4>1
    <3>3. CASE k # n
      <4>1. k \in 1..(n - 1) /\ k + 1 \in 1..n
        BY <1>1, <3>3
      <4> QED BY <1>1, <1>2, <2>2, <3>1, <3>3, <4>1
    <3> QED BY <3>2, <3>3
  <2> QED BY <2>1, <2>2
<1>10. \A j \in 1..n, k \in 1..n : nth(j) = nth(k) => j = k
  BY <1>1
<1>11. ASSUME NEW i \in DOMAIN s, NEW j \in DOMAIN s, from[i] = from[j] PROVE i = j
  <2>1. CASE i \notin at
    <3>1. from[i] = i /\ j \notin at
      BY <1>6, <1>9, <1>11, <2>1
    <3> QED BY <1>6, <1>11, <3>1
  <2>2. CASE i \in at
    <3>1. j \in at
      BY <1>9, <1>11, <2>2
    <3>2. PICK k \in 1..n : i = nth(k) /\ from[i] = (IF k = n THEN nth(1) ELSE nth(k + 1))
      BY <1>8, <2>2
    <3>3. PICK m \in 1..n : j = nth(m) /\ from[j] = (IF m = n THEN nth(1) ELSE nth(m + 1))
      BY <1>8, <3>1
    <3>4. 1 \in 1..n /\ (k # n => k + 1 \in 1..n) /\ (m # n => m + 1 \in 1..n)
      BY <1>1
    <3>5. k = m
      <4>1. k + 1 # 1 /\ m + 1 # 1 /\ (k + 1 = m + 1 => k = m)
        OBVIOUS
      <4> QED BY <1>10, <1>11, <3>2, <3>3, <3>4, <4>1
    <3> QED BY <3>2, <3>3, <3>5
  <2> QED BY <2>1, <2>2
<1>12. ASSUME NEW i \in DOMAIN s PROVE \E j \in DOMAIN s : from[j] = i
  <2>1. CASE i \notin at
    BY <1>6, <2>1
  <2>2. CASE i \in at
    <3>1. PICK k \in 1..n : i = nth(k)
      BY <1>1, <2>2
    <3>2. CASE k = 1
      <4>1. n \in 1..n /\ nth(n) \in at /\ nth(n) \in DOMAIN s
        BY <1>1
      <4> QED BY <1>6, <3>1, <3>2, <4>1
    <3>3. CASE k # 1
      <4>1. k - 1 \in 1..(n - 1) /\ k - 1 \in 1..n /\ (k - 1) + 1 = k
        BY <1>1, <3>3
      <4> QED BY <1>1, <1>7, <3>1, <4>1
    <3> QED BY <3>2, <3>3
  <2> QED BY <2>1, <2>2
<1>13. c \in Seq(S) /\ Len(c) = Len(s) /\ DOMAIN c = DOMAIN s
  <2>1. \A i \in DOMAIN s : c[i] \in S
    BY <1>1, <1>9, ElementOfSeq
  <2>2. c \in [1..Len(s) -> S]
    BY <1>1, <1>2, <2>1
  <2>3. c \in Seq(S)
    BY <1>1, <2>2, SeqDef
  <2> QED BY <1>1, <2>2, <2>3, LenProperties
<1>14. Range(c) = Range(s)
  BY <1>9, <1>12, <1>13 DEF Range
<1>15. IsInjective(s) => IsInjective(c)
  BY <1>9, <1>11, <1>13 DEF IsInjective
<1>16. Only(s, T) # <<>> => Only(c, T) = Append(Tail(Only(s, T)), Head(Only(s, T)))
  <2>1. Places(c, T) = at
    <3>1. \A i \in DOMAIN s : c[i] \in T <=> s[i] \in T
      BY <1>3, <1>9
    <3> QED BY <1>1, <1>3, <1>13, <3>1 DEF Places
  <2>2. Only(c, T) = [j \in 1..n |-> c[nth(j)]]
    BY <2>1 DEF Only, n, nth
  <2> DEFINE old == [j \in 1..n |-> s[nth(j)]]
             new == [j \in 1..n |-> c[nth(j)]]
             ranged == Append(Tail(old), Head(old))
  <2>3. SUFFICES ASSUME old # <<>> PROVE new = ranged
    BY <1>4, <2>2
  <2>4. old \in [1..n -> S] /\ new \in [1..n -> S]
    BY <1>1, <1>13, ElementOfSeq
  <2>5. /\ old \in Seq(S) /\ new \in Seq(S) /\ Len(old) = n /\ Len(new) = n
        /\ \A j \in 1..n : old[j] = s[nth(j)] /\ new[j] = c[nth(j)]
    <3>1. old \in Seq(S) /\ new \in Seq(S)
      BY <1>1, <2>4, SeqDef
    <3> HIDE DEF old, new
    <3>2. Len(old) = n /\ Len(new) = n
      BY <1>1, <2>4, <3>1, LenProperties
    <3> QED BY <3>1, <3>2 DEF old, new
  <2> HIDE DEF old, new
  <2>6. n >= 1
    BY <1>1, <2>3, <2>5, EmptySeq
  <2>7. /\ Head(old) = old[1] /\ Head(old) \in S
        /\ Tail(old) \in Seq(S) /\ Len(Tail(old)) = n - 1
        /\ \A i \in 1..(n - 1) : Tail(old)[i] = old[i + 1]
    BY <2>3, <2>5, HeadTailProperties
  <2>8. /\ ranged \in Seq(S) /\ Len(ranged) = n /\ ranged[n] = old[1]
        /\ \A i \in 1..(n - 1) : ranged[i] = old[i + 1]
    BY <1>1, <2>7, AppendProperties
  <2> HIDE DEF ranged
  <2>9. \A i \in 1..n : new[i] = ranged[i]
    <3>1. \A i \in 1..n : i \in 1..(n - 1) \/ i = n
      BY <1>1
    <3>2. \A i \in 1..(n - 1) : i \in 1..n /\ i + 1 \in 1..n
      BY <1>1
    <3>3. 1 \in 1..n /\ n \in 1..n
      BY <1>1, <2>6
    <3>4. \A i \in 1..(n - 1) : new[i] = ranged[i]
      BY <1>2, <2>5, <2>8, <3>2, ZenonT(60)
    <3>5. new[n] = ranged[n]
      BY <1>2, <2>5, <2>6, <2>8, <3>3
    <3> QED BY <3>1, <3>4, <3>5
  <2> QED BY <2>5, <2>8, <2>9, SeqEqual
<1> QED BY <1>3, <1>5, <1>13, <1>14, <1>15, <1>16 DEF c

-----------------------------------------------------------------------------
(* Views on outputs *)

\* Each view is on at most one output, and there only once.
Desktop(vs) ==
    /\ vs \in [Outputs -> Seq(Views)]
    /\ \A o \in Outputs : IsInjective(vs[o])
    /\ \A o \in Outputs, p \in Outputs : o # p => Range(vs[o]) \cap Range(vs[p]) = {}

LEMMA DesktopExcept ==
  ASSUME NEW vs, Desktop(vs), NEW o \in Outputs, NEW s \in Seq(Views), IsInjective(s),
         \A p \in Outputs : p # o => Range(s) \cap Range(vs[p]) = {}
  PROVE  /\ Desktop([vs EXCEPT ![o] = s])
         /\ [vs EXCEPT ![o] = s][o] = s
         /\ \A p \in Outputs : p # o => [vs EXCEPT ![o] = s][p] = vs[p]
<1> DEFINE ws == [vs EXCEPT ![o] = s]
<1>1. ws[o] = s /\ \A p \in Outputs : p # o => ws[p] = vs[p]
  BY DEF Desktop
<1>2. ws \in [Outputs -> Seq(Views)]
  BY DEF Desktop
<1> HIDE DEF ws
<1>3. \A p \in Outputs : IsInjective(ws[p])
  BY <1>1 DEF Desktop
<1>4. ASSUME NEW p \in Outputs, NEW q \in Outputs, p # q
      PROVE  Range(ws[p]) \cap Range(ws[q]) = {}
  <2>1. CASE p = o
    <3>1. ws[p] = s /\ ws[q] = vs[q] /\ Range(s) \cap Range(vs[q]) = {}
      BY <1>1, <1>4, <2>1
    <3> QED BY <3>1
  <2>2. CASE q = o
    <3>1. ws[q] = s /\ ws[p] = vs[p] /\ Range(s) \cap Range(vs[p]) = {}
      BY <1>1, <1>4, <2>2
    <3> QED BY <3>1
  <2>3. CASE p # o /\ q # o
    BY <1>1, <1>4, <2>3 DEF Desktop
  <2> QED BY <2>1, <2>2, <2>3
<1>5. Desktop(ws)
  BY <1>2, <1>3, <1>4 DEF Desktop
<1> QED BY <1>1, <1>5 DEF ws

LEMMA Placed ==
  ASSUME NEW vs, Desktop(vs), NEW o \in Outputs, NEW v \in Range(vs[o])
  PROVE  (CHOOSE p \in Outputs : v \in Range(vs[p])) = o
<1>1. \A p \in Outputs : v \in Range(vs[p]) => p = o
  BY DEF Desktop
<1> QED BY <1>1

LEMMA Appended ==
  ASSUME NEW s \in Seq(Views), NEW v \in Views, v \notin Range(s), IsInjective(s)
  PROVE  /\ Append(s, v) \in Seq(Views) /\ IsInjective(Append(s, v))
         /\ Range(Append(s, v)) = Range(s) \cup {v}
<1>1. /\ DOMAIN s = 1..Len(s) /\ Len(s) \in Nat
      /\ Append(s, v) \in Seq(Views) /\ DOMAIN Append(s, v) = 1..(Len(s) + 1)
      /\ \A i \in 1..Len(s) : Append(s, v)[i] = s[i]
      /\ Append(s, v)[Len(s) + 1] = v
  <2>1. /\ Append(s, v) \in Seq(Views) /\ Len(Append(s, v)) = Len(s) + 1
        /\ \A i \in 1..Len(s) : Append(s, v)[i] = s[i]
        /\ Append(s, v)[Len(s) + 1] = v
    BY AppendProperties
  <2> QED BY <2>1, LenProperties
<1> HIDE DEF Append
<1>2. \A i \in 1..(Len(s) + 1) : i \in 1..Len(s) \/ i = Len(s) + 1
  BY <1>1
<1>3. \A i \in 1..Len(s) : s[i] # v /\ i \in 1..(Len(s) + 1)
  BY <1>1 DEF Range
<1>4. IsInjective(Append(s, v))
  BY <1>1, <1>2, <1>3 DEF IsInjective
<1>5. Range(Append(s, v)) = Range(s) \cup {v}
  <2>1. \A x \in Range(Append(s, v)) : x \in Range(s) \cup {v}
    BY <1>1, <1>2 DEF Range
  <2>2. \A x \in Range(s) : x \in Range(Append(s, v))
    BY <1>1, <1>3 DEF Range
  <2>3. Len(s) + 1 \in 1..(Len(s) + 1)
    BY <1>1
  <2>4. v \in Range(Append(s, v))
    BY <1>1, <2>3 DEF Range
  <2> QED BY <2>1, <2>2, <2>4
<1> QED BY <1>1, <1>4, <1>5

\* The focus changes the order of views, and not what views there are.
LEMMA RaisedSame ==
  ASSUME NEW s \in Seq(Views), IsInjective(s), NEW t \in Raised(s)
  PROVE  t \in Seq(Views) /\ IsInjective(t) /\ Range(t) = Range(s)
<1>1. CASE t = s
  BY <1>1
<1>2. CASE t # s
  <2>1. PICK v \in Range(s) : t = Append(Without(s, {v}), v)
    BY <1>2 DEF Raised
  <2>2. v \in Views
    <3>1. \A i \in DOMAIN s : s[i] \in Views
      BY LenProperties, ElementOfSeq
    <3> QED BY <3>1 DEF Range
  <2>3. PICK w : w = Without(s, {v})
    OBVIOUS
  <2>4. w \in Seq(Views) /\ Range(w) = Range(s) \ {v} /\ IsInjective(w)
    BY <2>3, WithoutContents
  <2>5. t = Append(w, v) /\ v \notin Range(w)
    BY <2>1, <2>3, <2>4
  <2>6. t \in Seq(Views) /\ IsInjective(t) /\ Range(t) = Range(w) \cup {v}
    BY <2>2, <2>4, <2>5, Appended
  <2> QED BY <2>4, <2>6
<1> QED BY <1>1, <1>2

DeskInv ==
    /\ RegistryInv
    /\ Desktop(views)
    /\ parent \in [Views -> Views \cup {NULL}]
    /\ full \subseteq Open
    /\ DOMAIN mask = Views /\ DOMAIN geometry = Views
    /\ DOMAIN space = Outputs /\ DOMAIN size = Outputs
    /\ \A o \in Outputs : space[o] \in Spaces[o] /\ size[o] \in Sizes[o]
    /\ \A o \in Outputs : \A v \in Range(views[o]) : mask[v] \in Spaces[o]
    /\ cut \in 0..100
    /\ settled \subseteq Outputs

LEMMA ViewsTyped ==
  ASSUME NEW vs, Desktop(vs)
  PROVE  \A o \in Outputs : vs[o] \in Seq(Views) /\ Range(vs[o]) \subseteq Views
<1> SUFFICES ASSUME NEW o \in Outputs PROVE vs[o] \in Seq(Views) /\ Range(vs[o]) \subseteq Views
  OBVIOUS
<1>1. vs[o] \in Seq(Views)
  BY DEF Desktop
<1>2. \A i \in DOMAIN vs[o] : vs[o][i] \in Views
  BY <1>1, LenProperties, ElementOfSeq
<1> QED BY <1>1, <1>2 DEF Range

LEMMA OpenIs ==
  ASSUME DeskInv
  PROVE  /\ \A v \in Open :
              OutputOf(v) \in Outputs /\ v \in Range(views[OutputOf(v)]) /\ v \in Views
         /\ \A o \in Outputs : \A v \in Range(views[o]) : v \in Open /\ OutputOf(v) = o
<1>1. ASSUME NEW v \in Open
      PROVE  OutputOf(v) \in Outputs /\ v \in Range(views[OutputOf(v)]) /\ v \in Views
  <2>1. PICK o \in Outputs : v \in Range(views[o])
    BY DEF Open
  <2>2. OutputOf(v) = o
    BY <2>1, Placed DEF OutputOf, DeskInv
  <2> QED BY <2>1, <2>2, ViewsTyped DEF DeskInv
<1>2. ASSUME NEW o \in Outputs, NEW v \in Range(views[o]) PROVE v \in Open /\ OutputOf(v) = o
  BY Placed DEF OutputOf, DeskInv, Open
<1> QED BY <1>1, <1>2

\* A change of the list of one output.
LEMMA ListChange ==
  ASSUME DeskInv, NEW o \in Outputs, NEW t \in Seq(Views), IsInjective(t),
         \A p \in Outputs : p # o => Range(t) \cap Range(views[p]) = {},
         \E s \in Raised(t) : views' = [views EXCEPT ![o] = s]
  PROVE  /\ Desktop(views') /\ Range(views'[o]) = Range(t)
         /\ \A p \in Outputs : p # o => views'[p] = views[p]
         /\ Open' = (Open \ Range(views[o])) \cup Range(t)
<1>1. PICK s \in Raised(t) : views' = [views EXCEPT ![o] = s]
  OBVIOUS
<1>2. s \in Seq(Views) /\ IsInjective(s) /\ Range(s) = Range(t)
  BY RaisedSame
<1>3. \A p \in Outputs : p # o => Range(s) \cap Range(views[p]) = {}
  BY <1>2
<1>4. /\ Desktop(views') /\ views'[o] = s
      /\ \A p \in Outputs : p # o => views'[p] = views[p]
  <2>1. PICK vs : vs = views
    OBVIOUS
  <2>2. Desktop(vs) /\ \A p \in Outputs : p # o => Range(s) \cap Range(vs[p]) = {}
    BY <1>3, <2>1 DEF DeskInv
  <2>3. /\ Desktop([vs EXCEPT ![o] = s])
        /\ [vs EXCEPT ![o] = s][o] = s
        /\ \A p \in Outputs : p # o => [vs EXCEPT ![o] = s][p] = vs[p]
    BY <1>2, <2>2, DesktopExcept
  <2> QED BY <1>1, <2>1, <2>3
<1>5. \A v : v \in Open' <=> v \in (Open \ Range(views[o])) \cup Range(t)
  <2>1. \A v : v \in Open' <=> \E p \in Outputs : v \in Range(views'[p])
    BY DEF Open
  <2>2. \A v : v \in Open \ Range(views[o]) <=> \E p \in Outputs : p # o /\ v \in Range(views[p])
    BY DEF Open, DeskInv, Desktop
  <2> QED BY <1>2, <1>4, <2>1, <2>2
<1> QED BY <1>2, <1>4, <1>5

\* The same list in another order, as it is or after the focus has passed.
LEMMA OrderChange ==
  ASSUME DeskInv, NEW o \in Outputs,
         \E s \in Raised(views[o]) : views' = [views EXCEPT ![o] = s]
  PROVE  /\ Desktop(views') /\ Open' = Open
         /\ \A p \in Outputs : Range(views'[p]) = Range(views[p])
<1>1. /\ views[o] \in Seq(Views) /\ IsInjective(views[o])
      /\ \A p \in Outputs : p # o => Range(views[o]) \cap Range(views[p]) = {}
  BY DEF DeskInv, Desktop
<1>2. PICK t \in Seq(Views) : t = views[o]
  BY <1>1
<1>3. /\ Desktop(views') /\ Range(views'[o]) = Range(t)
      /\ \A p \in Outputs : p # o => views'[p] = views[p]
      /\ Open' = (Open \ Range(views[o])) \cup Range(t)
  BY <1>1, <1>2, ListChange
<1>4. Range(t) \subseteq Open
  BY <1>2 DEF Open
<1> QED BY <1>2, <1>3, <1>4

-----------------------------------------------------------------------------
(* The steps *)

\* What output p has to show is as it was, and so is its layout.
Shown(p) ==
    /\ Range(views'[p]) = Range(views[p])
    /\ \A v \in Range(views[p]) :
         /\ v \in full' <=> v \in full
         /\ parent'[v] = NULL <=> parent[v] = NULL
         /\ mask'[v] = mask[v]
    /\ space'[p] = space[p] /\ size'[p] = size[p]

Kept(p) == Shown(p) /\ layout_for_output(p)' = layout_for_output(p)

\* A handler that ends with relayout for each output that it changes.
LaysOut(os) ==
    os \subseteq Outputs /\ relayout(os) /\ \A p \in Outputs \ os : Kept(p)

\* A dialog is on the output of its parent, as long as no view may stray.
Families ==
    \A v \in Views : parent[v] # NULL =>
        \E o \in Outputs : v \in Range(views[o]) /\ parent[v] \in Range(views[o])

\* What each of the handlers does.
Orderly == DeskInv' /\ (Families => Families' /\ \E os : LaysOut(os))

LEMMA RelayoutTyped ==
  ASSUME DeskInv, NEW os \in SUBSET Outputs, relayout(os)
  PROVE  DOMAIN geometry' = Views /\ settled' \subseteq Outputs
BY DEF relayout, DeskInv

LEMMA RegistrySame ==
  ASSUME DeskInv, UNCHANGED registry
  PROVE  RegistryInv' /\ \A p : layout_for_output(p)' = layout_for_output(p)
BY RegistryStays DEF registry, DeskInv, layout_for_output

LEMMA NextLayoutOrderly ==
  ASSUME DeskInv, NEW o \in Outputs, key_cb_next_layout(o)
  PROVE  Orderly
<1>1. /\ next_layout(o) /\ UNCHANGED desk /\ relayout({o}) /\ {o} \in SUBSET Outputs
  BY DEF key_cb_next_layout
<1>2. RegistryInv'
  BY <1>1, RegistryStays DEF RegistryMove, DeskInv
<1>3. DeskInv'
  BY <1>1, <1>2, RelayoutTyped DEF DeskInv, desk, Open
<1>4. \A p \in Outputs \ {o} : Kept(p)
  BY <1>1 DEF Kept, Shown, next_layout, layout_for_output, DeskInv, RegistryInv, RegistryTypeOK,
              desk
<1>5. Families => Families'
  BY <1>1 DEF Families, desk
<1> QED BY <1>1, <1>3, <1>4, <1>5 DEF Orderly, LaysOut

LEMMA CycleOrderly ==
  ASSUME DeskInv, NEW o \in Outputs, key_cb_cycle_clients(o)
  PROVE  Orderly
<1>1. /\ views' = [views EXCEPT ![o] = cycle(o)] /\ relayout({o}) /\ {o} \in SUBSET Outputs
      /\ UNCHANGED <<registry, parent, full, mask, space, size, cut>>
  BY DEF key_cb_cycle_clients
<1>2. PICK s \in Seq(Views) : s = views[o] /\ IsInjective(s)
  BY DEF DeskInv, Desktop
<1>3. PICK t : t = cycle(o)
  OBVIOUS
<1>4. t \in Seq(Views) /\ Range(t) = Range(s) /\ IsInjective(t)
  <2>1. t = Cycled(s, Tiled(o))
    BY <1>2, <1>3 DEF cycle, Cycled
  <2>2. PICK T : T = Tiled(o)
    OBVIOUS
  <2> QED BY <1>2, <2>1, <2>2, CycledList
<1>5. /\ Desktop(views') /\ Range(views'[o]) = Range(views[o]) /\ Open' = Open
      /\ \A p \in Outputs : p # o => views'[p] = views[p]
  <2>1. \A p \in Outputs : p # o => Range(t) \cap Range(views[p]) = {}
    BY <1>2, <1>4 DEF DeskInv, Desktop
  <2>2. \E u \in Raised(t) : views' = [views EXCEPT ![o] = u]
    BY <1>1, <1>3 DEF Raised
  <2>3. Range(views[o]) \subseteq Open
    BY DEF Open
  <2>4. /\ Desktop(views') /\ Range(views'[o]) = Range(t)
        /\ \A p \in Outputs : p # o => views'[p] = views[p]
        /\ Open' = (Open \ Range(views[o])) \cup Range(t)
    BY <1>4, <2>1, <2>2, ListChange
  <2> QED BY <1>2, <1>4, <2>3, <2>4
<1>6. RegistryInv' /\ \A p : layout_for_output(p)' = layout_for_output(p)
  BY <1>1, RegistrySame
<1>7. \A p \in Outputs : Range(views'[p]) = Range(views[p])
  BY <1>5
<1>8. DeskInv'
  BY <1>1, <1>5, <1>6, <1>7, RelayoutTyped DEF DeskInv
<1>9. \A p \in Outputs \ {o} : Kept(p)
  BY <1>1, <1>6, <1>7 DEF Kept, Shown
<1>10. Families => Families'
  BY <1>1, <1>7 DEF Families
<1> QED BY <1>1, <1>8, <1>9, <1>10 DEF Orderly, LaysOut

LEMMA CutOrderly ==
  ASSUME DeskInv, NEW o \in Outputs, key_cb_nmaster(o)
  PROVE  Orderly
<1>1. /\ cut' \in {grow(cut, CutStep), shrink(cut, CutStep)} /\ relayout({o})
      /\ UNCHANGED <<registry, views, parent, full, mask, space, size>>
      /\ {o} \in SUBSET Outputs
  BY DEF key_cb_nmaster
<1>2. cut' \in 0..100
  <2>1. cut \in 0..100 /\ CutStep \in 1..100
    BY PlacementConstants DEF DeskInv
  <2>2. grow(cut, CutStep) \in 0..100
    BY <2>1, MinOfTwo DEF grow
  <2>3. shrink(cut, CutStep) \in 0..100
    <3>1. PICK rest \in Int : rest = cut - CutStep /\ rest <= 100
      BY <2>1
    <3>2. Max({rest, 0}) = IF rest >= 0 THEN rest ELSE 0
      BY MaxOfTwo
    <3>3. Max({rest, 0}) \in 0..100
      BY <3>1, <3>2
    <3> QED BY <3>1, <3>3 DEF shrink
  <2> QED BY <1>1, <2>2, <2>3
<1>3. RegistryInv' /\ \A p : layout_for_output(p)' = layout_for_output(p)
  BY <1>1, RegistrySame
<1>4. DeskInv'
  BY <1>1, <1>2, <1>3, RelayoutTyped DEF DeskInv, Open
<1>5. \A p \in Outputs \ {o} : Kept(p)
  BY <1>1, <1>3 DEF Kept, Shown
<1>6. Families => Families'
  BY <1>1 DEF Families
<1> QED BY <1>1, <1>4, <1>5, <1>6 DEF Orderly, LaysOut

LEMMA ResolutionOrderly ==
  ASSUME DeskInv, NEW o \in Outputs, NEW s, output_resolution(o, s)
  PROVE  Orderly
<1>1. /\ s \in Sizes[o] /\ size' = [size EXCEPT ![o] = s] /\ relayout({o})
      /\ UNCHANGED <<registry, views, parent, full, mask, space, cut>>
      /\ {o} \in SUBSET Outputs
  BY DEF output_resolution
<1>2. RegistryInv' /\ \A p : layout_for_output(p)' = layout_for_output(p)
  BY <1>1, RegistrySame
<1>3. DeskInv'
  BY <1>1, <1>2, RelayoutTyped DEF DeskInv, Open
<1>4. \A p \in Outputs \ {o} : Kept(p)
  BY <1>1, <1>2 DEF Kept, Shown, DeskInv
<1>5. Families => Families'
  BY <1>1 DEF Families
<1> QED BY <1>1, <1>3, <1>4, <1>5 DEF Orderly, LaysOut

LEMMA StateOrderly ==
  ASSUME DeskInv, NEW v \in Views, view_state_request(v)
  PROVE  Orderly
<1>1. PICK o \in Outputs : o = OutputOf(v) /\ v \in Range(views[o])
  BY OpenIs DEF view_state_request
<1>2. /\ full' \in {full, full \cup {v}, full \ {v}} /\ relayout({o})
      /\ UNCHANGED <<registry, views, parent, mask, space, size, cut>>
      /\ {o} \in SUBSET Outputs /\ v \in Open
  BY <1>1 DEF view_state_request
<1>3. RegistryInv' /\ \A p : layout_for_output(p)' = layout_for_output(p)
  BY <1>2, RegistrySame
<1>4. DeskInv'
  BY <1>2, <1>3, RelayoutTyped DEF DeskInv, Open
<1>5. \A p \in Outputs \ {o} : v \notin Range(views[p])
  BY <1>1 DEF DeskInv, Desktop
<1>6. \A p \in Outputs \ {o} : Kept(p)
  BY <1>2, <1>3, <1>5 DEF Kept, Shown
<1>7. Families => Families'
  BY <1>2 DEF Families
<1> QED BY <1>2, <1>4, <1>6, <1>7 DEF Orderly, LaysOut

LEMMA CreatedOrderly ==
  ASSUME DeskInv, NEW o \in Outputs, NEW v \in Views, NEW p \in Views \cup {NULL},
         view_created(o, v, p)
  PROVE  Orderly
<1>1. /\ v \notin Open /\ (p = NULL \/ p \in Range(views[o]))
      /\ \E s \in Raised(Append(views[o], v)) : views' = [views EXCEPT ![o] = s]
      /\ parent' = [parent EXCEPT ![v] = p] /\ mask' = [mask EXCEPT ![v] = space[o]]
      /\ UNCHANGED <<registry, full, space, size, cut>>
      /\ relayout({o}) /\ {o} \in SUBSET Outputs
  BY DEF view_created
<1>2. PICK s \in Seq(Views) : s = views[o] /\ IsInjective(s)
  BY DEF DeskInv, Desktop
<1>3. \A q \in Outputs : v \notin Range(views[q])
  BY <1>1 DEF Open
<1>4. PICK t \in Seq(Views) :
        t = Append(s, v) /\ IsInjective(t) /\ Range(t) = Range(s) \cup {v}
  BY <1>2, <1>3, Appended
<1>5. /\ Desktop(views') /\ Range(views'[o]) = Range(views[o]) \cup {v}
      /\ \A q \in Outputs : q # o => views'[q] = views[q]
      /\ Open' = (Open \ Range(views[o])) \cup Range(t)
  <2>1. \A q \in Outputs : q # o => Range(t) \cap Range(views[q]) = {}
    BY <1>2, <1>3, <1>4 DEF DeskInv, Desktop
  <2>2. \E u \in Raised(t) : views' = [views EXCEPT ![o] = u]
    BY <1>1, <1>2, <1>4
  <2>3. /\ Desktop(views') /\ Range(views'[o]) = Range(t)
        /\ \A q \in Outputs : q # o => views'[q] = views[q]
        /\ Open' = (Open \ Range(views[o])) \cup Range(t)
    BY <1>4, <2>1, <2>2, ListChange
  <2> QED BY <1>2, <1>4, <2>3
<1>6. RegistryInv' /\ \A q : layout_for_output(q)' = layout_for_output(q)
  BY <1>1, RegistrySame
<1>7. ASSUME NEW q \in Outputs, NEW w \in Range(views'[q]) PROVE mask'[w] \in Spaces[q]
  <2>1. CASE w = v
    <3>1. q = o
      BY <1>3, <1>5, <1>7, <2>1
    <3> QED BY <1>1, <2>1, <3>1 DEF DeskInv
  <2>2. CASE w # v
    <3>1. w \in Range(views[q]) /\ w \in Views
      BY <1>5, <2>2, ViewsTyped DEF DeskInv
    <3> QED BY <1>1, <2>2, <3>1 DEF DeskInv
  <2> QED BY <2>1, <2>2
<1>8. full' \subseteq Open'
  BY <1>1, <1>2, <1>4, <1>5 DEF DeskInv
<1>9. DeskInv'
  BY <1>1, <1>5, <1>6, <1>7, <1>8, RelayoutTyped DEF DeskInv
<1>10. \A q \in Outputs \ {o} : Kept(q)
  BY <1>1, <1>3, <1>5, <1>6, ViewsTyped DEF Kept, Shown, DeskInv
<1>11. ASSUME Families PROVE Families'
  <2> SUFFICES ASSUME NEW w \in Views, parent'[w] # NULL
               PROVE  \E q \in Outputs : w \in Range(views'[q]) /\ parent'[w] \in Range(views'[q])
    BY DEF Families
  <2>1. CASE w = v
    BY <1>1, <1>5, <2>1 DEF DeskInv
  <2>2. CASE w # v
    <3>1. parent'[w] = parent[w]
      BY <1>1, <2>2 DEF DeskInv
    <3>2. PICK q \in Outputs : w \in Range(views[q]) /\ parent[w] \in Range(views[q])
      BY <1>11, <3>1 DEF Families
    <3>3. Range(views[q]) \subseteq Range(views'[q])
      BY <1>5
    <3> QED BY <3>1, <3>2, <3>3
  <2> QED BY <2>1, <2>2
<1> QED BY <1>1, <1>9, <1>10, <1>11 DEF Orderly, LaysOut

LEMMA DestroyedOrderly ==
  ASSUME DeskInv, NEW v \in Views, view_destroyed(v)
  PROVE  Orderly
<1>1. PICK o \in Outputs : o = OutputOf(v) /\ v \in Range(views[o])
  BY OpenIs DEF view_destroyed
<1>2. /\ \E s \in Raised(Without(views[o], {v})) : views' = [views EXCEPT ![o] = s]
      /\ parent' = [w \in Views |-> IF w = v \/ parent[w] = v THEN NULL ELSE parent[w]]
      /\ full' = full \ {v} /\ mask' = [mask EXCEPT ![v] = 0]
      /\ UNCHANGED <<registry, space, size, cut>>
      /\ relayout({o}) /\ {o} \in SUBSET Outputs
  BY <1>1 DEF view_destroyed
<1>3. PICK s \in Seq(Views) : s = views[o] /\ IsInjective(s)
  BY DEF DeskInv, Desktop
<1>4. PICK t \in Seq(Views) :
        t = Without(s, {v}) /\ IsInjective(t) /\ Range(t) = Range(s) \ {v}
  BY <1>3, WithoutContents
<1>5. /\ Desktop(views') /\ Range(views'[o]) = Range(views[o]) \ {v}
      /\ \A q \in Outputs : q # o => views'[q] = views[q]
      /\ Open' = (Open \ Range(views[o])) \cup Range(t)
  <2>1. \A q \in Outputs : q # o => Range(t) \cap Range(views[q]) = {}
    BY <1>3, <1>4 DEF DeskInv, Desktop
  <2>2. IsInjective(t) /\ \E u \in Raised(t) : views' = [views EXCEPT ![o] = u]
    BY <1>2, <1>3, <1>4
  <2>3. /\ Desktop(views') /\ Range(views'[o]) = Range(t)
        /\ \A q \in Outputs : q # o => views'[q] = views[q]
        /\ Open' = (Open \ Range(views[o])) \cup Range(t)
    BY <2>1, <2>2, ListChange
  <2> QED BY <1>3, <1>4, <2>3
<1>6. RegistryInv' /\ \A q : layout_for_output(q)' = layout_for_output(q)
  BY <1>2, RegistrySame
<1>7. \A q \in Outputs : q # o => v \notin Range(views[q])
  BY <1>1 DEF DeskInv, Desktop
<1>8. \A q \in Outputs : Range(views'[q]) = Range(views[q]) \ {v}
  BY <1>5, <1>7
<1>9. \A q \in Outputs : \A w \in Range(views'[q]) : mask'[w] \in Spaces[q]
  <2>1. \A q \in Outputs : \A w \in Range(views'[q]) :
           w # v /\ w \in Views /\ mask[w] \in Spaces[q]
    BY <1>8, ViewsTyped DEF DeskInv
  <2> QED BY <1>2, <2>1 DEF DeskInv
<1>10. full' \subseteq Open'
  BY <1>2, <1>3, <1>4, <1>5 DEF DeskInv
<1>11. parent' \in [Views -> Views \cup {NULL}]
  BY <1>2 DEF DeskInv
<1>12. DeskInv'
  BY <1>2, <1>5, <1>6, <1>9, <1>10, <1>11, RelayoutTyped DEF DeskInv
<1>13. ASSUME Families PROVE \A q \in Outputs \ {o} : Kept(q)
  <2> SUFFICES ASSUME NEW q \in Outputs \ {o}, NEW w \in Range(views[q])
               PROVE  /\ w \in full' <=> w \in full
                      /\ parent'[w] = NULL <=> parent[w] = NULL
                      /\ mask'[w] = mask[w]
    BY <1>2, <1>5, <1>6 DEF Kept, Shown
  <2>1. w \in Views /\ w # v
    BY <1>7, ViewsTyped DEF DeskInv
  <2>2. parent[w] = v => parent[w] = NULL
    <3> SUFFICES ASSUME parent[w] = v, v # NULL PROVE FALSE
      OBVIOUS
    <3>1. PICK r \in Outputs : w \in Range(views[r]) /\ v \in Range(views[r])
      BY <1>13, <2>1 DEF Families
    <3>2. r = q /\ r = o
      BY <1>1, <3>1 DEF DeskInv, Desktop
    <3> QED BY <3>2
  <2> QED BY <1>2, <2>1, <2>2 DEF DeskInv
<1>14. ASSUME Families PROVE Families'
  <2> SUFFICES ASSUME NEW w \in Views, parent'[w] # NULL
               PROVE  \E q \in Outputs : w \in Range(views'[q]) /\ parent'[w] \in Range(views'[q])
    BY DEF Families
  <2>1. w # v /\ parent[w] # v /\ parent'[w] = parent[w]
    BY <1>2
  <2>2. PICK q \in Outputs : w \in Range(views[q]) /\ parent[w] \in Range(views[q])
    BY <1>14, <2>1 DEF Families
  <2> QED BY <1>8, <2>1, <2>2
<1> QED BY <1>2, <1>12, <1>13, <1>14 DEF Orderly, LaysOut

LEMMA SpaceOrderly ==
  ASSUME DeskInv, NEW o \in Outputs, NEW i, focus_space(o, i)
  PROVE  Orderly
<1>1. /\ i \in Spaces[o] /\ space' = [space EXCEPT ![o] = i]
      /\ \E s \in Raised(views[o]) : views' = [views EXCEPT ![o] = s]
      /\ UNCHANGED <<registry, parent, full, mask, size, cut>>
      /\ relayout({o}) /\ {o} \in SUBSET Outputs
  BY DEF focus_space
<1>2. /\ Desktop(views') /\ Open' = Open
      /\ \A p \in Outputs : Range(views'[p]) = Range(views[p])
  BY <1>1, OrderChange
<1>3. RegistryInv' /\ \A p : layout_for_output(p)' = layout_for_output(p)
  BY <1>1, RegistrySame
<1>4. DeskInv'
  BY <1>1, <1>2, <1>3, RelayoutTyped DEF DeskInv
<1>5. \A p \in Outputs \ {o} : Kept(p)
  BY <1>1, <1>2, <1>3 DEF Kept, Shown, DeskInv
<1>6. Families => Families'
  BY <1>1, <1>2 DEF Families
<1> QED BY <1>1, <1>4, <1>5, <1>6 DEF Orderly, LaysOut

LEMMA MoveToSpaceOrderly ==
  ASSUME DeskInv, NEW v \in Views, NEW i, move_to_space(v, i)
  PROVE  Orderly
<1>1. PICK o \in Outputs : o = OutputOf(v) /\ v \in Range(views[o])
  BY OpenIs DEF move_to_space
<1>2. /\ i \in Spaces[o]
      /\ mask' = [mask EXCEPT ![v] = i] /\ space' = [space EXCEPT ![o] = i]
      /\ \E s \in Raised(views[o]) : views' = [views EXCEPT ![o] = s]
      /\ UNCHANGED <<registry, parent, full, size, cut>>
      /\ relayout({o}) /\ {o} \in SUBSET Outputs
  BY <1>1 DEF move_to_space
<1>3. /\ Desktop(views') /\ Open' = Open
      /\ \A p \in Outputs : Range(views'[p]) = Range(views[p])
  BY <1>2, OrderChange
<1>4. RegistryInv' /\ \A p : layout_for_output(p)' = layout_for_output(p)
  BY <1>2, RegistrySame
<1>5. \A p \in Outputs : p # o => v \notin Range(views[p])
  BY <1>1 DEF DeskInv, Desktop
<1>6. ASSUME NEW p \in Outputs, NEW w \in Range(views[p])
      PROVE  /\ mask'[w] \in Spaces[p]
             /\ p # o => mask'[w] = mask[w]
  <2>1. w \in Views
    BY ViewsTyped DEF DeskInv
  <2>2. CASE w = v
    BY <1>2, <1>5, <2>2 DEF DeskInv
  <2>3. CASE w # v
    BY <1>2, <2>1, <2>3 DEF DeskInv
  <2> QED BY <2>2, <2>3
<1>7. DeskInv'
  BY <1>2, <1>3, <1>4, <1>6, RelayoutTyped DEF DeskInv
<1>8. \A p \in Outputs \ {o} : Kept(p)
  BY <1>2, <1>3, <1>4, <1>6 DEF Kept, Shown, DeskInv
<1>9. Families => Families'
  BY <1>2, <1>3 DEF Families
<1> QED BY <1>2, <1>7, <1>8, <1>9 DEF Orderly, LaysOut

LEMMA MoveToOutputOrderly ==
  ASSUME DeskInv, NEW v \in Views, NEW to \in Outputs, move_to_output(v, to)
  PROVE  DeskInv' /\ (~Strays => Orderly)
<1>1. PICK from \in Outputs : from = OutputOf(v) /\ v \in Range(views[from])
  BY OpenIs DEF move_to_output
<1>2. /\ from # to
      /\ views' = [views EXCEPT ![from] = Without(@, {v}), ![to] = Append(@, v)]
      /\ mask' = [mask EXCEPT ![v] = space[to]]
      /\ UNCHANGED <<registry, parent, full, space, size, cut>>
      /\ relayout({from, to}) /\ {from, to} \in SUBSET Outputs
      /\ Strays \/ (parent[v] = NULL /\ \A w \in Open : parent[w] # v)
  BY <1>1 DEF move_to_output
<1>3. \A q \in Outputs : q # from => v \notin Range(views[q])
  BY <1>1 DEF DeskInv, Desktop
<1>4. PICK s \in Seq(Views) : s = Without(views[from], {v}) /\ IsInjective(s)
                               /\ Range(s) = Range(views[from]) \ {v}
  BY WithoutContents DEF DeskInv, Desktop
<1>5. PICK t \in Seq(Views) : t = Append(views[to], v) /\ IsInjective(t)
                               /\ Range(t) = Range(views[to]) \cup {v}
  BY <1>2, <1>3, Appended DEF DeskInv, Desktop
<1>6. PICK us : us = [views EXCEPT ![from] = s]
  OBVIOUS
<1>7. /\ Desktop(us) /\ us[from] = s
      /\ \A q \in Outputs : q # from => us[q] = views[q]
  <2>1. PICK vs : vs = views
    OBVIOUS
  <2>2. Desktop(vs) /\ \A q \in Outputs : q # from => Range(s) \cap Range(vs[q]) = {}
    BY <1>4, <2>1 DEF DeskInv, Desktop
  <2>3. /\ Desktop([vs EXCEPT ![from] = s])
        /\ [vs EXCEPT ![from] = s][from] = s
        /\ \A q \in Outputs : q # from => [vs EXCEPT ![from] = s][q] = vs[q]
    <3>1. IsInjective(s)
      BY <1>4
    <3> QED BY <2>2, <3>1, DesktopExcept
  <2> QED BY <1>6, <2>1, <2>3
<1>8. views' = [us EXCEPT ![to] = t]
  <2>1. DOMAIN views = Outputs
    BY DEF DeskInv, Desktop
  <2> QED BY <1>2, <1>4, <1>5, <1>6, <2>1
<1>9. /\ Desktop(views') /\ views'[to] = t
      /\ \A q \in Outputs : q # to => views'[q] = us[q]
  <2>1. ASSUME NEW q \in Outputs, q # to PROVE Range(t) \cap Range(us[q]) = {}
    <3>1. Range(us[q]) \subseteq Range(views[q]) /\ v \notin Range(us[q])
      BY <1>3, <1>4, <1>7
    <3>2. Range(views[to]) \cap Range(views[q]) = {}
      BY <2>1 DEF DeskInv, Desktop
    <3> QED BY <1>5, <3>1, <3>2
  <2>2. /\ Desktop([us EXCEPT ![to] = t])
        /\ [us EXCEPT ![to] = t][to] = t
        /\ \A q \in Outputs : q # to => [us EXCEPT ![to] = t][q] = us[q]
    <3>1. IsInjective(t) /\ Desktop(us)
      BY <1>5, <1>7
    <3> QED BY <2>1, <3>1, DesktopExcept
  <2> QED BY <1>8, <2>2
<1>10. /\ Range(views'[from]) = Range(views[from]) \ {v}
       /\ Range(views'[to]) = Range(views[to]) \cup {v}
       /\ \A q \in Outputs : q # from /\ q # to => views'[q] = views[q]
  BY <1>2, <1>4, <1>5, <1>7, <1>9
<1>11. \A q \in Outputs : \A w : w \in Range(views'[q]) =>
          (w \in Range(views[q]) /\ w # v) \/ (w = v /\ q = to)
  BY <1>2, <1>3, <1>10
<1>12. RegistryInv' /\ \A q : layout_for_output(q)' = layout_for_output(q)
  BY <1>2, RegistrySame
<1>13. \A q \in Outputs : \A w \in Range(views'[q]) : mask'[w] \in Spaces[q]
  <2> SUFFICES ASSUME NEW q \in Outputs, NEW w \in Range(views'[q]) PROVE mask'[w] \in Spaces[q]
    OBVIOUS
  <2>1. CASE w \in Range(views[q]) /\ w # v
    <3>1. w \in Views
      BY <2>1, ViewsTyped DEF DeskInv
    <3> QED BY <1>2, <2>1, <3>1 DEF DeskInv
  <2>2. CASE w = v /\ q = to
    BY <1>2, <2>2 DEF DeskInv
  <2> QED BY <1>11, <2>1, <2>2
<1>14. full' \subseteq Open'
  <2>1. ASSUME NEW w \in Open PROVE w \in Open'
    <3>1. PICK q \in Outputs : w \in Range(views[q])
      BY <2>1 DEF Open
    <3>2. CASE w = v
      BY <1>10, <3>2 DEF Open
    <3>3. CASE w # v
      <4>1. w \in Range(views'[q])
        BY <1>10, <3>1, <3>3
      <4> QED BY <4>1 DEF Open
    <3> QED BY <3>2, <3>3
  <2> QED BY <1>2, <2>1 DEF DeskInv
<1>15. DeskInv'
  BY <1>2, <1>9, <1>12, <1>13, <1>14, RelayoutTyped DEF DeskInv
<1>16. \A q \in Outputs \ {from, to} : Kept(q)
  <2>1. ASSUME NEW q \in Outputs \ {from, to}, NEW w \in Range(views[q]) PROVE mask'[w] = mask[w]
    <3>1. w # v
      BY <1>3
    <3> QED BY <1>2, <3>1, ViewsTyped DEF DeskInv
  <2> QED BY <1>2, <1>10, <1>12, <2>1 DEF Kept, Shown
<1>17. ASSUME Families, ~Strays PROVE Families'
  <2> SUFFICES ASSUME NEW w \in Views, parent[w] # NULL
               PROVE  \E q \in Outputs : w \in Range(views'[q]) /\ parent[w] \in Range(views'[q])
    BY <1>2 DEF Families
  <2>1. PICK q \in Outputs : w \in Range(views[q]) /\ parent[w] \in Range(views[q])
    BY <1>17 DEF Families
  <2>2. w # v /\ parent[w] # v
    BY <1>2, <1>17, <2>1 DEF Open
  <2> QED BY <1>10, <2>1, <2>2
<1> QED BY <1>2, <1>15, <1>16, <1>17 DEF Orderly, LaysOut

\* The steps that lay nothing out.
Still ==
    /\ DeskInv' /\ (Families => Families')
    /\ \A p \in Outputs :
         /\ Shown(p)
         /\ \A v \in Range(views[p]) : parent[v] = NULL => geometry'[v] = geometry[v]
         /\ p \in settled' => p \in settled /\ layout_for_output(p)' = layout_for_output(p)

LEMMA RegistryStill ==
  ASSUME DeskInv, RegistryStep
  PROVE  Still
<1>1. /\ RegistryNext /\ UNCHANGED <<desk, geometry>>
      /\ settled' = {o \in settled : layout_for_output(o)' = layout_for_output(o)}
  BY DEF RegistryStep
<1>2. RegistryInv'
  BY <1>1, RegistryStays DEF RegistryMove, DeskInv
<1>3. DeskInv'
  BY <1>1, <1>2 DEF DeskInv, desk, Open
<1>4. Families => Families'
  BY <1>1 DEF Families, desk
<1>5. \A p \in Outputs : Shown(p)
  BY <1>1 DEF Shown, desk
<1> QED BY <1>1, <1>3, <1>4, <1>5 DEF Still

LEMMA RequestStill ==
  ASSUME DeskInv, NEW v \in Views, view_geometry_request(v)
  PROVE  Still
<1>1. /\ ~is_tiled(v) /\ v \notin full /\ geometry' = [geometry EXCEPT ![v] = Own]
      /\ UNCHANGED <<registry, desk, settled>>
  BY DEF view_geometry_request
<1>2. parent[v] # NULL
  BY <1>1 DEF is_tiled
<1>3. RegistryInv' /\ \A p : layout_for_output(p)' = layout_for_output(p)
  BY <1>1, RegistrySame
<1>4. DeskInv'
  BY <1>1, <1>3 DEF DeskInv, desk, Open
<1>5. Families => Families'
  BY <1>1 DEF Families, desk
<1>6. \A p \in Outputs : Shown(p)
  BY <1>1 DEF Shown, desk
<1>7. \A p \in Outputs : \A w \in Range(views[p]) : parent[w] = NULL => geometry'[w] = geometry[w]
  BY <1>1, <1>2, ViewsTyped DEF DeskInv
<1> QED BY <1>1, <1>3, <1>4, <1>5, <1>6, <1>7 DEF Still

LEMMA FocusStill ==
  ASSUME DeskInv, NEW o \in Outputs, focus_view(o)
  PROVE  Still
<1>1. /\ \E s \in Raised(views[o]) : views' = [views EXCEPT ![o] = s]
      /\ UNCHANGED <<registry, parent, full, mask, space, size, cut, geometry, settled>>
  BY DEF focus_view, NoLayout
<1>2. /\ Desktop(views') /\ Open' = Open
      /\ \A p \in Outputs : Range(views'[p]) = Range(views[p])
  BY <1>1, OrderChange
<1>3. RegistryInv' /\ \A p : layout_for_output(p)' = layout_for_output(p)
  BY <1>1, RegistrySame
<1>4. DeskInv'
  BY <1>1, <1>2, <1>3 DEF DeskInv
<1>5. Families => Families'
  BY <1>1, <1>2 DEF Families
<1>6. \A p \in Outputs : Shown(p)
  BY <1>1, <1>2 DEF Shown
<1> QED BY <1>1, <1>3, <1>4, <1>5, <1>6 DEF Still

LEMMA StutterStill ==
  ASSUME DeskInv, UNCHANGED pvars
  PROVE  Still
<1>1. UNCHANGED <<registry, desk, geometry, settled>>
  BY DEF pvars
<1>2. RegistryInv' /\ \A p : layout_for_output(p)' = layout_for_output(p)
  BY <1>1, RegistrySame
<1>3. DeskInv'
  BY <1>1, <1>2 DEF DeskInv, desk, Open
<1>4. Families => Families'
  BY <1>1 DEF Families, desk
<1>5. \A p \in Outputs : Shown(p)
  BY <1>1 DEF Shown, desk
<1> QED BY <1>1, <1>2, <1>3, <1>4, <1>5 DEF Still

LEMMA StepOrderly ==
  ASSUME DeskInv, [Next]_pvars
  PROVE  DeskInv' /\ (~Strays => Orderly \/ Still)
<1>1. ASSUME NEW o \in Outputs,
             \/ key_cb_next_layout(o) \/ key_cb_cycle_clients(o) \/ key_cb_nmaster(o)
             \/ \E s \in Sizes[o] : output_resolution(o, s)
             \/ \E i \in Spaces[o] : focus_space(o, i)
             \/ \E v \in Views, p \in Views \cup {NULL} : view_created(o, v, p)
      PROVE  Orderly
  BY <1>1, NextLayoutOrderly, CycleOrderly, CutOrderly, ResolutionOrderly, SpaceOrderly,
     CreatedOrderly
<1>2. ASSUME NEW v \in Views,
             \/ view_state_request(v) \/ view_destroyed(v)
             \/ \E i \in UNION {Spaces[o] : o \in Outputs} : move_to_space(v, i)
      PROVE  Orderly
  BY <1>2, StateOrderly, DestroyedOrderly, MoveToSpaceOrderly
<1>3. ASSUME NEW v \in Views, NEW o \in Outputs, move_to_output(v, o)
      PROVE  DeskInv' /\ (~Strays => Orderly)
  BY <1>3, MoveToOutputOrderly
<1>4. ASSUME RegistryStep PROVE Still
  BY <1>4, RegistryStill
<1>5. ASSUME NEW o \in Outputs, focus_view(o) PROVE Still
  BY <1>5, FocusStill
<1>6. ASSUME NEW v \in Views, view_geometry_request(v) PROVE Still
  BY <1>6, RequestStill
<1>7. ASSUME UNCHANGED pvars PROVE Still
  BY <1>7, StutterStill
<1>8. (Orderly => DeskInv') /\ (Still => DeskInv')
  BY DEF Orderly, Still
<1> QED BY <1>1, <1>2, <1>3, <1>4, <1>5, <1>6, <1>7, <1>8 DEF Next

-----------------------------------------------------------------------------
(* What relayout leaves behind *)

FullscreenOn(o) ==
    \A v \in Range(views[o]) :
        v \in full /\ parent[v] = NULL /\ Visible(o, v) => geometry[v] = Whole(o)

Known == {"nmaster", "grid", "monocle"}

TilesBy(l, r, n, c) ==
    CASE l.name = "nmaster" -> nmaster(r, n, c)
      [] l.name = "grid" -> grid(r, n)
      [] OTHER -> monocle(r, n)

\* The tiled views of output o have the tiles that its layout has made, by
\* the cut of that time, and one each.  Which view has which does not matter:
\* the focus changes the order of views and lays nothing out.
LaidOut(o) ==
    LET l == layout_for_output(o)
        T == Range(views[o]) \cap Tiled(o)
    IN  l # NULL /\ l.name \in Known =>
          \E c \in 0..100, n \in Nat : \E f \in Bijection(T, 1..n) :
             \A v \in T : geometry[v] = TilesBy(l, Whole(o), n, c)[f[v]]

PlaceInv ==
    /\ \A o \in Outputs : FullscreenOn(o)
    /\ \A o \in settled : LaidOut(o)

\* The number that relayout gives to each view of s in T, first to last.
Numbering(f, s, T) ==
    /\ f \in Bijection(Range(s) \cap T, 1..Cardinality(Places(s, T)))
    /\ \A v \in Range(s) \cap T :
         f[v] = CHOOSE j \in 1..Cardinality(Places(s, T)) : s[Place(Places(s, T), j)] = v

LEMMA Numbered ==
  ASSUME NEW S, NEW s \in Seq(S), NEW T, IsInjective(s)
  PROVE  /\ \A v : v \in Range(s) \cap T <=> \E i \in Places(s, T) : s[i] = v
         /\ \E f : Numbering(f, s, T)
         /\ Cardinality(Places(s, T)) \in Nat
<1> DEFINE at == Places(s, T)
           n == Cardinality(at)
           nth(j) == Place(at, j)
           R == Range(s) \cap T
           f == [v \in R |-> CHOOSE j \in 1..n : s[nth(j)] = v]
<1>1. /\ n \in Nat /\ at \subseteq DOMAIN s
      /\ \A j \in 1..n : nth(j) \in at /\ \A i \in 1..n : i < j => nth(i) < nth(j)
      /\ \A i \in at : \E j \in 1..n : nth(j) = i
      /\ DOMAIN s = 1..Len(s) /\ Len(s) \in Nat
  BY PlacesInOrder
<1>2. \A v : v \in R <=> \E i \in at : s[i] = v
  BY DEF Range, Places
<1> HIDE DEF at, n, nth, R
<1>3. \A j \in 1..n, k \in 1..n : s[nth(j)] = s[nth(k)] => j = k
  <2>1. \A j \in 1..n, k \in 1..n : nth(j) = nth(k) => j = k
    BY <1>1
  <2> QED BY <1>1, <2>1 DEF IsInjective
<1>4. ASSUME NEW v \in R PROVE \E j \in 1..n : s[nth(j)] = v
  BY <1>1, <1>2
<1>5. \A v \in R : f[v] \in 1..n /\ s[nth(f[v])] = v
  BY <1>4
<1>6. \A j \in 1..n : s[nth(j)] \in R
  BY <1>1, <1>2
<1>7. f \in [R -> 1..n]
  BY <1>5
<1>10. \A v \in R : f[v] = CHOOSE j \in 1..n : s[nth(j)] = v
  OBVIOUS
<1> HIDE DEF f
<1>8. \A j \in 1..n : f[s[nth(j)]] = j
  BY <1>3, <1>5, <1>6
<1>9. f \in Bijection(R, 1..n)
  BY <1>5, <1>6, <1>7, <1>8 DEF Bijection, Injection, Surjection, IsInjective
<1>11. Numbering(f, s, T)
  BY <1>9, <1>10 DEF Numbering, at, n, nth, R
<1> QED BY <1>1, <1>2, <1>11 DEF at, n, R

LEMMA RelayoutElsewhere ==
  ASSUME DeskInv', NEW os \in SUBSET Outputs, relayout(os),
         NEW p \in Outputs, p \notin os, NEW v \in Range(views'[p])
  PROVE  geometry'[v] = geometry[v]
<1>1. Desktop(views')
  BY DEF DeskInv
<1>2. v \in Views /\ v \in Open' /\ OutputOf(v)' = p
  BY <1>1, ViewsTyped, Placed DEF OutputOf, Open
<1> QED BY <1>2 DEF relayout

LEMMA RelayoutFresh ==
  ASSUME DeskInv', NEW os \in SUBSET Outputs, relayout(os), NEW o \in os
  PROVE  FullscreenOn(o)' /\ LaidOut(o)'
<1>1. Desktop(views')
  BY DEF DeskInv
<1>2. PICK g : g = geometry
  OBVIOUS
<1>3. ASSUME NEW v \in Range(views'[o]) PROVE v \in Views /\ geometry'[v] = place(o, g)'[v]
  <2>1. v \in Views /\ v \in Open' /\ OutputOf(v)' = o
    BY <1>1, ViewsTyped, Placed DEF OutputOf, Open
  <2> QED BY <1>2, <2>1 DEF relayout
<1>4. PICK s \in Seq(Views) : s = views'[o] /\ IsInjective(s)
  BY <1>1 DEF Desktop
<1>5. PICK T : T = Tiled(o)'
  OBVIOUS
<1>6. PICK l, r : l = layout_for_output(o)' /\ r = Whole(o)'
  OBVIOUS
<1> DEFINE at == Places(s, T)
           n == Cardinality(at)
           tiles == Tiles(l, r, n)'
<1>7. \A v : v \in T <=> v \in Views /\ v \notin full' /\ parent'[v] = NULL /\ Visible(o, v)'
  BY <1>5 DEF Tiled, Takes, is_tiled
<1>8. place(o, g)' = IF l = NULL THEN float(o, g)'
                     ELSE [v \in Views |-> IF \E i \in at : s[i] = v
                             THEN tiles[CHOOSE j \in 1..n : s[Place(at, j)] = v]
                             ELSE float(o, g)'[v]]
  BY <1>4, <1>5, <1>6 DEF place, tile
<1> HIDE DEF tiles
<1>9. /\ \A v : v \in Range(s) \cap T <=> \E i \in at : s[i] = v
      /\ n \in Nat
  BY <1>4, Numbered
<1>12. PICK f \in Bijection(Range(s) \cap T, 1..n) :
         \A v \in Range(s) \cap T : f[v] = CHOOSE j \in 1..n : s[Place(at, j)] = v
  <2>1. PICK f : Numbering(f, s, T)
    BY <1>4, Numbered
  <2> QED BY <2>1 DEF Numbering
<1> HIDE DEF at, n
<1>10. FullscreenOn(o)'
  <2> SUFFICES ASSUME NEW v \in Range(s), v \in full', parent'[v] = NULL, Visible(o, v)'
               PROVE  geometry'[v] = r
    BY <1>4, <1>6 DEF FullscreenOn
  <2>1. v \in Views /\ geometry'[v] = place(o, g)'[v] /\ ~\E i \in at : s[i] = v
    BY <1>3, <1>4, <1>7, <1>9
  <2>2. place(o, g)'[v] = float(o, g)'[v]
    BY <1>8, <2>1
  <2>3. float(o, g)'[v] = r
    BY <1>4, <1>6, <2>1 DEF float
  <2> QED BY <2>1, <2>2, <2>3
<1>11. LaidOut(o)'
  <2> SUFFICES ASSUME l # NULL, l.name \in Known
               PROVE  \E c \in 0..100, m \in Nat : \E k \in Bijection(Range(s) \cap T, 1..m) :
                         \A v \in Range(s) \cap T : geometry'[v] = TilesBy(l, r, m, c)[k[v]]
    BY <1>4, <1>5, <1>6, ZenonT(60) DEF LaidOut
  <2>1. PICK c \in 0..100 : c = cut'
    BY DEF DeskInv
  <2>2. tiles = TilesBy(l, r, n, c)
    BY <2>1 DEF Tiles, TilesBy, Known, tiles
  <2>3. ASSUME NEW v \in Range(s) \cap T PROVE geometry'[v] = tiles[f[v]]
    <3>1. l # NULL /\ v \in Views /\ geometry'[v] = place(o, g)'[v] /\ \E i \in at : s[i] = v
      BY <1>3, <1>4, <1>9
    <3>2. place(o, g)'[v] = tiles[CHOOSE j \in 1..n : s[Place(at, j)] = v]
      BY <1>8, <3>1
    <3> QED BY <1>12, <3>1, <3>2
  <2> QED BY <1>9, <2>2, <2>3
<1> QED BY <1>10, <1>11

\* An output that shows the same, where it was.
LEMMA OutputKept ==
  ASSUME DeskInv, DeskInv', NEW p \in Outputs, Shown(p),
         \A v \in Range(views[p]) : parent[v] = NULL => geometry'[v] = geometry[v]
  PROVE  /\ FullscreenOn(p) => FullscreenOn(p)'
         /\ LaidOut(p) /\ layout_for_output(p)' = layout_for_output(p) => LaidOut(p)'
<1>1. Whole(p)' = Whole(p)
  BY DEF Shown, Whole
<1>2. ASSUME NEW v \in Range(views[p])
      PROVE  /\ v \in Views /\ (Visible(p, v)' <=> Visible(p, v))
             /\ v \in Tiled(p)' <=> v \in Tiled(p)
  <2>1. v \in Views
    BY ViewsTyped DEF DeskInv
  <2> QED BY <2>1 DEF Shown, Visible, Tiled, Takes, is_tiled
<1>3. FullscreenOn(p) => FullscreenOn(p)'
  BY <1>1, <1>2 DEF FullscreenOn, Shown
<1>4. PICK T : T = Range(views[p]) \cap Tiled(p)
  OBVIOUS
<1>5. (Range(views[p]) \cap Tiled(p))' = T
  BY <1>2, <1>4 DEF Shown
<1>6. \A v \in T : geometry'[v] = geometry[v]
  BY <1>4 DEF Tiled, Takes, is_tiled
<1>7. LaidOut(p) /\ layout_for_output(p)' = layout_for_output(p) => LaidOut(p)'
  <2> SUFFICES ASSUME LaidOut(p), layout_for_output(p)' = layout_for_output(p) PROVE LaidOut(p)'
    OBVIOUS
  <2>1. PICK l, r : l = layout_for_output(p) /\ r = Whole(p)
    OBVIOUS
  <2>2. layout_for_output(p)' = l /\ Whole(p)' = r
    BY <1>1, <2>1
  <2>3. l # NULL /\ l.name \in Known =>
          \E c \in 0..100, n \in Nat : \E f \in Bijection(T, 1..n) :
             \A v \in T : geometry[v] = TilesBy(l, r, n, c)[f[v]]
    BY <1>4, <2>1 DEF LaidOut
  <2>4. l # NULL /\ l.name \in Known =>
          \E c \in 0..100, n \in Nat : \E f \in Bijection(T, 1..n) :
             \A v \in T : geometry'[v] = TilesBy(l, r, n, c)[f[v]]
    <3>1. SUFFICES ASSUME l # NULL /\ l.name \in Known
                   PROVE  \E c \in 0..100, n \in Nat : \E f \in Bijection(T, 1..n) :
                             \A v \in T : geometry'[v] = TilesBy(l, r, n, c)[f[v]]
      OBVIOUS
    <3>2. PICK c \in 0..100, n \in Nat : \E f \in Bijection(T, 1..n) :
                             \A v \in T : geometry[v] = TilesBy(l, r, n, c)[f[v]]
      BY <2>3, <3>1
    <3>3. PICK f \in Bijection(T, 1..n) :
                             \A v \in T : geometry[v] = TilesBy(l, r, n, c)[f[v]]
      BY <3>2
    <3>4. \A v \in T : geometry'[v] = TilesBy(l, r, n, c)[f[v]]
      BY <1>6, <3>3
    <3> QED BY <3>4
  <2> QED BY <1>5, <2>2, <2>4 DEF LaidOut
<1> QED BY <1>3, <1>7

LEMMA PlaceStays ==
  ASSUME DeskInv, Families, PlaceInv, Orderly \/ Still
  PROVE  PlaceInv'
<1>1. CASE Orderly
  <2>1. DeskInv'
    BY <1>1 DEF Orderly
  <2>2. PICK os : LaysOut(os)
    BY <1>1 DEF Orderly
  <2>3. os \in SUBSET Outputs /\ relayout(os) /\ settled' = settled \cup os
    BY <2>2 DEF LaysOut, relayout
  <2>4. ASSUME NEW p \in Outputs \ os
        PROVE  FullscreenOn(p)' /\ (p \in settled => LaidOut(p)')
    <3>1. Shown(p) /\ layout_for_output(p)' = layout_for_output(p)
      BY <2>2 DEF LaysOut, Kept
    <3>2. \A v \in Range(views[p]) : geometry'[v] = geometry[v]
      BY <2>1, <2>3, <3>1, RelayoutElsewhere DEF Shown
    <3> QED BY <2>1, <3>1, <3>2, OutputKept DEF PlaceInv
  <2>5. \A p \in os : FullscreenOn(p)' /\ LaidOut(p)'
    BY <2>1, <2>3, RelayoutFresh
  <2>6. \A p \in settled' : p \in Outputs
    BY <2>1 DEF DeskInv
  <2> QED BY <2>3, <2>4, <2>5, <2>6 DEF PlaceInv
<1>2. CASE Still
  <2>1. DeskInv'
    BY <1>2 DEF Still
  <2>2. ASSUME NEW p \in Outputs PROVE FullscreenOn(p)' /\ (p \in settled' => LaidOut(p)')
    BY <1>2, <2>1, OutputKept DEF PlaceInv, Still
  <2> QED BY <2>1, <2>2 DEF PlaceInv, DeskInv
<1> QED BY <1>1, <1>2

-----------------------------------------------------------------------------
(* The beginning *)

LEMMA RegistryBegins ==
  ASSUME RegistryInit
  PROVE  RegistryInv
BY LayoutConstants DEF RegistryInit, RegistryInv, RegistryTypeOK

LEMMA InitInv ==
  ASSUME Init
  PROVE  DeskInv /\ Families /\ PlaceInv
<1>1. RegistryInv
  BY RegistryBegins DEF Init
<1>2. <<>> \in Seq(Views) /\ Range(<<>>) = {} /\ IsInjective(<<>>)
  BY DEF Range, IsInjective
<1>3. \A o \in Outputs : views[o] = <<>> /\ Range(views[o]) = {}
  BY <1>2 DEF Init
<1>4. Desktop(views)
  BY <1>2, <1>3 DEF Init, Desktop
<1>5. \A o \in Outputs : space[o] \in Spaces[o] /\ size[o] \in Sizes[o]
  BY PlacementConstants DEF Init
<1>6. DeskInv
  <2>1. /\ parent \in [Views -> Views \cup {NULL}] /\ full \subseteq Open
        /\ DOMAIN mask = Views /\ DOMAIN geometry = Views
        /\ DOMAIN space = Outputs /\ DOMAIN size = Outputs
        /\ cut \in 0..100 /\ settled \subseteq Outputs
    BY DEF Init
  <2> QED BY <1>1, <1>3, <1>4, <1>5, <2>1 DEF DeskInv
<1>7. Families
  BY DEF Families, Init
<1>8. ASSUME NEW o \in Outputs PROVE FullscreenOn(o) /\ LaidOut(o)
  <2>1. PICK f : f = [v \in {} |-> 0]
    OBVIOUS
  <2>2. f \in Bijection({}, 1..0) /\ 0 \in Nat /\ 50 \in 0..100
    BY <2>1 DEF Bijection, Injection, Surjection, IsInjective
  <2>3. Range(views[o]) \cap Tiled(o) = {}
    BY <1>3
  <2> QED BY <1>3, <2>2, <2>3 DEF FullscreenOn, LaidOut
<1>9. PlaceInv
  BY <1>8 DEF PlaceInv, Init
<1> QED BY <1>6, <1>7, <1>9

-----------------------------------------------------------------------------
(* The properties *)

LEMMA DeskTypes ==
  ASSUME DeskInv
  PROVE  TypeOK
<1>1. views \in [Outputs -> Seq(Views)]
  BY DEF DeskInv, Desktop
<1>2. Open \subseteq Views /\ \A v \in Open : mask[v] \in Spaces[OutputOf(v)]
  BY OpenIs DEF DeskInv
<1> QED BY <1>1, <1>2 DEF TypeOK, DeskInv, RegistryInv

LEMMA CycleTurnsTiled ==
  ASSUME DeskInv
  PROVE  CycleRotates
<1> SUFFICES ASSUME NEW o \in Outputs
             PROVE  /\ TiledOf(o) # <<>> =>
                         Only(cycle(o), Tiled(o)) = Append(Tail(TiledOf(o)), Head(TiledOf(o)))
                    /\ \A i \in DOMAIN views[o] :
                         ~Takes(o, views[o][i]) => cycle(o)[i] = views[o][i]
  BY DEF CycleRotates
<1>1. PICK s, T : s \in Seq(Views) /\ s = views[o] /\ T = Tiled(o)
  BY ViewsTyped DEF DeskInv
<1>2. cycle(o) = Cycled(s, T)
  BY <1>1 DEF cycle, Cycled
<1>3. \A i \in DOMAIN s : ~Takes(o, s[i]) => s[i] \notin T
  BY <1>1 DEF Tiled
<1>4. /\ Only(s, T) # <<>> =>
           Only(Cycled(s, T), T) = Append(Tail(Only(s, T)), Head(Only(s, T)))
      /\ \A i \in DOMAIN s : s[i] \notin T => Cycled(s, T)[i] = s[i]
  BY <1>1, CycledList
<1> QED BY <1>1, <1>2, <1>3, <1>4 DEF TiledOf

LEMMA PlaceCovers ==
  ASSUME PlaceInv
  PROVE  FullscreenCovers
BY DEF PlaceInv, FullscreenOn, FullscreenCovers

\* The geometries of the tilings, which Own is not one of.
Framed == [origin : Int \X Int, size : Int \X Int]

LEMMA FramedGeometry ==
  ASSUME NEW x \in Int, NEW y \in Int, NEW w \in Int, NEW h \in Int
  PROVE  Geometry(x, y, w, h) \in Framed
BY DEF Geometry, Framed

LEMMA NMasterFramed ==
  ASSUME NEW r \in Regions, NEW n \in Nat, NEW c \in 0..100
  PROVE  DOMAIN nmaster(r, n, c) = 1..n /\ \A i \in 1..n : nmaster(r, n, c)[i] \in Framed
<1> PICK x \in Int, y \in Int, w \in Nat, h \in Nat : r = Geometry(x, y, w, h)
  BY DEF Regions
<1> DEFINE tiles == nmaster(Geometry(x, y, w, h), n, c)
<1>1. CASE n < 2
  <2>1. DOMAIN tiles = 1..n /\ \A i \in 1..n : tiles[i] = r
    BY <1>1 DEF nmaster
  <2> QED BY <2>1, FramedGeometry
<1>2. CASE n >= 2
  <2> MasterAndRows(tiles, x, y, w, h, n)
    BY <1>2, NMasterTiles
  <2> HIDE DEF tiles
  <2>1. PICK slave \in 0..w, mark \in [0..(n - 1) -> Int] :
           /\ mark[0] = y /\ mark[n - 1] = y + h
           /\ \A k \in 1..(n - 1) : mark[k - 1] <= mark[k]
           /\ DOMAIN tiles = 1..n
           /\ tiles[1] = Geometry(x, y, w - slave, h)
           /\ \A k \in 1..(n - 1) : tiles[k + 1]
                = Geometry(x + w - slave, mark[k - 1], slave, mark[k] - mark[k - 1])
    BY DEF MasterAndRows
  <2>2. tiles[1] \in Framed
    BY <2>1, FramedGeometry
  <2>3. ASSUME NEW k \in 1..(n - 1) PROVE tiles[k + 1] \in Framed
    <3>1. k - 1 \in 0..(n - 1) /\ k \in 0..(n - 1)
      OBVIOUS
    <3>2. PICK left \in Int, top \in Int, wide \in Int, high \in Int :
            left = x + w - slave /\ top = mark[k - 1] /\ wide = slave /\ high = mark[k] - top
      BY <3>1
    <3>3. tiles[k + 1] = Geometry(left, top, wide, high)
      BY <2>1, <3>2
    <3> QED BY <3>3, FramedGeometry
  <2>4. ASSUME NEW i \in 1..n PROVE tiles[i] \in Framed
    <3>1. i = 1 \/ (i - 1 \in 1..(n - 1) /\ (i - 1) + 1 = i)
      OBVIOUS
    <3> QED BY <2>2, <2>3, <3>1
  <2>5. DOMAIN tiles = 1..n /\ \A i \in 1..n : tiles[i] \in Framed
    BY <2>1, <2>4
  <2> QED BY <2>5 DEF tiles
<1> QED BY <1>1, <1>2

LEMMA GridFramed ==
  ASSUME NEW r \in Regions, NEW n \in Nat
  PROVE  DOMAIN grid(r, n) = 1..n /\ \A i \in 1..n : grid(r, n)[i] \in Framed
<1> PICK x \in Int, y \in Int, w \in Nat, h \in Nat : r = Geometry(x, y, w, h)
  BY DEF Regions
<1> DEFINE tiles == grid(Geometry(x, y, w, h), n)
<1>1. CASE n = 0
  <2>1. DOMAIN tiles = 1..n /\ 1..n = {}
    BY <1>1 DEF grid
  <2> QED BY <2>1
<1>2. CASE n >= 1
  <2> TwoColumns(tiles, x, y, w, h, n)
    BY <1>2, GridTiles
  <2> HIDE DEF tiles
  <2>1. PICK half \in Nat, height \in Nat :
          /\ half + half <= w
          /\ DOMAIN tiles = 1..n
          /\ \A i \in 1..n :
               /\ y + ((i - 1) \div 2) * height + height <= y + h
               /\ tiles[i] = Geometry(IF i % 2 = 0 THEN x + half ELSE x,
                                      y + ((i - 1) \div 2) * height,
                                      IF i % 2 = 1 /\ i = n THEN w ELSE half, height)
    BY DEF TwoColumns
  <2>2. ASSUME NEW i \in 1..n PROVE tiles[i] \in Framed
    <3>1. PICK row \in Nat : row = (i - 1) \div 2
      BY GridRows
    <3>2. row * height \in Nat
      BY Product
    <3>3. PICK left \in Int, top \in Int, wide \in Int :
            /\ left = (IF i % 2 = 0 THEN x + half ELSE x)
            /\ top = y + row * height
            /\ wide = (IF i % 2 = 1 /\ i = n THEN w ELSE half)
      BY <3>2
    <3>4. tiles[i] = Geometry(left, top, wide, height)
      BY <2>1, <3>1, <3>3
    <3> QED BY <3>4, FramedGeometry
  <2>3. DOMAIN tiles = 1..n /\ \A i \in 1..n : tiles[i] \in Framed
    BY <2>1, <2>2
  <2> QED BY <2>3 DEF tiles
<1> QED BY <1>1, <1>2

\* The order of tiles does not matter.
LEMMA Reindexed ==
  ASSUME NEW tiles, NEW ts, NEW k \in [DOMAIN ts -> DOMAIN tiles],
         \A i \in DOMAIN ts, j \in DOMAIN ts : k[i] = k[j] => i = j,
         \A m \in DOMAIN tiles : \E i \in DOMAIN ts : k[i] = m,
         \A i \in DOMAIN ts : ts[i] = tiles[k[i]],
         NEW r
  PROVE  /\ Inside(tiles, r) => Inside(ts, r)
         /\ Apart(tiles) => Apart(ts)
         /\ Covered(tiles, r) => Covered(ts, r)
<1>1. \A i \in DOMAIN ts : k[i] \in DOMAIN tiles
  OBVIOUS
<1>2. Inside(tiles, r) => Inside(ts, r)
  BY <1>1 DEF Inside
<1>3. Apart(tiles) => Apart(ts)
  BY <1>1 DEF Apart
<1>4. \A m \in DOMAIN tiles : \E i \in DOMAIN ts : Pixels(ts[i]) = Pixels(tiles[m])
  OBVIOUS
<1>5. Covered(tiles, r) => Covered(ts, r)
  BY <1>4 DEF Covered
<1> QED BY <1>2, <1>3, <1>5

LEMMA PlaceFits ==
  ASSUME DeskInv, PlaceInv
  PROVE  TilesFit
<1> SUFFICES ASSUME NEW o \in settled, NEW l, l = layout_for_output(o), l # NULL, l.name \in Known
    PROVE  /\ Own \notin Range(TilesOf(o))
           /\ CASE l.name = "nmaster" -> TiledOf(o) # <<>> => Partition(TilesOf(o), Whole(o))
                [] l.name = "grid" -> Inside(TilesOf(o), Whole(o)) /\ Apart(TilesOf(o))
                [] OTHER -> Range(TilesOf(o)) \subseteq {Whole(o)}
  BY DEF TilesFit, Known
<1>1. o \in Outputs /\ LaidOut(o)
  BY DEF DeskInv, PlaceInv
<1>2. PICK r \in Regions : r = Whole(o)
  <2>1. size[o] \in Nat \X Nat
    BY <1>1, PlacementConstants DEF DeskInv
  <2>2. 0 \in Int /\ size[o][1] \in Nat /\ size[o][2] \in Nat
    BY <2>1
  <2> QED BY <2>2 DEF Whole, Regions
<1>3. PICK T : T = Range(views[o]) \cap Tiled(o)
  OBVIOUS
<1>4. PICK c \in 0..100, n \in Nat : \E f \in Bijection(T, 1..n) :
         \A v \in T : geometry[v] = TilesBy(l, r, n, c)[f[v]]
  BY <1>1, <1>2, <1>3 DEF LaidOut
<1>5. PICK f \in Bijection(T, 1..n) : \A v \in T : geometry[v] = TilesBy(l, r, n, c)[f[v]]
  BY <1>4
<1>6. /\ f \in [T -> 1..n] /\ \A m \in 1..n : \E v \in T : f[v] = m
      /\ \A v \in T, w \in T : f[v] = f[w] => v = w
  BY <1>5 DEF Bijection, Injection, Surjection, IsInjective
<1>7. PICK vs \in Seq(Views) : vs = TiledOf(o) /\ Range(vs) = T /\ IsInjective(vs)
  <2>1. PICK s, U : s \in Seq(Views) /\ s = views[o] /\ U = Tiled(o) /\ IsInjective(s)
    BY <1>1, ViewsTyped DEF DeskInv, Desktop
  <2> QED BY <1>3, <2>1, OnlyContents DEF TiledOf
<1>8. PICK tiles : tiles = TilesBy(l, r, n, c)
  OBVIOUS
<1>9. DOMAIN tiles = 1..n /\ \A i \in 1..n : tiles[i] \in Framed
  <2>1. r \in Framed
    <3>1. PICK x \in Int, y \in Int, w \in Nat, h \in Nat : r = Geometry(x, y, w, h)
      BY DEF Regions
    <3> QED BY <3>1, FramedGeometry
  <2>2. DOMAIN monocle(r, n) = 1..n /\ \A i \in 1..n : monocle(r, n)[i] \in Framed
    BY <2>1 DEF monocle
  <2> QED BY <1>8, <2>2, NMasterFramed, GridFramed DEF TilesBy
<1>10. PICK ts : ts = TilesOf(o)
  OBVIOUS
<1> DEFINE k == [i \in DOMAIN vs |-> f[vs[i]]]
<1>11. \A i \in DOMAIN vs : vs[i] \in T
  BY <1>7 DEF Range
<1>12. \A v \in T : \E i \in DOMAIN vs : vs[i] = v
  BY <1>7 DEF Range
<1>13. /\ DOMAIN ts = DOMAIN vs /\ k \in [DOMAIN ts -> DOMAIN tiles]
       /\ \A i \in DOMAIN ts : ts[i] = tiles[k[i]]
  <2>1. ts = [i \in DOMAIN vs |-> geometry[vs[i]]]
    BY <1>7, <1>10 DEF TilesOf
  <2> QED BY <1>5, <1>6, <1>8, <1>9, <1>11, <2>1
<1>14. \A i \in DOMAIN ts, j \in DOMAIN ts : k[i] = k[j] => i = j
  BY <1>6, <1>7, <1>11, <1>13 DEF IsInjective
<1>15. \A m \in DOMAIN tiles : \E i \in DOMAIN ts : k[i] = m
  BY <1>6, <1>9, <1>12, <1>13
<1> HIDE DEF k
<1>16. /\ Inside(tiles, r) => Inside(ts, r)
       /\ Apart(tiles) => Apart(ts)
       /\ Covered(tiles, r) => Covered(ts, r)
  BY <1>13, <1>14, <1>15, Reindexed
<1>17. \A i \in DOMAIN ts : k[i] \in 1..n
  BY <1>9, <1>13
<1>18. Own \notin Range(ts)
  BY <1>9, <1>13, <1>17, PlacementConstants DEF Framed, Range
<1>19. CASE l.name = "nmaster"
  <2>1. tiles = nmaster(r, n, c)
    BY <1>8, <1>19 DEF TilesBy
  <2>2. ASSUME vs # <<>> PROVE Partition(ts, r)
    <3>1. 1 \in DOMAIN vs
      BY <1>7, <2>2, EmptySeq, LenProperties
    <3>2. n >= 1
      BY <1>13, <1>17, <3>1
    <3> QED BY <1>16, <2>1, <3>2, NMasterPartition DEF Partition
  <2> QED BY <1>2, <1>7, <1>10, <1>18, <1>19, <2>2
<1>20. CASE l.name = "grid"
  <2>1. tiles = grid(r, n)
    BY <1>8, <1>20 DEF TilesBy
  <2>2. Inside(ts, r) /\ Apart(ts)
    BY <1>16, <2>1, GridApart
  <2> QED BY <1>2, <1>10, <1>18, <1>20, <2>2
<1>21. CASE l.name # "nmaster" /\ l.name # "grid"
  <2>1. tiles = monocle(r, n)
    BY <1>8, <1>21 DEF TilesBy
  <2>2. \A i \in DOMAIN ts : ts[i] = r
    BY <1>13, <1>17, <2>1 DEF monocle
  <2>3. Range(ts) \subseteq {r}
    BY <2>2 DEF Range
  <2> QED BY <1>2, <1>10, <1>18, <1>21, <2>3
<1> QED BY <1>19, <1>20, <1>21

LEMMA DeskStays == Spec => []DeskInv
<1>1. Init => DeskInv
  BY InitInv
<1>2. DeskInv /\ [Next]_pvars => DeskInv'
  BY StepOrderly
<1> QED BY <1>1, <1>2, PTL DEF Spec

\* Each variable holds what it should: a view is on one output at a time, on
\* a space of that output, and the cut of nmaster stays between 0 and 100.
THEOREM PlacementTypeCorrect == Spec => []TypeOK
<1>1. DeskInv => TypeOK
  BY DeskTypes
<1> QED BY <1>1, DeskStays, PTL

\* As long as there are layouts each output has one, whatever layouts plugins
\* add and remove: the indices that remove_layout_ptr keeps stay in range.
THEOREM OutputsKeepALayout == Spec => []EveryOutputHasLayout
<1>1. DeskInv => EveryOutputHasLayout
  BY LayoutsInRange DEF DeskInv
<1> QED BY <1>1, DeskStays, PTL

\* Whatever step a handler takes, an output keeps its layout unless that one,
\* or one in front of it, is removed, or its own key changes it.
THEOREM LayoutsStay == Spec => LayoutKept
<1>1. DeskInv /\ [Next]_pvars => [OthersKeepLayout]_registry
  <2> SUFFICES ASSUME DeskInv, [Next]_pvars PROVE [OthersKeepLayout]_registry
    OBVIOUS
  <2>1. CASE RegistryMove
    BY <2>1, LayoutsAreKept DEF DeskInv
  <2>2. CASE ~RegistryMove
    <3>1. ~RegistryStep /\ \A o \in Outputs : ~key_cb_next_layout(o)
      BY <2>2 DEF RegistryMove, RegistryStep, key_cb_next_layout
    <3>2. CASE UNCHANGED pvars
      BY <3>2 DEF pvars
    <3>3. CASE \E o \in Outputs :
                 \/ key_cb_cycle_clients(o) \/ key_cb_nmaster(o) \/ focus_view(o)
                 \/ \E s \in Sizes[o] : output_resolution(o, s)
                 \/ \E i \in Spaces[o] : focus_space(o, i)
                 \/ \E v \in Views, p \in Views \cup {NULL} : view_created(o, v, p)
      <4>1. UNCHANGED registry
        BY <3>3 DEF key_cb_cycle_clients, key_cb_nmaster, focus_view, output_resolution,
                    focus_space, view_created
      <4> QED BY <4>1
    <3>4. CASE \E v \in Views :
                 \/ view_geometry_request(v) \/ view_state_request(v) \/ view_destroyed(v)
                 \/ \E i \in UNION {Spaces[o] : o \in Outputs} : move_to_space(v, i)
                 \/ \E o \in Outputs : move_to_output(v, o)
      <4>1. UNCHANGED registry
        BY <3>4 DEF view_geometry_request, view_state_request, view_destroyed, move_to_space,
                    move_to_output
      <4> QED BY <4>1
    <3> QED BY <3>1, <3>2, <3>3, <3>4 DEF Next
  <2> QED BY <2>1, <2>2
<1>2. LayoutKept <=> [][OthersKeepLayout]_registry
  BY DEF LayoutKept, OthersKeepLayout
<1> QED BY <1>1, <1>2, DeskStays, PTL DEF Spec

\* The cycle key turns the tiled views that are shown round by one place and
\* leaves the other views where they are, for lists of every length.
THEOREM CycleTurns == Spec => []CycleRotates
<1>1. DeskInv => CycleRotates
  BY CycleTurnsTiled
<1> QED BY <1>1, DeskStays, PTL

LEMMA PlacesStay ==
  ASSUME ~Strays
  PROVE  Spec => [](DeskInv /\ Families /\ PlaceInv)
<1>1. Init => DeskInv /\ Families /\ PlaceInv
  BY InitInv
<1>2. DeskInv /\ Families /\ PlaceInv /\ [Next]_pvars => (DeskInv /\ Families /\ PlaceInv)'
  <2> SUFFICES ASSUME DeskInv, Families, PlaceInv, [Next]_pvars
               PROVE  (DeskInv /\ Families /\ PlaceInv)'
    OBVIOUS
  <2>1. DeskInv' /\ (Orderly \/ Still)
    BY StepOrderly
  <2>2. Families'
    BY <2>1 DEF Orderly, Still
  <2>3. PlaceInv'
    BY <2>1, PlaceStays
  <2> QED BY <2>1, <2>2, <2>3
<1> QED BY <1>1, <1>2, PTL DEF Spec

\* A fullscreen window covers its output after every handler, as long as
\* dialogs stay on the output of their parents.
THEOREM FullscreenStays ==
  ASSUME ~Strays
  PROVE  Spec => []FullscreenCovers
<1>1. PlaceInv => FullscreenCovers
  BY PlaceCovers
<1> QED BY <1>1, PlacesStay, PTL

\* After every handler the tiled views of an output have the tiles that its
\* layout makes, one each, so they fill it under nmaster and do not overlap:
\* no handler forgets an output that it has changed.
THEOREM TilesStay ==
  ASSUME ~Strays
  PROVE  Spec => []TilesFit
<1>1. DeskInv /\ PlaceInv => TilesFit
  BY PlaceFits
<1> QED BY <1>1, PlacesStay, PTL
=============================================================================
