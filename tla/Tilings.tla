------------------------------ MODULE Tilings ------------------------------
(***************************************************************************)
(* The layout functions of src/plugins/core-layouts/core-layouts.c, as     *)
(* operators: from the region and the number of views to the sequence of   *)
(* the geometries that the views get, first to last.  A geometry is wlc's  *)
(* struct wlc_geometry; cut is config.nmaster.cut in hundredths.           *)
(***************************************************************************)
EXTENDS Integers, Sequences, FiniteSets, FiniteSetsExt

Geometry(x, y, w, h) == [origin |-> <<x, y>>, size |-> <<w, h>>]

\* The keys that move the cut of nmaster, by step hundredths.
grow_on(cut, step) == cut + step    \* mutant: no end
grow(cut, step) == Min({cut + step, 100})
shrink(cut, step) == Max({cut - step, 0})

\* One master, the others stacked beside it; the first of these is higher by
\* what the division leaves over.
nmaster(r, memb, cut) ==
    LET x == r.origin[1]  y == r.origin[2]  w == r.size[1]  h == r.size[2]
        slave == (w * cut) \div 100
        height == h \div Max({memb - 1, 1})
        fheight == h - height * (memb - 2)
    IN  [i \in 1..memb |->
            IF memb = 1 THEN r
            ELSE IF i = 1 THEN Geometry(x, y, w - slave, h)
            ELSE IF i = 2 THEN Geometry(x + w - slave, y, slave, fheight)
            ELSE Geometry(x + w - slave, y + fheight + (i - 3) * height, slave, height)]

\* Two columns; the last view has its row for itself if their number is odd.
grid(r, memb) ==
    LET x == r.origin[1]  y == r.origin[2]
        w == r.size[1] \div 2
        h == r.size[2] \div Max({(1 + memb) \div 2, 1})
    IN  [i \in 1..memb |->
            Geometry(IF i % 2 = 0 THEN x + w ELSE x, y + ((i - 1) \div 2) * h,
                     IF i % 2 = 1 /\ i = memb THEN r.size[1] ELSE w, h)]

monocle(r, memb) == [i \in 1..memb |-> r]

-----------------------------------------------------------------------------
(* What a tiling is, pixel by pixel *)

Pixels(g) ==
    (g.origin[1] .. g.origin[1] + g.size[1] - 1) \X (g.origin[2] .. g.origin[2] + g.size[2] - 1)

Inside(tiles, r) == \A i \in DOMAIN tiles : Pixels(tiles[i]) \subseteq Pixels(r)

Apart(tiles) ==
    \A i, j \in DOMAIN tiles : i # j => Pixels(tiles[i]) \cap Pixels(tiles[j]) = {}

Covered(tiles, r) == Pixels(r) \subseteq UNION {Pixels(tiles[i]) : i \in DOMAIN tiles}

Partition(tiles, r) == Inside(tiles, r) /\ Apart(tiles) /\ Covered(tiles, r)

\* nmaster fills the region without overlap for any number of views and any
\* cut; grid stays inside without overlap, but leaves a row or a column over
\* when the region does not divide evenly.
TilingsCover ==
    \A w \in 0..5, h \in 0..7, memb \in 1..6 :
        LET r == Geometry(3, 2, w, h) IN
          /\ \A c \in {0, 1, 25, 50, 99, 100} : Partition(nmaster(r, memb, c), r)
          /\ Inside(grid(r, memb), r) /\ Apart(grid(r, memb))
============================================================================
