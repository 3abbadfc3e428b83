------------------------------ MODULE MCLayout ------------------------------
(***************************************************************************)
(* Layouts of core-layouts and one of another plugin, two outputs.         *)
(***************************************************************************)
EXTENDS Placement, TLC

NMaster == [name |-> "nmaster", owner |-> "core-layouts"]
Grid == [name |-> "grid", owner |-> "core-layouts"]
Spiral == [name |-> "spiral", owner |-> "other"]
MCLayouts == {NMaster, Grid, Spiral}

\* The other plugin has been loaded first, and may take its layout back and
\* add it again: then it is the last one.
MCStartup == {<<Spiral, NMaster, Grid>>}
MCLate == {Spiral}

MCRoom == [o \in Outputs |-> IF o = "DP-1" THEN 3 ELSE 1]
MCSpaces == [o \in Outputs |-> IF o = "DP-1" THEN {0, 1} ELSE {0}]

\* Neither width nor height can be divided evenly.
MCSizes == [o \in Outputs |-> IF o = "DP-1" THEN {<<3, 5>>, <<4, 3>>} ELSE {<<3, 5>>}]

\* Bound: how much may differ from the start at once.  An open view counts
\* for two, and for more if it is fullscreen, a dialog or on another space;
\* a list of layouts that is not that of the start counts for two as well.
Oddities ==
    2 * Cardinality(Open)
    + Cardinality(full)
    + Cardinality({v \in Open : parent[v] # NULL})
    + Cardinality({v \in Open : mask[v] # 0})
    + Cardinality(Outputs \ settled)
    + Cardinality({o \in Outputs \ {"DP-1"} : active[o] # 0})
    + (IF cut # 50 THEN 1 ELSE 0)
    + (IF size["DP-1"] # <<3, 5>> THEN 1 ELSE 0)
    + (IF layouts \notin MCStartup THEN 2 ELSE 0)
Bound == Oddities <= 7

\* Evaluated once, before the run: the tilings of small regions.
ASSUME TilingsCover

\* The parts of a list that module Lists defines are those of the library.
ListsAgree ==
    LET T == {1, 3} IN
        \A s \in UNION {[1..n -> 1..3] : n \in 0..4} :
            /\ Only(s, T) = SelectSeq(s, LAMBDA x : x \in T)
            /\ Without(s, T) = SelectSeq(s, LAMBDA x : x \notin T)
            /\ (\A i, j \in DOMAIN s : i # j => s[i] # s[j]) => Without(s, {1}) = Remove(s, 1)
ASSUME ListsAgree

ViewSymmetry == Permutations(Views)
=============================================================================
