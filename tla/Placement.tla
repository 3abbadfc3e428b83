----------------------------- MODULE Placement ------------------------------
(***************************************************************************)
(* Where views are put: relayout of src/plugins/layout/layout.c with the   *)
(* layouts of core-layouts, and everything that has to call it, in the     *)
(* layout plugin itself, in core-layouts and in core-functionality.        *)
(*                                                                         *)
(* A view is a window; with a parent it is a dialog.  Popups, splash       *)
(* screens, bemenu and interactive moves are left out.  Each action is one *)
(* handler: first what it and wlc change, then the outputs it relays out.  *)
(***************************************************************************)
EXTENDS Layout, Tilings, SequencesExt

CONSTANTS
    Views,
    Room,       \* bound: views that fit on each output
    Spaces,     \* the spaces each output may show
    Sizes,      \* the virtual resolutions each output may have
    CutStep,    \* hundredths that the nmaster keys move cut by, 1 in the code
    Strays,     \* bound: may a view leave its dialogs, or a dialog its parent?
    Own         \* a geometry not told from others: the client's own, a dialog's

ASSUME PlacementConstants ==
    /\ Room \in [Outputs -> Nat]
    /\ CutStep \in 1..100
    /\ Strays \in BOOLEAN
    /\ Own \notin [origin : Int \X Int, size : Int \X Int]
    /\ \A o \in Outputs : Spaces[o] # {} /\ Sizes[o] \subseteq Nat \X Nat /\ Sizes[o] # {}

VARIABLES
    views,      \* wlc: the views of each output, bottom to top
    parent,     \* wlc: the parent of each view, or NULL
    full,       \* wlc: views with WLC_BIT_FULLSCREEN
    mask,       \* wlc: the space each view is on
    space,      \* wlc: the space each output shows
    size,       \* wlc: the virtual resolution of each output
    geometry,   \* wlc: where each view is
    cut,        \* config.nmaster.cut
    settled     \* outputs whose last relayout called the layout they still have

desk == <<views, parent, full, mask, space, size, cut>>
pvars == <<registry, desk, geometry, settled>>

Init ==
    /\ RegistryInit
    /\ views = [o \in Outputs |-> <<>>]
    /\ parent = [v \in Views |-> NULL]
    /\ full = {}
    /\ space = [o \in Outputs |-> CHOOSE s \in Spaces[o] : TRUE]
    /\ mask = [v \in Views |-> 0]
    /\ size = [o \in Outputs |-> CHOOSE s \in Sizes[o] : TRUE]
    /\ geometry = [v \in Views |-> Own]
    /\ cut = 50
    /\ settled = Outputs

Open == UNION {Range(views[o]) : o \in Outputs}
OutputOf(v) == CHOOSE o \in Outputs : v \in Range(views[o])

is_tiled(v) == v \notin full /\ parent[v] = NULL

Visible(o, v) == mask[v] = space[o]
Takes(o, v) == is_tiled(v) /\ Visible(o, v)
Tiled(o) == {v \in Views : Takes(o, v)}
TiledOf(o) == Only(views[o], Tiled(o))
Whole(o) == Geometry(0, 0, size[o][1], size[o][2])

-----------------------------------------------------------------------------
(* relayout *)

\* The first loop of relayout.  A dialog gets the geometry of layout_parent,
\* fullscreen or not.
float(o, g) ==
    [v \in Views |->
        IF v \notin Range(views[o]) \/ ~Visible(o, v) THEN g[v]
        ELSE IF parent[v] # NULL THEN Own
        ELSE IF v \in full THEN Whole(o) ELSE g[v]]

\* What a layout function makes of the region and memb views.  The layouts of
\* other plugins are their own business.
Tiles(l, r, memb) ==
    CASE l.name = "nmaster" -> nmaster(r, memb, cut)
      [] l.name = "grid" -> grid(r, memb)
      [] l.name = "monocle" -> monocle(r, memb)
      [] OTHER -> [i \in 1..memb |-> Own]

\* The second part: the tiled views go to the layout, if there is one.  They
\* are the pool tiled of the code, here as the places where they are.
tile(o, g) ==
    LET s == views[o]
        at == Places(s, Tiled(o))
        l == layout_for_output(o)
        tiles == Tiles(l, Whole(o), Cardinality(at))
    IN  IF l = NULL THEN g
        ELSE [v \in Views |-> IF \E i \in at : s[i] = v
                THEN tiles[CHOOSE j \in 1..Cardinality(at) : s[Place(at, j)] = v] ELSE g[v]]

place(o, g) == tile(o, float(o, g))

\* The end of a handler: it calls relayout for the outputs in os, with all
\* that it has changed.  wlc forgets the geometry of a view that is gone.
relayout(os) ==
    /\ \E g \in {geometry} :
         LET placed == [o \in os |-> place(o, g)']
         IN  geometry' = [v \in Views |->
                IF v \notin Open' THEN Own
                ELSE IF OutputOf(v)' \in os THEN placed[OutputOf(v)'][v] ELSE g[v]]
    /\ settled' = settled \cup os

NoLayout == UNCHANGED <<geometry, settled>>

-----------------------------------------------------------------------------
(* The layout plugin and core-layouts *)

\* The registry lays nothing out: removed layouts stay on the screen.
RegistryStep ==
    /\ RegistryNext
    /\ settled' = {o \in settled : layout_for_output(o)' = layout_for_output(o)}
    /\ UNCHANGED <<desk, geometry>>

key_cb_next_layout(o) ==
    /\ next_layout(o)
    /\ UNCHANGED desk
    /\ relayout({o})

\* Mutant of swap: last is set once, and each view is exchanged with it.
swap_with_first(acc, i) ==
    IF acc.last = 0 THEN [acc EXCEPT !.last = i]
    ELSE [acc EXCEPT !.list[acc.last] = acc.list[i], !.list[i] = acc.list[acc.last]]

\* The body of the loop of cycle_output at i, where a tiled view is: acc is
\* the list and last, 0 for NOTINDEX.
swap(acc, i) ==
    IF acc.last = 0 THEN [acc EXCEPT !.last = i]
    ELSE [list |-> [acc.list EXCEPT ![acc.last] = acc.list[i], ![i] = acc.list[acc.last]],
          last |-> i]

\* The loop passes over the places of other views.
cycle(o) ==
    LET at == Places(views[o], Tiled(o))
    IN  FoldLeft(swap, [list |-> views[o], last |-> 0],
                 [j \in 1..Cardinality(at) |-> Place(at, j)]).list

key_cb_cycle_clients(o) ==
    /\ Len(views[o]) >= 2
    /\ views' = [views EXCEPT ![o] = cycle(o)]
    /\ UNCHANGED <<registry, parent, full, mask, space, size, cut>>
    /\ relayout({o})

key_cb_nmaster(o) ==
    /\ cut' \in {grow(cut, CutStep), shrink(cut, CutStep)}
    /\ UNCHANGED <<registry, views, parent, full, mask, space, size>>
    /\ relayout({o})

output_resolution(o, s) ==
    /\ s \in Sizes[o]
    /\ size' = [size EXCEPT ![o] = s]
    /\ UNCHANGED <<registry, views, parent, full, mask, space, cut>>
    /\ relayout({o})

\* A client of a dialog asks for a size, and layout_parent grants a part of
\* it.  Tiled views are refused, and fullscreen ones.
view_geometry_request(v) ==
    /\ v \in Open /\ ~is_tiled(v) /\ v \notin full
    /\ geometry' = [geometry EXCEPT ![v] = Own]
    /\ UNCHANGED <<registry, desk, settled>>

\* To be maximized, which only lays out again, or fullscreen or not.
view_state_request(v) ==
    /\ v \in Open
    /\ full' \in {full, full \cup {v}, full \ {v}}
    /\ UNCHANGED <<registry, views, parent, mask, space, size, cut>>
    /\ relayout({OutputOf(v)})

-----------------------------------------------------------------------------
(* core-functionality; the focus itself is module Focus's *)

\* The list s when the focus has passed to one of its views, or has not.
Raised(s) == {s} \cup {Append(Without(s, {v}), v) : v \in Range(s)}

focus_view(o) ==
    /\ \E s \in Raised(views[o]) : views' = [views EXCEPT ![o] = s]
    /\ UNCHANGED <<registry, parent, full, mask, space, size, cut>>
    /\ NoLayout

view_created(o, v, p) ==
    /\ v \notin Open /\ Len(views[o]) < Room[o]
    /\ p = NULL \/ p \in Range(views[o])
    /\ \E s \in Raised(Append(views[o], v)) : views' = [views EXCEPT ![o] = s]
    /\ parent' = [parent EXCEPT ![v] = p]
    /\ mask' = [mask EXCEPT ![v] = space[o]]
    /\ UNCHANGED <<registry, full, space, size, cut>>
    /\ relayout({o})

\* The view is off the list, and its dialogs have no parent any more.
view_destroyed(v) ==
    /\ v \in Open
    /\ LET o == OutputOf(v) IN
         /\ \E s \in Raised(Without(views[o], {v})) : views' = [views EXCEPT ![o] = s]
         /\ parent' = [w \in Views |-> IF w = v \/ parent[w] = v THEN NULL ELSE parent[w]]
         /\ full' = full \ {v}
         /\ mask' = [mask EXCEPT ![v] = 0]
         /\ UNCHANGED <<registry, space, size, cut>>
         /\ relayout({o})

\* Mutant of focus_space: the space is shown as it was left.
focus_space_as_left(o, i) ==
    /\ i \in Spaces[o]
    /\ space' = [space EXCEPT ![o] = i]
    /\ \E s \in Raised(views[o]) : views' = [views EXCEPT ![o] = s]
    /\ UNCHANGED <<registry, parent, full, mask, size, cut>>
    /\ NoLayout

focus_space(o, i) ==
    /\ i \in Spaces[o]
    /\ space' = [space EXCEPT ![o] = i]
    /\ \E s \in Raised(views[o]) : views' = [views EXCEPT ![o] = s]
    /\ UNCHANGED <<registry, parent, full, mask, size, cut>>
    /\ relayout({o})

\* v has the keyboard, and so is on the focused output (ShownHasFocus of Focus),
\* whose space the code sets.
move_to_space(v, i) ==
    /\ v \in Open
    /\ LET o == OutputOf(v) IN
         /\ i \in Spaces[o]
         /\ mask' = [mask EXCEPT ![v] = i]
         /\ space' = [space EXCEPT ![o] = i]
         /\ \E s \in Raised(views[o]) : views' = [views EXCEPT ![o] = s]
         /\ UNCHANGED <<registry, parent, full, size, cut>>
         /\ relayout({o})

\* Mutant of move_to_output: the output it leaves is forgotten.
move_to_output_half(v, to) ==
    /\ v \in Open /\ Len(views[to]) < Room[to]
    /\ Strays \/ (parent[v] = NULL /\ \A w \in Open : parent[w] # v)
    /\ LET from == OutputOf(v) IN
         /\ from # to
         /\ views' = [views EXCEPT ![from] = Without(@, {v}), ![to] = Append(@, v)]
         /\ mask' = [mask EXCEPT ![v] = space[to]]
         /\ UNCHANGED <<registry, parent, full, space, size, cut>>
         /\ relayout({to})

\* wlc_view_set_output calls the hook view_move_to_output, which relays out
\* both; focus_output does the second once more.
move_to_output(v, to) ==
    /\ v \in Open /\ Len(views[to]) < Room[to]
    /\ Strays \/ (parent[v] = NULL /\ \A w \in Open : parent[w] # v)
    /\ LET from == OutputOf(v) IN
         /\ from # to
         /\ views' = [views EXCEPT ![from] = Without(@, {v}), ![to] = Append(@, v)]
         /\ mask' = [mask EXCEPT ![v] = space[to]]
         /\ UNCHANGED <<registry, parent, full, space, size, cut>>
         /\ relayout({from, to})

Next ==
    \/ RegistryStep
    \/ \E o \in Outputs :
         \/ key_cb_next_layout(o) \/ key_cb_cycle_clients(o) \/ key_cb_nmaster(o)
         \/ \E s \in Sizes[o] : output_resolution(o, s)
         \/ \E i \in Spaces[o] : focus_space(o, i)
         \/ focus_view(o)
         \/ \E v \in Views, p \in Views \cup {NULL} : view_created(o, v, p)
    \/ \E v \in Views :
         \/ view_geometry_request(v) \/ view_state_request(v) \/ view_destroyed(v)
         \/ \E i \in UNION {Spaces[o] : o \in Outputs} : move_to_space(v, i)
         \/ \E o \in Outputs : move_to_output(v, o)

Spec == Init /\ [][Next]_pvars

-----------------------------------------------------------------------------
(* Properties *)

TypeOK ==
    /\ RegistryTypeOK
    /\ views \in [Outputs -> Seq(Views)]
    /\ parent \in [Views -> Views \cup {NULL}]
    /\ full \subseteq Views
    /\ \A o \in Outputs : space[o] \in Spaces[o] /\ size[o] \in Sizes[o]
    /\ \A v \in Open : mask[v] \in Spaces[OutputOf(v)]
    /\ cut \in 0..100
    /\ settled \subseteq Outputs

\* The geometries of the views that output o tiles, as a sequence.
TilesOf(o) == LET vs == TiledOf(o) IN [i \in DOMAIN vs |-> geometry[vs[i]]]

\* The tiled views an output shows fill it without overlap under nmaster, do
\* not overlap under grid, and have all of it under monocle: whatever opens,
\* closes, changes its state, space or place in the list, somebody calls
\* relayout, on each output concerned.
TilesFit ==
    \A o \in settled :
        LET l == layout_for_output(o) IN
            l # NULL /\ l.name \in {"nmaster", "grid", "monocle"} =>
              /\ Own \notin Range(TilesOf(o))
              /\ CASE l.name = "nmaster" -> TiledOf(o) # <<>> => Partition(TilesOf(o), Whole(o))
                   [] l.name = "grid" -> Inside(TilesOf(o), Whole(o)) /\ Apart(TilesOf(o))
                   [] OTHER -> Range(TilesOf(o)) \subseteq {Whole(o)}

\* A fullscreen window covers its output, on whatever size and space it was
\* made so, and after a close has made a window of a dialog.
FullscreenCovers ==
    \A o \in Outputs : \A v \in Range(views[o]) :
        v \in full /\ parent[v] = NULL /\ Visible(o, v) => geometry[v] = Whole(o)

\* README.rst: mod-f toggles fullscreen.  So it does for a dialog.
DialogsToo ==
    \A o \in Outputs : \A v \in Range(views[o]) :
        v \in full /\ Visible(o, v) => geometry[v] = Whole(o)

\* The cycle key turns the tiled views of the space shown round by one place
\* and moves no other view in the list.
CycleRotates ==
    \A o \in Outputs :
        LET old == TiledOf(o)
            cycled == cycle(o)
            new == Only(cycled, Tiled(o))
        IN  /\ old # <<>> => new = Append(Tail(old), Head(old))
            /\ \A i \in DOMAIN views[o] : ~Takes(o, views[o][i]) => cycled[i] = views[o][i]
=============================================================================
