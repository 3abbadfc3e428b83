------------------------------- MODULE Focus --------------------------------
(***************************************************************************)
(* Focus and stacking in the core-functionality plugin,                    *)
(* src/plugins/core-functionality/core-functionality.c, and the two        *)
(* handlers of the layout plugin, src/plugins/layout/layout.c, that change *)
(* what it works on: the cycle key reorders the views of the focused       *)
(* output, and a client makes its view fullscreen.                         *)
(*                                                                         *)
(* The plugin keeps the active view and the view of an interactive move or *)
(* resize; wlc keeps the rest: each output's list of views, bottom to top, *)
(* the space a view and an output are on, parents, state bits.  Handlers   *)
(* read and write wlc's state call after call, so each function of the     *)
(* code is an operator from one "desk", the record of all of it, to the    *)
(* next.  relayout, which changes none of it, is module Layout's.          *)
(*                                                                         *)
(* A mask is the index of its one bit.  Geometry is left out.              *)
(***************************************************************************)
EXTENDS Lists, SequencesExt, FiniteSetsExt

CONSTANTS
    Views,
    Kind,       \* [Views -> {"window", "tooltip", "bemenu"}]
    Orphans,    \* views that never have a parent
    OutputList, \* wlc_get_outputs, each output once
    Spaces,     \* the range of rotate_mask, 10 in the code
    Elsewhere,  \* whether a view may open on an output without the focus
    Dragged,    \* views that the user, or their client, moves and resizes
    FollowFocus,\* plugin.config.follow_focus
    None        \* the handle 0

ASSUME FocusConstants ==
    /\ Kind \in [Views -> {"window", "tooltip", "bemenu"}]
    /\ Orphans \subseteq Views /\ Dragged \subseteq Views
    /\ OutputList # <<>> /\ OutputList \in Seq(Range(OutputList))
    /\ Spaces \in Nat \ {0}
    /\ None \notin Views
    /\ {Elsewhere, FollowFocus} \subseteq BOOLEAN

Outputs == Range(OutputList)

VARIABLES
    active,     \* plugin.active.view
    action,     \* plugin.action.view
    stack,      \* wlc: the views of each output
    mask,       \* wlc: the space of each view
    space,      \* wlc: the space each output shows
    out,        \* wlc: the focused output
    parent,     \* wlc: the parent of each view, or None
    full,       \* wlc: views with WLC_BIT_FULLSCREEN
    activated   \* wlc: views with WLC_BIT_ACTIVATED

fvars == <<active, action, stack, mask, space, out, parent, full, activated>>

Desk == [active |-> active, action |-> action, stack |-> stack, mask |-> mask,
         space |-> space, out |-> out, parent |-> parent, full |-> full,
         activated |-> activated]

\* The handler has brought the desk to d.
Becomes(desk) ==
    \E d \in {desk} :
      /\ active' = d.active /\ action' = d.action /\ stack' = d.stack
      /\ mask' = d.mask /\ space' = d.space /\ out' = d.out
      /\ parent' = d.parent /\ full' = d.full /\ activated' = d.activated

Init ==
    /\ active = None /\ action = None
    /\ stack = [o \in Outputs |-> <<>>]
    /\ mask = [v \in Views |-> 0]
    /\ space = [o \in Outputs |-> 0]
    /\ out = OutputList[1]
    /\ parent = [v \in Views |-> None]
    /\ full = {} /\ activated = {}

-----------------------------------------------------------------------------
(* wlc *)

Open(d) == UNION {Range(d.stack[o]) : o \in Outputs}

\* wlc_view_get_output.
OutputOf(d, v) == CHOOSE o \in Outputs : v \in Range(d.stack[o])
Listed(d, v) == d.stack[OutputOf(d, v)]

is_managed(v) == v = None \/ Kind[v] # "tooltip"
is_bemenu(v) == v # None /\ Kind[v] = "bemenu"
Bemenus == {v \in Views : is_bemenu(v)}

\* The view of T nearest the top of list s, or None.
Topmost(s, T) == IF Places(s, T) = {} THEN None ELSE s[Max(Places(s, T))]

wlc_view_bring_to_front(d, v) ==
    IF v = None THEN d
    ELSE [d EXCEPT !.stack[OutputOf(d, v)] = Append(Without(@, {v}), v)]

\* Mutant of view_focus: the old view keeps its bit.
view_focus_keeps_old(d, old, new) ==
    [d EXCEPT !.activated = @ \cup ({new} \cap Range(d.stack[d.out]))]

\* The hook on view.focus, called with FALSE for the view that loses the
\* keyboard and with TRUE for the one that gets it.
view_focus(d, old, new) ==
    [d EXCEPT !.activated = (@ \ ({old} \cap Range(d.stack[d.out])))
                            \cup ({new} \cap Range(d.stack[d.out]))]

-----------------------------------------------------------------------------
(* Stacking and focus *)

\* The loop of raise_all over the siblings of v.  wlc_output_get_views gives
\* the list itself, which each raise changes under the loop.
raise_sibling(d, at) ==
    LET s == Listed(d, at.of)[at.index]
    IN  IF s # at.of /\ d.parent[s] = d.parent[at.of]
        THEN wlc_view_bring_to_front(d, s) ELSE d

raise_siblings(d, v) ==
    FoldLeft(raise_sibling, d, [i \in DOMAIN Listed(d, v) |-> [of |-> v, index |-> i]])

\* Mutant of raise_all: each parent once more, last.
raise_parents_last(d, v) ==
    LET raised[x \in Views] ==
          IF ~is_managed(x) THEN d
          ELSE IF d.parent[x] = None THEN wlc_view_bring_to_front(d, x)
          ELSE wlc_view_bring_to_front(
                 wlc_view_bring_to_front(raise_siblings(raised[d.parent[x]], x), x), d.parent[x])
    IN  raised[v]

raise_all(d, v) ==
    LET raised[x \in Views] ==
          IF ~is_managed(x) THEN d
          ELSE IF d.parent[x] = None THEN wlc_view_bring_to_front(d, x)
          ELSE wlc_view_bring_to_front(raise_siblings(raised[d.parent[x]], x), x)
    IN  raised[v]

\* The topmost fullscreen view comes to front before the view does.
peek(d, v) ==
    IF is_bemenu(v) THEN d
    ELSE wlc_view_bring_to_front(d, Topmost(Listed(d, v), d.full))

bemenu_to_front(d, v) == wlc_view_bring_to_front(d, Topmost(Listed(d, v), Bemenus))

\* Mutant of take_focus: the fullscreen view is brought to front last.
take_focus_peek_last(d, v) ==
    [view_focus(peek(bemenu_to_front(raise_all(d, v), v), v), d.active, v) EXCEPT !.active = v]

\* focus_view of a view that has passed the early returns.
take_focus(d, v) ==
    [view_focus(bemenu_to_front(raise_all(peek(d, v), v), v), d.active, v) EXCEPT !.active = v]

\* The child on top, on the same output, takes the focus instead, and so on;
\* nothing does when the last one has it or is unmanaged.
child_on_top(d, v) == Topmost(Listed(d, v), {w \in Views : d.parent[w] = v})

focus_down(d, v) ==
    LET focused[x \in Views] ==
          IF x = d.active \/ ~is_managed(x) THEN d
          ELSE IF child_on_top(d, x) = None THEN take_focus(d, x)
          ELSE focused[child_on_top(d, x)]
    IN  focused[v]

\* Mutant of focus_view: bemenu gives way.
focus_view_no_bemenu(d, v) ==
    IF v = d.active \/ ~is_managed(v) THEN d
    ELSE IF v = None THEN [view_focus(d, d.active, None) EXCEPT !.active = None]
    ELSE focus_down(d, v)

focus_view(d, v) ==
    IF v = d.active \/ ~is_managed(v) THEN d
    ELSE IF is_bemenu(d.active) THEN wlc_view_bring_to_front(d, d.active)
    ELSE IF v = None THEN [view_focus(d, d.active, None) EXCEPT !.active = None]
    ELSE focus_down(d, v)

\* Mutant of focus_topmost: the masks are not compared.
focus_topmost_any_space(d, o) == focus_view(d, Topmost(d.stack[o], Views))

focus_topmost(d, o) ==
    focus_view(d, Topmost(d.stack[o], {v \in Views : d.mask[v] = d.space[o]}))

-----------------------------------------------------------------------------
(* Clients *)

set_active_view_on_output(d, o, v) ==
    [d EXCEPT !.activated = (@ \ Range(d.stack[o])) \cup ({v} \cap Range(d.stack[o]))]

\* Mutant of should_focus_on_create: any managed view.
should_focus_managed(d, v) == is_managed(v)

should_focus_on_create(d, v) ==
    is_managed(v) /\ (d.active = None \/ d.parent[v] = None \/ d.parent[v] = d.active)

\* wlc has put the view on top of its output's list.  A second bemenu is
\* refused: wlc closes it again.
view_created(o, v, p) ==
    LET d == [Desk EXCEPT !.stack[o] = Append(@, v), !.parent[v] = p]
        f == IF ~should_focus_on_create(d, v) THEN d
             ELSE IF o = out THEN focus_view(d, v)
             ELSE set_active_view_on_output(d, o, v)
    IN  /\ v \notin Open(Desk)
        /\ p # None => v \notin Orphans /\ p \in Open(Desk)
        /\ o # out => Elsewhere
        /\ ~(is_bemenu(v) /\ is_bemenu(active))
        /\ Becomes([f EXCEPT !.mask[v] = space[o]])

\* wlc has taken the view from its list and forgets its handle.
Gone(v) ==
    [Desk EXCEPT !.stack = [o \in Outputs |-> Without(stack[o], {v})],
                 !.parent = [w \in Views |-> IF w = v \/ parent[w] = v THEN None ELSE parent[w]],
                 !.mask[v] = 0, !.full = @ \ {v}, !.activated = @ \ {v}]

\* Mutants of view_destroyed: active is reset only for a dialog; the parent is
\* not looked for.
view_destroyed_keeps_active(v) ==
    /\ v \in Open(Desk)
    /\ IF active = v /\ parent[v] # None
       THEN Becomes(focus_view([Gone(v) EXCEPT !.active = None], parent[v]))
       ELSE Becomes(Gone(v))

view_destroyed_topmost(v) ==
    /\ v \in Open(Desk)
    /\ IF active # v THEN Becomes(Gone(v))
       ELSE Becomes(focus_topmost([Gone(v) EXCEPT !.active = None], OutputOf(Desk, v)))

view_destroyed(v) ==
    LET d == [Gone(v) EXCEPT !.active = None]
    IN  /\ v \in Open(Desk)
        /\ IF active # v THEN Becomes(Gone(v))
           ELSE IF parent[v] # None THEN Becomes(focus_view(d, parent[v]))
           ELSE Becomes(focus_topmost(d, OutputOf(Desk, v)))

-----------------------------------------------------------------------------
(* Keys.  The view they act on is the one with the keyboard, active. *)

focus_space(i) == Becomes(focus_topmost([Desk EXCEPT !.space[out] = i], out))

move_to_space(i) ==
    /\ active # None
    /\ Becomes(focus_topmost([Desk EXCEPT !.mask[active] = i, !.space[out] = i], out))

\* Mutant of rotate_mask: the shift does not come round.
rotate_mask_shift(i, dir) == IF dir = "NEXT" THEN i + 1 ELSE (i + Spaces - 1) % Spaces

\* rotate_mask of a mask with one bit in its range.
rotate_mask(i, dir) == (IF dir = "NEXT" THEN i + 1 ELSE i + Spaces - 1) % Spaces

focus_next_or_previous_space(dir) == focus_space(rotate_mask(space[out], dir))

focus_output(d, o) == focus_topmost([d EXCEPT !.out = o], o)

\* get_next_output by 1.
get_next_output(o) ==
    LET at == CHOOSE i \in DOMAIN OutputList : OutputList[i] = o
    IN  OutputList[1 + (at % Len(OutputList))]

key_cb_focus_next_output == Becomes(focus_output(Desk, get_next_output(out)))

\* wlc_view_set_output, and the hook on view.move_to_output it calls.
view_move_to_output(d, v, to) ==
    LET from == OutputOf(d, v)
        m == [d EXCEPT !.stack[from] = Without(@, {v}), !.stack[to] = Append(@, v)]
        a == IF v \in m.activated THEN set_active_view_on_output(m, to, v) ELSE m
    IN  IF from = to THEN d ELSE focus_topmost(a, from)

move_to_output(o) ==
    /\ active # None
    /\ Becomes(focus_output(
         view_move_to_output([Desk EXCEPT !.mask[active] = space[o]], active, o), o))

toggled(v) == [Desk EXCEPT !.full = IF v \in @ THEN @ \ {v} ELSE @ \cup {v}]

key_cb_toggle_fullscreen == active # None /\ Becomes(toggled(active))

\* The views of list s from place at on, this way round; the one at it last.
Around(s, at, dir) ==
    LET n == Len(s)
    IN  [k \in 1..n |-> s[1 + ((IF dir = "NEXT" THEN at + k - 1 ELSE at + n - k - 1) % n)]]

\* The views that focus_next_or_previous_view tries, in order: the others of
\* the active view's list, then itself.  Without an active view it goes round
\* the focused output's, from its first view, or its last for PREV, and tries
\* only one, the first that shows there.
Candidates(dir) ==
    LET s == IF active = None THEN stack[out] ELSE Listed(Desk, active)
        at == IF active # None THEN CHOOSE i \in DOMAIN s : s[i] = active
              ELSE IF dir = "NEXT" THEN 1 ELSE Len(s)
        all == Around(s, at, dir)
        showing == {k \in DOMAIN s : mask[all[k]] = space[out]}
    IN  IF active # None THEN all
        ELSE IF showing = {} THEN <<>> ELSE <<all[Min(showing)]>>

\* It goes on until the focus has moved, past views that do not show on their
\* output, and on the focused one.
try_focus(d, v) ==
    IF \/ d.active # active
       \/ active # None /\ mask[v] # space[OutputOf(Desk, active)]
       \/ mask[v] # space[out]
    THEN d ELSE focus_view(d, v)

focus_next_or_previous_view(dir) == Becomes(FoldLeft(try_focus, Desk, Candidates(dir)))

-----------------------------------------------------------------------------
(* The layout plugin *)

is_tiled(d, v) == v \notin d.full /\ d.parent[v] = None /\ is_managed(v) /\ ~is_bemenu(v)

\* What the loop of exchanges comes to: each tiled view that shows makes room
\* for the next, and the last for the first.
cycle_output(d, o) ==
    LET s == d.stack[o]
        at == Places(s, {v \in Views : is_tiled(d, v) /\ d.mask[v] = d.space[o]})
        next(i) == IF i = Max(at) THEN Min(at) ELSE Min({j \in at : j > i})
    IN  [d EXCEPT !.stack[o] = [i \in DOMAIN s |-> IF i \in at THEN s[next(i)] ELSE s[i]]]

key_cb_cycle_clients == Becomes(cycle_output(Desk, out))

\* A client asks for its view to be fullscreen, or no longer.
view_state_request(v) == v \in Open(Desk) /\ Becomes(toggled(v))

-----------------------------------------------------------------------------
(* The pointer, over a view that is shown on the focused output *)

Shown == {v \in Range(stack[out]) : mask[v] = space[out]}

key_cb_focus_view(v) == v \in Shown /\ Becomes(focus_view(Desk, v))

pointer_motion(v) ==
    /\ FollowFocus /\ action = None
    /\ v \in Shown \cup {None}
    /\ Becomes(focus_view(Desk, v))

\* key_cb_move_view, key_cb_resize_view and the clients' requests.
start_interactive_action(v) ==
    /\ v \in Shown \cap Dragged /\ action = None
    /\ Becomes(wlc_view_bring_to_front([Desk EXCEPT !.action = v], v))

stop_interactive_action ==
    /\ action # None
    /\ Becomes([Desk EXCEPT !.action = None])

Next ==
    \/ \E v \in Views :
         \/ \E o \in Outputs, p \in Views \cup {None} : view_created(o, v, p)
         \/ view_destroyed(v)
         \/ key_cb_focus_view(v)
         \/ start_interactive_action(v)
         \/ view_state_request(v)
    \/ \E v \in Views \cup {None} : pointer_motion(v)
    \/ stop_interactive_action
    \/ \E i \in 0..(Spaces - 1) : focus_space(i) \/ move_to_space(i)
    \/ \E dir \in {"NEXT", "PREV"} :
         focus_next_or_previous_space(dir) \/ focus_next_or_previous_view(dir)
    \/ key_cb_focus_next_output
    \/ \E o \in Outputs : move_to_output(o)
    \/ key_cb_toggle_fullscreen
    \/ key_cb_cycle_clients

Spec == Init /\ [][Next]_fvars

-----------------------------------------------------------------------------
(* Properties *)

TypeOK ==
    /\ {active, action} \subseteq Views \cup {None}
    /\ stack \in [Outputs -> Seq(Views)]
    /\ \A o \in Outputs : Len(stack[o]) = Cardinality(Range(stack[o]))
    /\ \A v \in Views : Cardinality({o \in Outputs : v \in Range(stack[o])}) <= 1
    /\ mask \in [Views -> 0..(Spaces - 1)]
    /\ space \in [Outputs -> 0..(Spaces - 1)]
    /\ out \in Outputs
    /\ parent \in [Views -> Views \cup {None}]
    /\ full \subseteq Open(Desk)
    /\ activated \subseteq Open(Desk)

\* plugin.active.view is never the handle of a closed view, nor a tooltip:
\* handlers use it without a check.
ActiveIsOpen == active # None => active \in Open(Desk) /\ is_managed(active)

\* Whatever is opened, closed, moved to spaces and outputs, the keyboard is
\* with a view that is shown on the focused output, as long as there is one
\* (of plain windows: dialogs, menus and tooltips are other runs').
ShownHasFocus == IF Shown = {} THEN active = None ELSE active \in Shown

\* Each output has at most one view with the activated look.
OneActivated == \A o \in Outputs : Cardinality(activated \cap Range(stack[o])) <= 1

\* The two that change the order of a list, but not for the focus: the cycle
\* key and the start of a drag.
Reordered == key_cb_cycle_clients \/ \E v \in Views : start_interactive_action(v)

\* A view looks activated only on top of what its output shows: on the focused
\* output the active view, and elsewhere the one that had the focus there.
LooksActive ==
    /\ \A o \in Outputs :
         activated \cap Range(stack[o])
           \subseteq {Topmost(stack[o], {v \in Views : mask[v] = space[o]})}
    /\ activated \cap Range(stack[out]) = {active} \ {None}

\* What the views look like follows the focus over all that opens, closes and
\* is moved.  Only a new order ends it: view_focus takes the look from the
\* view that loses the focus only if that is on the focused output, so one
\* that was not on top when the focus left its output keeps it.
LooksKept == [][LooksActive => LooksActive' \/ Reordered]_fvars

\* "the active view is always over fullscreen view" (core-functionality.c:204).
PeekKept ==
    active # None =>
      \A f \in full \ {active} : ~Above(Listed(Desk, active), f, active)

\* It becomes so whenever the focus moves, and stays so unless a new order, or
\* the request of a client, puts a fullscreen view on top.
PeekLasts ==
    [][PeekKept \/ active' # active =>
         PeekKept' \/ Reordered \/ \E v \in Views : view_state_request(v)]_fvars

\* A view that opens takes the focus only for itself, never for a tooltip,
\* and as a dialog only from its parent.
NoStealing ==
    [][\A v \in Open(Desk') \ Open(Desk) :
         active' # active =>
           active' = v /\ is_managed(v) /\ (active = None \/ parent'[v] \in {None, active})]_fvars

\* "Bemenu should always have focus when open" (core-functionality.c:176).
BemenuHasFocus == \A v \in Open(Desk) : is_bemenu(v) => active = v

\* "Do not allow more than one bemenu instance" (core-functionality.c:370).
OneBemenu == Cardinality({v \in Open(Desk) : is_bemenu(v)}) <= 1

Under(v, p) ==
    LET up[x \in Views] == x = p \/ (parent[x] # None /\ up[parent[x]])
    IN  v # None /\ up[v]

\* A dialog that closes gives the focus back to its parent, or to another
\* dialog of that.
BackToParent ==
    [][\A v \in Views :
         active = v /\ v \notin Open(Desk') /\ parent[v] # None => Under(active', parent[v])]_fvars

\* The active view is not a dialog that its parent covers.
NotUnderParent ==
    active # None /\ parent[active] \in Range(Listed(Desk, active)) =>
      Above(Listed(Desk, active), active, parent[active])

\* A dialog that gets the focus comes to be over its parent, and stays there
\* unless a new order raises that.
OverParentLasts ==
    [][NotUnderParent \/ active' # active => NotUnderParent' \/ Reordered]_fvars

\* "Raise view and all related views to top" (core-functionality.c:149): when
\* a dialog gets the focus, no other window is over one of its siblings.
RelatedRaised ==
    [][active' \notin {active, None} /\ parent'[active'] # None =>
         LET p == parent'[active']
             s == Listed(Desk', active')
             related == {v \in Range(s) : parent'[v] = p}
         IN  \A v \in related, w \in Range(s) \ (related \cup {p}) :
               parent'[w] = None /\ parent'[p] = None => ~Above(s, w, v)]_fvars

\* "Otherwise focus previous one" (core-functionality.c:403): closing a window
\* without a parent passes the focus on, if there is a window to pass it to.
PassedOn ==
    [][active # None /\ parent[active] = None /\ active \notin Open(Desk') =>
         active' # None \/ \A v \in Shown' : ~is_managed(v)]_fvars
=============================================================================
