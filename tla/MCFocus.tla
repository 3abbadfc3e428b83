------------------------------ MODULE MCFocus -------------------------------
(***************************************************************************)
(* Instances of Focus: plain windows, windows with dialogs and a bemenu,   *)
(* a tooltip, and a user who presses one key again and again.              *)
(***************************************************************************)
EXTENDS Focus

KindOf == [v \in Views |-> IF v \in {"menu", "menu2"} THEN "bemenu"
                           ELSE IF v = "tip" THEN "tooltip" ELSE "window"]

OneOutput == <<"DP-1">>
TwoOutputs == <<"DP-1", "HDMI-1">>

-----------------------------------------------------------------------------
(* Every view is opened, then one key is pressed on and on. *)

AllOpen == Open(Desk) = Views

PressedOn(dir) ==
    IF AllOpen THEN focus_next_or_previous_view(dir)
    ELSE \E v \in Views : view_created(out, v, None)

PreviousKeySpec == Init /\ [][PressedOn("PREV")]_fvars /\ WF_fvars(PressedOn("PREV"))

\* "Rotates focus through clients" (README.rst, mod-j and mod-k): pressed on
\* and on, the key gives every client the focus.
RotatesThroughClients == \A v \in Views : []<>(active = v)
=============================================================================
