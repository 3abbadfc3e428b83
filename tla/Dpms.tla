-------------------------------- MODULE Dpms --------------------------------
(***************************************************************************)
(* The core-dpms plugin, src/plugins/core-dpms/core-dpms.c: one wlc timer, *)
(* armed again by every activity, that puts the outputs to sleep, and the  *)
(* key that asks for sleep at once.                                        *)
(*                                                                         *)
(* Time passes in ticks of a second, what the delay counts; the 1 ms of    *)
(* key_cb_toggle_sleep is less than one.  The timer is one-shot: wlc calls *)
(* timer_cb_sleep some time after it has run down, and updating it         *)
(* replaces what was left.  An update with 0 disarms it, and one with a    *)
(* negative number fails.                                                  *)
(***************************************************************************)
EXTENDS Naturals

CONSTANTS
    Outputs,    \* outputs that can be plugged in
    Delays,     \* what the configuration may say, in seconds
    Millis,     \* milliseconds in a second, 1000 in the code
    Wrap        \* where a uint32_t starts again at 0, 2^32 in the code

ASSUME DpmsConstants ==
    /\ Millis \in Nat \ {0} /\ Wrap \in Nat \ {0}
    /\ Delays \subseteq 0..(Wrap - 1)

VARIABLES
    outputs,    \* wlc: outputs plugged in
    asleep,     \* wlc: outputs that sleep
    fullscreen, \* wlc: outputs with a fullscreen view
    delay,      \* plugin.config.delay
    force,      \* plugin.force
    armed,      \* whether the timer will fire
    left,       \* ticks until it may
    quiet       \* ticks since the last activity, up to the delay

dvars == <<outputs, asleep, fullscreen, delay, force, armed, left, quiet>>

\* 1000 * plugin.config.delay, a uint32_t, and what an update with it makes
\* of the timer; as an int it is negative from half of Wrap on.
Milliseconds(d) == (Millis * d) % Wrap
milliseconds == Milliseconds(delay)
seconds == milliseconds \div Millis

\* Mutant of Rearm: the delay taken to 1000 twice.
Rearm_in_ms ==
    /\ \/ milliseconds > 0 /\ armed' = TRUE
       \/ milliseconds = 0 /\ armed' = FALSE
    /\ left' = milliseconds

\* wlc_event_source_timer_update with the configured delay.
Rearm ==
    /\ \/ milliseconds > 0 /\ armed' = TRUE
       \/ milliseconds = 0 /\ armed' = FALSE
    /\ left' = seconds

\* plugin_init, which fails when the first update of the timer does.
Init ==
    /\ outputs \in SUBSET Outputs
    /\ asleep = {} /\ fullscreen = {}
    /\ delay \in Delays
    /\ 2 * milliseconds < Wrap
    /\ force = FALSE
    /\ \/ milliseconds > 0 /\ armed = TRUE
       \/ milliseconds = 0 /\ armed = FALSE
    /\ left = seconds
    /\ quiet = 0

contains_fullscreen_view(o) == o \in fullscreen

timer_cb_sleep ==
    /\ armed /\ left = 0
    /\ IF ~force /\ \E o \in outputs : contains_fullscreen_view(o)
       THEN Rearm /\ UNCHANGED <<asleep, force>>
       ELSE asleep' = outputs /\ force' = FALSE /\ armed' = FALSE /\ UNCHANGED left
    /\ UNCHANGED <<outputs, fullscreen, delay, quiet>>

\* Mutants of handle_activity: the test of force left out; the timer updated
\* only when something was woken, or only when nothing was.
handle_activity_always ==
    /\ asleep' = {}
    /\ quiet' = 0
    /\ Rearm
    /\ UNCHANGED <<outputs, fullscreen, delay, force>>

handle_activity_on_wake ==
    /\ asleep' = {}
    /\ quiet' = 0
    /\ IF force \/ asleep = {} THEN UNCHANGED <<armed, left>> ELSE Rearm
    /\ UNCHANGED <<outputs, fullscreen, delay, force>>

handle_activity_awake ==
    /\ asleep' = {}
    /\ quiet' = 0
    /\ IF force \/ asleep # {} THEN UNCHANGED <<armed, left>> ELSE Rearm
    /\ UNCHANGED <<outputs, fullscreen, delay, force>>

\* A key or button pressed, the pointer moved or scrolled, a touch.  Releases
\* return early.
handle_activity ==
    /\ asleep' = {}
    /\ quiet' = 0
    /\ IF force THEN UNCHANGED <<armed, left>> ELSE Rearm
    /\ UNCHANGED <<outputs, fullscreen, delay, force>>

\* The key is pressed.  keybind, which core-dpms requires, has its hook on
\* keyboard.key first, so key_cb_toggle_sleep runs, then keyboard_key of
\* core-dpms handles the same press as an activity.
key_cb_toggle_sleep ==
    /\ force' = TRUE /\ armed' = TRUE /\ left' = 0
    /\ asleep' = {} /\ quiet' = 0
    /\ UNCHANGED <<outputs, fullscreen, delay>>

-----------------------------------------------------------------------------
(* wlc and the passing of time *)

Tick ==
    /\ left' = IF armed /\ left > 0 THEN left - 1 ELSE left
    /\ quiet' = IF quiet < delay THEN quiet + 1 ELSE quiet
    /\ UNCHANGED <<outputs, asleep, fullscreen, delay, force, armed>>

OutputPluggedIn(o) ==
    /\ o \notin outputs
    /\ outputs' = outputs \cup {o}
    /\ UNCHANGED <<asleep, fullscreen, delay, force, armed, left, quiet>>

OutputUnplugged(o) ==
    /\ o \in outputs
    /\ outputs' = outputs \ {o} /\ asleep' = asleep \ {o} /\ fullscreen' = fullscreen \ {o}
    /\ UNCHANGED <<delay, force, armed, left, quiet>>

FullscreenChanges(o) ==
    /\ o \in outputs
    /\ fullscreen' = IF o \in fullscreen THEN fullscreen \ {o} ELSE fullscreen \cup {o}
    /\ UNCHANGED <<outputs, asleep, delay, force, armed, left, quiet>>

Next ==
    \/ timer_cb_sleep \/ key_cb_toggle_sleep \/ handle_activity \/ Tick
    \/ \E o \in Outputs : OutputPluggedIn(o) \/ OutputUnplugged(o) \/ FullscreenChanges(o)

\* The event loop calls back a timer that has run down, and time passes.
Spec == Init /\ [][Next]_dvars /\ WF_dvars(timer_cb_sleep) /\ WF_dvars(Tick)

-----------------------------------------------------------------------------
(* Properties *)

TypeOK ==
    /\ outputs \subseteq Outputs
    /\ asleep \subseteq outputs
    /\ fullscreen \subseteq outputs
    /\ delay \in Delays
    /\ force \in BOOLEAN
    /\ armed \in BOOLEAN
    /\ left \in 0..delay
    /\ quiet \in 0..delay

\* A forced sleep is still on its way: no activity after the key has put the
\* timer off again ("Skips next activity event", core-dpms.c:23).
ForceIsDue == force => armed /\ left = 0

\* The delay in milliseconds is below 2^32: 49 days.
Fits == Millis * delay < Wrap

\* An output goes to sleep only when the key asked for it, or when nothing
\* happened for the whole delay; and never without the key when the delay is 0.
\* Of a delay that does not fit, only what the timer gets passes.
SleepIsEarned ==
    [][\A o \in Outputs : o \in asleep' \ asleep =>
         force \/ (delay > 0 /\ IF Fits THEN quiet = delay ELSE quiet >= seconds)]_dvars

\* "Sleep delay in seconds" (core-dpms.c:18), of every delay: not so of one
\* that does not fit.
SleepsAfterDelay ==
    [][\A o \in Outputs : o \in asleep' \ asleep => force \/ quiet = delay]_dvars

\* Asking for sleep puts every output to sleep, fullscreen views or not,
\* whatever the user does next.
ForcedSleepComes == force ~> outputs = asleep

\* Of the delays, those that arm the timer: 0 does not, nor one that wraps to 0.
Arming == {d \in Delays : Milliseconds(d) # 0}

\* When the user has gone for good and the last fullscreen view is gone too,
\* an output that stays plugged in falls asleep, and sleeps from then on:
\* every activity, the last one too, has armed the timer again, and so has
\* the callback that found a fullscreen view.
NightFalls ==
    \A o \in Outputs :
      [](o \in outputs /\ delay \in Arming) /\ <>[](quiet # 0 /\ fullscreen = {})
        => <>[](o \in asleep)

\* Sleep comes when it should, for the key and for the delay.
SleepComes == ForcedSleepComes /\ NightFalls
=============================================================================
