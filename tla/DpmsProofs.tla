----------------------------- MODULE DpmsProofs -----------------------------
(***************************************************************************)
(* The safety properties of Dpms, for every set of outputs and of delays.  *)
(***************************************************************************)
EXTENDS Dpms, TLAPS

\* Unless the key forced the timer, what is left of it and the time without
\* activity make up what it was armed with: this is what a firing timer relies
\* on.
Countdown == armed /\ ~force => milliseconds > 0 /\ quiet + left >= seconds

Inv == TypeOK /\ ForceIsDue /\ Countdown

\* The whole delay is left, whatever has passed.
LEMMA AtLeast == \A q, d \in Nat : q + d >= d
  OBVIOUS

\* A remainder is not more than the number.
LEMMA Remainder ==
  ASSUME NEW a \in Nat, NEW b \in Nat \ {0}
  PROVE  a % b \in Nat /\ a % b <= a /\ (a < b => a % b = a) /\ (a = 0 => a % b = 0)
  OBVIOUS

\* Nor is a quotient more than what it is known to be multiplied from.
LEMMA Quotient ==
  ASSUME NEW a \in Nat, NEW b \in Nat \ {0}, NEW c \in Nat
  PROVE  /\ a \div b \in Nat
         /\ a <= b * c => a \div b <= c
         /\ a = b * c => a \div b = c
<1>1. a \div b \in Nat
  OBVIOUS
<1>2. PICK q \in Nat : q = a \div b
  BY <1>1
<1>3. b * q <= a /\ a < b * q + b
  BY <1>2
<1>4. ASSUME a <= b * c PROVE q <= c
  <2>1. CASE q >= c + 1
    <3>1. b * q >= b * (c + 1) /\ b * (c + 1) = b * c + b
      BY <2>1
    <3> QED BY <1>3, <1>4, <3>1
  <2> QED BY <2>1
<1>5. ASSUME a = b * c PROVE q >= c
  <2>1. CASE c >= q + 1
    <3>1. b * c >= b * (q + 1) /\ b * (q + 1) = b * q + b
      BY <2>1
    <3> QED BY <1>3, <1>5, <3>1
  <2> QED BY <2>1
<1> QED BY <1>1, <1>2, <1>4, <1>5

\* What the multiplication in 32 bits makes of a delay.
LEMMA DelayIs ==
  ASSUME delay \in Delays
  PROVE  /\ delay \in Nat /\ milliseconds \in Nat /\ seconds \in 0..delay
         /\ milliseconds > 0 => delay > 0
         /\ Fits => seconds = delay
<1>1. delay \in Nat /\ Millis \in Nat \ {0} /\ Wrap \in Nat \ {0}
  BY DpmsConstants
<1>2. PICK a : a = Millis * delay
  OBVIOUS
<1>3. a \in Nat /\ (delay = 0 => a = 0)
  BY <1>1, <1>2
<1>4. PICK m : m = a % Wrap
  OBVIOUS
<1>5. m \in Nat /\ m <= a /\ (a < Wrap => m = a) /\ (a = 0 => m = 0)
  BY <1>1, <1>3, <1>4, Remainder
<1>6. /\ m \div Millis \in Nat /\ m \div Millis <= delay
      /\ a < Wrap => m \div Millis = delay
  BY <1>1, <1>2, <1>3, <1>5, Quotient
<1>7. milliseconds = m /\ seconds = m \div Millis /\ (Fits <=> a < Wrap)
  BY <1>2, <1>4 DEF milliseconds, Milliseconds, seconds, Fits
<1> QED BY <1>1, <1>3, <1>5, <1>6, <1>7

\* The delay is never changed, so the update always gets the same number.
LEMMA SameDelay ==
  ASSUME delay' = delay
  PROVE  milliseconds' = milliseconds /\ seconds' = seconds
  BY DEF milliseconds, Milliseconds, seconds

\* What the update with the configured delay leaves: armed or, with 0
\* milliseconds, disarmed.
LEMMA RearmEffect ==
  ASSUME Rearm, delay \in Delays
  PROVE  /\ armed' \in BOOLEAN /\ left' \in 0..delay /\ left' = seconds
         /\ armed' => milliseconds > 0
<1>1. armed' \in BOOLEAN
  BY DEF Rearm
<1>2. left' = seconds /\ left' \in 0..delay
  BY DelayIs DEF Rearm
<1>3. armed' => milliseconds > 0
  BY DEF Rearm
<1> QED
  BY <1>1, <1>2, <1>3

\* plugin_init arms the timer with the whole delay.
LEMMA InitInv == Init => Inv
<1> SUFFICES ASSUME Init PROVE Inv
  OBVIOUS
<1>n. delay \in Nat /\ seconds \in 0..delay
  BY DelayIs DEF Init
<1>1. TypeOK
  <2>1. armed \in BOOLEAN
    BY DEF Init
  <2>2. left \in 0..delay /\ quiet \in 0..delay
    BY <1>n DEF Init
  <2> QED
    BY <2>1, <2>2 DEF Init, TypeOK
<1>2. Countdown
  <2>1. armed => milliseconds > 0
    BY DEF Init
  <2>2. quiet + left >= seconds
    BY <1>n DEF Init
  <2> QED
    BY <2>1, <2>2 DEF Countdown
<1> QED
  BY <1>1, <1>2 DEF Init, Inv, ForceIsDue

\* Every step keeps the countdown.
LEMMA NextInv == Inv /\ [Next]_dvars => Inv'
<1> SUFFICES ASSUME Inv, [Next]_dvars PROVE Inv'
  OBVIOUS
<1>a. TypeOK /\ ForceIsDue /\ Countdown
  BY DEF Inv
<1>n. delay \in Delays /\ delay \in Nat /\ milliseconds \in Nat /\ seconds \in 0..delay
  BY <1>a, DelayIs DEF TypeOK
<1>d. milliseconds' = milliseconds /\ seconds' = seconds
  <2>1. delay' = delay
    BY DEF Next, timer_cb_sleep, key_cb_toggle_sleep, handle_activity, Tick, OutputPluggedIn,
           OutputUnplugged, FullscreenChanges, dvars
  <2> QED
    BY <2>1, SameDelay
<1>r. ASSUME Rearm, outputs' = outputs, asleep' \subseteq outputs, fullscreen' = fullscreen,
             delay' = delay, force' = FALSE, quiet' \in 0..delay
      PROVE  Inv'
  <2>1. TypeOK'
    BY <1>a, <1>n, <1>r, RearmEffect DEF TypeOK
  <2>2. quiet' + left' >= seconds
    <3>1. left' = seconds
      BY <1>r, <1>n, RearmEffect
    <3>2. quiet' \in Nat /\ seconds \in Nat
      BY <1>r, <1>n
    <3> QED
      BY <3>1, <3>2, <1>n, AtLeast
  <2>3. Countdown'
    <3>1. armed' => milliseconds > 0
      BY <1>r, <1>n, RearmEffect
    <3> QED
      BY <2>2, <3>1, <1>d DEF Countdown
  <2> QED
    BY <1>r, <2>1, <2>3 DEF Inv, ForceIsDue
<1> DEFINE m == milliseconds
           s == seconds
<1>c. /\ armed /\ ~force => m > 0 /\ quiet + left >= s
      /\ (armed' /\ ~force' => m > 0 /\ quiet' + left' >= s) => Countdown'
  BY <1>a, <1>d DEF Countdown
<1>z. m \in Nat /\ s \in 0..delay
  BY <1>n
<1> HIDE DEF m, s
<1>1. CASE timer_cb_sleep
  <2>1. CASE ~force /\ \E o \in outputs : contains_fullscreen_view(o)
    BY <1>1, <2>1, <1>a, <1>r DEF timer_cb_sleep, TypeOK
  <2>2. CASE ~(~force /\ \E o \in outputs : contains_fullscreen_view(o))
    BY <1>1, <2>2, <1>a, <1>c DEF timer_cb_sleep, Inv, TypeOK, ForceIsDue
  <2> QED
    BY <2>1, <2>2
<1>2. CASE key_cb_toggle_sleep
  BY <1>2, <1>a, <1>n, <1>c DEF key_cb_toggle_sleep, Inv, TypeOK, ForceIsDue
<1>3. CASE handle_activity
  <2>1. CASE force
    BY <1>3, <2>1, <1>a, <1>n, <1>c DEF handle_activity, Inv, TypeOK, ForceIsDue
  <2>2. CASE ~force
    <3>1. quiet' \in 0..delay
      BY <1>3, <1>n DEF handle_activity
    <3>2. Rearm /\ outputs' = outputs /\ fullscreen' = fullscreen /\ delay' = delay
      BY <1>3, <2>2 DEF handle_activity
    <3>3. asleep' \subseteq outputs /\ force' = FALSE
      BY <1>3, <2>2, <1>a DEF handle_activity, TypeOK
    <3> QED
      BY <1>r, <3>1, <3>2, <3>3
  <2> QED
    BY <2>1, <2>2
<1>4. CASE Tick
  <2>1. CASE armed /\ left > 0
    BY <1>4, <2>1, <1>a, <1>n, <1>c, <1>z DEF Tick, Inv, TypeOK, ForceIsDue
  <2>2. CASE ~(armed /\ left > 0)
    BY <1>4, <2>2, <1>a, <1>n, <1>c, <1>z DEF Tick, Inv, TypeOK, ForceIsDue
  <2> QED
    BY <2>1, <2>2
<1>5. ASSUME NEW o \in Outputs, OutputPluggedIn(o) \/ OutputUnplugged(o) \/ FullscreenChanges(o)
      PROVE  Inv'
  <2>1. TypeOK'
    BY <1>5, <1>a DEF OutputPluggedIn, OutputUnplugged, FullscreenChanges, TypeOK
  <2>2. UNCHANGED <<delay, force, armed, left, quiet>>
    BY <1>5 DEF OutputPluggedIn, OutputUnplugged, FullscreenChanges
  <2> QED
    BY <1>a, <1>c, <2>1, <2>2 DEF Inv, ForceIsDue
<1>6. CASE UNCHANGED dvars
  BY <1>6, <1>a, <1>c DEF dvars, Inv, TypeOK, ForceIsDue
<1> QED
  BY <1>1, <1>2, <1>3, <1>4, <1>5, <1>6 DEF Next

\* The countdown always holds; the three conjuncts of Inv follow.
LEMMA Invariance == Spec => []Inv
  BY InitInv, NextInv, PTL DEF Spec

\* The variables keep their types; what is asleep is plugged in.
THEOREM TypeCorrect == Spec => []TypeOK
<1>1. Inv => TypeOK
  BY DEF Inv
<1> QED
  BY Invariance, <1>1, PTL

\* After the key, no activity puts the sleep off (key_cb_toggle_sleep and the
\* test of force in handle_activity).
THEOREM ForceStaysDue == Spec => []ForceIsDue
<1>1. Inv => ForceIsDue
  BY DEF Inv
<1> QED
  BY Invariance, <1>1, PTL

\* Outputs go to sleep only for the key or after the whole delay, if it is
\* short enough for its milliseconds to fit into 32 bits, and after what is
\* left of it there if not (timer_cb_sleep, for every delay the timer takes and
\* any number of outputs).
THEOREM SleepEarned == Spec => SleepIsEarned
<1>1. Inv /\ [Next]_dvars =>
        [\A o \in Outputs : o \in asleep' \ asleep =>
           force \/ (delay > 0 /\ IF Fits THEN quiet = delay ELSE quiet >= seconds)]_dvars
  <2> SUFFICES ASSUME Inv, Next, NEW o \in Outputs, o \in asleep' \ asleep, ~force
               PROVE  delay > 0 /\ IF Fits THEN quiet = delay ELSE quiet >= seconds
    OBVIOUS
  <2>1. timer_cb_sleep
    BY DEF Next, key_cb_toggle_sleep, handle_activity, Tick, OutputPluggedIn,
           OutputUnplugged, FullscreenChanges
  <2>2. /\ delay \in Nat /\ seconds \in 0..delay /\ quiet \in 0..delay
        /\ milliseconds > 0 => delay > 0
        /\ Fits => seconds = delay
    BY DelayIs DEF Inv, TypeOK
  <2>3. milliseconds > 0 /\ quiet + left >= seconds /\ left = 0
    BY <2>1 DEF timer_cb_sleep, Inv, Countdown
  <2>4. quiet >= seconds
    BY <2>2, <2>3
  <2> QED
    BY <2>2, <2>3, <2>4
<1> QED
  BY Invariance, <1>1, PTL DEF Spec, SleepIsEarned
=============================================================================
