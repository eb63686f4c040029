------------------------------- MODULE Timer -------------------------------
(***************************************************************************)
(* What a class that implements Timer (src/includes/timer.h) promises to a *)
(* system that sets a frequency, starts it and sleeps from tick to tick.   *)
(* The clock is the time since the last tick, or since start_timer.        *)
(***************************************************************************)
EXTENDS Naturals

CONSTANTS
  Late,       \* the most a sleep ends after the tick
  RoundOff    \* the most a slot is longer than another

VARIABLES
  running,    \* started with a frequency that has not been changed since
  slot,       \* the time from tick to tick
  now

timerVars == <<running, slot, now>>

Init == running = FALSE /\ slot = 0 /\ now = 0

\* start_timer
Start == running' = TRUE /\ slot' \in Nat /\ now' = 0

\* initialize, set_frequency, stop_timer
Stop == running' = FALSE /\ slot' = 0 /\ now' = 0

Pass == running /\ now' >= now /\ UNCHANGED <<running, slot>>

\* sleep_to_next_tick returns true, in a slot of length s: it was called before
\* the tick, and it is at or after it.
Ticks(s) == now <= s /\ now' \in 0 .. Late

\* sleep_to_next_tick returns false.
Missed(s) == now > s

Next ==
  \/ Start \/ Stop \/ Pass
  \/ \E r \in 0 .. RoundOff : running /\ Ticks(slot + r) /\ UNCHANGED <<running, slot>>

Spec == Init /\ [][Next]_timerVars
=============================================================================
