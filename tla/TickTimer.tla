------------------------------ MODULE TickTimer ------------------------------
(***************************************************************************)
(* The three timers (src/src/timers): BusyWaitTimer spins until the tick,  *)
(* FreeWaitTimer blocks until the tick, WorstCaseTimer blocks until        *)
(* worst_timer_delay_ns_ before it and spins from there.  They share every *)
(* other line, so kind says which one the object is.                       *)
(*                                                                         *)
(* Time passes in sleep_to_next_tick and between the calls; reading the    *)
(* clock takes none.  A second has SecondNs nanoseconds and a nanosecond   *)
(* PsPerNs picoseconds; unsigned arithmetic is modulo Word.                *)
(***************************************************************************)
EXTENDS Integers

CONSTANTS
  SecondNs,      \* SEC_TO_NS(1)
  PsPerNs,       \* NS_TO_PS(1)
  Word,          \* 2^64
  ResetAt,       \* 2^23, the count at which the timer starts over
  MaxFrequency,  \* TIMER_MAX_FREQUENCY
  Frequencies,   \* the frequencies asked for; RealTimeSystem never asks for 0
  Delays,        \* the values of worst_timer_delay_ns_
  Garbage,       \* what a field no constructor sets may hold
  Late,          \* the most a blocking sleep lasts too long
  UserCost,      \* the most time between two calls
  MaxClock       \* bound: no sleep starts after it

SecondPs == SecondNs * PsPerNs

ASSUME TickTimerAssumption ==
  /\ SecondNs \in Nat \ {0} /\ PsPerNs \in Nat \ {0} /\ ResetAt \in Nat \ {0}
  /\ Word \in Nat /\ SecondPs * ResetAt + PsPerNs < Word
  /\ MaxFrequency \in Nat /\ Frequencies \subseteq Nat \ {0}
  /\ Delays \subseteq Nat /\ Garbage \subseteq 0 .. Word - 1
  /\ Late \in Nat /\ UserCost \in Nat /\ MaxClock \in Nat

\* The clock, and the longest sleep there can be and how late it ends, are less
\* than Word nanoseconds, which are 584 years.
ASSUME UptimeAssumption ==
  /\ MaxClock + UserCost < Word
  /\ (Word - 1) \div PsPerNs + 1 + Late < Word

VARIABLES
  kind, worst_timer_delay_ns_,
  clock,                     \* CLOCK_MONOTONIC
  start_time_,               \* a timespec
  frequency_,                \* 0 for TIMER_FREQUNCY_ERROR
  original_sleep_time_ps_, sleep_time_ns_, sleep_counter_,
  timer_started_,
  error_,                    \* is_error()
  pc,                        \* where sleep_to_next_tick is ("idle": not called)
  steady,                    \* history: started with a frequency, not changed since
  origin, rounds             \* history: the time of start_timer (-1: not yet
                             \* called), the resets since

objVars  == <<kind, worst_timer_delay_ns_>>
tickVars == <<start_time_, sleep_time_ns_, sleep_counter_>>
histVars == <<steady, origin, rounds>>
vars == <<objVars, clock, tickVars, frequency_, original_sleep_time_ps_, timer_started_,
          error_, pc, histVars>>

Kinds == {"busy", "free", "worst"}

-----------------------------------------------------------------------------
(* timers_utils.h                                                          *)

Timespec(t) == [sec |-> t \div SecondNs, nsec |-> t % SecondNs]

TIMESPEC_DIFF_NS(t1, t2) ==
  ((t2.sec - t1.sec) * SecondNs + (t2.nsec - t1.nsec)) % Word

\* Mutant of ADD_NS_TO_TIMESPEC: what is carried into the seconds stays.
AddUnreduced(t, ns) ==
  [sec |-> t.sec + (t.nsec + ns) \div SecondNs, nsec |-> t.nsec + ns]

ADD_NS_TO_TIMESPEC(t, ns) ==
  [sec |-> t.sec + (t.nsec + ns) \div SecondNs, nsec |-> (t.nsec + ns) % SecondNs]

\* Mutant of SleepTime: the round-off is ignored.
SleepTimeBare(ps, counter) == ((ps * counter) % Word) \div PsPerNs

\* PS_TO_NS of the product, and one for the round-off.
SleepTime(ps, counter) == ((ps * counter) % Word) \div PsPerNs + 1

Elapsed == TIMESPEC_DIFF_NS(start_time_, Timespec(clock))

-----------------------------------------------------------------------------
\* No constructor sets the times and the counter.
Init ==
  /\ \/ kind \in {"busy", "free"} /\ worst_timer_delay_ns_ = 0
     \/ kind = "worst" /\ worst_timer_delay_ns_ \in Delays
  /\ clock = 0 /\ start_time_ \in {Timespec(t) : t \in Garbage}
  /\ frequency_ = 0
  /\ original_sleep_time_ps_ \in Garbage /\ sleep_time_ns_ \in Garbage
  /\ sleep_counter_ \in Garbage
  /\ timer_started_ = FALSE /\ error_ = FALSE
  /\ pc = "idle"
  /\ steady = FALSE /\ origin = -1 /\ rounds = 0

\* A call begins some time after the last one ended.
Call ==
  /\ pc = "idle"
  /\ clock' \in clock .. (IF clock < MaxClock THEN clock + UserCost ELSE clock)

Initialize ==
  /\ Call
  /\ frequency_' = 0
  /\ timer_started_' = FALSE
  /\ steady' = FALSE
  /\ UNCHANGED <<objVars, tickVars, original_sleep_time_ps_, error_, pc, origin, rounds>>

\* It does not ask whether the timer runs.
SetFrequency(f) ==
  /\ Call
  /\ \/ /\ f > MaxFrequency
        /\ error_' = TRUE
        /\ UNCHANGED <<frequency_, original_sleep_time_ps_, steady>>
     \/ /\ f <= MaxFrequency
        /\ frequency_' = f
        /\ original_sleep_time_ps_' = SecondPs \div f
        /\ steady' = FALSE
        /\ UNCHANGED error_
  /\ UNCHANGED <<objVars, tickVars, timer_started_, pc, origin, rounds>>

\* It does not ask whether a frequency was set.
StartTimer ==
  /\ Call
  /\ \/ /\ timer_started_
        /\ error_' = TRUE
        /\ UNCHANGED <<tickVars, timer_started_, histVars>>
     \/ /\ ~timer_started_
        /\ start_time_' = Timespec(clock')
        /\ timer_started_' = TRUE
        /\ sleep_counter_' = 1
        /\ sleep_time_ns_' = SleepTime(original_sleep_time_ps_, 1)
        /\ steady' = (frequency_ # 0)
        /\ origin' = clock' /\ rounds' = 0
        /\ UNCHANGED error_
  /\ UNCHANGED <<objVars, frequency_, original_sleep_time_ps_, pc>>

StopTimer ==
  /\ Call
  /\ timer_started_' = FALSE
  /\ steady' = FALSE
  /\ UNCHANGED <<objVars, tickVars, frequency_, original_sleep_time_ps_, error_, pc, origin,
                 rounds>>

GetError ==
  /\ pc = "idle"
  /\ error_
  /\ error_' = FALSE
  /\ UNCHANGED <<objVars, clock, tickVars, frequency_, original_sleep_time_ps_,
                 timer_started_, pc, histVars>>

-----------------------------------------------------------------------------
(* sleep_to_next_tick                                                      *)

\* The call; it does not ask whether the timer was started.
SleepToNextTick ==
  /\ Call
  /\ clock <= MaxClock
  /\ pc' = "check"
  /\ UNCHANGED <<objVars, tickVars, frequency_, original_sleep_time_ps_, timer_started_,
                 error_, histVars>>

Goto(from, to) ==
  /\ pc = from
  /\ pc' = to
  /\ UNCHANGED <<objVars, tickVars, frequency_, original_sleep_time_ps_, timer_started_,
                 histVars>>

TickMissed ==
  /\ Elapsed > sleep_time_ns_
  /\ Goto("check", "idle")
  /\ error_' = TRUE
  /\ UNCHANGED clock

\* How long the timer blocks before it spins; negative when it only spins.
BlockTime ==
  sleep_time_ns_ - Elapsed - (IF kind = "worst" THEN worst_timer_delay_ns_ ELSE 0)

GoToSpin ==
  /\ Elapsed <= sleep_time_ns_
  /\ kind = "busy" \/ (kind = "worst" /\ BlockTime < 0)
  /\ Goto("check", "spin")
  /\ UNCHANGED <<clock, error_>>

\* Mutant of Block: WorstCaseTimer sleeps the whole time.
BlockWhole ==
  /\ Elapsed <= sleep_time_ns_
  /\ kind = "free" \/ (kind = "worst" /\ BlockTime >= 0)
  /\ Goto("check", IF kind = "free" THEN "advance" ELSE "spin")
  /\ \E late \in 0 .. Late : clock' = clock + (sleep_time_ns_ - Elapsed) + late
  /\ UNCHANGED error_

\* nanoseconds_sleep: it sleeps again until the time is over.
Block ==
  /\ Elapsed <= sleep_time_ns_
  /\ kind = "free" \/ (kind = "worst" /\ BlockTime >= 0)
  /\ Goto("check", IF kind = "free" THEN "advance" ELSE "spin")
  /\ \E late \in 0 .. Late : clock' = clock + BlockTime + late
  /\ UNCHANGED error_

\* Mutant of SpinEnd: the loop ends a nanosecond before the tick.
SpinEndEarly ==
  /\ Elapsed + 1 >= sleep_time_ns_
  /\ Goto("spin", "advance")
  /\ UNCHANGED <<clock, error_>>

SpinEnd ==
  /\ Elapsed >= sleep_time_ns_
  /\ Goto("spin", "advance")
  /\ UNCHANGED <<clock, error_>>

\* One reading of the clock before the tick.
Spin ==
  /\ Elapsed < sleep_time_ns_
  /\ Goto("spin", "spin")
  /\ clock' = clock + 1
  /\ UNCHANGED error_

\* Mutant of Advance: the timer starts over with the time of the next tick.
AdvanceSwapped ==
  /\ pc = "advance"
  /\ pc' = "idle"
  /\ LET reset == sleep_counter_ = ResetAt
         next  == IF reset THEN 1 ELSE (sleep_counter_ + 1) % Word
     IN  /\ sleep_counter_' = next
         /\ sleep_time_ns_' = SleepTime(original_sleep_time_ps_, next)
         /\ start_time_' = IF reset THEN ADD_NS_TO_TIMESPEC(start_time_,
                                           sleep_time_ns_ + sleep_time_ns_')
                                    ELSE start_time_
         /\ rounds' = IF reset THEN rounds + 1 ELSE rounds
  /\ UNCHANGED <<objVars, clock, frequency_, original_sleep_time_ps_, timer_started_, error_,
                 steady, origin>>

\* Mutant of Advance: the counter is not reset.
AdvanceKeepsCount ==
  /\ pc = "advance"
  /\ pc' = "idle"
  /\ LET reset == sleep_counter_ = ResetAt
         next  == (sleep_counter_ + 1) % Word
     IN  /\ sleep_counter_' = next
         /\ sleep_time_ns_' = SleepTime(original_sleep_time_ps_, next)
         /\ start_time_' = IF reset THEN ADD_NS_TO_TIMESPEC(start_time_, sleep_time_ns_)
                                    ELSE start_time_
         /\ rounds' = IF reset THEN rounds + 1 ELSE rounds
  /\ UNCHANGED <<objVars, clock, frequency_, original_sleep_time_ps_, timer_started_, error_,
                 steady, origin>>

\* The time of the next tick; at ResetAt ticks the timer starts over from the
\* tick that has just been.
Advance ==
  /\ pc = "advance"
  /\ pc' = "idle"
  /\ LET reset == sleep_counter_ = ResetAt
         next  == IF reset THEN 1 ELSE (sleep_counter_ + 1) % Word
     IN  /\ sleep_counter_' = next
         /\ sleep_time_ns_' = SleepTime(original_sleep_time_ps_, next)
         /\ start_time_' = IF reset THEN ADD_NS_TO_TIMESPEC(start_time_, sleep_time_ns_)
                                    ELSE start_time_
         /\ rounds' = IF reset THEN rounds + 1 ELSE rounds
  /\ UNCHANGED <<objVars, clock, frequency_, original_sleep_time_ps_, timer_started_, error_,
                 steady, origin>>

-----------------------------------------------------------------------------
Next ==
  \/ Initialize \/ (\E f \in Frequencies : SetFrequency(f)) \/ StartTimer \/ StopTimer
  \/ GetError
  \/ SleepToNextTick \/ TickMissed \/ GoToSpin \/ Block \/ Spin \/ SpinEnd \/ Advance

Spec == Init /\ [][Next]_vars

-----------------------------------------------------------------------------
(* Properties.                                                             *)

\* The nanoseconds a timespec stands for.
Ns(t) == t.sec * SecondNs + t.nsec

\* The time of the tick the timer waits for, and its number since start_timer.
Due  == Ns(start_time_) + sleep_time_ns_
Tick == rounds * ResetAt + sleep_counter_

\* The time of the tick before: the start, or the time the timer had for it.
LastTick ==
  Ns(start_time_) +
    IF sleep_counter_ = 1 THEN 0 ELSE SleepTime(original_sleep_time_ps_, sleep_counter_ - 1)

\* What the interface says of the timer, in nanoseconds.  A sleep is over at the
\* end of sleep_to_next_tick: until then it is not past its tick.
SinceTick ==
  (IF pc \in {"spin", "advance"} /\ clock > Due THEN Due ELSE clock) - LastTick

Contract ==
  INSTANCE Timer WITH
    RoundOff <- 1, running <- steady,
    slot <- IF steady THEN original_sleep_time_ps_ \div PsPerNs ELSE 0,
    now  <- IF steady THEN SinceTick ELSE 0

\* Types; a timespec has less than a second of nanoseconds.
TypeOK ==
  /\ kind \in Kinds /\ worst_timer_delay_ns_ \in Nat
  /\ clock \in Nat
  /\ start_time_ \in [sec : Nat, nsec : 0 .. SecondNs - 1]
  /\ frequency_ \in 0 .. MaxFrequency
  /\ original_sleep_time_ps_ \in 0 .. Word - 1 /\ sleep_time_ns_ \in 0 .. Word - 1
  /\ sleep_counter_ \in 0 .. Word - 1
  /\ timer_started_ \in BOOLEAN /\ error_ \in BOOLEAN
  /\ pc \in {"idle", "check", "spin", "advance"}
  /\ steady \in BOOLEAN /\ origin \in Nat \cup {-1} /\ rounds \in Nat

\* start_timer was called, so that the times are no garbage.
Started == origin >= 0

\* However it is used, also with a frequency changed while it runs, the timer is
\* back at the tick it was to wait for: exactly when it spins, no later than its
\* sleep was when it blocks, less the delay that WorstCaseTimer keeps for that.
OnTime ==
  Started /\ pc = "advance" =>
    \/ clock = Due
    \/ kind # "busy" /\ clock \in Due .. Due + Late - worst_timer_delay_ns_

\* timers_utils.h:52, "t1 captured before t2": the time of the start is never
\* ahead of the clock, so that no difference wraps around.
StartNotAhead == Started => Ns(start_time_) <= clock

\* timer.h:74, "sleep until at least the next tick", and the rest of the
\* interface: the contract on which RealTimeSystem relies.
ImplementsTimer == Contract!Spec

\* Ticks are a slot apart, up to the nanosecond of the round-off, also when the
\* timer starts over (busy_wait_timer.cpp:82), and however long it has run: the
\* product of busy_wait_timer.cpp:91 never overflows.
SlotLength ==
  [][steady /\ pc = "advance" =>
       Due' - Due \in {original_sleep_time_ps_ \div PsPerNs,
                       original_sleep_time_ps_ \div PsPerNs + 1}]_vars

\* The tick is as late as round-off makes it, a nanosecond for every start over
\* and one more, and never early.
RoundOffOnly ==
  frequency_ * (Due - origin) \in
    Tick * SecondNs .. Tick * SecondNs + frequency_ * (rounds + 1)

\* The error of the n-th tick, for the frequencies that divide a second.
ExactFrequencyKeepsPace == steady /\ SecondPs % frequency_ = 0 => RoundOffOnly

\* busy_wait_timer.cpp:78, "sleep_time_ns_ is bigger than the needed value by 1
\* nanosecond because round-off error. so this increases the error by 1ns each
\* (2^23 / frequency) seconds", said of every frequency.
KeepsPace == steady => RoundOffOnly
=============================================================================
