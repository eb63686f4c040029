-------------------------- MODULE TickTimerProofs --------------------------
(***************************************************************************)
(* Proofs about TickTimer, for every kind of timer, every frequency, every *)
(* garbage a timer starts from and every order of the calls.               *)
(***************************************************************************)
EXTENDS TickTimer, Division

-----------------------------------------------------------------------------
(* Arithmetic of the macros of timers_utils.h.                             *)

Times == [sec : Nat, nsec : 0 .. SecondNs - 1]

\* The clock as a timespec stands for the clock.
LEMMA TimespecNs ==
  ASSUME TickTimerAssumption, NEW t \in Nat
  PROVE  Timespec(t) \in Times /\ Ns(Timespec(t)) = t
<1>1. SecondNs \in Nat \ {0}
  BY DEF TickTimerAssumption
<1>2. /\ t \div SecondNs \in Nat /\ t % SecondNs \in 0 .. SecondNs - 1
      /\ t = (t \div SecondNs) * SecondNs + (t % SecondNs)
  BY <1>1, DivMod
<1>3. QED
  BY <1>2 DEF Timespec, Ns, Times

\* A timespec stands for a natural number.
LEMMA NsNat ==
  ASSUME TickTimerAssumption, NEW t \in Times
  PROVE  Ns(t) \in Nat
<1>1. SecondNs \in Nat /\ t.sec \in Nat /\ t.nsec \in Nat
  BY DEF TickTimerAssumption, Times
<1>2. QED
  BY <1>1 DEF Ns

\* ADD_NS_TO_TIMESPEC adds, and leaves less than a second of nanoseconds.
LEMMA AddNs ==
  ASSUME TickTimerAssumption, NEW t \in Times, NEW ns \in Nat
  PROVE  ADD_NS_TO_TIMESPEC(t, ns) \in Times /\ Ns(ADD_NS_TO_TIMESPEC(t, ns)) = Ns(t) + ns
<1>. DEFINE n == t.nsec + ns
            q == n \div SecondNs
            r == n % SecondNs
<1>1. SecondNs \in Nat \ {0} /\ t.sec \in Nat /\ n \in Nat
  BY DEF TickTimerAssumption, Times
<1>2. q \in Nat /\ r \in 0 .. SecondNs - 1 /\ n = SecondNs * q + r
  BY <1>1
<1>3. ADD_NS_TO_TIMESPEC(t, ns) = [sec |-> t.sec + q, nsec |-> r]
  BY DEF ADD_NS_TO_TIMESPEC
<1>4. (t.sec + q) * SecondNs + r = t.sec * SecondNs + n
  <2>. HIDE DEF n, q, r
  <2>1. (t.sec + q) * SecondNs = t.sec * SecondNs + SecondNs * q
    BY <1>1, <1>2
  <2>2. t.sec * SecondNs \in Nat /\ SecondNs * q \in Nat
    BY <1>1, <1>2
  <2>3. QED
    BY <1>1, <1>2, <2>1, <2>2
<1>5. t.sec * SecondNs \in Nat
  BY <1>1
<1>6. t.nsec \in Nat
  BY DEF Times
<1>7. Ns(ADD_NS_TO_TIMESPEC(t, ns)) = t.sec * SecondNs + n
  BY <1>3, <1>4 DEF Ns
<1>8. t.sec * SecondNs + n = Ns(t) + ns
  BY <1>5, <1>6 DEF Ns
<1>9. [sec |-> t.sec + q, nsec |-> r] \in Times
  <2>. HIDE DEF q, r
  <2>. QED
    BY <1>1, <1>2 DEF Times
<1>10. QED
  BY <1>3, <1>7, <1>8, <1>9

\* TIMESPEC_DIFF_NS is the difference, if "t1 captured before t2".
LEMMA DiffNs ==
  ASSUME TickTimerAssumption, NEW t1 \in Times, NEW t2 \in Times
  PROVE  /\ TIMESPEC_DIFF_NS(t1, t2) \in 0 .. Word - 1
         /\ Ns(t1) <= Ns(t2) /\ Ns(t2) - Ns(t1) < Word =>
              TIMESPEC_DIFF_NS(t1, t2) = Ns(t2) - Ns(t1)
<1>. DEFINE d == (t2.sec - t1.sec) * SecondNs + (t2.nsec - t1.nsec)
<1>1. SecondNs \in Nat /\ t1.sec \in Nat /\ t1.nsec \in Nat /\ t2.sec \in Nat /\ t2.nsec \in Nat
  BY DEF TickTimerAssumption, Times
<1>2. Word \in Nat \ {0}
  <2>1. SecondPs * ResetAt \in Nat
    BY DEF TickTimerAssumption, SecondPs
  <2>2. QED
    BY <2>1 DEF TickTimerAssumption
<1>3. (t2.sec - t1.sec) * SecondNs = t2.sec * SecondNs - t1.sec * SecondNs
  BY <1>1
<1>4. t2.sec * SecondNs \in Nat /\ t1.sec * SecondNs \in Nat
  BY <1>1
<1>5. d \in Int /\ d = Ns(t2) - Ns(t1)
  BY <1>1, <1>3, <1>4 DEF Ns
<1>6. TIMESPEC_DIFF_NS(t1, t2) = d % Word
  BY DEF TIMESPEC_DIFF_NS
<1>. HIDE DEF d
<1>7. d % Word \in 0 .. Word - 1 /\ (0 <= d /\ d < Word => d % Word = d)
  BY <1>2, <1>5
<1>8. Ns(t1) \in Nat /\ Ns(t2) \in Nat
  BY NsNat
<1>9. QED
  BY <1>5, <1>6, <1>7, <1>8

\* A sleep is at least a nanosecond, and a blocking one that long ends in time.
LEMMA SleepTimeFits ==
  ASSUME TickTimerAssumption, UptimeAssumption, NEW ps \in Nat, NEW counter \in Nat
  PROVE  /\ SleepTime(ps, counter) \in 1 .. Word - 1
         /\ SleepTime(ps, counter) + Late < Word
<1>. DEFINE n == (ps * counter) % Word
<1>1. Word \in Nat \ {0} /\ PsPerNs \in Nat \ {0} /\ Late \in Nat
  <2>1. SecondPs * ResetAt \in Nat
    BY DEF TickTimerAssumption, SecondPs
  <2>2. QED
    BY <2>1 DEF TickTimerAssumption
<1>2. ps * counter \in Nat
  OBVIOUS
<1>3. n \in Nat /\ n <= Word - 1
  BY <1>1, <1>2
<1>4. SleepTime(ps, counter) = n \div PsPerNs + 1
  BY DEF SleepTime
<1>. HIDE DEF n
<1>5. n \div PsPerNs \in Nat /\ (Word - 1) \div PsPerNs \in Nat
  BY <1>1, <1>3, DivFacts
<1>6. n \div PsPerNs <= (Word - 1) \div PsPerNs
  BY <1>1, <1>3, DivGrows
<1>7. (Word - 1) \div PsPerNs + 1 + Late < Word
  BY DEF UptimeAssumption
<1>8. QED
  BY <1>1, <1>4, <1>5, <1>6, <1>7

\* The product does not overflow before the timer starts over, whatever the
\* frequency.
LEMMA SleepTimeExact ==
  ASSUME TickTimerAssumption, NEW f \in Nat \ {0}, NEW counter \in 0 .. ResetAt
  PROVE  SleepTime(SecondPs \div f, counter) = ((SecondPs \div f) * counter) \div PsPerNs + 1
<1>. DEFINE ps == SecondPs \div f
<1>1. SecondPs \in Nat /\ ResetAt \in Nat /\ Word \in Nat /\ PsPerNs \in Nat
  BY DEF TickTimerAssumption, SecondPs
<1>2. SecondPs * ResetAt < Word
  <2>1. SecondPs * ResetAt \in Nat
    BY <1>1
  <2>2. QED
    BY <1>1, <2>1 DEF TickTimerAssumption
<1>3. ps \in Nat /\ ps <= SecondPs
  <2>1. ps \in Nat /\ f * ps <= SecondPs
    BY <1>1, DivFacts
  <2>. HIDE DEF ps
  <2>2. 1 * ps <= f * ps
    BY <2>1, MulMono
  <2>3. QED
    BY <1>1, <2>1, <2>2
<1>. HIDE DEF ps
<1>4. ps * counter <= SecondPs * counter
  BY <1>1, <1>3, MulMono
<1>5. counter * SecondPs <= ResetAt * SecondPs
  BY <1>1, MulMono
<1>6. ps * counter \in Nat /\ SecondPs * counter \in Nat /\ SecondPs * ResetAt \in Nat
  BY <1>1, <1>3
<1>7. ps * counter < Word
  BY <1>1, <1>2, <1>4, <1>5, <1>6
<1>8. (ps * counter) % Word = ps * counter
  BY <1>1, <1>6, <1>7
<1>9. QED
  BY <1>8 DEF SleepTime, ps

\* The values of the other constants.
LEMMA ConstantsOK ==
  ASSUME TickTimerAssumption
  PROVE  /\ SecondNs \in Nat \ {0} /\ PsPerNs \in Nat \ {0} /\ ResetAt \in Nat \ {0}
         /\ SecondPs \in Nat /\ SecondPs * ResetAt \in Nat /\ SecondPs <= SecondPs * ResetAt
         /\ Word \in Nat /\ SecondPs * ResetAt + PsPerNs < Word /\ ResetAt < Word /\ 1 < Word
         /\ MaxFrequency \in Nat /\ Late \in Nat /\ UserCost \in Nat /\ MaxClock \in Nat
<1>1. SecondNs \in Nat \ {0} /\ PsPerNs \in Nat \ {0} /\ ResetAt \in Nat \ {0}
  BY DEF TickTimerAssumption
<1>2. SecondPs \in Nat \ {0}
  <2>1. 1 * PsPerNs <= SecondNs * PsPerNs
    BY <1>1, MulMono
  <2>2. SecondNs * PsPerNs \in Nat
    BY <1>1
  <2>3. QED
    BY <1>1, <2>1, <2>2 DEF SecondPs
<1>3. SecondPs * ResetAt \in Nat
  BY <1>1, <1>2
<1>4. 1 * ResetAt <= SecondPs * ResetAt
  BY <1>1, <1>2, MulMono
<1>5. 1 * SecondPs <= ResetAt * SecondPs
  BY <1>1, <1>2, MulMono
<1>6. ResetAt * SecondPs = SecondPs * ResetAt
  BY <1>1, <1>2
<1>7. QED
  BY <1>1, <1>2, <1>3, <1>4, <1>5, <1>6 DEF TickTimerAssumption

\* The time from tick to tick in picoseconds.
LEMMA SlotPs ==
  ASSUME TickTimerAssumption, NEW f \in Nat \ {0}
  PROVE  SecondPs \div f \in 0 .. Word - 1
<1>1. SecondPs \in Nat /\ Word \in Nat /\ SecondPs < Word
  <2>1. /\ SecondPs \in Nat /\ SecondPs * ResetAt \in Nat /\ SecondPs <= SecondPs * ResetAt
        /\ Word \in Nat /\ SecondPs * ResetAt + PsPerNs < Word /\ PsPerNs \in Nat
    BY ConstantsOK
  <2>2. QED
    BY <2>1
<1>. DEFINE q == SecondPs \div f
<1>2. q \in Nat /\ f * q <= SecondPs
  BY <1>1, DivFacts
<1>. HIDE DEF q
<1>3. 1 * q <= f * q
  BY <1>2, MulMono
<1>4. q \in 0 .. Word - 1
  <2>1. f * q \in Nat /\ 1 * q = q
    BY <1>2
  <2>2. QED
    BY <1>1, <1>2, <1>3, <2>1
<1>5. QED
  BY <1>4 DEF q

-----------------------------------------------------------------------------
(* The inductive invariant.                                                *)

\* Only WorstCaseTimer keeps a delay.
KindInv == kind # "worst" => worst_timer_delay_ns_ = 0

\* The sleep of a frequency.
FrequencyInv ==
  frequency_ # 0 => original_sleep_time_ps_ = SecondPs \div frequency_

\* No difference of times that is looked at reaches Word.
RangeInv ==
  /\ pc = "check" => clock < Word
  /\ Started => sleep_time_ns_ + Late < Word

\* A timer that spins is not past its tick, unless it blocked before.
SpinInv ==
  Started /\ pc = "spin" =>
    clock <= Due \/ (kind = "worst" /\ clock <= Due + Late - worst_timer_delay_ns_)

\* The tick a timer that runs waits for is that of its counter.
SteadyInv ==
  steady =>
    /\ timer_started_ /\ Started /\ frequency_ # 0
    /\ sleep_counter_ \in 1 .. ResetAt
    /\ sleep_time_ns_ = SleepTime(original_sleep_time_ps_, sleep_counter_)

\* How late the time is from which the timer counts.
PaceInv ==
  steady /\ SecondPs % frequency_ = 0 =>
    frequency_ * (Ns(start_time_) - origin) \in
      rounds * (ResetAt * SecondNs) .. rounds * (ResetAt * SecondNs) + frequency_ * rounds

IndInv ==
  /\ TypeOK /\ KindInv /\ FrequencyInv /\ RangeInv
  /\ StartNotAhead /\ SpinInv /\ OnTime /\ SteadyInv /\ PaceInv

-----------------------------------------------------------------------------
(* Types.                                                                  *)

\* A call begins later, and a sleep not too late for the differences of times.
LEMMA CallTime ==
  ASSUME TickTimerAssumption, UptimeAssumption, TypeOK, Call
  PROVE  /\ pc = "idle" /\ clock' \in Nat /\ clock <= clock'
         /\ clock <= MaxClock => clock' < Word
<1>1. UserCost \in Nat /\ MaxClock \in Nat /\ Word \in Nat
  BY ConstantsOK
<1>2. clock \in Nat
  BY DEF TypeOK
<1>3. CASE clock < MaxClock
  BY <1>1, <1>2, <1>3 DEF Call, UptimeAssumption
<1>4. CASE ~(clock < MaxClock)
  BY <1>1, <1>2, <1>4 DEF Call, UptimeAssumption
<1>5. QED
  BY <1>3, <1>4

\* The time since start_time_, when it was before now and not 584 years ago.
LEMMA ElapsedTime ==
  ASSUME TickTimerAssumption, TypeOK
  PROVE  /\ Ns(start_time_) \in Nat /\ Elapsed \in Nat /\ clock \in Nat
         /\ sleep_time_ns_ \in Nat /\ Word \in Nat
         /\ Ns(start_time_) <= clock /\ clock < Ns(start_time_) + Word =>
              Elapsed = clock - Ns(start_time_)
<1>1. clock \in Nat /\ start_time_ \in Times /\ sleep_time_ns_ \in Nat
  <2>1. Word \in Nat
    BY ConstantsOK
  <2>2. QED
    BY <2>1 DEF TypeOK, Times
<1>2. Timespec(clock) \in Times /\ Ns(Timespec(clock)) = clock
  BY <1>1, TimespecNs
<1>3. Ns(start_time_) \in Nat
  BY <1>1, NsNat
<1>4. Word \in Nat
  BY ConstantsOK
<1>5. /\ Elapsed \in 0 .. Word - 1
      /\ Ns(start_time_) <= clock /\ clock - Ns(start_time_) < Word =>
           Elapsed = clock - Ns(start_time_)
  BY <1>1, <1>2, DiffNs DEF Elapsed
<1>. HIDE DEF Elapsed, Ns
<1>6. QED
  BY <1>1, <1>3, <1>4, <1>5

LEMMA TypeStep ==
  ASSUME TickTimerAssumption, UptimeAssumption, TypeOK, [Next]_vars
  PROVE  TypeOK'
<1>. USE DEF objVars, tickVars, histVars
<1>1. CASE UNCHANGED vars
  BY <1>1 DEF TypeOK, vars
<1>2. CASE Initialize
  <2>1. clock' \in Nat
    BY <1>2, CallTime DEF Initialize
  <2>2. frequency_' \in 0 .. MaxFrequency
    BY <1>2, ConstantsOK DEF Initialize
  <2>3. QED
    BY <1>2, <2>1, <2>2 DEF Initialize, TypeOK
<1>3. ASSUME NEW f \in Frequencies, SetFrequency(f)
      PROVE  TypeOK'
  <2>1. f \in Nat \ {0}
    BY DEF TickTimerAssumption
  <2>2. SecondPs \div f \in 0 .. Word - 1
    BY <2>1, SlotPs
  <2>3. clock' \in Nat /\ pc = "idle"
    BY <1>3, CallTime DEF SetFrequency
  <2>4. frequency_' \in 0 .. MaxFrequency
    BY <1>3, <2>1, ConstantsOK DEF SetFrequency, TypeOK
  <2>5. original_sleep_time_ps_' \in 0 .. Word - 1
    BY <1>3, <2>2 DEF SetFrequency, TypeOK
  <2>6. error_' \in BOOLEAN /\ steady' \in BOOLEAN
    BY <1>3 DEF SetFrequency, TypeOK
  <2>7. QED
    BY <1>3, <2>3, <2>4, <2>5, <2>6 DEF SetFrequency, TypeOK
<1>4. CASE StartTimer
  <2>1. clock' \in Nat
    BY <1>4, CallTime DEF StartTimer
  <2>2. CASE timer_started_
    BY <1>4, <2>1, <2>2 DEF StartTimer, TypeOK
  <2>3. CASE ~timer_started_
    <3>1. start_time_' \in Times
      BY <1>4, <2>1, <2>3, TimespecNs DEF StartTimer
    <3>2. sleep_time_ns_' \in 0 .. Word - 1
      <4>1. original_sleep_time_ps_ \in Nat /\ Word \in Nat
        BY ConstantsOK DEF TypeOK
      <4>2. SleepTime(original_sleep_time_ps_, 1) \in 1 .. Word - 1
        BY <4>1, SleepTimeFits
      <4>3. QED
        BY <1>4, <2>3, <4>1, <4>2 DEF StartTimer
    <3>3. sleep_counter_' \in 0 .. Word - 1
      BY <1>4, <2>3, ConstantsOK DEF StartTimer
    <3>4. origin' \in Nat \cup {-1} /\ rounds' \in Nat
      BY <1>4, <2>1, <2>3 DEF StartTimer
    <3>5. steady' \in BOOLEAN /\ timer_started_' \in BOOLEAN
      BY <1>4, <2>3 DEF StartTimer
    <3>6. QED
      BY <1>4, <2>1, <2>3, <3>1, <3>2, <3>3, <3>4, <3>5 DEF StartTimer, TypeOK, Times
  <2>4. QED
    BY <2>2, <2>3
<1>5. CASE StopTimer
  BY <1>5, CallTime DEF StopTimer, TypeOK
<1>6. CASE GetError
  BY <1>6 DEF GetError, TypeOK
<1>7. CASE SleepToNextTick
  BY <1>7, CallTime DEF SleepToNextTick, TypeOK
<1>8. CASE TickMissed
  BY <1>8 DEF TickMissed, Goto, TypeOK
<1>9. CASE GoToSpin
  BY <1>9 DEF GoToSpin, Goto, TypeOK
<1>10. CASE Block
  <2>1. BlockTime \in Nat
    <3>1. Elapsed \in Nat /\ sleep_time_ns_ \in Nat /\ worst_timer_delay_ns_ \in Nat
      BY ElapsedTime DEF TypeOK
    <3>2. Elapsed <= sleep_time_ns_
      BY <1>10 DEF Block
    <3>. HIDE DEF Elapsed
    <3>3. kind = "free" => BlockTime \in Nat
      BY <3>1, <3>2 DEF BlockTime
    <3>4. BlockTime >= 0 => BlockTime \in Nat
      BY <3>1, <3>2 DEF BlockTime
    <3>5. QED
      BY <1>10, <3>3, <3>4 DEF Block
  <2>2. clock' \in Nat
    <3>1. PICK late \in 0 .. Late : clock' = clock + BlockTime + late
      BY <1>10 DEF Block
    <3>2. clock \in Nat /\ Late \in Nat
      BY ConstantsOK DEF TypeOK
    <3>. HIDE DEF BlockTime
    <3>3. QED
      BY <2>1, <3>1, <3>2
  <2>3. QED
    BY <1>10, <2>2 DEF Block, Goto, TypeOK
<1>11. CASE Spin
  BY <1>11 DEF Spin, Goto, TypeOK
<1>12. CASE SpinEnd
  BY <1>12 DEF SpinEnd, Goto, TypeOK
<1>13. CASE Advance
  <2>. DEFINE next == IF sleep_counter_ = ResetAt THEN 1 ELSE (sleep_counter_ + 1) % Word
  <2>1. next \in 0 .. Word - 1
    <3>1. sleep_counter_ \in Nat /\ Word \in Nat \ {0} /\ 1 < Word
      BY ConstantsOK DEF TypeOK
    <3>2. (sleep_counter_ + 1) % Word \in 0 .. Word - 1
      BY <3>1
    <3>3. QED
      BY <3>1, <3>2
  <2>2. sleep_counter_' = next /\ sleep_time_ns_' = SleepTime(original_sleep_time_ps_, next)
    BY <1>13 DEF Advance
  <2>. HIDE DEF next
  <2>3. original_sleep_time_ps_ \in Nat /\ sleep_time_ns_ \in Nat /\ next \in Nat /\ Word \in Nat
    BY <2>1, ConstantsOK DEF TypeOK
  <2>4. SleepTime(original_sleep_time_ps_, next) \in 1 .. Word - 1
    BY <2>3, SleepTimeFits
  <2>5. sleep_time_ns_' \in 0 .. Word - 1
    BY <2>2, <2>3, <2>4
  <2>6. start_time_' \in Times
    <3>1. start_time_ \in Times
      BY DEF TypeOK, Times
    <3>2. ADD_NS_TO_TIMESPEC(start_time_, sleep_time_ns_) \in Times
      BY <2>3, <3>1, AddNs
    <3>3. QED
      BY <1>13, <3>1, <3>2 DEF Advance
  <2>7. rounds' \in Nat
    BY <1>13 DEF Advance, TypeOK
  <2>8. QED
    BY <1>13, <2>1, <2>2, <2>5, <2>6, <2>7 DEF Advance, TypeOK, Times
<1>. HIDE DEF objVars, tickVars, histVars
<1>14. QED
  BY <1>1, <1>2, <1>3, <1>4, <1>5, <1>6, <1>7, <1>8, <1>9, <1>10, <1>11, <1>12, <1>13
     DEF Next

-----------------------------------------------------------------------------
(* The time at which a sleep ends.                                         *)

TimeInv == KindInv /\ RangeInv /\ StartNotAhead /\ SpinInv /\ OnTime

\* Time that passes between the calls disturbs nothing.
LEMMA QuietTime ==
  ASSUME TickTimerAssumption, TypeOK, TypeOK', TimeInv,
         UNCHANGED <<objVars, start_time_, sleep_time_ns_, origin>>,
         pc' = "idle", clock <= clock'
  PROVE  TimeInv'
<1>1. clock \in Nat /\ clock' \in Nat
  BY DEF TypeOK
<1>2. Ns(start_time_)' = Ns(start_time_) /\ Ns(start_time_) \in Nat
  BY ElapsedTime DEF Ns
<1>. HIDE DEF Ns
<1>3. KindInv'
  BY DEF TimeInv, KindInv, objVars
<1>4. RangeInv'
  BY DEF TimeInv, RangeInv, Started
<1>5. StartNotAhead'
  BY <1>1, <1>2 DEF TimeInv, StartNotAhead, Started
<1>6. SpinInv' /\ OnTime'
  BY DEF SpinInv, OnTime
<1>7. QED
  BY <1>3, <1>4, <1>5, <1>6 DEF TimeInv

\* In sleep_to_next_tick of a timer that was started the time since the start is
\* the difference of the clocks.
LEMMA ElapsedInSleep ==
  ASSUME TickTimerAssumption, TypeOK, TimeInv, Started, pc \in {"check", "spin"}
  PROVE  Elapsed = clock - Ns(start_time_)
<1>1. /\ Ns(start_time_) \in Nat /\ clock \in Nat /\ sleep_time_ns_ \in Nat /\ Word \in Nat
      /\ Ns(start_time_) <= clock /\ clock < Ns(start_time_) + Word =>
           Elapsed = clock - Ns(start_time_)
  BY ElapsedTime
<1>2. Ns(start_time_) <= clock
  BY DEF TimeInv, StartNotAhead
<1>3. Late \in Nat /\ worst_timer_delay_ns_ \in Nat
  BY ConstantsOK DEF TypeOK
<1>4. clock < Ns(start_time_) + Word
  <2>. HIDE DEF Ns
  <2>1. CASE pc = "check"
    BY <1>1, <2>1 DEF TimeInv, RangeInv
  <2>2. CASE pc = "spin"
    <3>1. sleep_time_ns_ + Late < Word
      BY DEF TimeInv, RangeInv
    <3>2. clock <= Due + Late
      BY <1>1, <1>3, <2>2 DEF TimeInv, SpinInv, Due
    <3>3. QED
      BY <1>1, <1>3, <3>1, <3>2 DEF Due
  <2>3. QED
    BY <2>1, <2>2
<1>5. QED
  BY <1>1, <1>2, <1>4

\* The sleep blocks until the tick, or until the delay before it.
LEMMA BlockUntil ==
  ASSUME TickTimerAssumption, TypeOK, TimeInv, Started, pc = "check"
  PROVE  clock + BlockTime = Due - worst_timer_delay_ns_
<1>1. Elapsed = clock - Ns(start_time_)
  BY ElapsedInSleep
<1>2. /\ Ns(start_time_) \in Nat /\ clock \in Nat /\ sleep_time_ns_ \in Nat
      /\ worst_timer_delay_ns_ \in Nat
  BY ElapsedTime DEF TypeOK
<1>. HIDE DEF Elapsed, Ns
<1>3. kind # "worst" => worst_timer_delay_ns_ = 0
  BY DEF TimeInv, KindInv
<1>4. QED
  BY <1>1, <1>2, <1>3 DEF BlockTime, Due

LEMMA TimeStep ==
  ASSUME TickTimerAssumption, UptimeAssumption, TypeOK, TypeOK', TimeInv, [Next]_vars
  PROVE  TimeInv'
<1>. USE DEF objVars, tickVars, histVars
<1>a. clock \in Nat /\ clock' \in Nat
  BY DEF TypeOK
<1>b. clock <= clock
  BY <1>a
<1>1. CASE UNCHANGED vars
  BY <1>1
     DEF vars, TimeInv, KindInv, RangeInv, StartNotAhead, SpinInv, OnTime, Started, Due, Ns
<1>2. CASE Initialize
  BY <1>2, CallTime, QuietTime DEF Initialize
<1>3. ASSUME NEW f \in Frequencies, SetFrequency(f)
      PROVE  TimeInv'
  BY <1>3, CallTime, QuietTime DEF SetFrequency
<1>4. CASE StartTimer
  <2>1. pc = "idle" /\ pc' = "idle" /\ clock <= clock'
    BY <1>4, CallTime DEF StartTimer
  <2>2. CASE timer_started_
    BY <1>4, <2>1, <2>2, QuietTime DEF StartTimer
  <2>3. CASE ~timer_started_
    <3>1. KindInv'
      BY <1>4 DEF StartTimer, TimeInv, KindInv
    <3>2. RangeInv'
      <4>1. original_sleep_time_ps_ \in Nat
        BY ConstantsOK DEF TypeOK
      <4>2. SleepTime(original_sleep_time_ps_, 1) + Late < Word
        BY <4>1, SleepTimeFits
      <4>3. QED
        BY <1>4, <2>1, <2>3, <4>2 DEF StartTimer, RangeInv
    <3>3. StartNotAhead'
      <4>1. start_time_' = Timespec(clock')
        BY <1>4, <2>3 DEF StartTimer
      <4>2. Ns(start_time_') = clock'
        BY <1>a, <4>1, TimespecNs
      <4>3. QED
        BY <1>a, <4>2 DEF StartNotAhead
    <3>4. SpinInv' /\ OnTime'
      BY <2>1 DEF SpinInv, OnTime
    <3>5. QED
      BY <3>1, <3>2, <3>3, <3>4 DEF TimeInv
  <2>4. QED
    BY <2>2, <2>3
<1>5. CASE StopTimer
  BY <1>5, CallTime, QuietTime DEF StopTimer
<1>6. CASE GetError
  BY <1>6, <1>b, QuietTime DEF GetError
<1>7. CASE SleepToNextTick
  <2>1. pc' = "check" /\ clock <= clock' /\ clock' < Word
    BY <1>7, CallTime DEF SleepToNextTick
  <2>2. Ns(start_time_)' = Ns(start_time_) /\ Ns(start_time_) \in Nat
    BY <1>7, ElapsedTime DEF SleepToNextTick, Ns
  <2>. HIDE DEF Ns
  <2>3. StartNotAhead'
    BY <1>7, <1>a, <2>1, <2>2 DEF SleepToNextTick, TimeInv, StartNotAhead, Started
  <2>4. KindInv' /\ RangeInv' /\ SpinInv' /\ OnTime'
    BY <1>7, <2>1
       DEF SleepToNextTick, TimeInv, KindInv, RangeInv, SpinInv, OnTime, Started
  <2>5. QED
    BY <2>3, <2>4 DEF TimeInv
<1>8. CASE TickMissed
  BY <1>8, <1>b, QuietTime DEF TickMissed, Goto
<1>9. CASE GoToSpin
  <2>1. KindInv' /\ RangeInv' /\ StartNotAhead' /\ OnTime'
    BY <1>9
       DEF GoToSpin, Goto, TimeInv, KindInv, RangeInv, StartNotAhead, OnTime, Started, Ns
  <2>2. Started => clock <= Due
    <3>1. SUFFICES ASSUME Started
                   PROVE  clock <= Due
      OBVIOUS
    <3>2. Elapsed = clock - Ns(start_time_) /\ Elapsed <= sleep_time_ns_
      BY <1>9, <3>1, ElapsedInSleep DEF GoToSpin, Goto
    <3>3. Ns(start_time_) \in Nat /\ sleep_time_ns_ \in Nat
      BY ElapsedTime
    <3>. HIDE DEF Elapsed, Ns
    <3>4. QED
      BY <1>a, <3>2, <3>3 DEF Due
  <2>3. SpinInv'
    BY <1>9, <2>2 DEF GoToSpin, Goto, SpinInv, Started, Due, Ns
  <2>4. QED
    BY <2>1, <2>3 DEF TimeInv
<1>10. CASE Block
  <2>1. PICK late \in 0 .. Late : clock' = clock + BlockTime + late
    BY <1>10 DEF Block
  <2>2. /\ pc = "check" /\ pc' = IF kind = "free" THEN "advance" ELSE "spin"
        /\ kind \in {"free", "worst"}
        /\ UNCHANGED <<kind, worst_timer_delay_ns_, start_time_, sleep_time_ns_, origin>>
    BY <1>10 DEF Block, Goto
  <2>3. KindInv' /\ RangeInv'
    BY <2>2 DEF TimeInv, KindInv, RangeInv, Started
  <2>4. Due' = Due /\ Ns(start_time_)' = Ns(start_time_) /\ Started' = Started
    BY <2>2 DEF Due, Ns, Started
  <2>5. Ns(start_time_) \in Nat /\ sleep_time_ns_ \in Nat /\ Due \in Nat
        /\ worst_timer_delay_ns_ \in Nat /\ Late \in Nat /\ late \in Nat
    <3>1. Ns(start_time_) \in Nat /\ sleep_time_ns_ \in Nat
      BY ElapsedTime
    <3>. HIDE DEF Ns
    <3>2. QED
      BY <3>1, ConstantsOK DEF TypeOK, Due
  <2>6. SUFFICES ASSUME Started
                 PROVE  StartNotAhead' /\ SpinInv' /\ OnTime'
    BY <2>3, <2>4 DEF TimeInv, StartNotAhead, SpinInv, OnTime
  <2>7. clock' = Due - worst_timer_delay_ns_ + late
    <3>1. clock + BlockTime = Due - worst_timer_delay_ns_
      BY <2>2, <2>6, BlockUntil
    <3>. HIDE DEF BlockTime, Due
    <3>2. QED
      BY <2>1, <3>1
  <2>8. clock <= clock'
    <3>1. BlockTime \in Int /\ BlockTime >= 0
      <4>1. Elapsed \in Nat /\ Elapsed <= sleep_time_ns_
        BY <1>10, ElapsedTime DEF Block
      <4>. HIDE DEF Elapsed
      <4>2. kind = "free" => BlockTime >= 0
        BY <2>5, <4>1 DEF BlockTime
      <4>3. BlockTime \in Int
        BY <2>5, <4>1 DEF BlockTime
      <4>4. QED
        BY <1>10, <4>2, <4>3 DEF Block
    <3>. HIDE DEF BlockTime
    <3>2. QED
      BY <1>a, <2>1, <2>5, <3>1
  <2>. HIDE DEF Due, Ns
  <2>9. StartNotAhead'
    <3>1. Ns(start_time_) <= clock
      BY <2>6 DEF TimeInv, StartNotAhead
    <3>2. QED
      BY <1>a, <2>4, <2>5, <2>8, <3>1 DEF StartNotAhead
  <2>10. SpinInv'
    <3>1. clock' <= Due + Late - worst_timer_delay_ns_
      BY <2>5, <2>7
    <3>2. QED
      BY <2>2, <2>4, <3>1 DEF SpinInv
  <2>11. OnTime'
    <3>1. SUFFICES ASSUME kind = "free"
                   PROVE  clock' \in Due .. Due + Late - worst_timer_delay_ns_
      BY <2>2, <2>4 DEF OnTime
    <3>2. worst_timer_delay_ns_ = 0
      BY <3>1 DEF TimeInv, KindInv
    <3>3. QED
      BY <2>5, <2>7, <3>2
  <2>12. QED
    BY <2>9, <2>10, <2>11
<1>11. CASE Spin
  <2>1. /\ pc = "spin" /\ pc' = "spin" /\ clock' = clock + 1 /\ Elapsed < sleep_time_ns_
        /\ UNCHANGED <<kind, worst_timer_delay_ns_, start_time_, sleep_time_ns_, origin>>
    BY <1>11 DEF Spin, Goto
  <2>2. Due' = Due /\ Ns(start_time_)' = Ns(start_time_) /\ Started' = Started
    BY <2>1 DEF Due, Ns, Started
  <2>3. Ns(start_time_) \in Nat /\ sleep_time_ns_ \in Nat
    BY ElapsedTime
  <2>4. KindInv' /\ RangeInv' /\ OnTime'
    BY <2>1 DEF TimeInv, KindInv, RangeInv, OnTime, Started
  <2>5. StartNotAhead' /\ SpinInv'
    <3>1. SUFFICES ASSUME Started
                   PROVE  Ns(start_time_) <= clock' /\ clock' <= Due
      BY <2>2 DEF StartNotAhead, SpinInv
    <3>2. Ns(start_time_) <= clock
      BY <3>1 DEF TimeInv, StartNotAhead
    <3>3. Elapsed = clock - Ns(start_time_)
      BY <2>1, <3>1, ElapsedInSleep
    <3>. HIDE DEF Elapsed, Ns
    <3>4. QED
      BY <1>a, <2>1, <2>3, <3>2, <3>3 DEF Due
  <2>6. QED
    BY <2>4, <2>5 DEF TimeInv
<1>12. CASE SpinEnd
  <2>1. /\ pc = "spin" /\ pc' = "advance" /\ clock' = clock /\ Elapsed >= sleep_time_ns_
        /\ UNCHANGED <<kind, worst_timer_delay_ns_, start_time_, sleep_time_ns_, origin>>
    BY <1>12 DEF SpinEnd, Goto
  <2>2. Due' = Due /\ Ns(start_time_)' = Ns(start_time_) /\ Started' = Started
    BY <2>1 DEF Due, Ns, Started
  <2>3. Ns(start_time_) \in Nat /\ sleep_time_ns_ \in Nat /\ Due \in Nat
    <3>1. Ns(start_time_) \in Nat /\ sleep_time_ns_ \in Nat
      BY ElapsedTime
    <3>. HIDE DEF Ns
    <3>2. QED
      BY <3>1 DEF Due
  <2>4. KindInv' /\ RangeInv' /\ StartNotAhead' /\ SpinInv'
    BY <2>1, <2>2 DEF TimeInv, KindInv, RangeInv, StartNotAhead, SpinInv, Started
  <2>5. OnTime'
    <3>1. SUFFICES ASSUME Started
                   PROVE  \/ clock = Due
                          \/ /\ kind # "busy"
                             /\ clock \in Due .. Due + Late - worst_timer_delay_ns_
      BY <2>1, <2>2 DEF OnTime
    <3>2. Elapsed = clock - Ns(start_time_)
      BY <2>1, <3>1, ElapsedInSleep
    <3>3. Due <= clock
      <4>. HIDE DEF Elapsed, Ns
      <4>1. QED
        BY <1>a, <2>1, <2>3, <3>2 DEF Due
    <3>4. worst_timer_delay_ns_ \in Nat /\ Late \in Nat
      BY ConstantsOK DEF TypeOK
    <3>. HIDE DEF Due
    <3>5. CASE clock <= Due
      BY <1>a, <2>3, <3>3, <3>5
    <3>6. CASE kind = "worst" /\ clock <= Due + Late - worst_timer_delay_ns_
      <4>1. clock \in Due .. Due + Late - worst_timer_delay_ns_
        BY <1>a, <2>3, <3>3, <3>4, <3>6
      <4>2. QED
        BY <3>6, <4>1
    <3>7. QED
      BY <2>1, <3>1, <3>5, <3>6 DEF TimeInv, SpinInv
  <2>6. QED
    BY <2>4, <2>5 DEF TimeInv
<1>13. CASE Advance
  <2>1. /\ pc = "advance" /\ pc' = "idle"
        /\ UNCHANGED <<kind, worst_timer_delay_ns_, clock, origin>>
    BY <1>13 DEF Advance
  <2>2. KindInv' /\ SpinInv' /\ OnTime'
    BY <2>1 DEF TimeInv, KindInv, SpinInv, OnTime
  <2>3. RangeInv'
    <3>1. sleep_time_ns_' = SleepTime(original_sleep_time_ps_, sleep_counter_')
      BY <1>13 DEF Advance
    <3>2. original_sleep_time_ps_ \in Nat /\ sleep_counter_' \in Nat
      BY ConstantsOK DEF TypeOK
    <3>3. SleepTime(original_sleep_time_ps_, sleep_counter_') + Late < Word
      BY <3>2, SleepTimeFits
    <3>4. QED
      BY <2>1, <3>1, <3>3 DEF RangeInv
  <2>4. StartNotAhead'
    <3>1. SUFFICES ASSUME Started
                   PROVE  Ns(start_time_)' <= clock
      BY <2>1 DEF StartNotAhead, Started
    <3>2. CASE start_time_' = start_time_
      BY <3>1, <3>2 DEF Ns, TimeInv, StartNotAhead
    <3>3. CASE start_time_' = ADD_NS_TO_TIMESPEC(start_time_, sleep_time_ns_)
      <4>1. sleep_time_ns_ \in Nat /\ Ns(start_time_) \in Nat
        BY ElapsedTime
      <4>2. Ns(start_time_)' = Ns(start_time_) + sleep_time_ns_
        <5>1. start_time_ \in Times
          BY DEF TypeOK, Times
        <5>2. Ns(ADD_NS_TO_TIMESPEC(start_time_, sleep_time_ns_)) = Ns(start_time_) + sleep_time_ns_
          BY <4>1, <5>1, AddNs
        <5>3. QED
          BY <3>3, <5>2 DEF Ns
      <4>3. Late \in Nat /\ worst_timer_delay_ns_ \in Nat
        BY ConstantsOK DEF TypeOK
      <4>. HIDE DEF Ns
      <4>4. Due \in Nat
        BY <4>1 DEF Due
      <4>5. Due <= clock
        <5>. HIDE DEF Due
        <5>1. QED
          BY <1>a, <2>1, <3>1, <4>3, <4>4 DEF TimeInv, OnTime
      <4>6. QED
        BY <4>2, <4>5 DEF Due
    <3>4. QED
      BY <1>13, <3>2, <3>3 DEF Advance
  <2>5. QED
    BY <2>2, <2>3, <2>4 DEF TimeInv
<1>. HIDE DEF objVars, tickVars, histVars
<1>14. QED
  BY <1>1, <1>2, <1>3, <1>4, <1>5, <1>6, <1>7, <1>8, <1>9, <1>10, <1>11, <1>12, <1>13
     DEF Next

-----------------------------------------------------------------------------
(* The ticks of a timer that runs.                                         *)

\* What the timer waits for is the product of its counter, exactly.
LEMMA SteadySleep ==
  ASSUME TickTimerAssumption, TypeOK, FrequencyInv, SteadyInv, steady
  PROVE  /\ frequency_ \in Nat \ {0} /\ original_sleep_time_ps_ = SecondPs \div frequency_
         /\ original_sleep_time_ps_ \in Nat
         /\ sleep_counter_ \in 1 .. ResetAt
         /\ sleep_time_ns_ = (original_sleep_time_ps_ * sleep_counter_) \div PsPerNs + 1
<1>1. frequency_ \in Nat \ {0} /\ original_sleep_time_ps_ \in Nat
  BY ConstantsOK DEF TypeOK, SteadyInv
<1>2. original_sleep_time_ps_ = SecondPs \div frequency_
  BY DEF FrequencyInv, SteadyInv
<1>3. sleep_counter_ \in 1 .. ResetAt /\ sleep_counter_ \in 0 .. ResetAt
  BY ConstantsOK DEF SteadyInv
<1>4. sleep_time_ns_ = SleepTime(SecondPs \div frequency_, sleep_counter_)
  BY <1>2 DEF SteadyInv
<1>5. QED
  BY <1>1, <1>2, <1>3, <1>4, SleepTimeExact

\* The count of a timer that runs goes from 1 to ResetAt.
LEMMA SteadyCount ==
  ASSUME TickTimerAssumption, SteadyInv, steady, Advance
  PROVE  /\ sleep_counter_' \in 1 .. ResetAt
         /\ sleep_counter_ # ResetAt => sleep_counter_' = sleep_counter_ + 1
<1>1. sleep_counter_ \in 1 .. ResetAt
  BY DEF SteadyInv
<1>2. ResetAt \in Nat \ {0} /\ Word \in Nat /\ ResetAt < Word
  BY ConstantsOK
<1>3. CASE sleep_counter_ = ResetAt
  BY <1>2, <1>3 DEF Advance
<1>4. CASE sleep_counter_ # ResetAt
  <2>1. (sleep_counter_ + 1) % Word = sleep_counter_ + 1
    BY <1>1, <1>2, <1>4
  <2>2. sleep_counter_' = sleep_counter_ + 1
    BY <1>4, <2>1 DEF Advance
  <2>3. QED
    BY <1>1, <1>2, <1>4, <2>2
<1>5. QED
  BY <1>3, <1>4

LEMMA SteadyStep ==
  ASSUME TickTimerAssumption, UptimeAssumption, TypeOK, FrequencyInv, SteadyInv, [Next]_vars
  PROVE  FrequencyInv' /\ SteadyInv'
<1>. USE DEF objVars, tickVars, histVars, FrequencyInv, SteadyInv, Started
<1>1. CASE UNCHANGED vars
  BY <1>1 DEF vars
<1>2. CASE Initialize
  BY <1>2 DEF Initialize
<1>3. ASSUME NEW f \in Frequencies, SetFrequency(f)
      PROVE  FrequencyInv' /\ SteadyInv'
  BY <1>3 DEF SetFrequency
<1>4. CASE StartTimer
  <2>1. clock' \in Nat
    BY <1>4, CallTime DEF StartTimer
  <2>2. 1 \in 1 .. ResetAt
    BY ConstantsOK
  <2>3. CASE timer_started_
    BY <1>4, <2>3 DEF StartTimer
  <2>4. CASE ~timer_started_
    <3>1. origin' >= 0
      BY <1>4, <2>1, <2>4 DEF StartTimer
    <3>2. sleep_counter_' \in 1 .. ResetAt
      BY <1>4, <2>2, <2>4 DEF StartTimer
    <3>3. sleep_time_ns_' = SleepTime(original_sleep_time_ps_', sleep_counter_')
      BY <1>4, <2>4 DEF StartTimer
    <3>4. timer_started_' /\ (steady' => frequency_' # 0) /\ FrequencyInv'
      BY <1>4, <2>4 DEF StartTimer
    <3>5. QED
      BY <3>1, <3>2, <3>3, <3>4
  <2>5. QED
    BY <2>3, <2>4
<1>5. CASE StopTimer
  BY <1>5 DEF StopTimer
<1>6. CASE GetError
  BY <1>6 DEF GetError
<1>7. CASE SleepToNextTick
  BY <1>7 DEF SleepToNextTick
<1>8. CASE TickMissed
  BY <1>8 DEF TickMissed, Goto
<1>9. CASE GoToSpin
  BY <1>9 DEF GoToSpin, Goto
<1>10. CASE Block
  BY <1>10 DEF Block, Goto
<1>11. CASE Spin
  BY <1>11 DEF Spin, Goto
<1>12. CASE SpinEnd
  BY <1>12 DEF SpinEnd, Goto
<1>13. CASE Advance
  <2>1. FrequencyInv'
    BY <1>13 DEF Advance
  <2>2. steady => sleep_counter_' \in 1 .. ResetAt
    BY <1>13, SteadyCount
  <2>3. sleep_time_ns_' = SleepTime(original_sleep_time_ps_, sleep_counter_')
        /\ UNCHANGED <<steady, timer_started_, origin, frequency_, original_sleep_time_ps_>>
    BY <1>13 DEF Advance
  <2>4. QED
    BY <2>1, <2>2, <2>3
<1>. HIDE DEF objVars, tickVars, histVars, FrequencyInv, SteadyInv, Started
<1>14. QED
  BY <1>1, <1>2, <1>3, <1>4, <1>5, <1>6, <1>7, <1>8, <1>9, <1>10, <1>11, <1>12, <1>13
     DEF Next

\* A frequency that divides a second: the multiples of its slot in nanoseconds
\* are rounded down by less than a nanosecond.
LEMMA SlotPace ==
  ASSUME TickTimerAssumption, NEW f \in Nat \ {0}, SecondPs % f = 0, NEW c \in Nat
  PROVE  LET q == ((SecondPs \div f) * c) \div PsPerNs
         IN  q \in Nat /\ SecondNs * c <= f * (q + 1) /\ f * (q + 1) <= SecondNs * c + f
<1>. DEFINE ps == SecondPs \div f
            q  == (ps * c) \div PsPerNs
            S  == SecondNs
            P  == PsPerNs
<1>1. S \in Nat /\ P \in Nat \ {0} /\ SecondPs \in Nat
  BY ConstantsOK
<1>2. ps \in Nat /\ f * ps = S * P
  <2>1. ps \in Nat /\ SecondPs = ps * f + (SecondPs % f)
    BY <1>1, DivMod
  <2>. HIDE DEF ps
  <2>2. QED
    BY <1>1, <2>1 DEF SecondPs
<1>. HIDE DEF ps
<1>3. ps * c \in Nat
  BY <1>2
<1>4. q \in Nat /\ P * q <= ps * c /\ ps * c < P * q + P
  BY <1>1, <1>3, DivFacts
<1>. HIDE DEF q, S, P
<1>5. f * (ps * c) = P * (S * c)
  <2>1. f * (ps * c) = (f * ps) * c
    BY <1>2
  <2>2. (S * P) * c = P * (S * c)
    BY <1>1
  <2>3. QED
    BY <1>2, <2>1, <2>2
<1>6. S * c \in Nat /\ f * q \in Nat /\ P * q \in Nat /\ P * q + P \in Nat /\ ps * c + 1 \in Nat
      /\ f * (q + 1) = f * q + f
  BY <1>1, <1>3, <1>4
<1>7. f * q <= S * c
  <2>1. (P * q) * f <= (ps * c) * f
    BY <1>3, <1>4, <1>6, MulMono
  <2>2. (P * q) * f = P * (f * q) /\ (ps * c) * f = f * (ps * c)
    BY <1>1, <1>2, <1>4
  <2>3. P * (f * q) <= P * (S * c)
    BY <1>5, <2>1, <2>2
  <2>4. SUFFICES ASSUME S * c + 1 <= f * q
                 PROVE  FALSE
    BY <1>6
  <2>5. (S * c + 1) * P <= (f * q) * P
    BY <1>1, <1>6, <2>4, MulMono
  <2>. DEFINE u == S * c
              v == f * q
  <2>6. u \in Nat /\ v \in Nat /\ (u + 1) * P <= v * P /\ P * v <= P * u
    BY <1>6, <2>3, <2>5
  <2>. HIDE DEF u, v
  <2>7. QED
    BY <1>1, <2>6
<1>8. S * c < f * q + f
  <2>1. (ps * c) * f < (P * q + P) * f
    <3>. DEFINE u == ps * c
                v == P * q + P
    <3>1. u \in Nat /\ v \in Nat
      BY <1>3, <1>6
    <3>2. u < v
      BY <1>4
    <3>. HIDE DEF u, v
    <3>3. u + 1 \in Nat /\ u + 1 <= v
      BY <3>1, <3>2
    <3>4. (u + 1) * f <= v * f
      BY <3>1, <3>3, MulMono
    <3>5. u * f < v * f
      BY <3>1, <3>4
    <3>6. QED
      BY <3>5 DEF u, v
  <2>2. (P * q + P) * f = P * (f * q + f) /\ (ps * c) * f = f * (ps * c)
    BY <1>1, <1>2, <1>4
  <2>3. P * (S * c) < P * (f * q + f)
    BY <1>5, <2>1, <2>2
  <2>. DEFINE u == S * c
              v == f * q + f
  <2>4. u \in Nat /\ v \in Nat /\ P * u < P * v
    BY <1>6, <2>3
  <2>. HIDE DEF u, v
  <2>5. SUFFICES ASSUME v <= u
                 PROVE  FALSE
    BY <2>4 DEF u, v
  <2>6. v * P <= u * P
    BY <1>1, <2>4, <2>5, MulMono
  <2>7. QED
    BY <1>1, <2>4, <2>6
<1>9. S * c <= f * (q + 1) /\ f * (q + 1) <= S * c + f
  BY <1>6, <1>7, <1>8
<1>10. QED
  BY <1>4, <1>9 DEF q, ps, S, P

\* A sleep y after k rounds that took x: the errors of the rounds add up.
LEMMA PaceSum ==
  ASSUME NEW f \in Nat, NEW x \in Int, NEW y \in Nat, NEW S \in Nat, NEW R \in Nat,
         NEW c \in Nat, NEW k \in Nat,
         f * x \in k * (R * S) .. k * (R * S) + f * k,
         S * c <= f * y, f * y <= S * c + f
  PROVE  f * (x + y) \in (k * R + c) * S .. (k * R + c) * S + f * (k + 1)
<1>1. f * (x + y) = f * x + f * y
  OBVIOUS
<1>2. (k * R + c) * S = k * (R * S) + S * c
  OBVIOUS
<1>3. f * (k + 1) = f * k + f
  OBVIOUS
<1>. DEFINE a == f * x
            b == f * y
            m == k * (R * S)
            n == S * c
            g == f * k
<1>4. a \in Int /\ b \in Nat /\ m \in Nat /\ n \in Nat /\ g \in Nat
  OBVIOUS
<1>5. m <= a /\ a <= m + g /\ n <= b /\ b <= n + f
  BY <1>4
<1>. HIDE DEF a, b, m, n, g
<1>6. a + b \in m + n .. m + n + (g + f)
  BY <1>4, <1>5
<1>7. QED
  BY <1>1, <1>2, <1>3, <1>6 DEF a, b, m, n, g

\* After the last tick of a round, the first number of the next one is due.
LEMMA RoundsOver ==
  ASSUME NEW k \in Nat, NEW R \in Nat, NEW S \in Nat
  PROVE  (k * R + R) * S = (k + 1) * (R * S)
OBVIOUS

\* When the timer starts over it does so from the tick that has just been.
LEMMA StartsOver ==
  ASSUME TickTimerAssumption, TypeOK, Advance
  PROVE  /\ Ns(start_time_) \in Nat /\ sleep_time_ns_ \in Nat
         /\ sleep_counter_ = ResetAt =>
              /\ Ns(start_time_)' = Ns(start_time_) + sleep_time_ns_
              /\ sleep_counter_' = 1 /\ rounds' = rounds + 1
         /\ sleep_counter_ # ResetAt =>
              Ns(start_time_)' = Ns(start_time_) /\ rounds' = rounds
<1>1. Ns(start_time_) \in Nat /\ sleep_time_ns_ \in Nat
  BY ElapsedTime
<1>2. start_time_ \in Times
  BY DEF TypeOK, Times
<1>3. Ns(ADD_NS_TO_TIMESPEC(start_time_, sleep_time_ns_)) = Ns(start_time_) + sleep_time_ns_
  BY <1>1, <1>2, AddNs
<1>4. Ns(start_time_)' = Ns(start_time_')
  BY DEF Ns
<1>. HIDE DEF Ns
<1>5. CASE sleep_counter_ = ResetAt
  BY <1>1, <1>3, <1>4, <1>5 DEF Advance
<1>6. CASE sleep_counter_ # ResetAt
  BY <1>1, <1>4, <1>6 DEF Advance
<1>7. QED
  BY <1>5, <1>6

\* Nothing is late at the start.
LEMMA PaceStart ==
  ASSUME NEW f \in Nat, NEW R \in Nat, NEW S \in Nat, NEW t \in Nat
  PROVE  f * (t - t) \in 0 * (R * S) .. 0 * (R * S) + f * 0
<1>1. t - t = 0 /\ f * 0 = 0 /\ 0 * (R * S) = 0
  OBVIOUS
<1>2. QED
  BY <1>1

\* PaceInv looks at five variables.
LEMMA QuietPace ==
  ASSUME PaceInv, UNCHANGED <<start_time_, frequency_, histVars>> \/ steady' = FALSE
  PROVE  PaceInv'
BY DEF PaceInv, histVars, Ns

LEMMA PaceStep ==
  ASSUME TickTimerAssumption, UptimeAssumption, TypeOK, FrequencyInv, SteadyInv, PaceInv,
         [Next]_vars
  PROVE  PaceInv'
<1>. USE DEF objVars, tickVars, histVars
<1>1. CASE UNCHANGED vars
  BY <1>1, QuietPace DEF vars
<1>2. CASE Initialize
  BY <1>2, QuietPace DEF Initialize
<1>3. ASSUME NEW f \in Frequencies, SetFrequency(f)
      PROVE  PaceInv'
  BY <1>3, QuietPace DEF SetFrequency
<1>4. CASE StartTimer
  <2>1. CASE timer_started_
    BY <1>4, <2>1, QuietPace DEF StartTimer
  <2>2. CASE ~timer_started_
    <3>1. clock' \in Nat
      BY <1>4, CallTime DEF StartTimer
    <3>2. Ns(start_time_)' = clock' /\ origin' = clock' /\ rounds' = 0
      <4>1. start_time_' = Timespec(clock') /\ origin' = clock' /\ rounds' = 0
        BY <1>4, <2>2 DEF StartTimer
      <4>2. Ns(Timespec(clock')) = clock'
        BY <3>1, TimespecNs
      <4>3. QED
        BY <4>1, <4>2 DEF Ns
    <3>3. frequency_' \in Nat /\ ResetAt \in Nat /\ SecondNs \in Nat
      BY <1>4, ConstantsOK DEF StartTimer, TypeOK
    <3>4. frequency_' * (clock' - clock') \in
            0 * (ResetAt * SecondNs) .. 0 * (ResetAt * SecondNs) + frequency_' * 0
      BY <3>1, <3>3, PaceStart
    <3>5. QED
      <4>. HIDE DEF Ns
      <4>1. QED
        BY <3>2, <3>4 DEF PaceInv
  <2>3. QED
    BY <2>1, <2>2
<1>5. CASE StopTimer
  BY <1>5, QuietPace DEF StopTimer
<1>6. CASE GetError
  BY <1>6, QuietPace DEF GetError
<1>7. CASE SleepToNextTick
  BY <1>7, QuietPace DEF SleepToNextTick
<1>8. CASE TickMissed
  BY <1>8, QuietPace DEF TickMissed, Goto
<1>9. CASE GoToSpin
  BY <1>9, QuietPace DEF GoToSpin, Goto
<1>10. CASE Block
  BY <1>10, QuietPace DEF Block, Goto
<1>11. CASE Spin
  BY <1>11, QuietPace DEF Spin, Goto
<1>12. CASE SpinEnd
  BY <1>12, QuietPace DEF SpinEnd, Goto
<1>13. CASE Advance
  <2>1. UNCHANGED <<frequency_, steady, origin>>
    BY <1>13 DEF Advance
  <2>2. CASE sleep_counter_ # ResetAt
    BY <1>13, <2>1, <2>2, StartsOver DEF PaceInv
  <2>3. CASE sleep_counter_ = ResetAt /\ steady /\ SecondPs % frequency_ = 0
    <3>. DEFINE f == frequency_
                x == Ns(start_time_) - origin
                q == (original_sleep_time_ps_ * ResetAt) \div PsPerNs
                S == SecondNs
                R == ResetAt
                k == rounds
    <3>1. f \in Nat \ {0} /\ original_sleep_time_ps_ = SecondPs \div f /\ sleep_time_ns_ = q + 1
      BY <2>3, SteadySleep
    <3>2. S \in Nat /\ R \in Nat /\ k \in Nat /\ f \in Nat
      BY <3>1, ConstantsOK DEF TypeOK
    <3>3. q \in Nat /\ S * R <= f * (q + 1) /\ f * (q + 1) <= S * R + f
      BY <2>3, <3>1, <3>2, SlotPace
    <3>4. Ns(start_time_) \in Nat /\ Ns(start_time_)' = Ns(start_time_) + sleep_time_ns_
          /\ rounds' = k + 1
      BY <1>13, <2>3, StartsOver
    <3>5. origin \in Int
      BY DEF TypeOK
    <3>. HIDE DEF q
    <3>6. x \in Int /\ Ns(start_time_)' - origin' = x + (q + 1)
      <4>. HIDE DEF Ns
      <4>1. QED
        BY <2>1, <3>1, <3>3, <3>4, <3>5
    <3>7. f * x \in k * (R * S) .. k * (R * S) + f * k
      BY <2>3 DEF PaceInv
    <3>8. q + 1 \in Nat
      BY <3>3
    <3>. HIDE DEF f, x, S, R, k
    <3>9. f * (x + (q + 1)) \in (k * R + R) * S .. (k * R + R) * S + f * (k + 1)
      BY <3>2, <3>3, <3>6, <3>7, <3>8, PaceSum
    <3>10. (k * R + R) * S = (k + 1) * (R * S)
      BY <3>2, RoundsOver
    <3>11. f * (x + (q + 1)) \in (k + 1) * (R * S) .. (k + 1) * (R * S) + f * (k + 1)
      BY <3>9, <3>10
    <3>12. frequency_' = f /\ rounds' = k + 1 /\ Ns(start_time_)' - origin' = x + (q + 1)
      BY <2>1, <3>4, <3>6 DEF f
    <3>13. QED
      BY <3>11, <3>12 DEF PaceInv, R, S
  <2>4. CASE ~steady \/ SecondPs % frequency_ # 0
    BY <2>1, <2>4 DEF PaceInv
  <2>5. QED
    BY <2>2, <2>3, <2>4
<1>. HIDE DEF objVars, tickVars, histVars
<1>14. QED
  BY <1>1, <1>2, <1>3, <1>4, <1>5, <1>6, <1>7, <1>8, <1>9, <1>10, <1>11, <1>12, <1>13
     DEF Next

LEMMA InitIndInv ==
  ASSUME TickTimerAssumption, UptimeAssumption
  PROVE  Init => IndInv
<1>. SUFFICES ASSUME Init
              PROVE  IndInv
  OBVIOUS
<1>1. pc = "idle" /\ steady = FALSE /\ frequency_ = 0 /\ ~Started
  BY DEF Init, Started
<1>2. TypeOK
  <2>1. PICK t \in Garbage : start_time_ = Timespec(t)
    BY DEF Init
  <2>2. t \in Nat
    BY ConstantsOK DEF TickTimerAssumption
  <2>3. start_time_ \in Times
    BY <2>1, <2>2, TimespecNs
  <2>4. original_sleep_time_ps_ \in 0 .. Word - 1 /\ sleep_time_ns_ \in 0 .. Word - 1
        /\ sleep_counter_ \in 0 .. Word - 1
    BY DEF Init, TickTimerAssumption
  <2>5. worst_timer_delay_ns_ \in Nat /\ kind \in Kinds
    <3>1. Delays \subseteq Nat
      BY DEF TickTimerAssumption
    <3>2. CASE kind \in {"busy", "free"} /\ worst_timer_delay_ns_ = 0
      BY <3>2 DEF Kinds
    <3>3. CASE kind = "worst" /\ worst_timer_delay_ns_ \in Delays
      BY <3>1, <3>3 DEF Kinds
    <3>4. QED
      BY <3>2, <3>3 DEF Init
  <2>6. clock \in Nat /\ frequency_ \in 0 .. MaxFrequency /\ origin \in Nat \cup {-1}
        /\ rounds \in Nat
    BY ConstantsOK DEF Init
  <2>7. timer_started_ \in BOOLEAN /\ error_ \in BOOLEAN /\ steady \in BOOLEAN
    BY DEF Init
  <2>8. QED
    BY <1>1, <2>3, <2>4, <2>5, <2>6, <2>7 DEF TypeOK, Times
<1>3. KindInv
  BY DEF Init, KindInv
<1>4. QED
  BY <1>1, <1>2, <1>3
     DEF IndInv, FrequencyInv, RangeInv, StartNotAhead, SpinInv, OnTime, SteadyInv, PaceInv

LEMMA IndInvStep ==
  ASSUME TickTimerAssumption, UptimeAssumption, IndInv, [Next]_vars
  PROVE  IndInv'
<1>1. TypeOK'
  BY TypeStep DEF IndInv
<1>2. TimeInv'
  BY <1>1, TimeStep DEF IndInv, TimeInv
<1>3. FrequencyInv' /\ SteadyInv' /\ PaceInv'
  BY SteadyStep, PaceStep DEF IndInv
<1>4. QED
  BY <1>1, <1>2, <1>3 DEF IndInv, TimeInv

\* Everything the other theorems need: the invariant holds in every behavior.
THEOREM Invariance == Spec => []IndInv
<1>1. Init => IndInv
  BY InitIndInv, TickTimerAssumption, UptimeAssumption
<1>2. IndInv /\ [Next]_vars => IndInv'
  BY IndInvStep, TickTimerAssumption, UptimeAssumption
<1>3. QED
  BY <1>1, <1>2, PTL DEF Spec

\* No time, count or error leaves its type; no sleep is as long as Word.
THEOREM TypeCorrect == Spec => []TypeOK
<1>1. IndInv => TypeOK
  BY DEF IndInv
<1>2. QED
  BY <1>1, Invariance, PTL

\* The clock is never behind the time of the start, which is what makes the
\* unsigned difference of times the time that has passed.
THEOREM DifferencesDoNotWrap == Spec => []StartNotAhead
<1>1. IndInv => StartNotAhead
  BY DEF IndInv
<1>2. QED
  BY <1>1, Invariance, PTL

\* Each of the three timers comes back at the tick, whatever was called before.
THEOREM ComesBackOnTime == Spec => []OnTime
<1>1. IndInv => OnTime
  BY DEF IndInv
<1>2. QED
  BY <1>1, Invariance, PTL

\* With a frequency that divides a second the n-th tick is where n slots end,
\* up to the nanosecond of each start over.
THEOREM KeepsExactPace == Spec => []ExactFrequencyKeepsPace
<1>1. IndInv => ExactFrequencyKeepsPace
  <2>1. SUFFICES ASSUME IndInv, steady, SecondPs % frequency_ = 0
                 PROVE  RoundOffOnly
    BY DEF ExactFrequencyKeepsPace
  <2>. DEFINE f == frequency_
              x == Ns(start_time_) - origin
              c == sleep_counter_
              q == (original_sleep_time_ps_ * c) \div PsPerNs
              S == SecondNs
              R == ResetAt
              k == rounds
  <2>2. f \in Nat \ {0} /\ original_sleep_time_ps_ = SecondPs \div f /\ c \in 1 .. ResetAt
        /\ sleep_time_ns_ = q + 1
    BY <2>1, SteadySleep, TickTimerAssumption DEF IndInv
  <2>3. S \in Nat /\ R \in Nat /\ k \in Nat /\ f \in Nat /\ c \in Nat
    BY <2>1, <2>2, ConstantsOK, TickTimerAssumption DEF IndInv, TypeOK
  <2>4. q \in Nat /\ S * c <= f * (q + 1) /\ f * (q + 1) <= S * c + f
    BY <2>1, <2>2, <2>3, SlotPace, TickTimerAssumption
  <2>5. Ns(start_time_) \in Nat /\ origin \in Int
    BY <2>1, ElapsedTime, TickTimerAssumption DEF IndInv, TypeOK
  <2>. HIDE DEF q
  <2>6. x \in Int /\ Due - origin = x + (q + 1)
    <3>. HIDE DEF Ns
    <3>1. QED
      BY <2>2, <2>4, <2>5 DEF Due
  <2>7. f * x \in k * (R * S) .. k * (R * S) + f * k
    BY <2>1 DEF IndInv, PaceInv
  <2>8. q + 1 \in Nat
    BY <2>4
  <2>. HIDE DEF f, x, S, R, k, c
  <2>9. f * (x + (q + 1)) \in (k * R + c) * S .. (k * R + c) * S + f * (k + 1)
    BY <2>3, <2>4, <2>6, <2>7, <2>8, PaceSum
  <2>10. QED
    BY <2>6, <2>9 DEF RoundOffOnly, Tick, f, S, R, k, c
<1>2. QED
  BY <1>1, Invariance, PTL

-----------------------------------------------------------------------------
(* The time from tick to tick.                                             *)

\* Two sleep times that follow each other are a slot apart, and the first is a
\* slot and the round-off long.
LEMMA Slots ==
  ASSUME TickTimerAssumption, NEW f \in Nat \ {0}, NEW c \in 1 .. ResetAt
  PROVE  LET ps == SecondPs \div f
         IN  SleepTime(ps, c) - (IF c = 1 THEN 0 ELSE SleepTime(ps, c - 1)) \in
               {ps \div PsPerNs, ps \div PsPerNs + 1}
<1>. DEFINE ps == SecondPs \div f
            p  == PsPerNs
<1>1. p \in Nat \ {0} /\ ResetAt \in Nat /\ SecondPs \in Nat
  BY ConstantsOK
<1>2. ps \in Nat
  BY <1>1, DivFacts
<1>3. c \in 0 .. ResetAt /\ c - 1 \in 0 .. ResetAt /\ c \in Nat /\ c - 1 \in Nat
  BY <1>1
<1>4. SleepTime(ps, c) = (ps * c) \div p + 1 /\ SleepTime(ps, c - 1) = (ps * (c - 1)) \div p + 1
  BY <1>3, SleepTimeExact
<1>. HIDE DEF ps, p
<1>5. CASE c = 1
  <2>1. SleepTime(ps, c) = ps \div p + 1 /\ ps \div p \in Nat
    <3>1. ps * 1 = ps
      BY <1>2
    <3>2. QED
      BY <1>1, <1>2, <1>4, <1>5, <3>1, DivFacts
  <2>2. SleepTime(ps, c) - 0 = ps \div p + 1
    BY <2>1
  <2>3. QED
    BY <1>5, <2>2 DEF ps, p
<1>6. CASE c # 1
  <2>. DEFINE a == (ps * (c - 1)) \div p
              b == ps \div p
              d == (ps * c) \div p
  <2>1. ps * (c - 1) \in Nat /\ ps * (c - 1) + ps = ps * c
    BY <1>2, <1>3
  <2>2. d \in {a + b, a + b + 1}
    <3>1. (ps * (c - 1) + ps) \div p \in {a + b, a + b + 1}
      BY <1>1, <1>2, <2>1, DivStep
    <3>2. QED
      BY <2>1, <3>1
  <2>3. a \in Nat /\ b \in Nat
    BY <1>1, <1>2, <2>1, DivFacts
  <2>4. SleepTime(ps, c) = d + 1 /\ SleepTime(ps, c - 1) = a + 1
    BY <1>4
  <2>. HIDE DEF a, b, d
  <2>5. SleepTime(ps, c) - SleepTime(ps, c - 1) \in {b, b + 1}
    BY <2>2, <2>3, <2>4
  <2>6. QED
    BY <1>6, <2>5 DEF b, ps, p
<1>7. QED
  BY <1>5, <1>6

\* The tick the timer waits for is a slot after the last one.
TickApart ==
  steady =>
    /\ LastTick \in Nat /\ Due \in Nat /\ original_sleep_time_ps_ \div PsPerNs \in Nat
    /\ Due - LastTick \in {original_sleep_time_ps_ \div PsPerNs,
                           original_sleep_time_ps_ \div PsPerNs + 1}

LEMMA TicksApart ==
  ASSUME TickTimerAssumption, UptimeAssumption, IndInv
  PROVE  TickApart
<1>. SUFFICES ASSUME steady
              PROVE  /\ LastTick \in Nat /\ Due \in Nat
                     /\ original_sleep_time_ps_ \div PsPerNs \in Nat
                     /\ Due - LastTick \in {original_sleep_time_ps_ \div PsPerNs,
                                            original_sleep_time_ps_ \div PsPerNs + 1}
  BY DEF TickApart
<1>. DEFINE ps   == original_sleep_time_ps_
            c    == sleep_counter_
            s    == Ns(start_time_)
            last == IF c = 1 THEN 0 ELSE SleepTime(ps, c - 1)
<1>1. frequency_ \in Nat \ {0} /\ ps = SecondPs \div frequency_ /\ ps \in Nat
      /\ c \in 1 .. ResetAt
  BY SteadySleep DEF IndInv
<1>2. sleep_time_ns_ = SleepTime(ps, c)
  BY DEF IndInv, SteadyInv
<1>3. s \in Nat /\ sleep_time_ns_ \in Nat
  BY ElapsedTime DEF IndInv
<1>4. sleep_time_ns_ - last \in {ps \div PsPerNs, ps \div PsPerNs + 1}
  BY <1>1, <1>2, Slots
<1>5. ps \div PsPerNs \in Nat /\ last \in Nat
  <2>1. PsPerNs \in Nat \ {0} /\ ResetAt \in Nat /\ Word \in Nat
    BY ConstantsOK
  <2>2. ps \div PsPerNs \in Nat
    BY <1>1, <2>1, DivFacts
  <2>3. c - 1 \in Nat
    BY <1>1, <2>1
  <2>4. SleepTime(ps, c - 1) \in 1 .. Word - 1
    BY <1>1, <2>3, SleepTimeFits
  <2>5. SleepTime(ps, c - 1) \in Nat
    BY <2>1, <2>4
  <2>6. QED
    BY <2>2, <2>5
<1>6. Due = s + sleep_time_ns_ /\ LastTick = s + last
  BY DEF Due, LastTick
<1>. HIDE DEF ps, c, s, last
<1>7. (s + sleep_time_ns_) - (s + last) = sleep_time_ns_ - last
  BY <1>3, <1>5
<1>8. LastTick \in Nat /\ Due \in Nat
  BY <1>3, <1>5, <1>6
<1>9. QED
  BY <1>4, <1>5, <1>6, <1>7, <1>8 DEF ps

\* Once a sleep is over its tick is the last one, also when the timer starts over.
LEMMA TickOver ==
  ASSUME TickTimerAssumption, UptimeAssumption, IndInv, steady, Advance
  PROVE  LastTick' = Due
<1>1. /\ Ns(start_time_) \in Nat /\ sleep_time_ns_ \in Nat
      /\ sleep_counter_ = ResetAt =>
           /\ Ns(start_time_)' = Ns(start_time_) + sleep_time_ns_
           /\ sleep_counter_' = 1
      /\ sleep_counter_ # ResetAt => Ns(start_time_)' = Ns(start_time_)
  BY StartsOver DEF IndInv
<1>2. original_sleep_time_ps_' = original_sleep_time_ps_
  BY DEF Advance
<1>3. LastTick' = Ns(start_time_)' +
        IF sleep_counter_' = 1 THEN 0 ELSE SleepTime(original_sleep_time_ps_', sleep_counter_' - 1)
  BY DEF LastTick
<1>. HIDE DEF Ns
<1>4. CASE sleep_counter_ = ResetAt
  BY <1>1, <1>3, <1>4 DEF Due
<1>5. CASE sleep_counter_ # ResetAt
  <2>1. sleep_counter_' = sleep_counter_ + 1 /\ sleep_counter_ \in Nat \ {0}
    BY <1>5, SteadyCount, ConstantsOK DEF IndInv, SteadyInv
  <2>2. sleep_counter_' # 1 /\ sleep_counter_' - 1 = sleep_counter_
    BY <2>1
  <2>3. sleep_time_ns_ = SleepTime(original_sleep_time_ps_, sleep_counter_)
    BY DEF IndInv, SteadyInv
  <2>4. QED
    BY <1>1, <1>2, <1>3, <1>5, <2>2, <2>3 DEF Due
<1>6. QED
  BY <1>4, <1>5

\* A sleep that is over ends with Advance.
LEMMA OnlyAdvance ==
  ASSUME pc = "advance", Next
  PROVE  Advance
BY DEF Next, Initialize, SetFrequency, StartTimer, StopTimer, GetError, SleepToNextTick,
       TickMissed, GoToSpin, Block, Spin, SpinEnd, Goto, Call

\* Whatever the frequency and however long the timer has run, also when it
\* starts over, the next tick is a slot later, up to a nanosecond.
THEOREM TicksASlotApart == Spec => SlotLength
<1>1. IndInv => TickApart
  BY TicksApart, TickTimerAssumption, UptimeAssumption
<1>2. IndInv /\ TickApart' /\ [Next]_vars =>
        [steady /\ pc = "advance" =>
           Due' - Due \in {original_sleep_time_ps_ \div PsPerNs,
                           original_sleep_time_ps_ \div PsPerNs + 1}]_vars
  <2>. SUFFICES ASSUME IndInv, TickApart', Next, steady, pc = "advance"
                PROVE  Due' - Due \in {original_sleep_time_ps_ \div PsPerNs,
                                       original_sleep_time_ps_ \div PsPerNs + 1}
    OBVIOUS
  <2>1. Advance
    BY OnlyAdvance
  <2>2. LastTick' = Due
    BY <2>1, TickOver, TickTimerAssumption, UptimeAssumption
  <2>3. UNCHANGED <<steady, original_sleep_time_ps_>>
    BY <2>1 DEF Advance
  <2>. HIDE DEF LastTick, Due
  <2>4. QED
    BY <2>2, <2>3 DEF TickApart
<1>3. QED
  BY <1>1, <1>2, Invariance, PTL DEF Spec, SlotLength

-----------------------------------------------------------------------------
(* The refinement of Timer.                                                *)

\* The time since a tick grows with the time, and starts from 0.
LEMMA Since ==
  ASSUME NEW m \in Nat, NEW n \in Nat, NEW t \in Nat, n >= m
  PROVE  n - t >= m - t
OBVIOUS

LEMMA AtOnce ==
  ASSUME NEW t \in Nat
  PROVE  t - t = 0 /\ t + 0 = t
OBVIOUS

\* The time as the contract sees it.
Mark == IF pc \in {"spin", "advance"} /\ clock > Due THEN Due ELSE clock

\* Initialize, set_frequency and stop_timer end the contract.
LEMMA ContractStop ==
  ASSUME steady' = FALSE
  PROVE  Contract!Next
<1>1. Contract!Stop
  BY DEF Contract!Stop
<1>2. QED
  BY <1>1 DEF Contract!Next

\* While the timer waits for the same tick, time passes.
LEMMA ContractPass ==
  ASSUME TickTimerAssumption, TypeOK, TypeOK', TickApart, steady,
         UNCHANGED <<steady, tickVars, original_sleep_time_ps_>>, clock <= clock',
         pc' \in {"spin", "advance"} => pc \in {"spin", "advance"} \/ clock <= Due
  PROVE  Contract!Next
<1>1. clock \in Nat /\ clock' \in Nat
  BY DEF TypeOK
<1>2. LastTick \in Nat /\ Due \in Nat
  BY DEF TickApart
<1>3. LastTick' = LastTick /\ Due' = Due
  BY DEF LastTick, Due, Ns, SleepTime, tickVars
<1>. HIDE DEF LastTick, Due
<1>4. Mark' >= Mark /\ Mark \in Nat /\ Mark' \in Nat
  BY <1>1, <1>2, <1>3 DEF Mark
<1>5. SinceTick = Mark - LastTick /\ SinceTick' = Mark' - LastTick'
  BY DEF SinceTick, Mark
<1>. HIDE DEF Mark, SinceTick
<1>6. SinceTick' >= SinceTick
  <2>1. Mark' - LastTick >= Mark - LastTick
    BY <1>2, <1>4, Since
  <2>2. SinceTick' = Mark' - LastTick
    BY <1>3, <1>5
  <2>3. QED
    BY <1>5, <2>1, <2>2
<1>7. Contract!Pass
  BY <1>6 DEF Contract!Pass
<1>8. QED
  BY <1>7 DEF Contract!Next

\* start_timer, with a frequency.
LEMMA ContractStart ==
  ASSUME TickTimerAssumption, TypeOK', TickApart', StartTimer, ~timer_started_, steady'
  PROVE  Contract!Next
<1>1. pc' = "idle" /\ sleep_counter_' = 1 /\ start_time_' = Timespec(clock')
  BY DEF StartTimer, Call
<1>2. clock' \in Nat
  BY DEF TypeOK
<1>3. Ns(start_time_') = clock'
  BY <1>1, <1>2, TimespecNs
<1>4. LastTick' = clock'
  <2>1. LastTick' = Ns(start_time_') + 0
    BY <1>1 DEF LastTick, Ns
  <2>2. clock' + 0 = clock'
    BY <1>2, AtOnce
  <2>. HIDE DEF Ns, LastTick
  <2>3. QED
    BY <1>3, <2>1, <2>2
<1>5. SinceTick' = clock' - LastTick'
  BY <1>1 DEF SinceTick
<1>6. SinceTick' = 0
  <2>1. clock' - clock' = 0
    BY <1>2, AtOnce
  <2>. HIDE DEF SinceTick, LastTick
  <2>2. QED
    BY <1>4, <1>5, <2>1
<1>7. original_sleep_time_ps_' \div PsPerNs \in Nat
  BY DEF TickApart
<1>8. steady' = TRUE
  BY DEF TypeOK
<1>. HIDE DEF SinceTick
<1>9. Contract!Start
  BY <1>6, <1>7, <1>8 DEF Contract!Start
<1>10. QED
  BY <1>9 DEF Contract!Next

\* The end of a sleep that returns true.
LEMMA ContractTicks ==
  ASSUME TickTimerAssumption, UptimeAssumption, IndInv, TickApart, TypeOK', steady, Advance
  PROVE  Contract!Next
<1>. DEFINE slot == original_sleep_time_ps_ \div PsPerNs
<1>1. LastTick \in Nat /\ Due \in Nat /\ slot \in Nat /\ Due - LastTick \in {slot, slot + 1}
  BY DEF TickApart
<1>2. clock \in Nat /\ worst_timer_delay_ns_ \in Nat /\ Late \in Nat
  BY ConstantsOK DEF IndInv, TypeOK
<1>3. pc = "advance" /\ pc' = "idle" /\ UNCHANGED <<clock, steady, original_sleep_time_ps_>>
  BY DEF Advance
<1>4. LastTick' = Due
  BY TickOver
<1>5. clock - Due \in 0 .. Late
  <2>1. clock = Due \/ clock \in Due .. Due + Late - worst_timer_delay_ns_
    BY <1>3 DEF IndInv, OnTime, SteadyInv
  <2>. HIDE DEF Due
  <2>2. QED
    BY <1>1, <1>2, <2>1
<1>6. SinceTick' = clock' - LastTick'
  BY <1>3 DEF SinceTick
<1>7. SinceTick = (IF clock > Due THEN Due ELSE clock) - LastTick
  BY <1>3 DEF SinceTick
<1>. HIDE DEF SinceTick, LastTick, Due, slot
<1>8. SinceTick' \in 0 .. Late
  BY <1>3, <1>4, <1>5, <1>6
<1>9. PICK r \in 0 .. 1 : Due - LastTick = slot + r
  <2>1. slot = slot + 0
    BY <1>1
  <2>2. 0 \in 0 .. 1 /\ 1 \in 0 .. 1
    OBVIOUS
  <2>3. QED
    BY <1>1, <2>1, <2>2
<1>10. SinceTick <= slot + r
  <2>1. IF clock > Due THEN Due <= Due ELSE clock <= Due
    BY <1>1, <1>2
  <2>2. QED
    BY <1>1, <1>2, <1>7, <1>9, <2>1
<1>11. slot' = slot
  BY <1>3 DEF slot
<1>12. (IF steady THEN SinceTick ELSE 0) <= (IF steady THEN slot ELSE 0) + r
  BY <1>10
<1>13. Contract!Ticks((IF steady THEN slot ELSE 0) + r)
  BY <1>3, <1>8, <1>12 DEF Contract!Ticks
<1>14. QED
  BY <1>3, <1>9, <1>11, <1>13 DEF Contract!Next, slot

\* Each step of the timer is a step of its contract.
LEMMA ContractStep ==
  ASSUME TickTimerAssumption, UptimeAssumption, IndInv, TickApart, IndInv', TickApart',
         [Next]_vars
  PROVE  [Contract!Next]_(Contract!timerVars)
<1>. USE DEF objVars, tickVars, histVars
<1>1. CASE UNCHANGED vars
  BY <1>1 DEF vars, Contract!timerVars, SinceTick, LastTick, Due, Ns, SleepTime
<1>2. TypeOK /\ TypeOK' /\ steady \in BOOLEAN /\ steady' \in BOOLEAN
  BY DEF IndInv, TypeOK
<1>3. CASE steady' = FALSE
  BY <1>3, ContractStop
<1>4. ASSUME Next, steady'
      PROVE  Contract!Next
  <2>1. CASE StartTimer /\ ~timer_started_
    BY <1>2, <1>4, <2>1, ContractStart
  <2>2. CASE StartTimer /\ timer_started_
    <3>1. pc' = "idle" /\ clock <= clock' /\ UNCHANGED <<steady, tickVars, original_sleep_time_ps_>>
      BY <1>2, <2>2, CallTime DEF StartTimer
    <3>2. QED
      BY <1>2, <1>4, <3>1, ContractPass
  <2>3. CASE Initialize
    BY <1>4, <2>3 DEF Initialize
  <2>4. ASSUME NEW f \in Frequencies, SetFrequency(f)
        PROVE  Contract!Next
    <3>1. pc' = "idle" /\ clock <= clock' /\ UNCHANGED <<steady, tickVars, original_sleep_time_ps_>>
      BY <1>2, <1>4, <2>4, CallTime DEF SetFrequency
    <3>2. QED
      BY <1>2, <1>4, <3>1, ContractPass
  <2>5. CASE StopTimer
    BY <1>4, <2>5 DEF StopTimer
  <2>6. clock <= clock
    BY <1>2 DEF TypeOK
  <2>7. CASE GetError
    BY <1>2, <1>4, <2>6, <2>7, ContractPass DEF GetError
  <2>8. CASE SleepToNextTick
    <3>1. pc' = "check" /\ clock <= clock' /\ UNCHANGED <<steady, tickVars, original_sleep_time_ps_>>
      BY <1>2, <2>8, CallTime DEF SleepToNextTick
    <3>2. QED
      BY <1>2, <1>4, <3>1, ContractPass
  <2>9. CASE TickMissed
    BY <1>2, <1>4, <2>6, <2>9, ContractPass DEF TickMissed, Goto
  <2>10. pc = "check" /\ Elapsed <= sleep_time_ns_ /\ steady => clock <= Due
    <3>. SUFFICES ASSUME pc = "check", Elapsed <= sleep_time_ns_, steady
                  PROVE  clock <= Due
      OBVIOUS
    <3>1. Elapsed = clock - Ns(start_time_)
      BY <1>2, ElapsedInSleep DEF IndInv, TimeInv, SteadyInv
    <3>2. Ns(start_time_) \in Nat /\ clock \in Nat /\ sleep_time_ns_ \in Nat
      BY <1>2, ElapsedTime
    <3>. HIDE DEF Elapsed, Ns
    <3>3. QED
      BY <3>1, <3>2 DEF Due
  <2>11. CASE GoToSpin
    BY <1>2, <1>4, <2>6, <2>10, <2>11, ContractPass DEF GoToSpin, Goto
  <2>12. CASE Block
    <3>1. clock <= clock'
      <4>1. PICK late \in 0 .. Late : clock' = clock + BlockTime + late
        BY <2>12 DEF Block
      <4>2. Elapsed \in Nat /\ sleep_time_ns_ \in Nat /\ clock \in Nat /\ Late \in Nat
        BY <1>2, ElapsedTime, ConstantsOK
      <4>3. Elapsed <= sleep_time_ns_ /\ (kind = "free" \/ BlockTime >= 0)
        BY <2>12 DEF Block
      <4>. HIDE DEF Elapsed
      <4>4. BlockTime \in Int /\ BlockTime >= 0
        <5>1. worst_timer_delay_ns_ \in Nat
          BY <1>2 DEF TypeOK
        <5>2. QED
          BY <4>2, <4>3, <5>1 DEF BlockTime
      <4>. HIDE DEF BlockTime
      <4>5. QED
        BY <4>1, <4>2, <4>4
    <3>2. QED
      BY <1>2, <1>4, <2>10, <2>12, <3>1, ContractPass DEF Block, Goto
  <2>13. CASE Spin
    <3>1. clock <= clock'
      BY <1>2, <2>13 DEF Spin, TypeOK
    <3>2. QED
      BY <1>2, <1>4, <2>13, <3>1, ContractPass DEF Spin, Goto
  <2>14. CASE SpinEnd
    BY <1>2, <1>4, <2>6, <2>14, ContractPass DEF SpinEnd, Goto
  <2>15. CASE Advance
    BY <1>2, <1>4, <2>15, ContractTicks DEF Advance
  <2>16. QED
    BY <1>4, <2>1, <2>2, <2>3, <2>4, <2>5, <2>7, <2>8, <2>9, <2>11, <2>12, <2>13, <2>14, <2>15
       DEF Next
<1>. HIDE DEF objVars, tickVars, histVars
<1>5. QED
  BY <1>1, <1>2, <1>3, <1>4

\* The interface timer.h promises is implemented by all three timers: a sleep
\* that returns true was called before the tick and is over at the tick or at
\* most Late after it.
THEOREM TimerImplemented == Spec => ImplementsTimer
<1>1. Init => Contract!Init
  BY DEF Init, Contract!Init
<1>2. IndInv => TickApart
  BY TicksApart, TickTimerAssumption, UptimeAssumption
<1>3. IndInv /\ TickApart /\ IndInv' /\ TickApart' /\ [Next]_vars =>
        [Contract!Next]_(Contract!timerVars)
  BY ContractStep, TickTimerAssumption, UptimeAssumption
<1>4. QED
  BY <1>1, <1>2, <1>3, Invariance, PTL DEF Spec, ImplementsTimer, Contract!Spec
=============================================================================
