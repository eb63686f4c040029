------------------------ MODULE RealTimeSystemProofs ------------------------
(***************************************************************************)
(* Proofs about RealTimeSystem, for every frequency, tolerance, time limit *)
(* and length of a slot, and every behaviour of the sender.  The inductive *)
(* invariant is IndInv, the conjunction of TypeOK and of the parts below.  *)
(***************************************************************************)
EXTENDS RealTimeSystem, Division

\* TypeOK in parts.
LoopTypeOK == pc \in {"idle"} \cup SbrPcs \cup RunPcs /\ outcome \in Outcomes

ConfigTypeOK ==
  /\ given \subseteq Parts
  /\ frequency_ \in Nat /\ ms_tolerance_ \in Nat /\ allow_skip_mode_ \in BOOLEAN
  /\ initialized_ \in BOOLEAN

CountTypeOK ==
  /\ skipped_count \in Nat /\ used_tolerated_time \in Nat /\ limit \in Nat
  /\ now \in Nat /\ waiting \in Nat

ListTypeOK ==
  /\ list \in Contents /\ carried \in Contents
  /\ skip_next_data_ \in BOOLEAN
  /\ phase \in S!Phases

\* What initialize has checked and set holds as long as an operation may rely on
\* it: every setter undoes initialize, and none is called while run is.
Tuned ==
  initialized_ \/ pc # "idle" =>
    /\ frequency_ # 0 /\ frequency_ <= MaxFrequency
    /\ ms_tolerance_ + ReserveMs <= SecondMs \div frequency_

\* The phases in which is_send_done is false.
Unsent == {"queued", "sending", "stuck"}

\* Where the sender may have a list in hand.
ListInv ==
  /\ phase = "queued" => pc # "idle" /\ list # "none"
  /\ pc \in {"user", "send"} => phase \notin Unsent
  /\ pc = "check_skip" /\ ~allow_skip_mode_ => phase \notin Unsent

\* How far a list that is queued can be where a slot leaves the worker its turn:
\* with tolerance it may still be at the first turn of the loop in the slot after.
Turns ==
  /\ carried # "ignored"
  /\ phase = "queued" =>
       /\ list # "ignored"
       /\ \/ pc = "sleep"
          \/ ms_tolerance_ > 0 /\ pc = "top"
          \/ ms_tolerance_ > 0 /\ pc = "tolerate" /\ used_tolerated_time = 0

\* The configuration decides that, and it does not change while there is data of
\* a skipped slot.
TurnInv ==
  /\ list = "ignored" \/ carried = "ignored" => pc \in RunPcs
  /\ WorkerHasTurn /\ pc \in RunPcs => Turns

\* The most time used_tolerated_time turns of the loop take.
Tolerated == used_tolerated_time * (HalfMs + Late)

\* How much of the slot has passed.
ClockInv ==
  /\ used_tolerated_time <= ms_tolerance_ * 2
  /\ pc \in {"idle"} \cup SbrPcs => now = 0 /\ used_tolerated_time = 0
  /\ pc = "top" => now <= Late
  /\ pc \in {"tolerate", "check_error", "check_skip", "user_skip", "user"} =>
       now <= Late + Tolerated
  /\ pc \in {"skip", "send", "sleep"} => now <= Late + Tolerated + UserCost

\* RunEndsSender as a step.
RunEnds == pc \in RunPcs /\ pc' = "idle" => phase' = "closed"

IndInv == TypeOK /\ Tuned /\ ListInv /\ ClockInv /\ TicksKept

-----------------------------------------------------------------------------
(* Arithmetic of the model.                                                *)

\* A slot has a length.
LEMMA PeriodNat ==
  ASSUME RealTimeSystemAssumption, frequency_ \in Nat \ {0}
  PROVE  Period \in Nat
<1>1. 2 * HalfMs * SecondMs \in Nat
  BY DEF RealTimeSystemAssumption
<1>2. QED
  BY <1>1, DivFacts DEF Period

\* The tolerance initialize leaves, line 105, is not negative and leaves the
\* reserve free.
LEMMA ClampFits ==
  ASSUME TypeOK, frequency_ # 0, frequency_ <= MaxFrequency
  PROVE  Clamp \in Nat /\ Clamp + ReserveMs <= SecondMs \div frequency_
<1>1. /\ SecondMs \in Nat /\ ReserveMs \in Nat /\ MaxFrequency \in Nat \ {0}
      /\ frequency_ \in Nat \ {0} /\ ms_tolerance_ \in Nat
      /\ ReserveMs <= SecondMs \div MaxFrequency
  BY RealTimeSystemAssumption DEF RealTimeSystemAssumption, TypeOK
<1>. DEFINE p == SecondMs \div frequency_
            q == SecondMs \div MaxFrequency
<1>2. p \in Nat /\ q \in Nat /\ q <= p
  BY <1>1, DivFacts, DivMono
<1>3. ReserveMs <= q
  BY <1>1
<1>. HIDE DEF p, q
<1>4. ReserveMs <= p /\ p - ReserveMs \in Nat
  BY <1>1, <1>2, <1>3
<1>5. Smaller(ms_tolerance_, p - ReserveMs) \in Nat
      /\ Smaller(ms_tolerance_, p - ReserveMs) + ReserveMs <= p
  BY <1>1, <1>2, <1>4 DEF Smaller
<1>6. QED
  BY <1>5 DEF Clamp, p

\* What is left of a slot and the lateness of its end.
LEMMA SumLeft ==
  ASSUME NEW p \in Nat, NEW n \in Nat, NEW m \in Nat, n <= p
  PROVE  (p - n) + m \in Nat
OBVIOUS

\* waiting stays a natural number.
LEMMA WaitNat ==
  ASSUME TypeOK, Tuned, pc # "idle", NEW t \in Nat
  PROVE  Smaller(waiting + t, WaitBound) \in Nat
<1>1. Period \in Nat /\ frequency_ \in Nat /\ Late \in Nat /\ waiting \in Nat
  BY RealTimeSystemAssumption, PeriodNat DEF RealTimeSystemAssumption, TypeOK, Tuned
<1>2. WaitBound \in Nat
  <2>1. 3 * frequency_ + 2 \in Nat
    BY <1>1
  <2>2. (3 * frequency_ + 2) * Period \in Nat
    BY <1>1, <2>1
  <2>3. QED
    BY <1>1, <2>2 DEF WaitBound
<1>3. QED
  BY <1>1, <1>2 DEF Smaller

-----------------------------------------------------------------------------
(* Every step keeps IndInv.                                                *)


\* initialize checks and clamps; what undoes it lets no operation start.
LEMMA StepTuned ==
  ASSUME TypeOK, Tuned, [Next]_vars
  PROVE  Tuned'
<1>. USE DEF TypeOK, Tuned, configVars, countVars, dataVars, clockVars, localVars,
             senderVars
<1>1. ASSUME NEW p \in Parts, SetPart(p) PROVE Tuned'
  BY <1>1 DEF SetPart, Set
<1>2. ASSUME NEW f \in Frequencies, SetFrequency(f) PROVE Tuned'
  BY <1>2 DEF SetFrequency, Set
<1>3. ASSUME NEW t \in Tolerances, SetTolerance(t) PROVE Tuned'
  BY <1>3 DEF SetTolerance, Set
<1>4. ASSUME NEW b \in BOOLEAN, SkipMode(b) PROVE Tuned'
  BY <1>4 DEF SkipMode, Set
<1>5. ASSUME InitializeRefused PROVE Tuned'
  BY <1>5 DEF InitializeRefused
<1>6. ASSUME Initialize PROVE Tuned'
  BY <1>6, ClampFits DEF Initialize
<1>7. ASSUME NEW t \in Limits, SendBeforeRun(t) PROVE Tuned'
  BY <1>7 DEF SendBeforeRun, Give, S!Accept
<1>8. ASSUME Run PROVE Tuned'
  BY <1>8 DEF Run
<1>9. ASSUME Uninitialized PROVE Tuned'
  BY <1>9 DEF Uninitialized
<1>10. ASSUME SbrSleep PROVE Tuned'
  BY <1>10 DEF SbrSleep, WorkerRan
<1>11. ASSUME SbrCheck PROVE Tuned'
  BY <1>11 DEF SbrCheck
<1>12. ASSUME SbrEnd PROVE Tuned'
  BY <1>12 DEF SbrEnd, Return, EndSender
<1>13. ASSUME Top PROVE Tuned'
  BY <1>13 DEF Top, Return, EndSender
<1>14. ASSUME Tolerate PROVE Tuned'
  BY <1>14 DEF Tolerate, WorkerRan, Pass
<1>15. ASSUME CheckError PROVE Tuned'
  BY <1>15 DEF CheckError, Return, EndSender
<1>16. ASSUME CheckSkip PROVE Tuned'
  BY <1>16 DEF CheckSkip
<1>17. ASSUME UserSkip PROVE Tuned'
  BY <1>17 DEF UserSkip, CallUser, Pass
<1>18. ASSUME Skip PROVE Tuned'
  BY <1>18 DEF Skip, CountSkip, Stop, Return, EndSender
<1>19. ASSUME User PROVE Tuned'
  BY <1>19 DEF User, CallUser, Pass
<1>20. ASSUME Send PROVE Tuned'
  BY <1>20 DEF Send, Give, S!Accept, Stop, Return, EndSender
<1>21. ASSUME Sleep PROVE Tuned'
  BY <1>21 DEF Sleep, T!Missed, T!Ticks, WorkerRan, Return, EndSender
<1>22. ASSUME WorkerStep /\ Take PROVE Tuned'
  BY <1>22 DEF WorkerStep, Take, S!Take
<1>23. ASSUME WorkerStep /\ Complete PROVE Tuned'
  BY <1>23 DEF WorkerStep, Complete, S!Complete
<1>24. ASSUME WorkerStep /\ Break PROVE Tuned'
  BY <1>24 DEF WorkerStep, Break, S!Fail
<1>25. CASE UNCHANGED vars
  BY <1>25 DEF vars
<1>. HIDE DEF TypeOK, Tuned, configVars, countVars, dataVars, clockVars, localVars,
              senderVars
<1>26. QED
  BY <1>1, <1>2, <1>3, <1>4, <1>5, <1>6, <1>7, <1>8, <1>9, <1>10, <1>11,
     <1>12, <1>13, <1>14, <1>15, <1>16, <1>17, <1>18, <1>19, <1>20, <1>21, <1>22,
     <1>23, <1>24, <1>25
     DEF Next, UserStep, SystemStep, WorkerStep

\* is_send_done can only become true between two readings, so that what run
\* found done is still done; and every return ends the sender or finds it done.
LEMMA StepList ==
  ASSUME TypeOK, ListInv, [Next]_vars
  PROVE  ListInv'
<1>. USE DEF ListInv, DoneValues, S!Done, Unsent, SbrPcs, TypeOK, configVars,
             countVars, dataVars, clockVars, localVars, senderVars
<1>1. ASSUME NEW p \in Parts, SetPart(p) PROVE ListInv'
  BY <1>1 DEF SetPart, Set
<1>2. ASSUME NEW f \in Frequencies, SetFrequency(f) PROVE ListInv'
  BY <1>2 DEF SetFrequency, Set
<1>3. ASSUME NEW t \in Tolerances, SetTolerance(t) PROVE ListInv'
  BY <1>3 DEF SetTolerance, Set
<1>4. ASSUME NEW b \in BOOLEAN, SkipMode(b) PROVE ListInv'
  BY <1>4 DEF SkipMode, Set
<1>5. ASSUME InitializeRefused PROVE ListInv'
  BY <1>5 DEF InitializeRefused
<1>6. ASSUME Initialize PROVE ListInv'
  BY <1>6 DEF Initialize
<1>7. ASSUME NEW t \in Limits, SendBeforeRun(t) PROVE ListInv'
  BY <1>7 DEF SendBeforeRun, Give, S!Accept
<1>8. ASSUME Run PROVE ListInv'
  BY <1>8 DEF Run
<1>9. ASSUME Uninitialized PROVE ListInv'
  BY <1>9 DEF Uninitialized
<1>10. ASSUME SbrSleep PROVE ListInv'
  BY <1>10 DEF SbrSleep, WorkerRan
<1>11. ASSUME SbrCheck PROVE ListInv'
  BY <1>11 DEF SbrCheck
<1>12. ASSUME SbrEnd PROVE ListInv'
  BY <1>12 DEF SbrEnd, Return, EndSender
<1>13. ASSUME Top PROVE ListInv'
  BY <1>13 DEF Top, Return, EndSender
<1>14. ASSUME Tolerate PROVE ListInv'
  BY <1>14 DEF Tolerate, WorkerRan, Pass
<1>15. ASSUME CheckError PROVE ListInv'
  BY <1>15 DEF CheckError, Return, EndSender
<1>16. ASSUME CheckSkip PROVE ListInv'
  BY <1>16 DEF CheckSkip
<1>17. ASSUME UserSkip PROVE ListInv'
  BY <1>17 DEF UserSkip, CallUser, Pass
<1>18. ASSUME Skip PROVE ListInv'
  BY <1>18 DEF Skip, CountSkip, Stop, Return, EndSender
<1>19. ASSUME User PROVE ListInv'
  BY <1>19 DEF User, CallUser, Pass
<1>20. ASSUME Send PROVE ListInv'
  BY <1>20 DEF Send, Give, S!Accept, Stop, Return, EndSender
<1>21. ASSUME Sleep PROVE ListInv'
  BY <1>21 DEF Sleep, T!Missed, T!Ticks, WorkerRan, Return, EndSender
<1>22. ASSUME WorkerStep /\ Take PROVE ListInv'
  BY <1>22 DEF WorkerStep, Take, S!Take
<1>23. ASSUME WorkerStep /\ Complete PROVE ListInv'
  BY <1>23 DEF WorkerStep, Complete, S!Complete
<1>24. ASSUME WorkerStep /\ Break PROVE ListInv'
  BY <1>24 DEF WorkerStep, Break, S!Fail
<1>25. CASE UNCHANGED vars
  BY <1>25 DEF vars
<1>. HIDE DEF ListInv, DoneValues, S!Done, Unsent, SbrPcs, TypeOK, configVars,
              countVars, dataVars, clockVars, localVars, senderVars
<1>26. QED
  BY <1>1, <1>2, <1>3, <1>4, <1>5, <1>6, <1>7, <1>8, <1>9, <1>10, <1>11,
     <1>12, <1>13, <1>14, <1>15, <1>16, <1>17, <1>18, <1>19, <1>20, <1>21, <1>22,
     <1>23, <1>24, <1>25
     DEF Next, UserStep, SystemStep, WorkerStep

\* A step by which run returns closes the sender.
LEMMA StepEnds ==
  ASSUME TypeOK, [Next]_vars
  PROVE  RunEnds
<1>. USE DEF RunEnds, RunPcs, TypeOK, configVars, countVars, dataVars, clockVars,
             localVars, senderVars
<1>1. ASSUME UserStep PROVE RunEnds
  BY <1>1 DEF UserStep, SetPart, Set, SetFrequency, SetTolerance, SkipMode,
     InitializeRefused, Initialize, SendBeforeRun, Give, S!Accept, Run,
     Uninitialized
<1>2. ASSUME SystemStep PROVE RunEnds
  BY <1>2 DEF SystemStep, SbrSleep, WorkerRan, SbrCheck, SbrEnd, Return, EndSender,
     Top, Tolerate, Pass, CheckError, CheckSkip, UserSkip, CallUser, Skip,
     CountSkip, Stop, User, Send, Give, S!Accept, Sleep, T!Missed, T!Ticks
<1>3. ASSUME WorkerStep PROVE RunEnds
  BY <1>3 DEF WorkerStep, Take, S!Take, Complete, S!Complete, Break, S!Fail
<1>4. CASE UNCHANGED vars
  BY <1>4 DEF vars
<1>. HIDE DEF RunEnds, RunPcs, TypeOK, configVars, countVars, dataVars, clockVars,
              localVars, senderVars
<1>5. QED
  BY <1>1, <1>2, <1>3, <1>4 DEF Next

\* Every place and every outcome is one of those listed.
LEMMA StepLoopType ==
  ASSUME TypeOK, [Next]_vars
  PROVE  LoopTypeOK'
<1>. USE DEF TypeOK, LoopTypeOK, RunPcs, SbrPcs, Outcomes, configVars, countVars,
             dataVars, clockVars, localVars, senderVars
<1>1. ASSUME UserStep PROVE LoopTypeOK'
  BY <1>1 DEF UserStep, SetPart, Set, SetFrequency, SetTolerance, SkipMode,
     InitializeRefused, Initialize, SendBeforeRun, Give, S!Accept, Run,
     Uninitialized
<1>2. ASSUME SystemStep PROVE LoopTypeOK'
  BY <1>2 DEF SystemStep, SbrSleep, WorkerRan, SbrCheck, SbrEnd, Return, EndSender,
     Top, Tolerate, Pass, CheckError, CheckSkip, UserSkip, CallUser, Skip,
     CountSkip, Stop, User, Send, Give, S!Accept, Sleep, T!Missed, T!Ticks
<1>3. ASSUME WorkerStep PROVE LoopTypeOK'
  BY <1>3 DEF WorkerStep, Take, S!Take, Complete, S!Complete, Break, S!Fail
<1>4. CASE UNCHANGED vars
  BY <1>4 DEF vars
<1>. HIDE DEF TypeOK, LoopTypeOK, RunPcs, SbrPcs, Outcomes, configVars, countVars,
              dataVars, clockVars, localVars, senderVars
<1>5. QED
  BY <1>1, <1>2, <1>3, <1>4 DEF Next

\* The tolerance initialize computes is not negative.
LEMMA StepConfigType ==
  ASSUME TypeOK, [Next]_vars
  PROVE  ConfigTypeOK'
<1>1. ASSUME NEW f \in Frequencies, SetFrequency(f) PROVE ConfigTypeOK'
  BY <1>1, RealTimeSystemAssumption
     DEF RealTimeSystemAssumption, SetFrequency, Set, TypeOK, ConfigTypeOK, Parts,
     configVars, countVars, dataVars, clockVars, localVars, senderVars
<1>2. ASSUME NEW t \in Tolerances, SetTolerance(t) PROVE ConfigTypeOK'
  BY <1>2, RealTimeSystemAssumption
     DEF RealTimeSystemAssumption, SetTolerance, Set, TypeOK, ConfigTypeOK, Parts,
     configVars, countVars, dataVars, clockVars, localVars, senderVars
<1>3. ASSUME Initialize PROVE ConfigTypeOK'
  <2>1. Clamp \in Nat
    BY <1>3, ClampFits DEF Initialize
  <2>2. QED
    BY <1>3, <2>1 DEF Initialize, TypeOK, ConfigTypeOK, Parts,
       configVars, countVars, dataVars, clockVars, localVars, senderVars
<1>. USE DEF TypeOK, ConfigTypeOK, Parts, configVars, countVars, dataVars,
             clockVars, localVars, senderVars
<1>4. ASSUME NEW p \in Parts, SetPart(p) PROVE ConfigTypeOK'
  BY <1>4 DEF SetPart, Set
<1>5. ASSUME NEW b \in BOOLEAN, SkipMode(b) PROVE ConfigTypeOK'
  BY <1>5 DEF SkipMode, Set
<1>6. ASSUME InitializeRefused PROVE ConfigTypeOK'
  BY <1>6 DEF InitializeRefused
<1>7. ASSUME NEW t \in Limits, SendBeforeRun(t) PROVE ConfigTypeOK'
  BY <1>7 DEF SendBeforeRun, Give, S!Accept
<1>8. ASSUME Run PROVE ConfigTypeOK'
  BY <1>8 DEF Run
<1>9. ASSUME Uninitialized PROVE ConfigTypeOK'
  BY <1>9 DEF Uninitialized
<1>10. ASSUME SbrSleep PROVE ConfigTypeOK'
  BY <1>10 DEF SbrSleep, WorkerRan
<1>11. ASSUME SbrCheck PROVE ConfigTypeOK'
  BY <1>11 DEF SbrCheck
<1>12. ASSUME SbrEnd PROVE ConfigTypeOK'
  BY <1>12 DEF SbrEnd, Return, EndSender
<1>13. ASSUME Top PROVE ConfigTypeOK'
  BY <1>13 DEF Top, Return, EndSender
<1>14. ASSUME Tolerate PROVE ConfigTypeOK'
  BY <1>14 DEF Tolerate, WorkerRan, Pass
<1>15. ASSUME CheckError PROVE ConfigTypeOK'
  BY <1>15 DEF CheckError, Return, EndSender
<1>16. ASSUME CheckSkip PROVE ConfigTypeOK'
  BY <1>16 DEF CheckSkip
<1>17. ASSUME UserSkip PROVE ConfigTypeOK'
  BY <1>17 DEF UserSkip, CallUser, Pass
<1>18. ASSUME Skip PROVE ConfigTypeOK'
  BY <1>18 DEF Skip, CountSkip, Stop, Return, EndSender
<1>19. ASSUME User PROVE ConfigTypeOK'
  BY <1>19 DEF User, CallUser, Pass
<1>20. ASSUME Send PROVE ConfigTypeOK'
  BY <1>20 DEF Send, Give, S!Accept, Stop, Return, EndSender
<1>21. ASSUME Sleep PROVE ConfigTypeOK'
  BY <1>21 DEF Sleep, T!Missed, T!Ticks, WorkerRan, Return, EndSender
<1>22. ASSUME WorkerStep /\ Take PROVE ConfigTypeOK'
  BY <1>22 DEF WorkerStep, Take, S!Take
<1>23. ASSUME WorkerStep /\ Complete PROVE ConfigTypeOK'
  BY <1>23 DEF WorkerStep, Complete, S!Complete
<1>24. ASSUME WorkerStep /\ Break PROVE ConfigTypeOK'
  BY <1>24 DEF WorkerStep, Break, S!Fail
<1>25. CASE UNCHANGED vars
  BY <1>25 DEF vars
<1>. HIDE DEF TypeOK, ConfigTypeOK, Parts, configVars, countVars, dataVars,
              clockVars, localVars, senderVars
<1>26. QED
  BY <1>1, <1>2, <1>3, <1>4, <1>5, <1>6, <1>7, <1>8, <1>9, <1>10, <1>11,
     <1>12, <1>13, <1>14, <1>15, <1>16, <1>17, <1>18, <1>19, <1>20, <1>21, <1>22,
     <1>23, <1>24, <1>25
     DEF Next, UserStep, SystemStep, WorkerStep

\* The unsigned quantities do not step below zero.
LEMMA StepCountType ==
  ASSUME TypeOK, Tuned, [Next]_vars
  PROVE  CountTypeOK'
<1>1. ASSUME NEW t \in Limits, SendBeforeRun(t) PROVE CountTypeOK'
  BY <1>1, RealTimeSystemAssumption
     DEF RealTimeSystemAssumption, SendBeforeRun, Give, S!Accept, TypeOK, CountTypeOK,
     configVars, countVars, dataVars, clockVars, localVars, senderVars
<1>2. ASSUME SbrSleep PROVE CountTypeOK'
  <2>1. /\ limit \in Nat \ {0} /\ SleepingTime \in Nat /\ SleepingTime <= limit
    BY <1>2 DEF SbrSleep, SleepingTime, TypeOK
  <2>2. QED
    BY <1>2, <2>1 DEF SbrSleep, TypeOK, CountTypeOK,
       configVars, countVars, dataVars, clockVars, localVars, senderVars
<1>3. ASSUME SbrEnd PROVE CountTypeOK'
  <2>1. Return("true") \/ Return("time_limit")
    BY <1>3 DEF SbrEnd
  <2>2. QED
    BY <2>1 DEF Return, CountTypeOK
<1>4. ASSUME Tolerate PROVE CountTypeOK'
  <2>1. pc # "idle"
    BY <1>4 DEF Tolerate
  <2>2. \A t \in Nat : Smaller(waiting + t, WaitBound) \in Nat
    BY <2>1, WaitNat
  <2>3. HalfMs \in Nat /\ Late \in Nat
    BY RealTimeSystemAssumption DEF RealTimeSystemAssumption
  <2>4. /\ skipped_count' = skipped_count /\ limit' = limit
        /\ \/ /\ used_tolerated_time' = used_tolerated_time + 1
              /\ \E j \in 0..Late : Pass(HalfMs + j)
           \/ UNCHANGED <<now, waiting, used_tolerated_time>>
    BY <1>4 DEF Tolerate, clockVars, dataVars
  <2>5. QED
    BY <2>2, <2>3, <2>4 DEF Pass, Wait, TypeOK, CountTypeOK
<1>5. ASSUME CheckError PROVE CountTypeOK'
  <2>1. Return("late") \/ UNCHANGED localVars
    BY <1>5 DEF CheckError
  <2>2. QED
    BY <2>1 DEF Return, TypeOK, CountTypeOK, countVars, dataVars, clockVars, localVars
<1>6. ASSUME CheckSkip PROVE CountTypeOK'
  <2>1. /\ UNCHANGED <<used_tolerated_time, limit, now, waiting>>
        /\ skipped_count' \in {0, skipped_count}
    BY <1>6 DEF CheckSkip, clockVars
  <2>2. QED
    BY <2>1 DEF TypeOK, CountTypeOK
<1>7. ASSUME UserSkip PROVE CountTypeOK'
  <2>1. pc # "idle"
    BY <1>7 DEF UserSkip
  <2>2. \A t \in Nat : Smaller(waiting + t, WaitBound) \in Nat
    BY <2>1, WaitNat
  <2>3. HalfMs \in Nat /\ Late \in Nat /\ UserCost \in Nat
    BY RealTimeSystemAssumption DEF RealTimeSystemAssumption
  <2>4. QED
    BY <1>7, <2>2, <2>3 DEF UserSkip, CallUser, Pass,
       TypeOK, CountTypeOK, Wait, configVars,
       countVars, dataVars, clockVars, localVars, senderVars
<1>8. ASSUME User PROVE CountTypeOK'
  <2>1. pc # "idle"
    BY <1>8 DEF User
  <2>2. \A t \in Nat : Smaller(waiting + t, WaitBound) \in Nat
    BY <2>1, WaitNat
  <2>3. HalfMs \in Nat /\ Late \in Nat /\ UserCost \in Nat
    BY RealTimeSystemAssumption DEF RealTimeSystemAssumption
  <2>4. QED
    BY <1>8, <2>2, <2>3 DEF User, CallUser, Pass,
       TypeOK, CountTypeOK, Wait, configVars,
       countVars, dataVars, clockVars, localVars, senderVars
<1>9. ASSUME Sleep PROVE CountTypeOK'
  <2>1. pc # "idle"
    BY <1>9 DEF Sleep
  <2>2. \A t \in Nat : Smaller(waiting + t, WaitBound) \in Nat
    BY <2>1, WaitNat
  <2>3. HalfMs \in Nat /\ Late \in Nat /\ UserCost \in Nat /\ Period \in Nat
    BY RealTimeSystemAssumption, PeriodNat, <2>1 DEF RealTimeSystemAssumption, TypeOK, Tuned
  <2>4. CASE Return("missed")
    BY <2>4 DEF Return, CountTypeOK
  <2>5. CASE T!Ticks(Period) /\ Wait((Period - now) + now') /\ UNCHANGED <<countVars, dataVars>>
    <3>1. now \in Nat /\ now <= Period /\ now' \in 0..Late
      BY <2>5 DEF T!Ticks, TypeOK
    <3>2. now' \in Nat
      BY <2>3, <3>1
    <3>3. (Period - now) + now' \in Nat
      BY <2>3, <3>1, <3>2, SumLeft
    <3>4. waiting' \in Nat
      BY <2>2, <2>5, <3>3 DEF Wait
    <3>5. QED
      BY <2>5, <3>2, <3>4 DEF TypeOK, CountTypeOK, countVars, dataVars
  <2>6. QED
    BY <1>9, <2>4, <2>5 DEF Sleep
<1>. USE DEF TypeOK, CountTypeOK, configVars, countVars, dataVars, clockVars,
             localVars, senderVars
<1>10. ASSUME NEW p \in Parts, SetPart(p) PROVE CountTypeOK'
  BY <1>10 DEF SetPart, Set
<1>11. ASSUME NEW f \in Frequencies, SetFrequency(f) PROVE CountTypeOK'
  BY <1>11 DEF SetFrequency, Set
<1>12. ASSUME NEW t \in Tolerances, SetTolerance(t) PROVE CountTypeOK'
  BY <1>12 DEF SetTolerance, Set
<1>13. ASSUME NEW b \in BOOLEAN, SkipMode(b) PROVE CountTypeOK'
  BY <1>13 DEF SkipMode, Set
<1>14. ASSUME InitializeRefused PROVE CountTypeOK'
  BY <1>14 DEF InitializeRefused
<1>15. ASSUME Initialize PROVE CountTypeOK'
  BY <1>15 DEF Initialize
<1>16. ASSUME Run PROVE CountTypeOK'
  BY <1>16 DEF Run
<1>17. ASSUME Uninitialized PROVE CountTypeOK'
  BY <1>17 DEF Uninitialized
<1>18. ASSUME SbrCheck PROVE CountTypeOK'
  BY <1>18 DEF SbrCheck
<1>19. ASSUME Top PROVE CountTypeOK'
  BY <1>19 DEF Top, Return, EndSender
<1>20. ASSUME Skip PROVE CountTypeOK'
  BY <1>20 DEF Skip, CountSkip, Stop, Return, EndSender
<1>21. ASSUME Send PROVE CountTypeOK'
  BY <1>21 DEF Send, Give, S!Accept, Stop, Return, EndSender
<1>22. ASSUME WorkerStep /\ Take PROVE CountTypeOK'
  BY <1>22 DEF WorkerStep, Take, S!Take
<1>23. ASSUME WorkerStep /\ Complete PROVE CountTypeOK'
  BY <1>23 DEF WorkerStep, Complete, S!Complete
<1>24. ASSUME WorkerStep /\ Break PROVE CountTypeOK'
  BY <1>24 DEF WorkerStep, Break, S!Fail
<1>25. CASE UNCHANGED vars
  BY <1>25 DEF vars
<1>. HIDE DEF TypeOK, CountTypeOK, configVars, countVars, dataVars, clockVars,
              localVars, senderVars
<1>26. QED
  BY <1>1, <1>2, <1>3, <1>4, <1>5, <1>6, <1>7, <1>8, <1>9, <1>10, <1>11,
     <1>12, <1>13, <1>14, <1>15, <1>16, <1>17, <1>18, <1>19, <1>20, <1>21, <1>22,
     <1>23, <1>24, <1>25
     DEF Next, UserStep, SystemStep, WorkerStep

\* The lists and the sender.
LEMMA StepListType ==
  ASSUME TypeOK, [Next]_vars
  PROVE  ListTypeOK'
<1>. USE DEF TypeOK, ListTypeOK, Contents, S!Phases, configVars, countVars,
             dataVars, clockVars, localVars, senderVars
<1>1. ASSUME UserStep PROVE ListTypeOK'
  BY <1>1 DEF UserStep, SetPart, Set, SetFrequency, SetTolerance, SkipMode,
     InitializeRefused, Initialize, SendBeforeRun, Give, S!Accept, Run,
     Uninitialized
<1>2. ASSUME SystemStep PROVE ListTypeOK'
  BY <1>2 DEF SystemStep, SbrSleep, WorkerRan, SbrCheck, SbrEnd, Return, EndSender,
     Top, Tolerate, Pass, CheckError, CheckSkip, UserSkip, CallUser, Skip,
     CountSkip, Stop, User, Send, Give, S!Accept, Sleep, T!Missed, T!Ticks
<1>3. ASSUME WorkerStep PROVE ListTypeOK'
  BY <1>3 DEF WorkerStep, Take, S!Take, Complete, S!Complete, Break, S!Fail
<1>4. CASE UNCHANGED vars
  BY <1>4 DEF vars
<1>. HIDE DEF TypeOK, ListTypeOK, Contents, S!Phases, configVars, countVars,
              dataVars, clockVars, localVars, senderVars
<1>5. QED
  BY <1>1, <1>2, <1>3, <1>4 DEF Next

\* Each part of the slot adds what it may take at most.
LEMMA StepClock ==
  ASSUME TypeOK, ClockInv, [Next]_vars
  PROVE  ClockInv'
<1>1. ASSUME NEW t \in Tolerances, SetTolerance(t) PROVE ClockInv'
  BY <1>1, RealTimeSystemAssumption
     DEF RealTimeSystemAssumption, SetTolerance, Set, ClockInv, Tolerated, TypeOK, SbrPcs,
     configVars, countVars, dataVars, clockVars, localVars, senderVars
<1>2. ASSUME Initialize PROVE ClockInv'
  <2>1. Clamp \in Nat
    BY <1>2, ClampFits DEF Initialize
  <2>2. QED
    BY <1>2, <2>1 DEF Initialize, ClockInv, Tolerated, TypeOK, SbrPcs,
       configVars, countVars, dataVars, clockVars, localVars, senderVars
<1>3. ASSUME Run PROVE ClockInv'
  <2>1. HalfMs \in Nat /\ Late \in Nat /\ UserCost \in Nat
    BY RealTimeSystemAssumption DEF RealTimeSystemAssumption
  <2>2. QED
    BY <1>3, <2>1 DEF Run,
       ClockInv, Tolerated, TypeOK, RunPcs, SbrPcs, configVars,
       countVars, dataVars, clockVars, localVars, senderVars
<1>4. ASSUME Top PROVE ClockInv'
  <2>1. HalfMs \in Nat /\ Late \in Nat /\ 0 * (HalfMs + Late) = 0
    BY RealTimeSystemAssumption DEF RealTimeSystemAssumption
  <2>2. QED
    BY <1>4, <2>1 DEF Top, Return, ClockInv, Tolerated, TypeOK, SbrPcs,
       configVars, countVars, dataVars, clockVars, localVars, senderVars
<1>5. ASSUME Tolerate PROVE ClockInv'
  <2>1. HalfMs \in Nat /\ Late \in Nat
    BY RealTimeSystemAssumption DEF RealTimeSystemAssumption
  <2>2. Tolerated \in Nat
    BY <2>1 DEF Tolerated, TypeOK
  <2>3. /\ pc = "tolerate" /\ ms_tolerance_' = ms_tolerance_
        /\ \/ /\ pc' = "tolerate"
              /\ used_tolerated_time < ms_tolerance_ * 2
              /\ used_tolerated_time' = used_tolerated_time + 1
              /\ \E j \in 0..Late : now' = now + (HalfMs + j)
           \/ pc' = "check_error" /\ UNCHANGED <<now, used_tolerated_time>>
    BY <1>5 DEF Tolerate, Pass, clockVars, configVars
  <2>4. CASE used_tolerated_time' = used_tolerated_time + 1
    <3>1. Tolerated' = Tolerated + HalfMs + Late
      BY <2>1, <2>4 DEF Tolerated, TypeOK
    <3>2. used_tolerated_time + 1 # used_tolerated_time
      BY DEF TypeOK
    <3>3. \E j \in 0..Late : now' = now + (HalfMs + j)
      BY <2>3, <2>4, <3>2
    <3>4. now' <= Late + Tolerated'
      BY <2>1, <2>2, <2>3, <3>1, <3>3 DEF ClockInv, TypeOK
    <3>5. QED
      BY <2>3, <2>4, <3>2, <3>4 DEF ClockInv, TypeOK, SbrPcs
  <2>5. CASE pc' = "check_error" /\ UNCHANGED <<now, used_tolerated_time>>
    BY <2>3, <2>5 DEF ClockInv, Tolerated, TypeOK, SbrPcs
  <2>6. QED
    BY <2>3, <2>4, <2>5
<1>6. ASSUME CheckError PROVE ClockInv'
  <2>1. CASE pc' = "idle"
    BY <1>6, <2>1 DEF CheckError, Return, ClockInv, TypeOK, SbrPcs, configVars, localVars
  <2>2. CASE pc' = "check_skip"
    BY <1>6, <2>2 DEF CheckError, Return, ClockInv, Tolerated, TypeOK, SbrPcs,
       configVars, countVars, clockVars, localVars
  <2>3. QED
    BY <1>6, <2>1, <2>2 DEF CheckError, Return
<1>7. ASSUME UserSkip PROVE ClockInv'
  <2>1. HalfMs \in Nat /\ Late \in Nat /\ UserCost \in Nat
    BY RealTimeSystemAssumption DEF RealTimeSystemAssumption
  <2>2. QED
    BY <1>7, <2>1 DEF UserSkip, CallUser, Pass,
       ClockInv, Tolerated, TypeOK, RunPcs, SbrPcs, configVars,
       countVars, dataVars, clockVars, localVars, senderVars
<1>8. ASSUME User PROVE ClockInv'
  <2>1. HalfMs \in Nat /\ Late \in Nat /\ UserCost \in Nat
    BY RealTimeSystemAssumption DEF RealTimeSystemAssumption
  <2>2. QED
    BY <1>8, <2>1 DEF User, CallUser, Pass,
       ClockInv, Tolerated, TypeOK, RunPcs, SbrPcs, configVars,
       countVars, dataVars, clockVars, localVars, senderVars
<1>9. ASSUME Sleep PROVE ClockInv'
  <2>1. HalfMs \in Nat /\ Late \in Nat /\ UserCost \in Nat
    BY RealTimeSystemAssumption DEF RealTimeSystemAssumption
  <2>2. QED
    BY <1>9, <2>1 DEF Sleep, T!Missed, T!Ticks, Return,
       ClockInv, Tolerated, TypeOK, RunPcs, SbrPcs, configVars,
       countVars, dataVars, clockVars, localVars, senderVars
<1>. USE DEF ClockInv, Tolerated, TypeOK, SbrPcs, RunPcs, configVars, countVars,
             dataVars, clockVars, localVars, senderVars
<1>10. ASSUME NEW p \in Parts, SetPart(p) PROVE ClockInv'
  BY <1>10 DEF SetPart, Set
<1>11. ASSUME NEW f \in Frequencies, SetFrequency(f) PROVE ClockInv'
  BY <1>11 DEF SetFrequency, Set
<1>12. ASSUME NEW b \in BOOLEAN, SkipMode(b) PROVE ClockInv'
  BY <1>12 DEF SkipMode, Set
<1>13. ASSUME InitializeRefused PROVE ClockInv'
  BY <1>13 DEF InitializeRefused
<1>14. ASSUME NEW t \in Limits, SendBeforeRun(t) PROVE ClockInv'
  BY <1>14 DEF SendBeforeRun, Give, S!Accept
<1>15. ASSUME Uninitialized PROVE ClockInv'
  BY <1>15 DEF Uninitialized
<1>16. ASSUME SbrSleep PROVE ClockInv'
  BY <1>16 DEF SbrSleep, WorkerRan
<1>17. ASSUME SbrCheck PROVE ClockInv'
  BY <1>17 DEF SbrCheck
<1>18. ASSUME SbrEnd PROVE ClockInv'
  BY <1>18 DEF SbrEnd, Return, EndSender
<1>19. ASSUME CheckSkip PROVE ClockInv'
  BY <1>19 DEF CheckSkip
<1>20. ASSUME Skip PROVE ClockInv'
  BY <1>20 DEF Skip, CountSkip, Stop, Return, EndSender
<1>21. ASSUME Send PROVE ClockInv'
  BY <1>21 DEF Send, Give, S!Accept, Stop, Return, EndSender
<1>22. ASSUME WorkerStep /\ Take PROVE ClockInv'
  BY <1>22 DEF WorkerStep, Take, S!Take
<1>23. ASSUME WorkerStep /\ Complete PROVE ClockInv'
  BY <1>23 DEF WorkerStep, Complete, S!Complete
<1>24. ASSUME WorkerStep /\ Break PROVE ClockInv'
  BY <1>24 DEF WorkerStep, Break, S!Fail
<1>25. CASE UNCHANGED vars
  BY <1>25 DEF vars
<1>. HIDE DEF ClockInv, Tolerated, TypeOK, SbrPcs, RunPcs, configVars, countVars,
              dataVars, clockVars, localVars, senderVars
<1>26. QED
  BY <1>1, <1>2, <1>3, <1>4, <1>5, <1>6, <1>7, <1>8, <1>9, <1>10, <1>11,
     <1>12, <1>13, <1>14, <1>15, <1>16, <1>17, <1>18, <1>19, <1>20, <1>21, <1>22,
     <1>23, <1>24, <1>25
     DEF Next, UserStep, SystemStep, WorkerStep

\* A loop whose overhead fits in the reserve stays within its slot.
LEMMA NoMiss ==
  ASSUME TypeOK, Tuned, ClockInv, pc \in RunPcs,
         Overhead(ms_tolerance_) <= 2 * HalfMs * ReserveMs
  PROVE  ~(now > Period)
<1>. DEFINE p == SecondMs \div frequency_
            tol == ms_tolerance_
            k == 2 * HalfMs
<1>1. /\ HalfMs \in Nat /\ Late \in Nat /\ UserCost \in Nat /\ ReserveMs \in Nat
      /\ SecondMs \in Nat /\ frequency_ \in Nat \ {0} /\ tol \in Nat
      /\ used_tolerated_time \in Nat /\ now \in Nat
  BY RealTimeSystemAssumption DEF RealTimeSystemAssumption, TypeOK, Tuned, RunPcs
<1>2. p \in Nat /\ k \in Nat /\ tol + ReserveMs <= p
  BY <1>1, DivFacts DEF Tuned, RunPcs
<1>3. Period \in Nat /\ k * p <= Period
  <2>1. k * p <= (k * SecondMs) \div frequency_
    BY <1>1, <1>2, DivScale
  <2>2. k * SecondMs = 2 * HalfMs * SecondMs
    OBVIOUS
  <2>3. QED
    BY <1>1, <2>1, <2>2, PeriodNat, RealTimeSystemAssumption DEF Period
<1>4. (tol + ReserveMs) * k <= p * k
  BY <1>1, <1>2, MulMono
<1>5. k * tol + k * ReserveMs <= k * p
  BY <1>1, <1>2, <1>4
<1>6. Tolerated <= (tol * 2) * (HalfMs + Late)
  BY <1>1, MulMono DEF ClockInv, Tolerated
<1>7. (tol * 2) * (HalfMs + Late) = k * tol + 2 * tol * Late
  BY <1>1
<1>8. now <= Late + Tolerated + UserCost
  <2>1. Tolerated \in Nat
    BY <1>1 DEF Tolerated
  <2>2. \/ now <= Late
        \/ now <= Late + Tolerated
        \/ now <= Late + Tolerated + UserCost
    BY DEF ClockInv, RunPcs
  <2>3. QED
    BY <1>1, <2>1, <2>2
<1>9. Late + 2 * tol * Late + UserCost <= k * ReserveMs
  BY DEF Overhead
<1>10. /\ Tolerated \in Nat /\ k * tol \in Nat /\ 2 * tol * Late \in Nat
       /\ k * ReserveMs \in Nat /\ k * p \in Nat
  BY <1>1, <1>2 DEF Tolerated
<1>. HIDE DEF p, tol, k
<1>11. QED
  BY <1>1, <1>3, <1>5, <1>6, <1>7, <1>8, <1>9, <1>10

\* Only a sleep that begins after the tick misses it, and an operation that
\* changes the tolerance changes the outcome.
LEMMA StepTicks ==
  ASSUME TypeOK, Tuned, ClockInv, TicksKept, [Next]_vars
  PROVE  TicksKept'
<1>1. ASSUME Sleep PROVE TicksKept'
  <2>1. pc = "sleep" /\ ms_tolerance_' = ms_tolerance_
    BY <1>1 DEF Sleep, configVars
  <2>2. CASE now > Period
    <3>1. ~(Overhead(ms_tolerance_) <= 2 * HalfMs * ReserveMs)
      BY <2>1, <2>2, NoMiss DEF RunPcs
    <3>2. QED
      BY <2>1, <3>1 DEF TicksKept, Overhead
  <2>3. CASE outcome' = outcome
    BY <2>1, <2>3 DEF TicksKept, Overhead
  <2>4. QED
    BY <1>1, <2>2, <2>3 DEF Sleep, T!Missed
<1>. USE DEF TicksKept, Overhead, configVars, countVars, dataVars, clockVars,
             localVars, senderVars
<1>2. ASSUME NEW p \in Parts, SetPart(p) PROVE TicksKept'
  BY <1>2 DEF SetPart, Set
<1>3. ASSUME NEW f \in Frequencies, SetFrequency(f) PROVE TicksKept'
  BY <1>3 DEF SetFrequency, Set
<1>4. ASSUME NEW t \in Tolerances, SetTolerance(t) PROVE TicksKept'
  BY <1>4 DEF SetTolerance, Set
<1>5. ASSUME NEW b \in BOOLEAN, SkipMode(b) PROVE TicksKept'
  BY <1>5 DEF SkipMode, Set
<1>6. ASSUME InitializeRefused PROVE TicksKept'
  BY <1>6 DEF InitializeRefused
<1>7. ASSUME Initialize PROVE TicksKept'
  BY <1>7 DEF Initialize
<1>8. ASSUME NEW t \in Limits, SendBeforeRun(t) PROVE TicksKept'
  BY <1>8 DEF SendBeforeRun, Give, S!Accept
<1>9. ASSUME Run PROVE TicksKept'
  BY <1>9 DEF Run
<1>10. ASSUME Uninitialized PROVE TicksKept'
  BY <1>10 DEF Uninitialized
<1>11. ASSUME SbrSleep PROVE TicksKept'
  BY <1>11 DEF SbrSleep, WorkerRan
<1>12. ASSUME SbrCheck PROVE TicksKept'
  BY <1>12 DEF SbrCheck
<1>13. ASSUME SbrEnd PROVE TicksKept'
  BY <1>13 DEF SbrEnd, Return, EndSender
<1>14. ASSUME Top PROVE TicksKept'
  BY <1>14 DEF Top, Return, EndSender
<1>15. ASSUME Tolerate PROVE TicksKept'
  BY <1>15 DEF Tolerate, WorkerRan, Pass
<1>16. ASSUME CheckError PROVE TicksKept'
  BY <1>16 DEF CheckError, Return, EndSender
<1>17. ASSUME CheckSkip PROVE TicksKept'
  BY <1>17 DEF CheckSkip
<1>18. ASSUME UserSkip PROVE TicksKept'
  BY <1>18 DEF UserSkip, CallUser, Pass
<1>19. ASSUME Skip PROVE TicksKept'
  BY <1>19 DEF Skip, CountSkip, Stop, Return, EndSender
<1>20. ASSUME User PROVE TicksKept'
  BY <1>20 DEF User, CallUser, Pass
<1>21. ASSUME Send PROVE TicksKept'
  BY <1>21 DEF Send, Give, S!Accept, Stop, Return, EndSender
<1>22. ASSUME WorkerStep /\ Take PROVE TicksKept'
  BY <1>22 DEF WorkerStep, Take, S!Take
<1>23. ASSUME WorkerStep /\ Complete PROVE TicksKept'
  BY <1>23 DEF WorkerStep, Complete, S!Complete
<1>24. ASSUME WorkerStep /\ Break PROVE TicksKept'
  BY <1>24 DEF WorkerStep, Break, S!Fail
<1>25. CASE UNCHANGED vars
  BY <1>25 DEF vars
<1>. HIDE DEF TicksKept, Overhead, configVars, countVars, dataVars, clockVars,
              localVars, senderVars
<1>26. QED
  BY <1>1, <1>2, <1>3, <1>4, <1>5, <1>6, <1>7, <1>8, <1>9, <1>10, <1>11,
     <1>12, <1>13, <1>14, <1>15, <1>16, <1>17, <1>18, <1>19, <1>20, <1>21, <1>22,
     <1>23, <1>24, <1>25
     DEF Next, UserStep, SystemStep, WorkerStep

-----------------------------------------------------------------------------
(* The three seconds: SkipInv, which IndInv does not need.                 *)

\* The part of a slot in which the list in flight may still be waited for.
SlotPcs == {"tolerate", "check_error", "check_skip", "user_skip", "skip"}

\* Each slot skipped adds a Period to the time waited, counted from the tick.
SkipInv ==
  /\ pc \in {"idle"} \cup SbrPcs => skipped_count = 0 /\ waiting = 0
  /\ pc \in {"top", "sleep"} => skipped_count <= 3 * frequency_
  /\ pc \in SlotPcs => skipped_count < 3 * frequency_
  /\ pc \in {"top"} \cup SlotPcs =>
       /\ waiting >= skipped_count * Period + now \/ waiting = WaitBound
       /\ waiting <= (skipped_count + 1) * Period + now
  /\ pc \in {"user", "send"} =>
       skipped_count = 0 /\ waiting <= (3 * frequency_) * Period + now
  /\ pc = "sleep" =>
       /\ skipped_count > 0 =>
            waiting >= (skipped_count - 1) * Period + now \/ waiting = WaitBound
       /\ waiting <= skipped_count * Period + now

\* The length of a slot depends on the frequency only.
LEMMA SamePeriod ==
  ASSUME frequency_' = frequency_
  PROVE  Period' = Period /\ WaitBound' = WaitBound
BY DEF Period, WaitBound

\* Products that occur below.
LEMMA Products ==
  ASSUME TypeOK, Tuned, pc # "idle"
  PROVE  /\ Period \in Nat /\ skipped_count \in Nat /\ frequency_ \in Nat \ {0}
         /\ waiting \in Nat /\ now \in Nat /\ Late \in Nat /\ WaitBound \in Nat
         /\ skipped_count * Period \in Nat
         /\ (skipped_count + 1) * Period = skipped_count * Period + Period
         /\ (3 * frequency_) * Period \in Nat
         /\ 0 * Period = 0
         /\ (0 + 1) * Period = Period
<1>1. Period \in Nat /\ skipped_count \in Nat /\ frequency_ \in Nat \ {0}
      /\ waiting \in Nat /\ now \in Nat /\ Late \in Nat
  BY RealTimeSystemAssumption, PeriodNat DEF RealTimeSystemAssumption, TypeOK, Tuned
<1>2. 3 * frequency_ + 2 \in Nat /\ 3 * frequency_ \in Nat
  BY <1>1
<1>3. (3 * frequency_ + 2) * Period \in Nat /\ (3 * frequency_) * Period \in Nat
  BY <1>1, <1>2
<1>4. WaitBound \in Nat
  BY <1>1, <1>3 DEF WaitBound
<1>5. /\ skipped_count * Period \in Nat
      /\ (skipped_count + 1) * Period = skipped_count * Period + Period
      /\ 0 * Period = 0 /\ (0 + 1) * Period = Period
  BY <1>1
<1>6. QED
  BY <1>1, <1>3, <1>4, <1>5

\* An operation that returns, or has not begun to skip.
LEMMA QuietKeeps ==
  ASSUME pc' \in {"idle"} \cup SbrPcs, skipped_count' = 0, waiting' = 0
  PROVE  SkipInv'
BY DEF SkipInv, SbrPcs, SlotPcs

\* A step that takes no time.
LEMMA MoveKeeps ==
  ASSUME SkipInv, UNCHANGED <<frequency_, skipped_count, waiting, now>>,
         \/ pc' = pc
         \/ pc \in SlotPcs /\ pc' \in SlotPcs
         \/ pc = "top" /\ pc' = "tolerate" /\ skipped_count < 3 * frequency_
  PROVE  SkipInv'
<1>1. Period' = Period /\ WaitBound' = WaitBound
  BY SamePeriod
<1>. DEFINE kP == skipped_count * Period
            lP == (skipped_count + 1) * Period
            mP == (skipped_count - 1) * Period
            fP == (3 * frequency_) * Period
<1>2. kP' = kP /\ lP' = lP /\ mP' = mP /\ fP' = fP
  BY <1>1
<1>3. /\ pc \in {"idle"} \cup SbrPcs => skipped_count = 0 /\ waiting = 0
      /\ pc \in {"top", "sleep"} => skipped_count <= 3 * frequency_
      /\ pc \in SlotPcs => skipped_count < 3 * frequency_
      /\ pc \in {"top"} \cup SlotPcs =>
           (waiting >= kP + now \/ waiting = WaitBound) /\ waiting <= lP + now
      /\ pc \in {"user", "send"} => skipped_count = 0 /\ waiting <= fP + now
      /\ pc = "sleep" =>
           /\ skipped_count > 0 => waiting >= mP + now \/ waiting = WaitBound
           /\ waiting <= kP + now
  BY DEF SkipInv
<1>. HIDE DEF kP, lP, mP, fP
<1>4. /\ pc' \in {"idle"} \cup SbrPcs => skipped_count' = 0 /\ waiting' = 0
      /\ pc' \in {"top", "sleep"} => skipped_count' <= 3 * frequency_'
      /\ pc' \in SlotPcs => skipped_count' < 3 * frequency_'
      /\ pc' \in {"top"} \cup SlotPcs =>
           (waiting' >= kP' + now' \/ waiting' = WaitBound') /\ waiting' <= lP' + now'
      /\ pc' \in {"user", "send"} => skipped_count' = 0 /\ waiting' <= fP' + now'
      /\ pc' = "sleep" =>
           /\ skipped_count' > 0 => waiting' >= mP' + now' \/ waiting' = WaitBound'
           /\ waiting' <= kP' + now'
  BY <1>1, <1>2, <1>3 DEF SbrPcs, SlotPcs
<1>5. QED
  BY <1>4 DEF SkipInv, kP, lP, mP, fP

\* Time that passes in a slot is waited.
LEMMA PassKeeps ==
  ASSUME TypeOK, Tuned, SkipInv, UNCHANGED <<frequency_, skipped_count>>,
         NEW t \in Nat, Pass(t),
         \/ pc \in SlotPcs /\ pc' \in SlotPcs
         \/ pc = "user" /\ pc' = "send"
  PROVE  SkipInv'
<1>1. Period' = Period /\ WaitBound' = WaitBound
  BY SamePeriod
<1>. DEFINE kP == skipped_count * Period
            fP == (3 * frequency_) * Period
<1>2. /\ Period \in Nat /\ waiting \in Nat /\ now \in Nat /\ WaitBound \in Nat
      /\ kP \in Nat /\ fP \in Nat /\ (skipped_count + 1) * Period = kP + Period
      /\ skipped_count \in Nat
  BY Products DEF SlotPcs
<1>3. /\ now' = now + t
      /\ \/ waiting' = waiting + t /\ waiting + t <= WaitBound
         \/ waiting' = WaitBound /\ WaitBound <= waiting + t
  <2>1. waiting + t <= WaitBound \/ WaitBound <= waiting + t
    BY <1>2
  <2>2. waiting' = IF waiting + t <= WaitBound THEN waiting + t ELSE WaitBound
    BY DEF Pass, Wait, Smaller
  <2>3. QED
    BY <2>1, <2>2 DEF Pass
<1>4. /\ (skipped_count * Period)' = kP /\ ((3 * frequency_) * Period)' = fP
      /\ ((skipped_count + 1) * Period)' = kP + Period
  BY <1>1, <1>2
<1>5. CASE pc \in SlotPcs /\ pc' \in SlotPcs
  <2>1. /\ waiting >= kP + now \/ waiting = WaitBound
        /\ waiting <= kP + Period + now
        /\ skipped_count < 3 * frequency_
    BY <1>2, <1>5 DEF SkipInv
  <2>. HIDE DEF kP, fP
  <2>2. /\ waiting' >= kP + now' \/ waiting' = WaitBound
        /\ waiting' <= kP + Period + now'
    BY <1>2, <1>3, <2>1
  <2>3. QED
    BY <1>1, <1>4, <1>5, <2>1, <2>2 DEF SkipInv, SlotPcs, SbrPcs
<1>6. CASE pc = "user" /\ pc' = "send"
  <2>1. skipped_count = 0 /\ waiting <= fP + now
    BY <1>6 DEF SkipInv
  <2>. HIDE DEF kP, fP
  <2>2. waiting' <= fP + now'
    BY <1>2, <1>3, <2>1
  <2>3. QED
    BY <1>4, <1>6, <2>1, <2>2 DEF SkipInv, SlotPcs, SbrPcs
<1>7. QED
  BY <1>5, <1>6

\* Every step keeps SkipInv.
LEMMA StepSkip ==
  ASSUME TypeOK, Tuned, ClockInv, SkipInv, [Next]_vars
  PROVE  SkipInv'
<1>1. ASSUME Set \/ InitializeRefused \/ Initialize \/ Uninitialized \/ SbrSleep
             \/ SbrCheck \/ (\E t \in Limits : SendBeforeRun(t))
      PROVE  SkipInv'
  <2>1. /\ pc \in {"idle"} \cup SbrPcs /\ pc' \in {"idle"} \cup SbrPcs
        /\ UNCHANGED <<skipped_count, waiting>>
    BY <1>1 DEF Set, InitializeRefused, Initialize, Uninitialized, SbrSleep, SbrCheck,
       SendBeforeRun, SbrPcs, localVars, countVars, clockVars
  <2>2. QED
    BY <2>1, QuietKeeps DEF SkipInv
<1>2. ASSUME NEW o, Return(o)
      PROVE  SkipInv'
  BY <1>2, QuietKeeps DEF Return
<1>3. ASSUME Run
      PROVE  SkipInv'
  <2>1. /\ pc = "idle" /\ pc' = "top" /\ frequency_' = frequency_
        /\ skipped_count' = 0 /\ waiting' = 0 /\ now' = 0
    BY <1>3 DEF Run, SkipInv, ClockInv, configVars, localVars, countVars, clockVars
  <2>2. Period \in Nat /\ frequency_ \in Nat
    BY <1>3, PeriodNat, RealTimeSystemAssumption DEF Run, Tuned, TypeOK
  <2>3. Period' = Period
    BY <2>1, SamePeriod
  <2>4. (skipped_count * Period)' = 0 /\ ((skipped_count + 1) * Period)' = Period
    BY <2>1, <2>2, <2>3
  <2>5. QED
    BY <2>1, <2>2, <2>4 DEF SkipInv, SbrPcs, SlotPcs
<1>4. ASSUME Top
      PROVE  SkipInv'
  <2>1. CASE Return("disconnected")
    BY <1>2, <2>1
  <2>2. CASE ~Disconnected /\ pc' = "tolerate"
    <3>1. pc = "top" /\ UNCHANGED <<frequency_, skipped_count, waiting, now>>
      BY <1>4, <2>2 DEF Top, configVars, clockVars
    <3>2. skipped_count < 3 * frequency_
      BY <2>2, <3>1 DEF SkipInv, Disconnected, TypeOK
    <3>3. QED
      BY <2>2, <3>1, <3>2, MoveKeeps
  <2>3. QED
    BY <1>4, <2>1, <2>2 DEF Top
<1>5. ASSUME Tolerate
      PROVE  SkipInv'
  <2>1. /\ pc = "tolerate" /\ UNCHANGED <<frequency_, skipped_count>>
        /\ \/ pc' = "tolerate" /\ \E j \in 0..Late : Pass(HalfMs + j)
           \/ pc' = "check_error" /\ UNCHANGED <<waiting, now>>
    BY <1>5 DEF Tolerate, configVars, clockVars
  <2>2. ASSUME NEW j \in 0..Late, pc' = "tolerate", Pass(HalfMs + j)
        PROVE  SkipInv'
    <3>1. HalfMs + j \in Nat
      BY RealTimeSystemAssumption DEF RealTimeSystemAssumption
    <3>2. QED
      BY <2>1, <2>2, <3>1, PassKeeps DEF SlotPcs
  <2>3. CASE pc' = "check_error" /\ UNCHANGED <<waiting, now>>
    BY <2>1, <2>3, MoveKeeps DEF SlotPcs
  <2>4. QED
    BY <2>1, <2>2, <2>3
<1>6. ASSUME CheckError
      PROVE  SkipInv'
  <2>1. CASE Return("late")
    BY <1>2, <2>1
  <2>2. CASE pc' = "check_skip" /\ UNCHANGED localVars
    <3>1. pc = "check_error" /\ UNCHANGED <<frequency_, skipped_count, waiting, now>>
      BY <1>6, <2>2 DEF CheckError, configVars, countVars, clockVars, localVars
    <3>2. QED
      BY <2>2, <3>1, MoveKeeps DEF SlotPcs
  <2>3. QED
    BY <1>6, <2>1, <2>2 DEF CheckError
<1>7. ASSUME CheckSkip
      PROVE  SkipInv'
  <2>1. /\ pc = "check_skip" /\ UNCHANGED <<frequency_, waiting, now>>
        /\ \/ pc' = "user_skip" /\ skipped_count' = skipped_count
           \/ pc' = "user" /\ skipped_count' = 0
    BY <1>7 DEF CheckSkip, configVars, clockVars
  <2>2. CASE pc' = "user_skip" /\ skipped_count' = skipped_count
    BY <2>1, <2>2, MoveKeeps DEF SlotPcs
  <2>3. CASE pc' = "user" /\ skipped_count' = 0
    <3>1. /\ Period \in Nat /\ skipped_count + 1 \in Nat /\ 3 * frequency_ \in Nat
          /\ skipped_count + 1 <= 3 * frequency_
          /\ waiting <= (skipped_count + 1) * Period + now
          /\ waiting \in Nat /\ now \in Nat
      BY <2>1, Products DEF SkipInv, SlotPcs, TypeOK
    <3>2. (skipped_count + 1) * Period <= (3 * frequency_) * Period
      BY <3>1, MulMono
    <3>3. (skipped_count + 1) * Period \in Nat /\ (3 * frequency_) * Period \in Nat
      BY <3>1
    <3>4. waiting <= (3 * frequency_) * Period + now
      BY <3>1, <3>2, <3>3
    <3>5. Period' = Period
      BY <2>1, SamePeriod
    <3>6. QED
      BY <2>1, <2>3, <3>4, <3>5 DEF SkipInv, SbrPcs, SlotPcs
  <2>4. QED
    BY <2>1, <2>2, <2>3
<1>8. ASSUME UserSkip \/ User
      PROVE  SkipInv'
  <2>1. /\ UNCHANGED <<frequency_, skipped_count>>
        /\ \E c \in 0..UserCost : Pass(c)
        /\ \/ pc = "user_skip" /\ pc' = "skip"
           \/ pc = "user" /\ pc' = "send"
    BY <1>8 DEF UserSkip, User, CallUser, configVars, countVars
  <2>2. QED
    BY <2>1, PassKeeps DEF SlotPcs
<1>9. ASSUME Skip
      PROVE  SkipInv'
  <2>1. CASE Return("true")
    BY <1>2, <2>1
  <2>2. CASE CountSkip /\ pc' = "sleep"
    <3>1. /\ pc = "skip" /\ UNCHANGED <<frequency_, waiting, now>>
          /\ skipped_count' = skipped_count + 1
      BY <1>9, <2>2 DEF Skip, Stop, Return, CountSkip, configVars, clockVars, dataVars
    <3>2. Period' = Period /\ WaitBound' = WaitBound
      BY <3>1, SamePeriod
    <3>3. skipped_count \in Nat /\ frequency_ \in Nat
      BY DEF TypeOK
    <3>4. /\ skipped_count < 3 * frequency_
          /\ waiting >= skipped_count * Period + now \/ waiting = WaitBound
          /\ waiting <= (skipped_count + 1) * Period + now
      BY <3>1 DEF SkipInv, SlotPcs
    <3>5. skipped_count' <= 3 * frequency_
      BY <3>1, <3>3, <3>4
    <3>6. skipped_count' - 1 = skipped_count
      BY <3>1, <3>3
    <3>7. QED
      BY <2>2, <3>1, <3>2, <3>4, <3>5, <3>6 DEF SkipInv, SbrPcs, SlotPcs
  <2>3. QED
    BY <1>9, <2>1, <2>2 DEF Skip, Stop
<1>10. ASSUME Send
       PROVE  SkipInv'
  <2>1. CASE Return("true") \/ Return("sender")
    BY <1>2, <2>1
  <2>2. CASE waiting' = 0 /\ pc' = "sleep"
    <3>1. pc = "send"
      BY <1>10 DEF Send
    <3>2. Period \in Nat /\ frequency_ \in Nat /\ now \in Nat /\ skipped_count = 0
      BY <3>1, Products DEF SkipInv
    <3>3. frequency_' = frequency_
      BY <1>10 DEF Send, configVars
    <3>4. skipped_count' = skipped_count /\ now' = now
      BY <1>10, <2>2 DEF Send, Return, countVars, Stop
    <3>5. Period' = Period
      BY <3>3, SamePeriod
    <3>6. (skipped_count * Period)' = 0
      BY <3>2, <3>4, <3>5
    <3>7. QED
      BY <2>2, <3>2, <3>3, <3>4, <3>6 DEF SkipInv, SbrPcs, SlotPcs
  <2>3. QED
    BY <1>10, <2>1, <2>2 DEF Send, Stop
<1>11. ASSUME Sleep
       PROVE  SkipInv'
  <2>1. CASE Return("missed")
    BY <1>2, <2>1
  <2>2. CASE now <= Period /\ pc' = "top"
    <3>1. /\ pc = "sleep" /\ UNCHANGED <<frequency_, skipped_count>>
          /\ now' \in 0..Late /\ Wait((Period - now) + now')
      BY <1>11, <2>2 DEF Sleep, T!Missed, T!Ticks, Return, configVars, countVars
    <3>2. Period' = Period /\ WaitBound' = WaitBound
      BY <3>1, SamePeriod
    <3>. DEFINE kP == skipped_count * Period
                mP == (skipped_count - 1) * Period
    <3>3. /\ Period \in Nat /\ skipped_count \in Nat /\ frequency_ \in Nat
          /\ waiting \in Nat /\ now \in Nat /\ Late \in Nat /\ WaitBound \in Nat
          /\ kP \in Nat /\ 0 * Period = 0
          /\ (skipped_count + 1) * Period = kP + Period
      BY <3>1, Products
    <3>4. now' \in Nat /\ now <= Period
          /\ waiting' = Smaller(waiting + ((Period - now) + now'), WaitBound)
      BY <2>2, <3>1, <3>3 DEF Wait
    <3>5. /\ skipped_count <= 3 * frequency_ /\ waiting <= kP + now
          /\ skipped_count > 0 => waiting >= mP + now \/ waiting = WaitBound
      BY <3>1 DEF SkipInv
    <3>6. /\ skipped_count = 0 => kP = 0
          /\ skipped_count > 0 => mP = kP - Period
      BY <3>3
    <3>7. /\ (skipped_count * Period)' = kP
          /\ ((skipped_count + 1) * Period)' = kP + Period
      BY <3>1, <3>2, <3>3
    <3>. HIDE DEF kP, mP
    <3>8. waiting + Period >= kP + now \/ waiting = WaitBound
      <4>1. CASE skipped_count = 0
        BY <3>3, <3>4, <3>6, <4>1
      <4>2. CASE skipped_count > 0
        BY <3>3, <3>5, <3>6, <4>2
      <4>3. QED
        BY <3>3, <4>1, <4>2
    <3>9. /\ waiting' >= kP + now' \/ waiting' = WaitBound
          /\ waiting' <= kP + Period + now'
      <4>. DEFINE P == Period
                  n == now
                  m == now'
                  w == waiting
                  v == waiting'
                  b == WaitBound
      <4>1. P \in Nat /\ n \in Nat /\ m \in Nat /\ n <= P
        BY <3>3, <3>4
      <4>2. w \in Nat /\ b \in Nat /\ kP \in Nat
        BY <3>3
      <4>3. w <= kP + n /\ (w + P >= kP + n \/ w = b)
        BY <3>5, <3>8
      <4>4. v = Smaller(w + ((P - n) + m), b)
        BY <3>4
      <4>. HIDE DEF P, n, m, w, v, b
      <4>. DEFINE t == (P - n) + m
      <4>5. t \in Nat /\ t + n = P + m
        BY <4>1
      <4>6. v = Smaller(w + t, b)
        BY <4>4
      <4>. HIDE DEF t
      <4>7. (v = w + t \/ v = b) /\ v <= w + t /\ v <= b /\ v \in Nat
        BY <4>2, <4>5, <4>6 DEF Smaller
      <4>8. (v >= kP + m \/ v = b) /\ v <= kP + P + m
        BY <4>1, <4>2, <4>3, <4>5, <4>7
      <4>9. QED
        BY <4>8 DEF P, m, v, b
    <3>10. QED
      BY <2>2, <3>1, <3>2, <3>5, <3>7, <3>9 DEF SkipInv, SbrPcs, SlotPcs
  <2>3. QED
    BY <1>11, <2>1, <2>2 DEF Sleep, T!Missed, T!Ticks
<1>12. ASSUME WorkerStep \/ UNCHANGED vars
       PROVE  SkipInv'
  <2>1. UNCHANGED <<pc, frequency_, skipped_count, waiting, now>>
    BY <1>12 DEF WorkerStep, vars, configVars, countVars, clockVars, localVars
  <2>2. QED
    BY <2>1, MoveKeeps
<1>13. ASSUME SbrEnd
       PROVE  SkipInv'
  BY <1>2, <1>13 DEF SbrEnd
<1>14. ASSUME UserStep
       PROVE  SkipInv'
  BY <1>1, <1>3, <1>14
     DEF UserStep, SetPart, SetFrequency, SetTolerance, SkipMode
<1>15. QED
  BY <1>1, <1>4, <1>5, <1>6, <1>7, <1>8, <1>9, <1>10, <1>11, <1>12, <1>13, <1>14
     DEF Next, SystemStep


-----------------------------------------------------------------------------
(* The second half of ThreeSeconds, as a state predicate.                  *)

Bounded ==
  pc \in RunPcs /\ Overhead(ms_tolerance_) <= 2 * HalfMs * ReserveMs =>
    waiting <= (3 * frequency_ + 1) * Period + Late

\* SkipInv counts the slots, NoMiss bounds the last one.
LEMMA WaitBounded ==
  ASSUME TypeOK, Tuned, ClockInv, SkipInv
  PROVE  Bounded
<1>. SUFFICES ASSUME pc \in RunPcs, Overhead(ms_tolerance_) <= 2 * HalfMs * ReserveMs
              PROVE  waiting <= (3 * frequency_ + 1) * Period + Late
  BY DEF Bounded
<1>. DEFINE f  == 3 * frequency_
            kP == skipped_count * Period
            fP == f * Period
<1>1. /\ Period \in Nat /\ skipped_count \in Nat /\ f \in Nat
      /\ waiting \in Nat /\ now \in Nat /\ Late \in Nat
      /\ kP \in Nat /\ fP \in Nat
      /\ (skipped_count + 1) * Period = kP + Period
  BY Products DEF RunPcs
<1>2. (f + 1) * Period = fP + Period
  BY <1>1
<1>3. now <= Period
  BY <1>1, NoMiss
<1>4. skipped_count <= f => kP <= fP
  BY <1>1, MulMono
<1>5. skipped_count < f => kP + Period <= fP
  <2>1. skipped_count < f => skipped_count + 1 <= f /\ skipped_count + 1 \in Nat
    BY <1>1
  <2>2. skipped_count < f => (skipped_count + 1) * Period <= f * Period
    BY <1>1, <2>1, MulMono
  <2>3. QED
    BY <1>1, <2>2
<1>6. /\ pc \in {"top", "sleep"} => skipped_count <= f
      /\ pc \in SlotPcs => skipped_count < f
      /\ pc = "top" => now <= Late /\ waiting <= kP + Period + now
      /\ pc \in SlotPcs => waiting <= kP + Period + now
      /\ pc \in {"user", "send"} => waiting <= fP + now
      /\ pc = "sleep" => waiting <= kP + now
  BY <1>1 DEF SkipInv, ClockInv
<1>7. pc \in {"top", "sleep", "user", "send"} \cup SlotPcs
  BY DEF RunPcs, SlotPcs
<1>. HIDE DEF f, kP, fP
<1>8. waiting <= fP + Period + Late
  BY <1>1, <1>3, <1>4, <1>5, <1>6, <1>7
<1>9. QED
  BY <1>2, <1>8 DEF f, fP

\* A client that is given up has been waited for.
LEMMA GivenUpLate ==
  ASSUME TypeOK, Tuned, SkipInv, Top, pc' = "idle"
  PROVE  waiting >= 3 * frequency_ * Period
<1>1. pc = "top" /\ skipped_count = frequency_ * 3
  BY DEF Top, Disconnected
<1>. DEFINE f  == 3 * frequency_
            fP == f * Period
<1>2. /\ Period \in Nat /\ f \in Nat /\ fP \in Nat /\ frequency_ \in Nat
      /\ waiting \in Nat /\ now \in Nat /\ Late \in Nat
  BY <1>1, Products
<1>3. skipped_count = f
  BY <1>1, <1>2
<1>4. waiting >= fP + now \/ waiting = WaitBound
  BY <1>1, <1>3 DEF SkipInv
<1>5. WaitBound = fP + Period + Period + Late
  <2>1. (f + 2) * Period = fP + Period + Period
    BY <1>2
  <2>2. QED
    BY <2>1 DEF WaitBound
<1>. HIDE DEF f, fP
<1>6. waiting >= fP
  BY <1>2, <1>4, <1>5
<1>7. QED
  BY <1>6 DEF f, fP

\* The configuration that ThreeSeconds refers to.
ConfigKept == frequency_' = frequency_ /\ ms_tolerance_' = ms_tolerance_

\* No setter is called while run is running.
LEMMA StepConfig ==
  ASSUME pc \in RunPcs, [Next]_vars
  PROVE  ConfigKept
<1>. USE DEF ConfigKept, RunPcs, configVars, countVars, dataVars, clockVars,
             localVars, senderVars
<1>1. ASSUME UserStep PROVE ConfigKept
  BY <1>1 DEF UserStep, SetPart, Set, SetFrequency, SetTolerance, SkipMode,
     InitializeRefused, Initialize, SendBeforeRun, Give, S!Accept, Run,
     Uninitialized
<1>2. ASSUME SystemStep PROVE ConfigKept
  BY <1>2 DEF SystemStep, SbrSleep, WorkerRan, SbrCheck, SbrEnd, Return, EndSender,
     Top, Tolerate, Pass, CheckError, CheckSkip, UserSkip, CallUser, Skip,
     CountSkip, Stop, User, Send, Give, S!Accept, Sleep, T!Missed, T!Ticks
<1>3. ASSUME WorkerStep PROVE ConfigKept
  BY <1>3 DEF WorkerStep, Take, S!Take, Complete, S!Complete, Break, S!Fail
<1>4. CASE UNCHANGED vars
  BY <1>4 DEF vars
<1>. HIDE DEF ConfigKept, RunPcs, configVars, countVars, dataVars, clockVars,
              localVars, senderVars
<1>5. QED
  BY <1>1, <1>2, <1>3, <1>4 DEF Next

\* WorkerHasTurn is settled while run is running.
LEMMA TurnKept ==
  ASSUME ConfigKept
  PROVE  WorkerHasTurn' <=> WorkerHasTurn
BY DEF ConfigKept, WorkerHasTurn, Period

\* A turn of the loop for the tolerance is as long as the worker needs.
LEMMA ToleratedTurn ==
  ASSUME WorkerHasTurn, ms_tolerance_ > 0, ms_tolerance_ \in Nat, WorkerRan(0, HalfMs)
  PROVE  phase # "queued"
<1>1. TurnTime \in Nat /\ HalfMs \in Nat
  BY RealTimeSystemAssumption DEF RealTimeSystemAssumption
<1>2. TurnTime <= HalfMs
  BY DEF WorkerHasTurn
<1>3. 0 + TurnTime <= HalfMs
  BY <1>1, <1>2
<1>4. QED
  BY <1>3 DEF WorkerRan

\* Without tolerance the sleep is, whatever has passed of the slot.
LEMMA SleptTurn ==
  ASSUME TypeOK, Tuned, ClockInv, WorkerHasTurn, ms_tolerance_ = 0, pc = "sleep",
         WorkerRan(now + SpinTime, Period)
  PROVE  phase # "queued"
<1>1. /\ Late \in Nat /\ UserCost \in Nat /\ SpinTime \in Nat /\ TurnTime \in Nat
      /\ HalfMs \in Nat
  BY RealTimeSystemAssumption DEF RealTimeSystemAssumption
<1>2. now \in Nat /\ used_tolerated_time \in Nat /\ Period \in Nat
  BY RealTimeSystemAssumption, PeriodNat DEF TypeOK, Tuned
<1>3. Late + UserCost + SpinTime + TurnTime <= Period
  BY DEF WorkerHasTurn
<1>4. used_tolerated_time <= ms_tolerance_ * 2 /\ now <= Late + Tolerated + UserCost
  BY DEF ClockInv
<1>5. used_tolerated_time = 0
  BY <1>2, <1>4
<1>6. Tolerated = 0
  BY <1>1, <1>5 DEF Tolerated
<1>7. now + SpinTime + TurnTime <= Period
  BY <1>1, <1>2, <1>3, <1>4, <1>6
<1>8. QED
  BY <1>7 DEF WorkerRan

\* Where a slot leaves the worker a turn, the list is taken before the user's
\* function may write to it again.
LEMMA StepTurn ==
  ASSUME TypeOK, Tuned, ListInv, ClockInv, TurnInv, [Next]_vars
  PROVE  TurnInv'
<1>0. pc \in RunPcs => (WorkerHasTurn' <=> WorkerHasTurn) /\ ConfigKept
  BY StepConfig, TurnKept
<1>. USE <1>0 DEF TurnInv, Turns, ConfigKept, RunPcs, ListInv, DoneValues, S!Done, Unsent, SbrPcs, TypeOK,
             configVars, countVars, dataVars, clockVars, localVars, senderVars
<1>1. ASSUME NEW p \in Parts, SetPart(p) PROVE TurnInv'
  BY <1>1 DEF SetPart, Set
<1>2. ASSUME NEW f \in Frequencies, SetFrequency(f) PROVE TurnInv'
  BY <1>2 DEF SetFrequency, Set
<1>3. ASSUME NEW t \in Tolerances, SetTolerance(t) PROVE TurnInv'
  BY <1>3 DEF SetTolerance, Set
<1>4. ASSUME NEW b \in BOOLEAN, SkipMode(b) PROVE TurnInv'
  BY <1>4 DEF SkipMode, Set
<1>5. ASSUME InitializeRefused PROVE TurnInv'
  BY <1>5 DEF InitializeRefused
<1>6. ASSUME Initialize PROVE TurnInv'
  BY <1>6 DEF Initialize
<1>7. ASSUME NEW t \in Limits, SendBeforeRun(t) PROVE TurnInv'
  BY <1>7 DEF SendBeforeRun, Give, S!Accept
<1>8. ASSUME Run PROVE TurnInv'
  BY <1>8 DEF Run
<1>9. ASSUME Uninitialized PROVE TurnInv'
  BY <1>9 DEF Uninitialized
<1>10. ASSUME SbrSleep PROVE TurnInv'
  BY <1>10 DEF SbrSleep, WorkerRan
<1>11. ASSUME SbrCheck PROVE TurnInv'
  BY <1>11 DEF SbrCheck
<1>12. ASSUME SbrEnd PROVE TurnInv'
  BY <1>12 DEF SbrEnd, Return, EndSender
<1>13. ASSUME Top PROVE TurnInv'
  BY <1>13 DEF Top, Return, EndSender
<1>14. ASSUME Tolerate PROVE TurnInv'
  <2>1. /\ pc = "tolerate" /\ pc' \in {"tolerate", "check_error"}
        /\ UNCHANGED <<list, senderVars>>
    BY <1>14 DEF Tolerate, Pass
  <2>2. CASE /\ used_tolerated_time < ms_tolerance_ * 2
             /\ WorkerRan(0, HalfMs)
    <3>1. ms_tolerance_ > 0
      BY <2>2
    <3>2. WorkerHasTurn => phase # "queued"
      BY <2>2, <3>1, ToleratedTurn
    <3>3. QED
      BY <2>1, <3>2
  <2>3. CASE /\ used_tolerated_time >= ms_tolerance_ * 2 \/ TRUE \in DoneValues
             /\ pc' = "check_error"
    <3>1. TRUE \in DoneValues => phase # "queued"
      OBVIOUS
    <3>2. used_tolerated_time = 0 /\ ms_tolerance_ > 0 =>
            ~(used_tolerated_time >= ms_tolerance_ * 2)
      BY DEF TypeOK
    <3>3. WorkerHasTurn /\ phase = "queued" =>
            used_tolerated_time = 0 /\ ms_tolerance_ > 0
      BY <2>1
    <3>4. WorkerHasTurn => phase # "queued"
      BY <2>3, <3>1, <3>2, <3>3
    <3>5. QED
      BY <2>1, <2>3, <3>4
  <2>4. QED
    BY <1>14, <2>2, <2>3 DEF Tolerate
<1>15. ASSUME CheckError PROVE TurnInv'
  BY <1>15 DEF CheckError, Return, EndSender
<1>16. ASSUME CheckSkip PROVE TurnInv'
  BY <1>16 DEF CheckSkip
<1>17. ASSUME UserSkip PROVE TurnInv'
  BY <1>17 DEF UserSkip, CallUser, Pass
<1>18. ASSUME Skip PROVE TurnInv'
  BY <1>18 DEF Skip, CountSkip, Stop, Return, EndSender
<1>19. ASSUME User PROVE TurnInv'
  BY <1>19 DEF User, CallUser, Pass
<1>20. ASSUME Send PROVE TurnInv'
  BY <1>20 DEF Send, Give, S!Accept, Stop, Return, EndSender
<1>21. ASSUME Sleep PROVE TurnInv'
  <2>1. CASE Return("missed") /\ EndSender
    BY <1>21, <2>1 DEF Return, EndSender
  <2>2. CASE /\ WorkerRan(now + SpinTime, Period)
             /\ pc' = "top" /\ UNCHANGED <<list, senderVars>>
    <3>1. pc = "sleep"
      BY <1>21 DEF Sleep
    <3>2. WorkerHasTurn /\ ms_tolerance_ = 0 => phase # "queued"
      BY <2>2, <3>1, SleptTurn
    <3>3. ms_tolerance_ = 0 \/ ms_tolerance_ > 0
      OBVIOUS
    <3>4. QED
      BY <2>2, <3>1, <3>2, <3>3
  <2>3. QED
    BY <1>21, <2>1, <2>2 DEF Sleep
<1>22. ASSUME WorkerStep /\ Take PROVE TurnInv'
  BY <1>22 DEF WorkerStep, Take, S!Take
<1>23. ASSUME WorkerStep /\ Complete PROVE TurnInv'
  BY <1>23 DEF WorkerStep, Complete, S!Complete
<1>24. ASSUME WorkerStep /\ Break PROVE TurnInv'
  BY <1>24 DEF WorkerStep, Break, S!Fail
<1>25. CASE UNCHANGED vars
  BY <1>25 DEF vars
<1>. HIDE DEF TurnInv, Turns, ConfigKept, RunPcs, ListInv, DoneValues, S!Done, Unsent, SbrPcs, TypeOK,
              configVars, countVars, dataVars, clockVars, localVars, senderVars
<1>26. QED
  BY <1>1, <1>2, <1>3, <1>4, <1>5, <1>6, <1>7, <1>8, <1>9, <1>10, <1>11,
     <1>12, <1>13, <1>14, <1>15, <1>16, <1>17, <1>18, <1>19, <1>20, <1>21, <1>22,
     <1>23, <1>24, <1>25
     DEF Next, UserStep, SystemStep, WorkerStep

\* Only the check for a lost client returns from the top of the loop.
LEMMA OnlyTop ==
  ASSUME pc = "top", pc' = "idle", [Next]_vars
  PROVE  Top
<1>. USE DEF configVars, countVars, dataVars, clockVars, localVars, senderVars
<1>1. ASSUME UserStep PROVE Top
  BY <1>1 DEF UserStep, SetPart, Set, SetFrequency, SetTolerance, SkipMode,
     InitializeRefused, Initialize, SendBeforeRun, Give, S!Accept, Run,
     Uninitialized
<1>2. ASSUME SystemStep PROVE Top
  BY <1>2 DEF SystemStep, SbrSleep, WorkerRan, SbrCheck, SbrEnd, Return, EndSender,
     Top, Tolerate, Pass, CheckError, CheckSkip, UserSkip, CallUser, Skip,
     CountSkip, Stop, User, Send, Give, S!Accept, Sleep, T!Missed, T!Ticks
<1>3. ASSUME WorkerStep PROVE Top
  BY <1>3 DEF WorkerStep, Take, S!Take, Complete, S!Complete, Break, S!Fail
<1>4. CASE UNCHANGED vars
  BY <1>4 DEF vars
<1>. HIDE DEF configVars, countVars, dataVars, clockVars, localVars, senderVars
<1>5. QED
  BY <1>1, <1>2, <1>3, <1>4 DEF Next

-----------------------------------------------------------------------------
(* The theorems.                                                           *)

\* Every reachable state satisfies IndInv.
THEOREM Invariance == Spec => []IndInv
<1>1. Init => IndInv
  <2>. SUFFICES ASSUME Init
                PROVE  IndInv
    OBVIOUS
  <2>1. TypeOK
    BY DEF Init, TypeOK, Outcomes, Contents, S!Init, S!Phases
  <2>2. Tuned /\ ListInv
    BY DEF Init, Tuned, ListInv, Unsent, S!Init
  <2>3. ClockInv
    BY DEF Init, ClockInv, SbrPcs
  <2>4. TicksKept
    BY DEF Init, TicksKept, Overhead
  <2>5. QED
    BY <2>1, <2>2, <2>3, <2>4 DEF IndInv
<1>2. IndInv /\ [Next]_vars => IndInv'
  <2>. SUFFICES ASSUME IndInv, [Next]_vars
                PROVE  IndInv'
    OBVIOUS
  <2>1. TypeOK /\ Tuned /\ ListInv /\ ClockInv /\ TicksKept
    BY DEF IndInv
  <2>2. LoopTypeOK' /\ ConfigTypeOK' /\ CountTypeOK' /\ ListTypeOK'
    BY <2>1, StepLoopType, StepConfigType, StepCountType, StepListType
  <2>3. TypeOK'
    BY <2>2 DEF LoopTypeOK, ConfigTypeOK, CountTypeOK, ListTypeOK, TypeOK
  <2>4. Tuned' /\ ListInv' /\ ClockInv' /\ TicksKept'
    BY <2>1, StepTuned, StepList, StepClock, StepTicks
  <2>5. QED
    BY <2>3, <2>4 DEF IndInv
<1>3. QED
  BY <1>1, <1>2, PTL DEF Spec

\* TypeOK for every value of the constants; with it, time_limit_ms never steps
\* below zero in send_before_run, nor does the tolerance that initialize clamps.
THEOREM TypeCorrect == Spec => []TypeOK
<1>1. IndInv => TypeOK
  BY DEF IndInv
<1>2. QED
  BY <1>1, Invariance, PTL

\* NeverBusy: run calls send only after is_send_done was true, and it stays true.
THEOREM NeverSendsBusy == Spec => []NeverBusy
<1>1. IndInv => NeverBusy
  BY DEF IndInv, ListInv, NeverBusy, Unsent
<1>2. QED
  BY <1>1, Invariance, PTL

\* QueuedListAlive: the list that send_before_run and run keep on their stack is
\* there as long as the worker has not copied it.
THEOREM ListOutlivesQueue == Spec => []QueuedListAlive
<1>1. IndInv => QueuedListAlive
  BY DEF IndInv, ListInv, QueuedListAlive
<1>2. QED
  BY <1>1, Invariance, PTL

\* TicksKept: the reserve of line 105 is enough for the sleeps and the user's
\* function that fit in it, whatever the frequency and the tolerance asked for.
THEOREM KeepsTicks == Spec => []TicksKept
<1>1. IndInv => TicksKept
  BY DEF IndInv
<1>2. QED
  BY <1>1, Invariance, PTL

\* SkipHonoured, for every timer, tolerance and cost of the user's function: where
\* a slot leaves the worker a turn, it has copied the list before line 207 assigns
\* to it.
THEOREM SkipIsHonoured == Spec => []SkipHonoured
<1>1. Init => TurnInv
  BY DEF Init, TurnInv, RunPcs, S!Init
<1>2. IndInv /\ TurnInv /\ [Next]_vars => TurnInv'
  BY StepTurn DEF IndInv
<1>3. TurnInv => SkipHonoured
  BY DEF TurnInv, Turns, SkipHonoured
<1>4. QED
  BY <1>1, <1>2, <1>3, Invariance, PTL DEF Spec

\* RunEndsSender: every return of run, whatever the reason, ends the sender.
THEOREM EndsSender == Spec => RunEndsSender
<1>1. IndInv /\ [Next]_vars => RunEnds
  BY StepEnds DEF IndInv
<1>2. QED
  BY <1>1, Invariance, PTL DEF Spec, RunEndsSender, RunEnds

\* ThreeSeconds: whatever the frequency, a client is given up after no less than
\* three seconds in which the list in flight was not sent, and no more than a slot
\* later.
THEOREM ClientGetsThreeSeconds == Spec => ThreeSeconds
<1>1. Init => SkipInv
  <2>1. SUFFICES ASSUME Init
                 PROVE  SkipInv
    OBVIOUS
  <2>2. pc = "idle" /\ skipped_count = 0 /\ waiting = 0
    BY <2>1 DEF Init
  <2>3. QED
    BY <2>2 DEF SkipInv, SlotPcs
<1>2. IndInv /\ SkipInv /\ [Next]_vars => SkipInv'
  BY StepSkip DEF IndInv
<1>3. IndInv /\ SkipInv => Bounded
  BY WaitBounded DEF IndInv
<1>4. IndInv /\ SkipInv /\ IndInv' /\ SkipInv' /\ Bounded' /\ [Next]_vars =>
        /\ pc = "top" /\ pc' = "idle" => waiting >= 3 * frequency_ * Period
        /\ pc \in RunPcs /\ Overhead(ms_tolerance_) <= 2 * HalfMs * ReserveMs =>
             waiting' <= (3 * frequency_ + 1) * Period + Late
  <2>. SUFFICES ASSUME IndInv, SkipInv, IndInv', SkipInv', Bounded', [Next]_vars
                PROVE  /\ pc = "top" /\ pc' = "idle" => waiting >= 3 * frequency_ * Period
                       /\ pc \in RunPcs
                          /\ Overhead(ms_tolerance_) <= 2 * HalfMs * ReserveMs =>
                            waiting' <= (3 * frequency_ + 1) * Period + Late
    OBVIOUS
  <2>1. TypeOK /\ Tuned /\ ClockInv /\ TypeOK'
    BY DEF IndInv
  <2>2. ASSUME pc = "top", pc' = "idle"
        PROVE  waiting >= 3 * frequency_ * Period
    <3>1. Top
      BY <2>2, OnlyTop
    <3>2. QED
      BY <2>1, <2>2, <3>1, GivenUpLate
  <2>3. ASSUME pc \in RunPcs, Overhead(ms_tolerance_) <= 2 * HalfMs * ReserveMs
        PROVE  waiting' <= (3 * frequency_ + 1) * Period + Late
    <3>1. frequency_' = frequency_ /\ ms_tolerance_' = ms_tolerance_
      BY <2>3, StepConfig DEF ConfigKept
    <3>2. Period' = Period
      BY <3>1, SamePeriod
    <3>3. CASE pc' \in RunPcs
      <4>1. Overhead(ms_tolerance_)' <= 2 * HalfMs * ReserveMs
        BY <2>3, <3>1 DEF Overhead
      <4>2. waiting' <= ((3 * frequency_ + 1) * Period + Late)'
        BY <3>3, <4>1 DEF Bounded
      <4>3. QED
        BY <3>1, <3>2, <4>2
    <3>4. CASE pc' \in {"idle"} \cup SbrPcs
      <4>1. waiting' = 0
        BY <3>4 DEF SkipInv
      <4>2. /\ Period \in Nat /\ (3 * frequency_) * Period \in Nat
            /\ frequency_ \in Nat /\ Late \in Nat
        BY <2>1, <2>3, Products DEF RunPcs
      <4>3. (3 * frequency_ + 1) * Period = (3 * frequency_) * Period + Period
        BY <4>2
      <4>4. QED
        BY <4>1, <4>2, <4>3
    <3>5. QED
      BY <2>1, <3>3, <3>4 DEF TypeOK
  <2>4. QED
    BY <2>2, <2>3
<1>5. QED
  BY <1>1, <1>2, <1>3, <1>4, Invariance, PTL DEF Spec, ThreeSeconds
=============================================================================
