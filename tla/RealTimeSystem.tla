--------------------------- MODULE RealTimeSystem ---------------------------
(***************************************************************************)
(* RealTimeSystem (src/src/systems/real_time_system.cpp): the loop that    *)
(* once per tick of the timer asks the user's function for data and gives  *)
(* it to the sender.  The sender is known by its contract (module Sender), *)
(* whose worker steps interleave with every step of the loop, and so is    *)
(* the timer (module Timer): now is the time since the last tick.          *)
(*                                                                         *)
(* Time is counted in units, HalfMs of them in half a millisecond.  A      *)
(* sleep may end up to Late units after the moment asked for.  The         *)
(* sequence number and the delay are left out: they are reported to the    *)
(* user's function and used for nothing.                                   *)
(***************************************************************************)
EXTENDS Naturals

CONSTANTS
  SecondMs,      \* milliseconds in a second
  ReserveMs,     \* the part of a slot the tolerance cannot use (line 105)
  HalfMs,        \* units of time in half a millisecond
  MaxFrequency,  \* TIMER_MAX_FREQUENCY
  Frequencies,   \* the frequencies the user may ask for
  Tolerances,    \* the tolerances in milliseconds the user may ask for
  Limits,        \* the time limits of send_before_run in milliseconds
  UserCost,      \* the most time the user's function takes
  Late,          \* the most a sleep is late
  TurnTime,      \* how long core 0 must be free for the worker to take a list
  SpinTime       \* the end of a slot that sleep_to_next_tick spends spinning: 0
                 \* in FreeWaitTimer, the delay in WorstCaseTimer, and in
                 \* BusyWaitTimer the slot

ASSUME RealTimeSystemAssumption ==
  /\ SecondMs \in Nat /\ ReserveMs \in Nat /\ HalfMs \in Nat
  /\ MaxFrequency \in Nat \ {0}
  /\ ReserveMs <= SecondMs \div MaxFrequency
  /\ Frequencies \subseteq Nat /\ Tolerances \subseteq Nat /\ Limits \subseteq Nat
  /\ UserCost \in Nat /\ Late \in Nat
  /\ TurnTime \in Nat \ {0} /\ SpinTime \in Nat

VARIABLES
  given,             \* which of timer_, sender_ and user_app_func_ are not NULL
  frequency_, ms_tolerance_, allow_skip_mode_,
  initialized_,
  outcome,           \* what the last operation returned, or the error it set
  pc,                \* where run or send_before_run is ("idle": in neither)
  skipped_count, used_tolerated_time,
  limit,             \* time_limit_ms, what is left of it
  list,              \* what the list the sender was given holds now
  skip_next_data_,   \* of the RealTimeInfo the user's function is given
  now,               \* time since the last tick
  waiting,           \* history: time since send accepted the list in flight
  phase,             \* the sender
  carried            \* what the worker has copied and not yet sent wholly

configVars == <<given, frequency_, ms_tolerance_, allow_skip_mode_>>
countVars  == <<skipped_count, used_tolerated_time>>
dataVars   == <<limit, list, skip_next_data_>>
clockVars  == <<now, waiting>>
localVars  == <<countVars, dataVars, clockVars>>
senderVars == <<phase, carried>>
vars == <<configVars, initialized_, outcome, pc, localVars, senderVars>>

S == INSTANCE Sender

Parts    == {"timer", "sender", "user_app_func"}
SbrPcs   == {"sbr_loop", "sbr_check", "sbr_end"}
RunPcs   == {"top", "tolerate", "check_error", "check_skip", "user_skip", "skip",
             "user", "send", "sleep"}
Contents == {"none", "first", "wanted", "ignored"}
Outcomes == {"none", "true", "refused", "time_limit", "disconnected", "late", "sender",
             "missed"}

Smaller(a, b) == IF a <= b THEN a ELSE b

\* The length of a slot.
Period == (2 * HalfMs * SecondMs) \div frequency_

T == INSTANCE Timer WITH RoundOff <- 0, running <- pc \in RunPcs, slot <- Period

\* What is_send_done may return: a closed sender has no say.
DoneValues == IF phase = "closed" THEN BOOLEAN ELSE {S!Done}

Init ==
  /\ given = {} /\ frequency_ = 0 /\ ms_tolerance_ = 0 /\ allow_skip_mode_ = FALSE
  /\ initialized_ = FALSE /\ outcome = "none"
  /\ pc = "idle"
  /\ skipped_count = 0 /\ used_tolerated_time = 0 /\ limit = 0
  /\ list = "none" /\ skip_next_data_ = FALSE
  /\ now = 0 /\ waiting = 0
  /\ S!Init /\ carried = "none"

-----------------------------------------------------------------------------
(* Configuration.  Every setter undoes initialize.                         *)

Set ==
  /\ pc = "idle"
  /\ initialized_' = FALSE
  /\ UNCHANGED <<pc, localVars, senderVars>>

\* A null pointer is refused.
SetPart(p) ==
  /\ Set
  /\ \/ given' = given \cup {p} /\ outcome' = "true"
     \/ outcome' = "refused" /\ UNCHANGED given
  /\ UNCHANGED <<frequency_, ms_tolerance_, allow_skip_mode_>>

SetFrequency(f) ==
  /\ Set
  /\ frequency_' = f /\ outcome' = "true"
  /\ UNCHANGED <<given, ms_tolerance_, allow_skip_mode_>>

SetTolerance(t) ==
  /\ Set
  /\ ms_tolerance_' = t /\ outcome' = "true"
  /\ UNCHANGED <<given, frequency_, allow_skip_mode_>>

SkipMode(b) ==
  /\ Set
  /\ allow_skip_mode_' = b /\ outcome' = "true"
  /\ UNCHANGED <<given, frequency_, ms_tolerance_>>

\* initialize gives up at the first check that fails and leaves initialized_ as
\* it was.  The sender's initialize ends its last session before it tries to
\* open a new one.
InitializeRefused ==
  /\ pc = "idle"
  /\ outcome' = "refused"
  /\ \/ UNCHANGED senderVars          \* a part is missing, or convert_rt_thread fails,
                                      \* or the timer refuses the frequency
     \/ /\ given = Parts
        /\ frequency_ # 0 /\ frequency_ <= MaxFrequency
        /\ phase' = "closed" /\ carried' = "none"
  /\ UNCHANGED <<configVars, initialized_, pc, localVars>>

\* Mutant of Clamp: the tolerance may use the whole slot.
ClampGreedy == Smaller(ms_tolerance_, SecondMs \div frequency_)

Clamp == Smaller(ms_tolerance_, (SecondMs \div frequency_) - ReserveMs)

Initialize ==
  /\ pc = "idle"
  /\ given = Parts
  /\ frequency_ # 0 /\ frequency_ <= MaxFrequency
  /\ phase' \in {"ready", "broken"} /\ carried' = "none"
  /\ ms_tolerance_' = Clamp
  /\ initialized_' = TRUE
  /\ outcome' = "true"
  /\ UNCHANGED <<given, frequency_, allow_skip_mode_, pc, localVars>>

-----------------------------------------------------------------------------
(* What both operations do with the sender and the clock.                  *)

\* sender_->send: true only from a sender with nothing in hand.
Give(l) == S!Accept /\ phase = "ready" /\ list' = l /\ UNCHANGED carried

\* Mutant of EndSender: the sender is not ended.
LeaveSender == UNCHANGED senderVars

EndSender == phase' = "closed" /\ carried' = "none"

\* The operation returns and its local variables are gone.
Return(o) ==
  /\ outcome' = o /\ pc' = "idle"
  /\ skipped_count' = 0 /\ used_tolerated_time' = 0 /\ limit' = 0
  /\ list' = "none" /\ skip_next_data_' = FALSE
  /\ now' = 0 /\ waiting' = 0

\* Mutant of WorkerRan: the sleep spins.
WorkerStarved(from, to) == TRUE

\* The owner blocks at least for the time between from and to, if there is any,
\* and leaves core 0 to the worker.  That is enough to take a list that is queued
\* when it is as long as the worker needs; otherwise nothing is known.
WorkerRan(from, to) == from + TurnTime <= to => phase # "queued"

\* Bound: waiting stops counting past what ThreeSeconds compares it with.
WaitBound == (3 * frequency_ + 2) * Period + Late

Wait(t) == waiting' = Smaller(waiting + t, WaitBound)

Pass(t) == now' = now + t /\ Wait(t)

-----------------------------------------------------------------------------
(* send_before_run.                                                        *)

\* The value send returns is not looked at.
SendBeforeRun(t) ==
  /\ pc = "idle"
  /\ initialized_
  /\ IF phase = "ready" THEN Give("first") ELSE UNCHANGED <<senderVars, list>>
  /\ limit' = t
  /\ pc' = "sbr_loop"
  /\ outcome' = "none"
  /\ UNCHANGED <<configVars, initialized_, countVars, skip_next_data_, clockVars>>

\* send_before_run and run before initialize.
Uninitialized ==
  /\ pc = "idle"
  /\ ~initialized_
  /\ outcome' = "refused"
  /\ UNCHANGED <<configVars, initialized_, pc, localVars, senderVars>>

\* Mutant of SleepingTime: one millisecond too many.
SleepingTimeLong == limit \div 2 + 2

SleepingTime == limit \div 2 + 1

SbrSleep ==
  /\ pc = "sbr_loop"
  /\ limit # 0
  /\ WorkerRan(0, 2 * HalfMs * SleepingTime)
  /\ limit' = limit - SleepingTime
  /\ pc' = "sbr_check"
  /\ UNCHANGED <<configVars, initialized_, outcome, countVars, list, skip_next_data_,
                 clockVars, senderVars>>

SbrCheck ==
  /\ \/ pc = "sbr_loop" /\ limit = 0 /\ pc' = "sbr_end"
     \/ pc = "sbr_check" /\ TRUE \in DoneValues /\ pc' = "sbr_end"
     \/ pc = "sbr_check" /\ FALSE \in DoneValues /\ pc' = "sbr_loop"
  /\ UNCHANGED <<configVars, initialized_, outcome, localVars, senderVars>>

SbrEnd ==
  /\ pc = "sbr_end"
  /\ \/ /\ TRUE \in DoneValues
        /\ Return("true")
        /\ UNCHANGED <<initialized_, senderVars>>
     \/ /\ FALSE \in DoneValues
        /\ Return("time_limit") /\ EndSender
        /\ initialized_' = FALSE
  /\ UNCHANGED configVars

-----------------------------------------------------------------------------
(* run.                                                                    *)

\* initialize has stopped the timer, so start_timer succeeds.
Run ==
  /\ pc = "idle"
  /\ initialized_
  /\ initialized_' = FALSE
  /\ outcome' = "none"
  /\ pc' = "top"
  /\ UNCHANGED <<configVars, localVars, senderVars>>

\* Mutant of Disconnected: two seconds.
DisconnectedEarly == skipped_count = frequency_ * 2

Disconnected == skipped_count = frequency_ * 3

Top ==
  /\ pc = "top"
  /\ \/ /\ Disconnected
        /\ Return("disconnected") /\ EndSender
     \/ /\ ~Disconnected
        /\ used_tolerated_time' = 0
        /\ pc' = "tolerate"
        /\ UNCHANGED <<outcome, skipped_count, dataVars, clockVars, senderVars>>
  /\ UNCHANGED <<configVars, initialized_>>

\* One turn of the loop that waits for the sender in steps of half a millisecond.
Tolerate ==
  /\ pc = "tolerate"
  /\ \/ /\ used_tolerated_time < ms_tolerance_ * 2
        /\ FALSE \in DoneValues
        /\ WorkerRan(0, HalfMs)
        /\ \E j \in 0..Late : Pass(HalfMs + j)
        /\ used_tolerated_time' = used_tolerated_time + 1
        /\ UNCHANGED pc
     \/ /\ used_tolerated_time >= ms_tolerance_ * 2 \/ TRUE \in DoneValues
        /\ pc' = "check_error"
        /\ UNCHANGED <<clockVars, used_tolerated_time>>
  /\ UNCHANGED <<configVars, initialized_, outcome, skipped_count, dataVars,
                 senderVars>>

\* Mutant of CheckError: it leaves the decision to the check for a skip.
CheckErrorLax ==
  /\ pc = "check_error"
  /\ pc' = "check_skip"
  /\ UNCHANGED <<configVars, initialized_, outcome, localVars, senderVars>>

CheckError ==
  /\ pc = "check_error"
  /\ \/ /\ FALSE \in DoneValues /\ ~allow_skip_mode_
        /\ Return("late") /\ EndSender
     \/ /\ TRUE \in DoneValues \/ allow_skip_mode_
        /\ pc' = "check_skip"
        /\ UNCHANGED <<outcome, localVars, senderVars>>
  /\ UNCHANGED <<configVars, initialized_>>

\* is_send_done is read again: the sender may be done by now.
CheckSkip ==
  /\ pc = "check_skip"
  /\ \/ /\ FALSE \in DoneValues /\ allow_skip_mode_
        /\ skip_next_data_' = TRUE
        /\ pc' = "user_skip"
        /\ UNCHANGED skipped_count
     \/ /\ TRUE \in DoneValues \/ ~allow_skip_mode_
        /\ skipped_count' = 0
        /\ skip_next_data_' = FALSE
        /\ pc' = "user"
  /\ UNCHANGED <<configVars, initialized_, outcome, used_tolerated_time, limit, list,
                 clockVars, senderVars>>

\* The user's function is called, and what it returns is assigned to
\* user_packets_list.
CallUser ==
  /\ \E c \in 0..UserCost : Pass(c)
  /\ list' = IF skip_next_data_ THEN "ignored" ELSE "wanted"
  /\ skip_next_data_' = FALSE
  /\ UNCHANGED <<configVars, initialized_, outcome, countVars, limit, senderVars>>

UserSkip == pc = "user_skip" /\ CallUser /\ pc' = "skip"
User     == pc = "user" /\ CallUser /\ pc' = "send"

\* The user's function asked to stop the system.
Stop == Return("true") /\ EndSender

\* Mutant of CountSkip: a skip is not counted.
CountNoSkip == UNCHANGED skipped_count

CountSkip == skipped_count' = skipped_count + 1

Skip ==
  /\ pc = "skip"
  /\ \/ Stop
     \/ /\ CountSkip
        /\ pc' = "sleep"
        /\ UNCHANGED <<outcome, used_tolerated_time, dataVars, clockVars, senderVars>>
  /\ UNCHANGED <<configVars, initialized_>>

Send ==
  /\ pc = "send"
  /\ \/ Stop
     \/ /\ Give("wanted")
        /\ waiting' = 0
        /\ pc' = "sleep"
        /\ UNCHANGED <<outcome, countVars, limit, skip_next_data_, now>>
     \/ /\ phase # "ready"
        /\ Return("sender") /\ EndSender
  /\ UNCHANGED <<configVars, initialized_>>

\* The timer is on time, or run ends.  It blocks until SpinTime before the tick,
\* and not at all when no more than that is left of the slot.
Sleep ==
  /\ pc = "sleep"
  /\ \/ /\ T!Missed(Period)
        /\ Return("missed") /\ EndSender
     \/ /\ T!Ticks(Period)
        /\ WorkerRan(now + SpinTime, Period)
        /\ Wait((Period - now) + now')
        /\ pc' = "top"
        /\ UNCHANGED <<outcome, countVars, dataVars, senderVars>>
  /\ UNCHANGED <<configVars, initialized_>>

-----------------------------------------------------------------------------
(* The worker of the sender.  It reads the list the sender points to when   *)
(* it takes it.                                                            *)

Take     == S!Take /\ carried' = list
Complete == S!Complete /\ carried' = "none"
Break    == S!Fail /\ UNCHANGED carried

WorkerStep ==
  /\ Take \/ Complete \/ Break
  /\ UNCHANGED <<configVars, initialized_, outcome, pc, localVars>>

UserStep ==
  \/ \E p \in Parts : SetPart(p)
  \/ \E f \in Frequencies : SetFrequency(f)
  \/ \E t \in Tolerances : SetTolerance(t)
  \/ \E b \in BOOLEAN : SkipMode(b)
  \/ InitializeRefused \/ Initialize
  \/ \E t \in Limits : SendBeforeRun(t)
  \/ Run \/ Uninitialized

SystemStep ==
  \/ SbrSleep \/ SbrCheck \/ SbrEnd
  \/ Top \/ Tolerate \/ CheckError \/ CheckSkip \/ UserSkip \/ Skip \/ User \/ Send
  \/ Sleep

Next == UserStep \/ SystemStep \/ WorkerStep

Spec == Init /\ [][Next]_vars

\* The owner keeps running and the user's function returns.  Nothing is assumed of
\* the worker.
FairSpec == Spec /\ WF_vars(SystemStep)

-----------------------------------------------------------------------------
(* Properties.                                                             *)

\* Types; limit cannot go below zero: time_limit_ms/2 + 1 is never more than
\* time_limit_ms (line 126), nor the tolerance (line 105).
TypeOK ==
  /\ given \subseteq Parts
  /\ frequency_ \in Nat /\ ms_tolerance_ \in Nat /\ allow_skip_mode_ \in BOOLEAN
  /\ initialized_ \in BOOLEAN
  /\ outcome \in Outcomes
  /\ pc \in {"idle"} \cup SbrPcs \cup RunPcs
  /\ skipped_count \in Nat /\ used_tolerated_time \in Nat /\ limit \in Nat
  /\ list \in Contents /\ carried \in Contents
  /\ skip_next_data_ \in BOOLEAN
  /\ now \in Nat /\ waiting \in Nat
  /\ phase \in S!Phases

\* The time a slot may lose apart from the tolerance: every sleep late, and
\* the slowest user's function.
Overhead(t) == Late + 2 * t * Late + UserCost

\* Whatever the tolerance asked for, the loop reaches the next tick in time as
\* long as its overhead fits in the reserve of line 105.
TicksKept ==
  Overhead(ms_tolerance_) <= 2 * HalfMs * ReserveMs => outcome # "missed"

\* run never calls send while the sender has a list in hand.
NeverBusy == pc = "send" => phase \notin {"queued", "sending", "stuck"}

\* real_time_system.cpp:206, "call the user function then ignore the packets",
\* and real_time_system.h:229: data the user gave in a skipped slot is not sent.
SkippedNotSent == carried # "ignored"

\* In every slot the worker is left the time to take its list: by a turn of the
\* loop for the tolerance or, without tolerance, by the sleep, however late the
\* one before ended and however long the user's function took.
WorkerHasTurn ==
  \/ ms_tolerance_ > 0 /\ TurnTime <= HalfMs
  \/ ms_tolerance_ = 0 /\ Late + UserCost + SpinTime + TurnTime <= Period

\* Data of a skipped slot (line 207) is only sent where a slot may leave the worker
\* no turn, whatever timer is used.
SkipHonoured == carried = "ignored" => ~WorkerHasTurn

\* The sender never points to a list that is gone: no operation returns, so that
\* its list is destroyed, before the worker has copied it or has ended.
QueuedListAlive == phase = "queued" => list # "none"

\* The client is given up only after three seconds in which the list in flight
\* was not sent, and is kept no longer than a slot more (line 179).
ThreeSeconds ==
  [][/\ pc = "top" /\ pc' = "idle" => waiting >= 3 * frequency_ * Period
     /\ pc \in RunPcs /\ Overhead(ms_tolerance_) <= 2 * HalfMs * ReserveMs =>
          waiting' <= (3 * frequency_ + 1) * Period + Late]_vars

\* However run ends, it leaves no client connected and no worker.
RunEndsSender == [][(pc \in RunPcs /\ pc' = "idle") => phase' = "closed"]_vars

\* real_time_system.cpp:106, "set everything is good", and real_time_system.h:129,
\* "initialize the timer and sender": run and send_before_run are only let in with
\* a sender that has a session.
InitializedHasSender == initialized_ => phase # "closed"

\* A worker that has ended is noticed: run returns.
DeadSenderNoticed == pc \in RunPcs /\ phase \in {"stuck", "broken"} ~> pc = "idle"

\* real_time_system.h:147, "if the transmission done successfully true will be
\* returned": a true means that the sender accepted the list (and is done with it).
SentBeforeRun == [][SbrEnd /\ outcome' = "true" => list = "first"]_vars
=============================================================================
