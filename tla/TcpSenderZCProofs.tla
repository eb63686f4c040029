------------------------- MODULE TcpSenderZCProofs -------------------------
(***************************************************************************)
(* Proofs about TcpSenderZC, for every set of threads and of lists, under  *)
(* the assumption FifoExit; those that count calls also assume that a      *)
(* session has no more of them than an int counts.                         *)
(*                                                                         *)
(* The invariant of TcpSender holds here too: a step of TCPSenderZC is one *)
(* of TCPSender, or one of a worker that waits for answers, or the         *)
(* kernel's.                                                               *)
(***************************************************************************)
EXTENDS TcpSenderZC, TcpSenderProofs

Codes == WorkerCodes \cup ZeroCopyErrors

\* A worker between poll and recvmsg still has its list, all of which is sent.
ReapInv ==
  \A w \in Worker : wpc[w] = "reap" =>
    ~is_done /\ packets_list = NULL /\ debt = 0 /\ buf[w].size = 0 /\ buf[w].tail = "end"

SenderInv == TypeOKZC /\ ProtocolInv /\ ReapInv

\* The data owed for the list of a send in progress.
Pending == IF arg = NULL THEN 0 ELSE Units(arg)

\* What is left of a session keeps it within CallBound.
BoundInv ==
  \A w \in Worker : Active(w) /\ wpc[w] \notin ExitPcs =>
    sending_counter[w] + debt + Pending <= CallBound

\* No list is pending between the calls of send; a new worker starts to count at
\* 0, on a socket that was never written to.
FreshInv ==
  /\ opc \notin SendPcs => arg = NULL
  /\ \A w \in Worker : wpc[w] = "none" =>
       sending_counter[w] = 0 /\ last_sending_counter[w] = 0
  /\ opc \in {"init_reset", "init_server", "init_client", "init_thread"} =>
       reading = 0 /\ notified = 0

CountInv == EveryCallAnswered /\ BoundInv /\ FreshInv /\ ReleasedBeforeDone

-----------------------------------------------------------------------------
(* The steps.                                                              *)

\* What a worker that waits for answers does to the variables of TcpSender.
Await(w) ==
  /\ wpc[w] \in {"done", "reap"}
  /\ \/ \E p \in {"done", "reap"} : Goto(w, p) /\ UNCHANGED cause
     \/ \E e \in ZeroCopyErrors : Exit(w, e)
  /\ UNCHANGED <<ownerVars, sockVars, sharedVars, mutex, buf, debt>>

LEMMA PollOrReap ==
  ASSUME NEW w \in Worker, Poll(w) \/ Reap(w)
  PROVE  Await(w)
<1>1. CASE Poll(w)
  BY <1>1 DEF Poll, Await, ZeroCopyErrors
<1>2. CASE Reap(w)
  BY <1>2 DEF Reap, Await, ZeroCopyErrors
<1>. QED
  BY <1>1, <1>2

\* A step of TCPSenderZC is one of TCPSender, or leaves its variables alone, or
\* waits for answers.
LEMMA SenderSteps ==
  ASSUME [NextZC]_allVars
  PROVE  [Next]_vars \/ \E w \in Worker : Await(w)
<1>1. CASE UNCHANGED allVars
  BY <1>1 DEF allVars
<1>2. CASE InitializeZC \/ CreateServer \/ GetClient \/ SendZC \/ EndSenderZC \/ GetErrorZC
  BY <1>2
     DEF InitializeZC, CreateServer, GetClient, SendZC, EndSenderZC, GetErrorZC, OwnerZC,
         Next, OwnerCall, OwnerStep
<1>3. ASSUME NEW w \in Worker, WorkerZC(w)
      PROVE  [Next]_vars \/ \E v \in Worker : Await(v)
  <2>1. CASE Poll(w) \/ Reap(w)
    BY <2>1, PollOrReap
  <2>2. CASE Unchanged(w) \/ SendPlain(w) \/ SendZeroCopy(w) \/ Finish(w)
    BY <2>2 DEF Unchanged, SendPlain, SendZeroCopy, Finish, WorkerStep, Next
  <2>. QED
    BY <1>3, <2>1, <2>2 DEF WorkerZC
<1>4. ASSUME NEW w \in Worker, SpuriousWakeup(w)
      PROVE  [Next]_vars
  BY <1>4 DEF Next
<1>5. CASE Acknowledge
  BY <1>5 DEF Acknowledge
<1>. QED
  BY <1>1, <1>2, <1>3, <1>4, <1>5 DEF NextZC

-----------------------------------------------------------------------------
(* The protocol of the owner and the worker.                               *)

\* Waiting for answers disturbs nothing the owner or the worker relies on.
LEMMA AwaitStep ==
  ASSUME Types(ZeroCopyPcs, Codes), ProtocolInv, ReapInv, NEW w \in Worker, Await(w)
  PROVE  Types(ZeroCopyPcs, Codes)' /\ ProtocolInv' /\ ReapInv'
<1>. USE DEF Await, Goto, Exit, ownerVars, sockVars, sharedVars, ZeroCopyErrors
<1>0. wpc \in [Worker -> ZeroCopyPcs] /\ cause \in [Worker -> Codes]
  BY DEF Types, WorkerTypes
<1>1. Types(ZeroCopyPcs, Codes)'
  <2>1. OwnerTypes(Codes)' /\ SharedTypes(Codes)'
    BY DEF Types, OwnerTypes, SharedTypes
  <2>2. WorkerTypes(ZeroCopyPcs, Codes)'
    BY <1>0
       DEF Types, WorkerTypes, ZeroCopyPcs, Codes, WorkerPcs, ExitPcs, SendingPcs
  <2>. QED
    BY <2>1, <2>2 DEF Types
<1>2. \A v \in Worker : v # w => wpc'[v] = wpc[v] /\ cause'[v] = cause[v]
  BY <1>0
<1>3. /\ wpc'[w] \in {"done", "reap", "exit_record"}
      /\ wpc'[w] = "exit_record" => cause'[w] # "no_error"
  BY <1>0
<1>4. wpc[w] \in {"done", "reap"}
      /\ UNCHANGED <<opc, ret, arg, initialized_, error_, server_sock_fd_, client_sock_fd_,
                     packets_list, is_done, is_error, error_code, terminate_thread,
                     thread_initialized, is_terminated_thread, mutex, buf, debt>>
  OBVIOUS
<1>. HIDE DEF Await, Goto, Exit, ownerVars, sockVars, sharedVars, ZeroCopyErrors
<1>5. WorkerInv' /\ SocketInv' /\ SessionInv'
  BY <1>2, <1>3, <1>4
     DEF ProtocolInv, WorkerInv, OneWorker, Active, QuietPcs, SocketInv,
         SocketOutlivesWorker, SessionInv
<1>6. MutexInv' /\ WakeInv'
  BY <1>2, <1>3, <1>4
     DEF ProtocolInv, MutexInv, WakeInv, NoLostWakeup, HoldPcs
<1>7. DataInv' /\ ReapInv'
  <2>1. ~is_done /\ packets_list = NULL /\ debt = 0 /\ buf[w].size = 0 /\ buf[w].tail = "end"
    BY <1>4 DEF ProtocolInv, DataInv, SendingPcs, Units, ReapInv
  <2>2. Units(buf[w]) = 0
    BY <2>1 DEF Units
  <2>. QED
    BY <1>2, <1>3, <1>4, <2>1, <2>2
       DEF ProtocolInv, DataInv, DoneMeansSent, SendingPcs, ReapInv
<1>8. ErrorInv'
  BY <1>2, <1>3, <1>4 DEF ProtocolInv, ErrorInv, Ended, ExitPcs
<1>. QED
  BY <1>1, <1>5, <1>6, <1>7, <1>8 DEF ProtocolInv

\* No worker steps aside when another waits for answers.
LEMMA ReapAlone ==
  ASSUME WorkerInv, NEW w \in Worker, wpc[w] = "reap",
         NEW v \in Worker, WorkerStep(v) \/ SpuriousWakeup(v)
  PROVE  FALSE
<1>1. Active(w) /\ wpc[v] # "unwind"
  BY DEF WorkerInv, Active
<1>2. v # w => ~Active(v)
  BY <1>1 DEF WorkerInv, OneWorker
<1>3. wpc[v] \notin {"none", "gone", "reap"}
  BY DEF WorkerStep, SpuriousWakeup, WorkerStart, WorkerAnnounce, WorkerSetup, WorkerLoop,
         WorkerLock, WorkerCheck, WorkerTake, WorkerCheckTerm, WorkerWait, WorkerSend,
         WorkerSent, WorkerDone, WorkerExitRecord, WorkerExitUnlock, WorkerExitTerm,
         WorkerUnwind
<1>. QED
  BY <1>1, <1>2, <1>3 DEF Active

\* A step of a worker of TCPSender moves that worker, and not to where
\* TCPSenderZC waits for answers.
LEMMA WorkerMoves ==
  ASSUME NEW v \in Worker, wpc \in [Worker -> ZeroCopyPcs],
         WorkerStep(v) \/ SpuriousWakeup(v)
  PROVE  /\ \A u \in Worker \ {v} : wpc'[u] = wpc[u]
         /\ wpc'[v] \notin {"none", "start", "reap"}
         /\ wpc[v] \notin {"none", "gone"}
         /\ wpc[v] \in ExitPcs => wpc'[v] \in ExitPcs \cup {"unwind"}
         /\ wpc[v] = "unwind" => wpc'[v] = "gone"
         /\ UNCHANGED <<opc, arg>>
<1>. USE DEF Goto, Exit, ownerVars, ExitPcs
<1>1. CASE WorkerStart(v) \/ WorkerAnnounce(v) \/ WorkerSetup(v) \/ WorkerLoop(v)
  BY <1>1 DEF WorkerStart, WorkerAnnounce, WorkerSetup, WorkerLoop
<1>2. CASE WorkerLock(v) \/ WorkerCheck(v) \/ WorkerTake(v) \/ WorkerCheckTerm(v)
  BY <1>2 DEF WorkerLock, WorkerCheck, WorkerTake, WorkerCheckTerm
<1>3. CASE WorkerWait(v) \/ SpuriousWakeup(v) \/ WorkerSend(v)
  BY <1>3 DEF WorkerWait, SpuriousWakeup, WorkerSend
<1>4. CASE WorkerSent(v) \/ WorkerDone(v) \/ WorkerExitRecord(v)
  BY <1>4 DEF WorkerSent, WorkerDone, WorkerExitRecord
<1>5. CASE WorkerExitUnlock(v) \/ WorkerExitTerm(v) \/ WorkerUnwind(v)
  BY <1>5 DEF WorkerExitUnlock, WorkerExitTerm, WorkerUnwind
<1>. HIDE DEF Goto, Exit, ownerVars, ExitPcs
<1>. QED
  BY <1>1, <1>2, <1>3, <1>4, <1>5 DEF WorkerStep

\* While one waits for answers a step of TCPSender is one of the owner.
LEMMA ReapStep ==
  ASSUME Types(ZeroCopyPcs, Codes), ProtocolInv, ReapInv, [Next]_vars
  PROVE  ReapInv'
<1>. SUFFICES ASSUME NEW w \in Worker, wpc'[w] = "reap"
              PROVE  ~is_done' /\ packets_list' = NULL /\ debt' = 0
                     /\ buf'[w].size = 0 /\ buf'[w].tail = "end"
  BY DEF ReapInv
<1>. DEFINE Goal == ~is_done' /\ packets_list' = NULL /\ debt' = 0
                    /\ buf'[w].size = 0 /\ buf'[w].tail = "end"
<1>0. wpc \in [Worker -> ZeroCopyPcs]
  BY DEF Types, WorkerTypes
<1>1. wpc[w] = "reap" =>
        ~is_done /\ packets_list = NULL /\ debt = 0 /\ buf[w].size = 0 /\ buf[w].tail = "end"
  BY DEF ReapInv
<1>2. wpc[w] = "reap" => opc \notin QuietPcs
  BY DEF ProtocolInv, WorkerInv, Active
<1>3. opc = "send_crit" => is_done
  BY DEF ProtocolInv, DataInv
<1>. USE DEF ownerVars, sockVars, sharedVars, workerVars
<1>4. CASE UNCHANGED vars
  BY <1>1, <1>4 DEF vars
<1>5. ASSUME NEW v \in Worker, WorkerStep(v) \/ SpuriousWakeup(v)
      PROVE  Goal
  <2>1. wpc'[v] # "reap" /\ \A u \in Worker \ {v} : wpc'[u] = wpc[u]
    BY <1>0, <1>5, WorkerMoves
  <2>2. wpc[w] = "reap"
    BY <2>1
  <2>3. WorkerInv
    BY DEF ProtocolInv
  <2>4. FALSE
    BY <1>5, <2>2, <2>3, ReapAlone
  <2>. QED
    BY <2>4
<1>6. CASE OwnerCall
  BY <1>1, <1>6 DEF OwnerCall, EndSender, Send, GetError
<1>7. CASE EndTerminate \/ EndLock \/ EndWait \/ EndClose
  BY <1>1, <1>7 DEF EndTerminate, EndLock, EndWait, EndClose
<1>8. CASE EndCritical
  BY <1>0, <1>1, <1>8 DEF EndCritical, Signal, Waiters
<1>9. CASE InitReset \/ InitServer \/ InitClient \/ InitWait
  BY <1>1, <1>2, <1>9 DEF InitReset, InitServer, InitClient, InitWait, QuietPcs
<1>10. CASE InitThread
  BY <1>0, <1>1, <1>10 DEF InitThread
<1>11. CASE SendDone \/ SendLock
  BY <1>1, <1>11 DEF SendDone, SendLock
<1>12. CASE SendCritical
  BY <1>0, <1>1, <1>3, <1>12 DEF SendCritical, Signal, Waiters
<1>. HIDE DEF ownerVars, sockVars, sharedVars, workerVars
<1>. QED
  BY <1>4, <1>5, <1>6, <1>7, <1>8, <1>9, <1>10, <1>11, <1>12
     DEF Next, OwnerStep, EndStep, SendStep

-----------------------------------------------------------------------------
(* The counters are ints.                                                  *)

Ints == -(IntMax + 1) .. IntMax

\* An int that does not overflow has its value.
LEMMA IntValue ==
  ASSUME NEW n \in Int
  PROVE  AsInt(n) \in Ints /\ (n \in Ints => AsInt(n) = n)
<1>. DEFINE m == 2 * (IntMax + 1)
            k == n + IntMax + 1
<1>1. IntMax \in Nat
  BY TcpSenderZCAssumption
<1>2. m \in Nat \ {0} /\ k \in Int
  BY <1>1
<1>3. AsInt(n) = (k % m) - (IntMax + 1)
  BY DEF AsInt
<1>. HIDE DEF m, k
<1>4. k % m \in 0 .. m - 1 /\ (k \in 0 .. m - 1 => k % m = k)
  BY <1>2
<1>5. m - 1 = 2 * IntMax + 1
  BY <1>1 DEF m
<1>6. AsInt(n) \in Ints
  BY <1>1, <1>3, <1>4, <1>5 DEF Ints
<1>7. n \in Ints => k \in 0 .. m - 1
  BY <1>1, <1>5 DEF Ints, k
<1>8. k - (IntMax + 1) = n
  BY <1>1 DEF k
<1>. QED
  BY <1>3, <1>4, <1>6, <1>7, <1>8

CountTypes ==
  /\ sending_counter \in [Worker -> Ints] /\ last_sending_counter \in [Worker -> Ints]
  /\ reading \in Nat /\ notified \in Nat /\ orphaned \in BOOLEAN

LEMMA CountTypeStep ==
  ASSUME CountTypes, [NextZC]_allVars
  PROVE  CountTypes'
<1>. USE DEF CountTypes
<1>1. CASE UNCHANGED zcVars
  BY <1>1 DEF zcVars, counterVars, kernelVars
<1>2. CASE CloseSocket
  BY <1>2 DEF CloseSocket, counterVars
<1>3. ASSUME NEW w \in Worker, SendZeroCopy(w)
      PROVE  CountTypes'
  <2>1. sending_counter[w] + 1 \in Int
    BY TcpSenderZCAssumption DEF Ints
  <2>2. AsInt(sending_counter[w] + 1) \in Ints
    BY <2>1, IntValue
  <2>3. sending_counter' \in [Worker -> Ints]
    BY <1>3, <2>2 DEF SendZeroCopy
  <2>. QED
    BY <1>3, <2>3 DEF SendZeroCopy
<1>4. ASSUME NEW w \in Worker, Reap(w)
      PROVE  CountTypes'
  <2>1. UNCHANGED <<sending_counter, reading, orphaned>>
    BY <1>4 DEF Reap
  <2>2. CASE \E n \in 1 .. notified : notified' = notified - n /\ Answer(w, n)
    <3>1. PICK n \in 1 .. notified : notified' = notified - n /\ Answer(w, n)
      BY <2>2
    <3>2. last_sending_counter[w] + n \in Int
      BY TcpSenderZCAssumption DEF Ints
    <3>3. AsInt(last_sending_counter[w] + n) \in Ints
      BY <3>2, IntValue
    <3>4. last_sending_counter' \in [Worker -> Ints]
      BY <3>1, <3>3 DEF Answer
    <3>5. notified' \in Nat
      BY <3>1
    <3>. QED
      BY <2>1, <3>4, <3>5
  <2>3. CASE UNCHANGED last_sending_counter
             /\ (notified' = notified \/ \E n \in 1 .. notified : notified' = notified - n)
    <3>1. notified' \in Nat
      BY <2>3
    <3>. QED
      BY <2>1, <2>3, <3>1
  <2>. QED
    BY <1>4, <2>2, <2>3 DEF Reap
<1>5. CASE Acknowledge
  <2>1. reading' \in Nat /\ notified' \in Nat
    BY <1>5 DEF Acknowledge
  <2>2. orphaned' \in BOOLEAN /\ UNCHANGED counterVars
    BY <1>5 DEF Acknowledge
  <2>. QED
    BY <2>1, <2>2 DEF counterVars
<1>. HIDE DEF CountTypes
<1>6. CASE UNCHANGED allVars
  BY <1>1, <1>6 DEF allVars
<1>7. CASE InitializeZC \/ CreateServer \/ GetClient \/ SendZC \/ EndSenderZC \/ GetErrorZC
  BY <1>1, <1>2, <1>7
     DEF InitializeZC, CreateServer, GetClient, SendZC, EndSenderZC, GetErrorZC, OwnerZC
<1>8. ASSUME NEW w \in Worker, WorkerZC(w) \/ (SpuriousWakeup(w) /\ UNCHANGED zcVars)
      PROVE  CountTypes'
  <2>1. Poll(w) => UNCHANGED zcVars
    BY DEF Poll
  <2>2. Unchanged(w) \/ SendPlain(w) \/ Finish(w) => UNCHANGED zcVars
    BY DEF Unchanged, SendPlain, Finish
  <2>. QED
    BY <1>1, <1>3, <1>4, <1>8, <2>1, <2>2 DEF WorkerZC
<1>. QED
  BY <1>5, <1>6, <1>7, <1>8 DEF NextZC

-----------------------------------------------------------------------------
(* The protocol, with answers.                                             *)

LEMMA InitSenderInv ==
  ASSUME InitZC
  PROVE  SenderInv
<1>1. Init
  BY DEF InitZC
<1>2. IndInv
  BY <1>1, InitIndInv
<1>3. Types(ZeroCopyPcs, Codes)
  <2>1. Types(WorkerPcs, WorkerCodes)
    BY <1>2 DEF IndInv, TypeOK
  <2>2. OwnerTypes(Codes) /\ SharedTypes(Codes) /\ WorkerTypes(ZeroCopyPcs, Codes)
    BY <2>1
       DEF Types, OwnerTypes, SharedTypes, WorkerTypes, ZeroCopyPcs, Codes
  <2>. QED
    BY <2>2 DEF Types
<1>4. CountTypes
  <2>1. 0 \in Ints
    BY TcpSenderZCAssumption DEF Ints
  <2>. QED
    BY <2>1 DEF InitZC, CountTypes
<1>5. ReapInv
  BY <1>1 DEF Init, ReapInv
<1>. QED
  BY <1>2, <1>3, <1>4, <1>5 DEF IndInv, SenderInv, TypeOKZC, CountTypes, Ints, Codes

LEMMA SenderInvStep ==
  ASSUME FifoExit, SenderInv, [NextZC]_allVars
  PROVE  SenderInv'
<1>1. Types(ZeroCopyPcs, Codes) /\ CountTypes /\ ProtocolInv /\ ReapInv
  BY DEF SenderInv, TypeOKZC, CountTypes, Ints, Codes
<1>2. CountTypes'
  BY <1>1, CountTypeStep
<1>3. Types(ZeroCopyPcs, Codes)' /\ ProtocolInv' /\ ReapInv'
  <2>1. CASE [Next]_vars
    <3>1. WorkerPcs \subseteq ZeroCopyPcs /\ WorkerCodes \subseteq Codes
      BY DEF ZeroCopyPcs, Codes
    <3>. QED
      BY <1>1, <2>1, <3>1, ProtocolStep, ReapStep
  <2>2. ASSUME NEW w \in Worker, Await(w)
        PROVE  Types(ZeroCopyPcs, Codes)' /\ ProtocolInv' /\ ReapInv'
    BY <1>1, <2>2, AwaitStep
  <2>. QED
    BY <2>1, <2>2, SenderSteps
<1>. QED
  BY <1>2, <1>3 DEF SenderInv, TypeOKZC, CountTypes, Ints, Codes

\* The invariant of TCPSender holds with answers to wait for.
THEOREM InvarianceZC ==
  ASSUME FifoExit
  PROVE  SpecZC => []SenderInv
<1>1. SenderInv /\ [NextZC]_allVars => SenderInv'
  BY SenderInvStep
<1>2. InitZC => SenderInv
  BY InitSenderInv
<1>. QED
  BY <1>1, <1>2, PTL DEF SpecZC

\* No operation leaves its types; the counters are ints whatever they count.
THEOREM TypeCorrectZC ==
  ASSUME FifoExit
  PROVE  SpecZC => []TypeOKZC
<1>1. SenderInv => TypeOKZC
  BY DEF SenderInv
<1>. QED
  BY InvarianceZC, <1>1, PTL

\* What TCPSender promises, TCPSenderZC does: all sent before it is done, one
\* worker, no lost signal, no mutex left locked, the right error.
THEOREM ProtocolKept ==
  ASSUME FifoExit
  PROVE  SpecZC => [](/\ DoneMeansSent /\ TerminatedMeansNoThread /\ OneWorker
                      /\ SocketOutlivesWorker /\ NoLostWakeup /\ MutexHeldByRunning
                      /\ ErrorFaithful)
<1>1. SenderInv => /\ DoneMeansSent /\ TerminatedMeansNoThread /\ OneWorker
                   /\ SocketOutlivesWorker /\ NoLostWakeup /\ MutexHeldByRunning
                   /\ ErrorFaithful
  <2>. SUFFICES ASSUME SenderInv
                PROVE  /\ DoneMeansSent /\ TerminatedMeansNoThread /\ OneWorker
                       /\ SocketOutlivesWorker /\ NoLostWakeup /\ MutexHeldByRunning
                       /\ ErrorFaithful
    OBVIOUS
  <2>1. /\ DoneMeansSent /\ OneWorker /\ SocketOutlivesWorker /\ NoLostWakeup
    BY DEF SenderInv, ProtocolInv, DataInv, WorkerInv, SocketInv, WakeInv
  <2>2. TerminatedMeansNoThread
    BY DEF SenderInv, ProtocolInv, WorkerInv, TerminatedMeansNoThread
  <2>3. MutexHeldByRunning
    BY DEF SenderInv, ProtocolInv, MutexInv, MutexHeldByRunning, ExitPcs
  <2>4. ErrorFaithful
    BY DEF SenderInv, ProtocolInv, ErrorInv, Ended, ErrorFaithful, WorkerInv, SessionInv,
           InitPcs
  <2>. QED
    BY <2>1, <2>2, <2>3, <2>4
<1>. QED
  BY InvarianceZC, <1>1, PTL

\* TCPSenderZC implements the interface Sender too.
THEOREM ImplementationZC ==
  ASSUME FifoExit
  PROVE  SpecZC => ImplementsSender
<1>1. InitZC => Contract!Init
  BY InitPhase DEF InitZC
<1>2. SenderInv /\ [NextZC]_allVars => [Contract!Next]_Phase
  <2>. SUFFICES ASSUME SenderInv, [NextZC]_allVars
                PROVE  [Contract!Next]_Phase
    OBVIOUS
  <2>1. CASE [Next]_vars
    BY <2>1, PhaseStep DEF SenderInv, TypeOKZC
  <2>2. ASSUME NEW w \in Worker, Await(w)
        PROVE  UNCHANGED Phase
    BY <2>2 DEF Await, Phase, ownerVars, sharedVars
  <2>. QED
    BY <2>1, <2>2, SenderSteps
<1>. QED
  BY InvarianceZC, <1>1, <1>2, PTL DEF SpecZC, ImplementsSender, Contract!Spec

-----------------------------------------------------------------------------
(* The calls and the answers.                                              *)

\* A worker that counts.
Counting(w) == Active(w) /\ wpc[w] \notin ExitPcs

\* The state of the owner in which the socket has not been written to.
FreshPcs == {"init_reset", "init_server", "init_client", "init_thread"}

\* What is pending is a number.
LEMMA PendingNat ==
  ASSUME Types(ZeroCopyPcs, Codes)
  PROVE  Pending \in Nat /\ debt \in Nat /\ \A l \in Lists : Units(l) \in Nat /\ l # NULL
<1>1. \A l \in Lists : Units(l) \in Nat /\ l # NULL
  <2>. SUFFICES ASSUME NEW l \in Lists
                PROVE  Units(l) \in Nat /\ l # NULL
    OBVIOUS
  <2>1. l \in AnyList
    BY TcpSenderAssumption
  <2>2. l.size \in Nat
    BY <2>1 DEF AnyList
  <2>. QED
    BY <2>1, <2>2, TcpSenderAssumption DEF Units
<1>2. arg \in Lists \cup {NULL} /\ debt \in Nat
  BY DEF Types, OwnerTypes, WorkerTypes
<1>. QED
  BY <1>1, <1>2 DEF Pending

\* Less debt and less pending stay within the bound.
LEMMA LessIsPending ==
  ASSUME NEW B \in Int, NEW c \in Int, NEW d \in Nat, NEW u \in Nat, NEW e \in Nat,
         NEW v \in Nat, c + d + u <= B, e + v <= d + u
  PROVE  c + e + v <= B
OBVIOUS

\* Less debt with the same pending is less.
LEMMA LessPlus ==
  ASSUME NEW d \in Nat, NEW e \in Nat, NEW u \in Nat, e <= d
  PROVE  e + u <= d + u
OBVIOUS

\* A step that makes no call, takes no answer and starts no worker.
LEMMA QuietCount ==
  ASSUME SenderInv, SenderInv', CountInv, UNCHANGED zcVars,
         \A w \in Worker : Counting(w)' => Counting(w),
         \A w \in Worker : wpc'[w] = "none" => wpc[w] = "none",
         debt' + Pending' <= debt + Pending,
         opc' \notin SendPcs => arg' = NULL,
         opc' \in FreshPcs => opc \in FreshPcs,
         is_done' => is_done \/ reading = 0
  PROVE  CountInv'
<1>1. UNCHANGED <<sending_counter, last_sending_counter, reading, notified>>
  BY DEF zcVars, counterVars, kernelVars
<1>2. EveryCallAnswered'
  BY <1>1 DEF CountInv, EveryCallAnswered, Counting
<1>3. BoundInv'
  <2>. SUFFICES ASSUME NEW w \in Worker, Counting(w)'
                PROVE  sending_counter'[w] + debt' + Pending' <= CallBound
    BY DEF BoundInv, Counting
  <2>. DEFINE c == sending_counter[w]
  <2>1. c \in Int /\ CallBound \in Int
    BY TcpSenderZCAssumption DEF SenderInv, TypeOKZC
  <2>2. debt \in Nat /\ Pending \in Nat /\ debt' \in Nat /\ Pending' \in Nat
    <3>1. debt \in Nat /\ Pending \in Nat
      BY PendingNat DEF SenderInv, TypeOKZC, Codes
    <3>2. (debt \in Nat /\ Pending \in Nat)'
      <4>1. Types(ZeroCopyPcs, Codes)'
        BY DEF SenderInv, TypeOKZC, Codes
      <4>2. arg' \in Lists \cup {NULL} /\ debt' \in Nat
        BY <4>1 DEF Types, OwnerTypes, WorkerTypes
      <4>3. \A l \in Lists : Units(l) \in Nat
        BY PendingNat DEF SenderInv, TypeOKZC, Codes
      <4>. QED
        BY <4>2, <4>3 DEF Pending
    <3>. QED
      BY <3>1, <3>2
  <2>3. c + debt + Pending <= CallBound
    BY DEF CountInv, BoundInv, Counting
  <2>. HIDE DEF Pending
  <2>4. c + debt' + Pending' <= CallBound
    BY <2>1, <2>2, <2>3, LessIsPending
  <2>. QED
    BY <1>1, <2>4
<1>4. FreshInv'
  BY <1>1 DEF CountInv, FreshInv, FreshPcs
<1>5. ReleasedBeforeDone'
  BY <1>1 DEF CountInv, ReleasedBeforeDone
<1>. QED
  BY <1>2, <1>3, <1>4, <1>5 DEF CountInv

\* The owner's steps that leave the workers where they are, but for a signal.
LEMMA QuietOwner ==
  ASSUME SenderInv, SenderInv', CountInv, UNCHANGED zcVars,
         \/ \E caller \in {"idle", "init_reset"} : EndSender(caller)
         \/ EndTerminate \/ EndLock \/ EndCritical \/ EndWait
         \/ InitReset \/ InitServer \/ InitClient \/ InitWait
         \/ SendDone \/ SendLock \/ SendCritical \/ GetError
  PROVE  CountInv'
<1>. DEFINE Calm == /\ \A w \in Worker : Counting(w)' => Counting(w)
                    /\ \A w \in Worker : wpc'[w] = "none" => wpc[w] = "none"
            Less == debt' + Pending' <= debt + Pending
            Rest == /\ opc' \notin SendPcs => arg' = NULL
                    /\ opc' \in FreshPcs => opc \in FreshPcs
                    /\ is_done' => is_done \/ reading = 0
<1>1. wpc \in [Worker -> ZeroCopyPcs] /\ ReapInv
  BY DEF SenderInv, TypeOKZC, Types, WorkerTypes
<1>2. UNCHANGED wpc => Calm
  BY DEF Counting, Active
<1>3. Signal => Calm
  BY <1>1 DEF Signal, Waiters, Counting, Active, ExitPcs
<1>4. debt \in Nat /\ Pending \in Nat /\ \A l \in Lists : Units(l) \in Nat
  BY PendingNat DEF SenderInv, TypeOKZC, Codes
<1>5. UNCHANGED <<debt, arg>> => Less
  <2>1. debt + Pending <= debt + Pending
    BY <1>4
  <2>. QED
    BY <2>1 DEF Pending
<1>6. opc \notin SendPcs => arg = NULL
  BY DEF CountInv, FreshInv
<1>7. opc \in FreshPcs => reading = 0
  BY DEF CountInv, FreshInv, FreshPcs
<1>. USE DEF workerVars, SendPcs, FreshPcs
<1>8. CASE \E caller \in {"idle", "init_reset"} : EndSender(caller)
  <2>1. Calm /\ Less
    BY <1>2, <1>5, <1>8 DEF EndSender
  <2>2. Rest
    BY <1>6, <1>8 DEF EndSender, sharedVars
  <2>. QED
    BY <2>1, <2>2, QuietCount
<1>9. CASE EndTerminate \/ EndLock \/ EndWait
  <2>1. Calm /\ Less
    BY <1>2, <1>5, <1>9 DEF EndTerminate, EndLock, EndWait
  <2>2. Rest
    BY <1>6, <1>9 DEF EndTerminate, EndLock, EndWait, sharedVars
  <2>. QED
    BY <2>1, <2>2, QuietCount
<1>10. CASE EndCritical
  <2>1. Calm /\ Less
    BY <1>3, <1>5, <1>10 DEF EndCritical
  <2>2. Rest
    BY <1>6, <1>10 DEF EndCritical
  <2>. QED
    BY <2>1, <2>2, QuietCount
<1>11. CASE InitReset
  <2>1. Calm
    BY <1>2, <1>11 DEF InitReset
  <2>2. Less
    <3>1. debt' = 0 /\ Pending' = Pending
      BY <1>11 DEF InitReset, Pending
    <3>2. 0 + Pending <= debt + Pending
      BY <1>4
    <3>. QED
      BY <3>1, <3>2
  <2>3. Rest
    BY <1>6, <1>7, <1>11 DEF InitReset
  <2>. QED
    BY <2>1, <2>2, <2>3, QuietCount
<1>12. CASE InitServer \/ InitClient \/ InitWait \/ GetError
  <2>1. Calm /\ Less
    BY <1>2, <1>5, <1>12 DEF InitServer, InitClient, InitWait, GetError
  <2>2. Rest
    BY <1>6, <1>12 DEF InitServer, InitClient, InitWait, GetError, sharedVars
  <2>. QED
    BY <2>1, <2>2, QuietCount
<1>13. CASE SendDone \/ SendLock
  <2>1. Calm
    BY <1>2, <1>13 DEF SendDone, SendLock
  <2>2. Less
    <3>1. UNCHANGED debt /\ (arg' = NULL \/ UNCHANGED arg)
      BY <1>13 DEF SendDone, SendLock
    <3>2. debt + 0 <= debt + Pending
      BY <1>4
    <3>3. arg' = NULL => Pending' = 0
      BY DEF Pending
    <3>. QED
      BY <1>5, <3>1, <3>2, <3>3
  <2>3. Rest
    BY <1>13 DEF SendDone, SendLock, sharedVars
  <2>. QED
    BY <2>1, <2>2, <2>3, QuietCount
<1>14. CASE SendCritical
  <2>1. Calm
    BY <1>3, <1>14 DEF SendCritical
  <2>2. Less
    <3>1. arg # NULL /\ arg \in Lists
      BY <1>14
         DEF SendCritical, SenderInv, ProtocolInv, SessionInv, TypeOKZC, Types, OwnerTypes
    <3>2. debt' = debt + Pending /\ Pending' = 0
      BY <1>14, <3>1 DEF SendCritical, Pending
    <3>3. debt + Pending + 0 <= debt + Pending
      BY <1>4
    <3>. QED
      BY <3>2, <3>3
  <2>3. Rest
    BY <1>14 DEF SendCritical
  <2>. QED
    BY <2>1, <2>2, <2>3, QuietCount
<1>. HIDE DEF workerVars, SendPcs, FreshPcs
<1>. QED
  BY <1>8, <1>9, <1>10, <1>11, <1>12, <1>13, <1>14

\* The owner's steps that do more: a socket is closed, a worker created, a list
\* accepted.
LEMMA CountClose ==
  ASSUME SenderInv, CountInv, EndClose, CloseSocket
  PROVE  CountInv'
<1>1. \A w \in Worker : ~Active(w)'
  <2>1. \A w \in Worker : ~Active(w)
    BY DEF SenderInv, ProtocolInv, WorkerInv, EndClose, QuietPcs
  <2>. QED
    BY <2>1 DEF EndClose, workerVars, Active
<1>2. EveryCallAnswered' /\ BoundInv'
  BY <1>1 DEF EveryCallAnswered, BoundInv
<1>3. FreshInv'
  BY DEF CountInv, FreshInv, EndClose, CloseSocket, counterVars, workerVars, SendPcs
<1>4. ReleasedBeforeDone'
  BY DEF ReleasedBeforeDone, CloseSocket
<1>. QED
  BY <1>2, <1>3, <1>4 DEF CountInv

LEMMA CountCreate ==
  ASSUME SenderInv, SenderInv', CountInv, InitThread, UNCHANGED zcVars
  PROVE  CountInv'
<1>1. wpc \in [Worker -> ZeroCopyPcs]
  BY DEF SenderInv, TypeOKZC, Types, WorkerTypes
<1>2. reading = 0 /\ notified = 0 /\ arg = NULL /\ debt = 0
  <2>1. opc = "init_thread"
    BY DEF InitThread
  <2>2. reading = 0 /\ notified = 0 /\ arg = NULL
    BY <2>1 DEF CountInv, FreshInv, SendPcs
  <2>3. debt = 0
    BY <2>1
       DEF SenderInv, ProtocolInv, SessionInv, DataInv, DoneMeansSent, InitPcs
  <2>. QED
    BY <2>2, <2>3
<1>3. UNCHANGED <<zcVars, debt, arg, is_done>> /\ opc' \in {"init_wait", "idle"}
  BY DEF InitThread, ownerVars, sharedVars
<1>4. \A w \in Worker : Active(w)' => wpc[w] = "none"
  <2>1. \A w \in Worker : ~Active(w)
    BY DEF SenderInv, ProtocolInv, WorkerInv, InitThread, QuietPcs
  <2>. QED
    BY <1>1, <2>1 DEF InitThread, Active
<1>5. \A w \in Worker : wpc'[w] = "none" => wpc[w] = "none"
  BY <1>1 DEF InitThread
<1>6. \A w \in Worker : wpc[w] = "none" =>
        sending_counter[w] = 0 /\ last_sending_counter[w] = 0
  BY DEF CountInv, FreshInv
<1>7. UNCHANGED <<sending_counter, last_sending_counter, reading, notified>>
  BY <1>3 DEF zcVars, counterVars, kernelVars
<1>8. EveryCallAnswered'
  BY <1>2, <1>4, <1>6, <1>7 DEF EveryCallAnswered
<1>9. BoundInv'
  <2>1. debt' = 0 /\ Pending' = 0 /\ 0 + 0 + 0 <= CallBound
    BY <1>2, <1>3, TcpSenderZCAssumption DEF Pending
  <2>. QED
    BY <1>4, <1>6, <1>7, <2>1 DEF BoundInv
<1>10. FreshInv' /\ ReleasedBeforeDone'
  BY <1>2, <1>3, <1>5, <1>6, <1>7 DEF FreshInv, ReleasedBeforeDone
<1>. QED
  BY <1>8, <1>9, <1>10 DEF CountInv

LEMMA CountSend ==
  ASSUME SenderInv, SenderInv', CountInv, NEW l \in Lists, Send(l), WithinBound(l),
         UNCHANGED zcVars
  PROVE  CountInv'
<1>1. UNCHANGED <<wpc, debt, is_done, initialized_>>
  BY DEF Send, workerVars, sharedVars
<1>2. UNCHANGED <<sending_counter, last_sending_counter, reading, notified>>
  BY DEF zcVars, counterVars, kernelVars
<1>3. EveryCallAnswered' /\ ReleasedBeforeDone'
  BY <1>1, <1>2 DEF CountInv, EveryCallAnswered, ReleasedBeforeDone, Active
<1>4. CASE UNCHANGED <<opc, arg>>
  BY <1>1, <1>2, <1>3, <1>4 DEF CountInv, BoundInv, FreshInv, Pending, Active
<1>5. CASE opc' = "send_done" /\ arg' = l
  <2>1. Pending' = Units(l)
    BY <1>5, PendingNat DEF Pending, SenderInv, TypeOKZC, Codes
  <2>2. BoundInv'
    BY <1>1, <1>2, <2>1 DEF BoundInv, WithinBound, Active
  <2>3. FreshInv'
    BY <1>1, <1>2, <1>5 DEF CountInv, FreshInv, SendPcs
  <2>. QED
    BY <1>3, <2>2, <2>3 DEF CountInv
<1>. QED
  BY <1>4, <1>5 DEF Send

\* A worker's step pays off debt, if it changes it, and is done only once.
LEMMA WorkerPays ==
  ASSUME Types(ZeroCopyPcs, Codes), NEW v \in Worker, WorkerStep(v) \/ SpuriousWakeup(v)
  PROVE  debt' <= debt /\ (UNCHANGED is_done \/ WorkerDone(v))
<1>1. debt \in Nat /\ buf[v].size \in Nat
  BY DEF Types, WorkerTypes, AnyList
<1>2. debt <= debt
  BY <1>1
<1>. USE DEF sharedVars
<1>3. CASE WorkerStart(v) \/ WorkerAnnounce(v) \/ WorkerSetup(v) \/ WorkerLoop(v)
  BY <1>2, <1>3 DEF WorkerStart, WorkerAnnounce, WorkerSetup, WorkerLoop
<1>4. CASE WorkerLock(v) \/ WorkerCheck(v) \/ WorkerTake(v) \/ WorkerCheckTerm(v)
  BY <1>2, <1>4 DEF WorkerLock, WorkerCheck, WorkerTake, WorkerCheckTerm
<1>5. CASE WorkerWait(v) \/ SpuriousWakeup(v) \/ WorkerSent(v)
  BY <1>2, <1>5 DEF WorkerWait, SpuriousWakeup, WorkerSent
<1>6. CASE WorkerSend(v)
  <2>1. UNCHANGED is_done
    BY <1>6 DEF WorkerSend
  <2>2. UNCHANGED debt \/ \E s \in 1 .. buf[v].size : debt' = debt - s
    BY <1>6 DEF WorkerSend
  <2>3. debt' <= debt
    BY <1>1, <1>2, <2>2
  <2>. QED
    BY <2>1, <2>3
<1>7. CASE WorkerDone(v)
  BY <1>2, <1>7 DEF WorkerDone
<1>8. CASE WorkerExitRecord(v) \/ WorkerExitUnlock(v) \/ WorkerExitTerm(v) \/ WorkerUnwind(v)
  BY <1>2, <1>8 DEF WorkerExitRecord, WorkerExitUnlock, WorkerExitTerm, WorkerUnwind
<1>. QED
  BY <1>3, <1>4, <1>5, <1>6, <1>7, <1>8 DEF WorkerStep

\* A worker that finishes has an answer to each of its calls, so that the kernel
\* reads no buffer any more.
LEMMA AllAnswered ==
  ASSUME SenderInv, CountInv, NEW w \in Worker, wpc[w] = "done", ~Unanswered(w)
  PROVE  reading = 0
<1>1. sending_counter[w] \in Int /\ last_sending_counter[w] \in Int
      /\ reading \in Nat /\ notified \in Nat
  BY TcpSenderZCAssumption DEF SenderInv, TypeOKZC
<1>2. sending_counter[w] - last_sending_counter[w] = reading + notified
  BY DEF CountInv, EveryCallAnswered, Active, ExitPcs
<1>3. ~(last_sending_counter[w] < sending_counter[w])
  BY DEF Unanswered
<1>. QED
  BY <1>1, <1>2, <1>3

\* The worker's steps that make no call and take no answer.
LEMMA QuietWorker ==
  ASSUME SenderInv, SenderInv', CountInv, UNCHANGED zcVars, NEW w \in Worker,
         WorkerStep(w) \/ SpuriousWakeup(w), WorkerDone(w) => ~Unanswered(w)
  PROVE  CountInv'
<1>0. Types(ZeroCopyPcs, Codes) /\ wpc \in [Worker -> ZeroCopyPcs]
  BY DEF SenderInv, TypeOKZC, Types, WorkerTypes, Codes
<1>1. /\ \A u \in Worker \ {w} : wpc'[u] = wpc[u]
      /\ wpc'[w] \notin {"none", "start", "reap"}
      /\ wpc[w] \notin {"none", "gone"}
      /\ wpc[w] \in ExitPcs => wpc'[w] \in ExitPcs \cup {"unwind"}
      /\ wpc[w] = "unwind" => wpc'[w] = "gone"
      /\ UNCHANGED <<opc, arg>>
  BY <1>0, WorkerMoves
<1>2. \A v \in Worker : Counting(v)' => Counting(v)
  BY <1>1 DEF Counting, Active, ExitPcs
<1>3. \A v \in Worker : wpc'[v] = "none" => wpc[v] = "none"
  BY <1>1
<1>4. debt' <= debt /\ (UNCHANGED is_done \/ WorkerDone(w))
  BY <1>0, WorkerPays
<1>5. debt' + Pending' <= debt + Pending
  <2>1. Pending' = Pending
    BY <1>1 DEF Pending
  <2>2. debt \in Nat /\ Pending \in Nat
    BY <1>0, PendingNat
  <2>3. debt' \in Nat
    BY DEF SenderInv, TypeOKZC, Types, WorkerTypes
  <2>4. debt' + Pending <= debt + Pending
    BY <1>4, <2>2, <2>3, LessPlus
  <2>. QED
    BY <2>1, <2>4
<1>6. is_done' => is_done \/ reading = 0
  BY <1>4, AllAnswered DEF WorkerDone
<1>7. (opc' \notin SendPcs => arg' = NULL) /\ (opc' \in FreshPcs => opc \in FreshPcs)
  BY <1>1 DEF CountInv, FreshInv
<1>. QED
  BY <1>2, <1>3, <1>5, <1>6, <1>7, QuietCount

\* A call that pays off debt leaves the session within its bound.
LEMMA OneMore ==
  ASSUME NEW B \in Int, NEW c \in Int, NEW d \in Nat, NEW e \in Nat, NEW u \in Nat,
         c + d + u <= B, e < d
  PROVE  c + 1 + e + u <= B /\ c + 1 <= B
OBVIOUS

\* A call counted is a call to be answered, and an answer counted is one less.
LEMMA OneCall ==
  ASSUME NEW c \in Int, NEW a \in Int, NEW r \in Nat, NEW n \in Nat, c - a = r + n
  PROVE  (c + 1) - a = (r + 1) + n
OBVIOUS

\* The other calls are as they were when an answer covers k of them.
LEMMA OneAnswer ==
  ASSUME NEW c \in Int, NEW a \in Int, NEW r \in Nat, NEW n \in Nat, NEW k \in 1 .. n,
         c - a = r + n
  PROVE  c - (a + k) = r + (n - k) /\ a + k <= c
OBVIOUS

\* The worker makes a call.
LEMMA CountCall ==
  ASSUME CallBound <= IntMax, SenderInv, SenderInv', CountInv, NEW w \in Worker,
         SendZeroCopy(w)
  PROVE  CountInv'
<1>. DEFINE c == sending_counter[w]
            a == last_sending_counter[w]
<1>0. Types(ZeroCopyPcs, Codes) /\ wpc \in [Worker -> ZeroCopyPcs] /\ CountTypes
  BY DEF SenderInv, TypeOKZC, CountTypes, Ints, Types, WorkerTypes, Codes
<1>1. WorkerStep(w) /\ wpc[w] = "send" /\ UNCHANGED is_done
  BY DEF SendZeroCopy, WorkerStep, WorkerSend, sharedVars
<1>2. /\ \A u \in Worker \ {w} : wpc'[u] = wpc[u]
      /\ wpc'[w] # "none"
      /\ UNCHANGED <<opc, arg>>
  BY <1>0, <1>1, WorkerMoves
<1>3. Active(w) /\ Counting(w)
  BY <1>1 DEF Active, Counting, ExitPcs
<1>4. \A u \in Worker \ {w} : ~Active(u)'
  <2>1. \A u \in Worker \ {w} : ~Active(u)
    BY <1>3 DEF SenderInv, ProtocolInv, WorkerInv, OneWorker
  <2>. QED
    BY <1>2, <2>1 DEF Active
<1>5. opc \notin FreshPcs /\ ~is_done
  BY <1>1, <1>3
     DEF SenderInv, ProtocolInv, WorkerInv, QuietPcs, DataInv, SendingPcs, FreshPcs
<1>6. c \in Ints /\ c \in Int /\ a \in Int /\ reading \in Nat /\ notified \in Nat
      /\ IntMax \in Nat /\ CallBound \in Nat
  BY <1>0, TcpSenderZCAssumption DEF CountTypes, Ints
<1>7. debt \in Nat /\ debt' \in Nat /\ Pending \in Nat
  <2>1. debt \in Nat /\ Pending \in Nat
    BY <1>0, PendingNat
  <2>2. debt' \in Nat
    BY DEF SenderInv, TypeOKZC, Types, WorkerTypes
  <2>. QED
    BY <2>1, <2>2
<1>8. Pending' = Pending
  BY <1>2 DEF Pending
<1>9. c + 1 + debt' + Pending <= CallBound /\ c + 1 <= CallBound
  <2>1. c + debt + Pending <= CallBound
    BY <1>3 DEF CountInv, BoundInv, Counting
  <2>2. debt' < debt
    BY DEF SendZeroCopy
  <2>3. CallBound \in Int
    BY <1>6
  <2>. HIDE DEF Pending, c
  <2>. QED
    BY <1>6, <1>7, <2>1, <2>2, <2>3, OneMore
<1>10. sending_counter'[w] = c + 1
  <2>1. c + 1 \in Int /\ c + 1 \in Ints
    <3>1. -(IntMax + 1) <= c /\ c + 1 <= IntMax
      BY <1>6, <1>9 DEF Ints
    <3>. QED
      BY <1>6, <3>1 DEF Ints
  <2>2. AsInt(c + 1) = c + 1
    BY <2>1, IntValue
  <2>. QED
    BY <1>0, <2>2 DEF SendZeroCopy, CountTypes
<1>11. /\ UNCHANGED <<last_sending_counter, notified>> /\ reading' = reading + 1
       /\ \A u \in Worker \ {w} : sending_counter'[u] = sending_counter[u]
  BY <1>0 DEF SendZeroCopy, CountTypes
<1>. HIDE DEF c
<1>12. EveryCallAnswered'
  <2>1. c - a = reading + notified
    BY <1>3 DEF CountInv, EveryCallAnswered, Counting, c
  <2>2. (c + 1) - a = (reading + 1) + notified
    BY <1>6, <2>1, OneCall
  <2>. QED
    BY <1>4, <1>10, <1>11, <2>2 DEF EveryCallAnswered
<1>13. BoundInv'
  BY <1>4, <1>8, <1>9, <1>10 DEF BoundInv
<1>14. FreshInv'
  <2>1. \A u \in Worker : wpc'[u] = "none" => u # w /\ wpc[u] = "none"
    BY <1>2
  <2>. QED
    BY <1>2, <1>5, <1>11, <2>1 DEF CountInv, FreshInv, FreshPcs
<1>15. ReleasedBeforeDone'
  BY <1>1, <1>5 DEF ReleasedBeforeDone
<1>. QED
  BY <1>12, <1>13, <1>14, <1>15 DEF CountInv

\* The worker takes an answer, or fails to.
LEMMA CountReap ==
  ASSUME SenderInv, CountInv, NEW w \in Worker, Reap(w)
  PROVE  CountInv'
<1>. DEFINE c == sending_counter[w]
            a == last_sending_counter[w]
<1>0. wpc \in [Worker -> ZeroCopyPcs] /\ CountTypes
  BY DEF SenderInv, TypeOKZC, CountTypes, Ints, Types, WorkerTypes
<1>1. Active(w) /\ Counting(w)
  BY DEF Reap, Active, Counting, ExitPcs
<1>2. UNCHANGED <<opc, arg, debt, is_done, sending_counter, reading>>
  BY DEF Reap, ownerVars, sharedVars
<1>3. /\ \A u \in Worker \ {w} : wpc'[u] = wpc[u]
      /\ wpc'[w] \in {"done", "exit_record"}
  BY <1>0 DEF Reap, Goto, Exit
<1>4. \A u \in Worker \ {w} : ~Active(u)'
  <2>1. \A u \in Worker \ {w} : ~Active(u)
    BY <1>1 DEF SenderInv, ProtocolInv, WorkerInv, OneWorker
  <2>. QED
    BY <1>3, <2>1 DEF Active
<1>5. opc \notin FreshPcs
  BY <1>1 DEF SenderInv, ProtocolInv, WorkerInv, QuietPcs, FreshPcs
<1>6. c \in Ints /\ c \in Int /\ a \in Ints /\ a \in Int /\ reading \in Nat /\ notified \in Nat
      /\ IntMax \in Nat
  BY <1>0, TcpSenderZCAssumption DEF CountTypes, Ints
<1>7. c - a = reading + notified
  BY <1>1 DEF CountInv, EveryCallAnswered, Counting
<1>8. EveryCallAnswered'
  <2>. SUFFICES ASSUME wpc'[w] = "done"
                PROVE  c - last_sending_counter'[w] = reading + notified'
    BY <1>2, <1>3, <1>4 DEF EveryCallAnswered, ExitPcs
  <2>1. PICK n \in 1 .. notified : notified' = notified - n /\ Answer(w, n)
    BY <1>0 DEF Reap, Exit, Goto
  <2>. HIDE DEF c
  <2>2. c - (a + n) = reading + (notified - n) /\ a + n <= c
    BY <1>6, <1>7, OneAnswer
  <2>3. a + n \in Int /\ a + n \in Ints
    BY <1>6, <2>2 DEF Ints
  <2>4. AsInt(a + n) = a + n
    BY <2>3, IntValue
  <2>5. last_sending_counter'[w] = a + n
    BY <1>0, <2>1, <2>4 DEF Answer, CountTypes
  <2>. QED
    BY <2>1, <2>2, <2>5
<1>9. BoundInv'
  <2>1. Pending' = Pending
    BY <1>2 DEF Pending
  <2>2. c + debt + Pending <= CallBound
    BY <1>1 DEF CountInv, BoundInv, Counting
  <2>. QED
    BY <1>2, <1>4, <2>1, <2>2 DEF BoundInv
<1>10. FreshInv'
  <2>1. \A u \in Worker : wpc'[u] = "none" => u # w /\ wpc[u] = "none"
    BY <1>3
  <2>2. \A u \in Worker \ {w} : last_sending_counter'[u] = last_sending_counter[u]
    BY <1>0 DEF Reap, Answer, CountTypes
  <2>. QED
    BY <1>2, <1>5, <2>1, <2>2 DEF CountInv, FreshInv, FreshPcs
<1>11. ReleasedBeforeDone'
  BY <1>2 DEF CountInv, ReleasedBeforeDone
<1>. QED
  BY <1>8, <1>9, <1>10, <1>11 DEF CountInv

\* The kernel is done with a call: it is answered instead of read.
LEMMA CountAcknowledge ==
  ASSUME SenderInv, CountInv, Acknowledge
  PROVE  CountInv'
<1>1. UNCHANGED <<wpc, opc, arg, debt, is_done, sending_counter, last_sending_counter>>
  BY DEF Acknowledge, vars, ownerVars, sharedVars, workerVars, counterVars
<1>2. reading \in Nat /\ notified \in Nat
  BY DEF SenderInv, TypeOKZC
<1>3. reading' + notified' = reading + notified
  BY <1>2 DEF Acknowledge
<1>4. EveryCallAnswered'
  BY <1>1, <1>3 DEF CountInv, EveryCallAnswered, Active
<1>5. BoundInv'
  BY <1>1 DEF CountInv, BoundInv, Pending, Active
<1>6. FreshInv'
  BY <1>1 DEF CountInv, FreshInv, Acknowledge
<1>7. ReleasedBeforeDone'
  <2>1. reading = 0 => reading' = 0
    BY <1>2 DEF Acknowledge
  <2>. QED
    BY <1>1, <2>1 DEF CountInv, ReleasedBeforeDone
<1>. QED
  BY <1>4, <1>5, <1>6, <1>7 DEF CountInv

\* A poll changes nothing the worker counts.
LEMMA CountPoll ==
  ASSUME SenderInv, SenderInv', CountInv, NEW w \in Worker, Poll(w)
  PROVE  CountInv'
<1>1. wpc \in [Worker -> ZeroCopyPcs]
  BY DEF SenderInv, TypeOKZC, Types, WorkerTypes
<1>2. UNCHANGED zcVars /\ UNCHANGED <<opc, arg, debt, is_done>>
  BY DEF Poll, ownerVars, sharedVars
<1>3. /\ \A u \in Worker \ {w} : wpc'[u] = wpc[u]
      /\ wpc'[w] # "none" /\ wpc[w] = "done"
  BY <1>1 DEF Poll, Goto, Exit
<1>4. /\ \A u \in Worker : Counting(u)' => Counting(u)
      /\ \A u \in Worker : wpc'[u] = "none" => wpc[u] = "none"
  BY <1>3 DEF Counting, Active, ExitPcs
<1>5. debt' + Pending' <= debt + Pending
  <2>1. debt \in Nat /\ Pending \in Nat
    BY PendingNat DEF SenderInv, TypeOKZC, Codes
  <2>2. debt + Pending <= debt + Pending
    BY <2>1
  <2>. QED
    BY <1>2, <2>2 DEF Pending
<1>6. (opc' \notin SendPcs => arg' = NULL) /\ (opc' \in FreshPcs => opc \in FreshPcs)
      /\ (is_done' => is_done \/ reading = 0)
  BY <1>2 DEF CountInv, FreshInv
<1>. QED
  BY <1>2, <1>4, <1>5, <1>6, QuietCount

\* Every step keeps the count, as long as an int can count the calls.
LEMMA CountStep ==
  ASSUME CallBound <= IntMax, SenderInv, SenderInv', CountInv, [NextZC]_allVars
  PROVE  CountInv'
<1>1. CASE UNCHANGED allVars
  <2>1. UNCHANGED <<wpc, opc, arg, debt, is_done, sending_counter, last_sending_counter,
                    reading, notified>>
    BY <1>1 DEF allVars, vars, ownerVars, sharedVars, workerVars, zcVars, counterVars,
                kernelVars
  <2>. QED
    BY <2>1
       DEF CountInv, EveryCallAnswered, BoundInv, FreshInv, ReleasedBeforeDone, Active, Pending
<1>2. ASSUME NEW l \in Lists, OwnerZC(Send(l)), WithinBound(l)
      PROVE  CountInv'
  BY <1>2, CountSend DEF OwnerZC, Send
<1>3. CASE OwnerZC(EndClose)
  BY <1>3, CountClose DEF OwnerZC, EndClose
<1>4. CASE OwnerZC(InitThread)
  BY <1>4, CountCreate DEF OwnerZC, InitThread
<1>5. CASE OwnerZC(EndTerminate \/ EndLock \/ EndCritical \/ EndWait)
  <2>1. UNCHANGED zcVars
    BY <1>5 DEF OwnerZC, EndTerminate, EndLock, EndCritical, EndWait
  <2>. QED
    BY <1>5, <2>1, QuietOwner DEF OwnerZC
<1>6. CASE OwnerZC(InitReset \/ InitServer \/ InitClient \/ InitWait)
  <2>1. UNCHANGED zcVars
    BY <1>6 DEF OwnerZC, InitReset, InitServer, InitClient, InitWait
  <2>. QED
    BY <1>6, <2>1, QuietOwner DEF OwnerZC
<1>7. CASE OwnerZC(SendDone \/ SendLock \/ SendCritical \/ GetError)
  <2>1. UNCHANGED zcVars
    BY <1>7 DEF OwnerZC, SendDone, SendLock, SendCritical, GetError
  <2>. QED
    BY <1>7, <2>1, QuietOwner DEF OwnerZC
<1>8. ASSUME NEW caller \in {"idle", "init_reset"}, OwnerZC(EndSender(caller))
      PROVE  CountInv'
  <2>1. UNCHANGED zcVars
    BY <1>8 DEF OwnerZC, EndSender
  <2>. QED
    BY <1>8, <2>1, QuietOwner DEF OwnerZC
<1>9. CASE InitializeZC \/ CreateServer \/ GetClient \/ SendZC \/ EndSenderZC \/ GetErrorZC
  BY <1>2, <1>3, <1>4, <1>5, <1>6, <1>7, <1>8, <1>9
     DEF InitializeZC, CreateServer, GetClient, SendZC, EndSenderZC, GetErrorZC, OwnerZC,
         EndStep, SendStep
<1>10. ASSUME NEW w \in Worker, WorkerZC(w) \/ (SpuriousWakeup(w) /\ UNCHANGED zcVars)
       PROVE  CountInv'
  <2>1. CASE SendZeroCopy(w)
    BY <2>1, CountCall
  <2>2. CASE Poll(w)
    BY <2>2, CountPoll
  <2>3. CASE Reap(w)
    BY <2>3, CountReap
  <2>4. CASE Unchanged(w)
    <3>1. ~WorkerDone(w)
      BY <2>4 DEF Unchanged, WorkerDone
    <3>. QED
      BY <2>4, <3>1, QuietWorker DEF Unchanged
  <2>5. CASE SendPlain(w) \/ Finish(w)
    <3>1. WorkerStep(w) /\ UNCHANGED zcVars /\ (WorkerDone(w) => ~Unanswered(w))
      BY <2>5 DEF SendPlain, Finish, WorkerStep, WorkerSend, WorkerDone
    <3>. QED
      BY <3>1, QuietWorker
  <2>6. CASE SpuriousWakeup(w) /\ UNCHANGED zcVars
    <3>1. ~WorkerDone(w)
      BY <2>6 DEF SpuriousWakeup, WorkerDone
    <3>. QED
      BY <2>6, <3>1, QuietWorker
  <2>. QED
    BY <1>10, <2>1, <2>2, <2>3, <2>4, <2>5, <2>6 DEF WorkerZC
<1>11. CASE Acknowledge
  BY <1>11, CountAcknowledge
<1>. QED
  BY <1>1, <1>9, <1>10, <1>11 DEF NextZC

LEMMA InitCountInv ==
  ASSUME InitZC
  PROVE  CountInv
<1>1. \A w \in Worker : wpc[w] = "none"
  BY DEF InitZC, Init
<1>2. EveryCallAnswered /\ BoundInv
  BY <1>1 DEF EveryCallAnswered, BoundInv, Active
<1>3. FreshInv /\ ReleasedBeforeDone
  BY DEF InitZC, Init, FreshInv, ReleasedBeforeDone
<1>. QED
  BY <1>2, <1>3 DEF CountInv

\* The counters of the worker agree with what the kernel does, for good.
THEOREM CountsAgree ==
  ASSUME FifoExit, CallBound <= IntMax
  PROVE  SpecZC => []CountInv
<1>1. InitZC => CountInv
  BY InitCountInv
<1>2. CountInv /\ SenderInv /\ SenderInv' /\ [NextZC]_allVars => CountInv'
  BY CountStep
<1>. QED
  BY InvarianceZC, <1>1, <1>2, PTL DEF SpecZC

\* The calls counted and not answered are those the kernel reads or has answers
\* for: the worker overlooks none and waits for none too many.
THEOREM AnswersAreComplete ==
  ASSUME FifoExit, CallBound <= IntMax
  PROVE  SpecZC => []EveryCallAnswered
<1>1. CountInv => EveryCallAnswered
  BY DEF CountInv
<1>. QED
  BY CountsAgree, <1>1, PTL

\* A list is reported done only when the kernel reads no buffer of it.
THEOREM DoneMeansReleased ==
  ASSUME FifoExit, CallBound <= IntMax
  PROVE  SpecZC => []ReleasedBeforeDone
<1>1. CountInv => ReleasedBeforeDone
  BY DEF CountInv
<1>. QED
  BY CountsAgree, <1>1, PTL
=============================================================================
