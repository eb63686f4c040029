---------------------------- MODULE TcpSenderZC ----------------------------
(***************************************************************************)
(* TCPSenderZC (src/src/senders/tcp_sender_zc.cpp): TCPSender whose worker *)
(* sends from memory with MSG_ZEROCOPY.  The kernel goes on reading the    *)
(* user's buffer after the call and says on the error queue of the socket  *)
(* when it no longer does; the worker counts its calls and the answers,    *)
(* and reports a list done when the counts agree.                          *)
(*                                                                         *)
(* The owner and every other statement of the worker are those of          *)
(* TcpSender.  wpc "done" is the head of the loop that waits for answers,  *)
(* "reap" is between poll and recvmsg.  What the worker uses of an answer  *)
(* is how many calls it covers, so the kernel is two counts.               *)
(***************************************************************************)
EXTENDS TcpSender, Integers

CONSTANTS
  IntMax,      \* the largest int
  CallBound    \* bound: zero-copy calls in one session

ASSUME TcpSenderZCAssumption == IntMax \in Nat /\ CallBound \in Nat

VARIABLES
  sending_counter, last_sending_counter,   \* locals of each worker
  reading,     \* kernel: calls on the open socket whose buffer is still read
  notified,    \* kernel: calls done with and waiting on the error queue
  orphaned     \* kernel: it reads a buffer for a socket that was closed

counterVars == <<sending_counter, last_sending_counter>>
kernelVars  == <<reading, notified, orphaned>>
zcVars      == <<counterVars, kernelVars>>
allVars     == <<vars, zcVars>>

ZeroCopyErrors == {"zc_poll_error", "zc_recvmsg_error", "zc_notification_error"}

InitZC ==
  /\ Init
  /\ sending_counter = [w \in Worker |-> 0]
  /\ last_sending_counter = [w \in Worker |-> 0]
  /\ reading = 0 /\ notified = 0 /\ orphaned = FALSE

\* The value of an int that overflows, as the processor computes it.
AsInt(n) == ((n + IntMax + 1) % (2 * (IntMax + 1))) - (IntMax + 1)

-----------------------------------------------------------------------------
(* The owner.                                                              *)

\* A socket that is closed takes its error queue with it, but not the data the
\* kernel has still to send.
CloseSocket ==
  /\ orphaned' = (orphaned \/ reading > 0)
  /\ reading' = 0 /\ notified' = 0
  /\ UNCHANGED counterVars

\* A step of TCPSender, and what it does to the kernel.
OwnerZC(A) ==
  /\ A
  /\ IF opc = "end_close" THEN CloseSocket ELSE UNCHANGED zcVars

\* Bound: the owner starts no list that could take a session past CallBound; a
\* call sends at least one of the units that are owed.
WithinBound(l) ==
  \A w \in Worker : Active(w) => sending_counter[w] + debt + Units(l) <= CallBound

InitializeZC  == OwnerZC(EndSender("init_reset") \/ InitReset \/ InitThread \/ InitWait)
CreateServer  == OwnerZC(InitServer)
GetClient     == OwnerZC(InitClient)
SendZC        == OwnerZC((\E l \in Lists : Send(l) /\ WithinBound(l)) \/ SendStep)
EndSenderZC   == OwnerZC(EndSender("idle") \/ EndStep)
GetErrorZC    == OwnerZC(GetError)

-----------------------------------------------------------------------------
(* The worker.                                                             *)

Unchanged(w) == WorkerStep(w) /\ wpc[w] \notin {"send", "done"} /\ UNCHANGED zcVars

\* A call that sends from a file, or fails, or none: as in TCPSender.
SendPlain(w) == WorkerSend(w) /\ UNCHANGED zcVars

\* A call that sends from memory.
SendZeroCopy(w) ==
  /\ WorkerSend(w)
  /\ debt' < debt
  /\ sending_counter' = [sending_counter EXCEPT ![w] = AsInt(@ + 1)]
  /\ reading' = reading + 1
  /\ UNCHANGED <<last_sending_counter, notified, orphaned>>

Unanswered(w) == last_sending_counter[w] < sending_counter[w]

\* Mutant of Finish: the answers are not waited for.
FinishEarly(w) == WorkerDone(w) /\ UNCHANGED zcVars

Finish(w) == WorkerDone(w) /\ ~Unanswered(w) /\ UNCHANGED zcVars

\* Mutant of Poll: poll waits for as long as it takes.
PollForEver(w) ==
  /\ wpc[w] = "done"
  /\ Unanswered(w)
  /\ notified > 0 /\ Goto(w, "reap") /\ UNCHANGED cause
  /\ UNCHANGED <<ownerVars, sockVars, sharedVars, mutex, buf, debt, zcVars>>

\* poll returns when there is an answer or the connection is broken, or fails
\* after a second.
Poll(w) ==
  /\ wpc[w] = "done"
  /\ Unanswered(w)
  /\ \/ Goto(w, "reap") /\ UNCHANGED cause
     \/ notified = 0 /\ Exit(w, "zc_poll_error")
  /\ UNCHANGED <<ownerVars, sockVars, sharedVars, mutex, buf, debt, zcVars>>

\* Mutant of Answer: an answer is taken for one call.
AnswerOne(w, n) == last_sending_counter' = [last_sending_counter EXCEPT ![w] = AsInt(@ + 1)]

\* The answer covers n calls, ee_info to ee_data.
Answer(w, n) == last_sending_counter' = [last_sending_counter EXCEPT ![w] = AsInt(@ + n)]

\* recvmsg takes one answer.  It may fail, since fields of msg that it reads
\* are not initialized, and read_notification_zc may not know the answer, since
\* that of an IPv6 socket has another level and type.
Reap(w) ==
  /\ wpc[w] = "reap"
  /\ \/ \E n \in 1 .. notified :
          /\ notified' = notified - n
          /\ \/ Answer(w, n) /\ Goto(w, "done") /\ UNCHANGED cause
             \/ Exit(w, "zc_notification_error") /\ UNCHANGED last_sending_counter
     \/ Exit(w, "zc_recvmsg_error") /\ UNCHANGED <<notified, last_sending_counter>>
  /\ UNCHANGED <<ownerVars, sockVars, sharedVars, mutex, buf, debt, sending_counter,
                 reading, orphaned>>

WorkerZC(w) ==
  Unchanged(w) \/ SendPlain(w) \/ SendZeroCopy(w) \/ Finish(w) \/ Poll(w) \/ Reap(w)

-----------------------------------------------------------------------------
(* The kernel.                                                             *)

\* The data of a call is acknowledged, or was copied after all.
Acknowledge ==
  \/ /\ reading > 0
     /\ reading' = reading - 1
     /\ notified' = notified + 1
     /\ UNCHANGED <<vars, counterVars, orphaned>>
  \/ /\ orphaned
     /\ orphaned' = FALSE
     /\ UNCHANGED <<vars, counterVars, reading, notified>>

-----------------------------------------------------------------------------
NextZC ==
  \/ InitializeZC \/ CreateServer \/ GetClient \/ SendZC \/ EndSenderZC \/ GetErrorZC
  \/ \E w \in Worker : WorkerZC(w) \/ (SpuriousWakeup(w) /\ UNCHANGED zcVars)
  \/ Acknowledge

SpecZC == InitZC /\ [][NextZC]_allVars

\* As in TcpSender; the kernel owes no answer.
FairSpecZC ==
  /\ SpecZC
  /\ WF_allVars(OwnerZC(OwnerStep))
  /\ SF_allVars(OwnerZC(EndLock \/ SendLock))
  /\ \A w \in Worker : WF_allVars(WorkerZC(w))

-----------------------------------------------------------------------------
(* Properties.  ImplementsSender, CallsReturn and SendResolves are those of *)
(* TcpSender: here an accepted list is done only once it is acknowledged.   *)

ZeroCopyPcs == WorkerPcs \cup {"reap"}

\* The values every variable can have: those of TcpSender, with the statements
\* and the errors of the zero-copy worker, and counters that are ints.
TypeOKZC ==
  /\ Types(ZeroCopyPcs, WorkerCodes \cup ZeroCopyErrors)
  /\ sending_counter \in [Worker -> -(IntMax + 1) .. IntMax]
  /\ last_sending_counter \in [Worker -> -(IntMax + 1) .. IntMax]
  /\ reading \in Nat /\ notified \in Nat /\ orphaned \in BOOLEAN

\* tcp_sender_zc.cpp:148, "wait untill all messages are sent": while is_done is
\* true the kernel reads no buffer of the session, so the user may change them.
ReleasedBeforeDone == is_done => reading = 0

\* However the kernel merges its answers, and whatever socket they were for, the
\* worker has as many to come as calls not answered, until it ends: it neither
\* overlooks an answer nor waits for one that cannot come.
EveryCallAnswered ==
  \A w \in Worker : Active(w) /\ wpc[w] \notin ExitPcs =>
    sending_counter[w] - last_sending_counter[w] = reading + notified

\* sender.h:57, end_sender will "close the sender and clean all its resources":
\* a sender that was ended leaves no buffer of the user with the kernel.
EndReleases == opc = "idle" /\ client_sock_fd_ = "none" => ~orphaned
=============================================================================
