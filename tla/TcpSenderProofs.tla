-------------------------- MODULE TcpSenderProofs --------------------------
(***************************************************************************)
(* Proofs about TcpSender, for every set of threads and of lists, under    *)
(* the assumption FifoExit.  The inductive invariant is IndInv, the        *)
(* conjunction of TypeOK and of the parts below.                           *)
(***************************************************************************)
EXTENDS TcpSender, TLAPS

\* The owner is between the end of one worker and the start of the next.
QuietPcs == {"end_close", "init_reset", "init_server", "init_client", "init_thread"}

\* At most one worker runs, and where the owner and the flags say it can.
WorkerInv ==
  /\ OneWorker
  /\ \A w \in Worker : wpc[w] \in {"start", "announce"} =>
       opc = "init_wait" /\ ~thread_initialized
  /\ \A w \in Worker : Active(w) => wpc[w] = "start" \/ ~is_terminated_thread
  /\ \A w \in Worker : wpc[w] = "unwind" =>
       is_terminated_thread /\ \A v \in Worker : ~Active(v)
  /\ opc \in QuietPcs => \A w \in Worker : ~Active(w)

\* The client is connected while a worker runs.
SocketInv ==
  /\ opc = "init_thread" => client_sock_fd_ = "open"
  /\ SocketOutlivesWorker

\* What the owner has set up for the operation it is in.
SessionInv ==
  /\ opc \in EndPcs \cup InitPcs => ~initialized_
  /\ opc \in SendPcs => initialized_ /\ arg # NULL
  /\ initialized_ => ~terminate_thread
  /\ opc \in InitPcs \ {"init_reset"} =>
       ~terminate_thread /\ is_done /\ packets_list = NULL
  /\ opc \in {"init_server", "init_client", "init_thread"} => ~thread_initialized

\* Who holds the mutex, exactly.
MutexInv ==
  /\ \A w \in Worker :
       /\ wpc[w] \in HoldPcs => mutex = w
       /\ mutex = w => wpc[w] \in HoldPcs \cup {"exit_record", "exit_unlock"}
  /\ mutex = "owner" <=> opc \in {"send_crit", "end_crit"}

\* The data owed is in the hands of the worker or behind packets_list.
DataInv ==
  /\ \A w \in Worker : wpc[w] \in SendingPcs =>
       ~is_done /\ packets_list = NULL /\ debt = Units(buf[w])
  /\ \A w \in Worker : wpc[w] = "done" => buf[w].size = 0 /\ buf[w].tail = "end"
  /\ packets_list # NULL => ~is_done /\ debt = Units(packets_list)
  /\ opc \in {"send_lock", "send_crit"} => is_done
  /\ DoneMeansSent

\* The worker looks at packets_list and at terminate_thread with the mutex held.
WakeInv ==
  /\ \A w \in Worker : wpc[w] \in {"check_term", "wait"} => packets_list = NULL
  /\ \A w \in Worker : wpc[w] = "wait" => (terminate_thread => opc = "end_lock")
  /\ NoLostWakeup

\* A worker has ended with an error, and its code is the one recorded.
Ended ==
  /\ is_error
  /\ \E w \in Worker : /\ wpc[w] \in {"unwind", "gone"}
                       /\ cause[w] # "no_error"
                       /\ error_code = cause[w]

ErrorInv ==
  /\ \A w \in Worker : wpc[w] \in ExitPcs /\ cause[w] = "no_error" => terminate_thread
  /\ \A w \in Worker : wpc[w] \in {"exit_unlock", "exit_term"} =>
       /\ is_error = (cause[w] # "no_error")
       /\ error_code = cause[w]
  /\ (initialized_ \/ opc = "init_wait") /\ is_terminated_thread =>
       Ended \/ \E w \in Worker : wpc[w] = "start"

ProtocolInv == /\ WorkerInv /\ SocketInv /\ SessionInv
               /\ MutexInv /\ DataInv /\ WakeInv /\ ErrorInv

IndInv == TypeOK /\ ProtocolInv

(* Every step preserves the types. *)
LEMMA OwnerTypeStep ==
  ASSUME NEW pcs, NEW codes, WorkerCodes \subseteq codes,
         Types(pcs, codes), [Next]_vars
  PROVE  OwnerTypes(codes)'
<1> USE TcpSenderAssumption
  DEF Types, OwnerTypes, SharedTypes, OwnerPcs, EndPcs,
  InitPcs, SendPcs, SendErrors, InitErrors, WorkerCodes
<1>1. CASE UNCHANGED vars
  BY <1>1 DEF vars, ownerVars, sockVars, sharedVars, workerVars
<1>2. ASSUME NEW caller \in {"idle", "init_reset"}, EndSender(caller)
      PROVE  OwnerTypes(codes)'
  BY <1>2 DEF EndSender, sockVars, sharedVars, workerVars
<1>3. ASSUME NEW l \in Lists, Send(l)
      PROVE  OwnerTypes(codes)'
  BY <1>3 DEF Send, sockVars, sharedVars, workerVars
<1>4. CASE EndTerminate
  BY <1>4 DEF EndTerminate, sockVars, workerVars
<1>5. CASE EndLock
  BY <1>5 DEF EndLock, sockVars, sharedVars, workerVars
<1>6. CASE EndCritical
  BY <1>6 DEF EndCritical, Signal, Waiters, sockVars
<1>7. CASE EndWait
  BY <1>7 DEF EndWait, sockVars, sharedVars, workerVars
<1>8. CASE EndClose
  BY <1>8 DEF EndClose, sharedVars, workerVars
<1>9. CASE InitReset
  BY <1>9 DEF InitReset, sockVars, workerVars
<1>10. CASE InitServer
  BY <1>10 DEF InitServer, sharedVars, workerVars
<1>11. CASE InitClient
  BY <1>11 DEF InitClient, sharedVars, workerVars
<1>12. CASE InitThread
  BY <1>12 DEF InitThread, sockVars, sharedVars
<1>13. CASE InitWait
  BY <1>13 DEF InitWait, sockVars, sharedVars, workerVars
<1>14. CASE SendDone
  BY <1>14 DEF SendDone, sockVars, sharedVars, workerVars
<1>15. CASE SendLock
  BY <1>15 DEF SendLock, sockVars, sharedVars, workerVars
<1>16. CASE SendCritical
  BY <1>16 DEF SendCritical, Signal, Waiters, sockVars
<1>17. CASE GetError
  BY <1>17 DEF GetError, sockVars, sharedVars, workerVars
<1>18. ASSUME NEW w \in Worker, WorkerStart(w)
      PROVE  OwnerTypes(codes)'
  BY <1>18 DEF WorkerStart, Goto, ownerVars, sockVars
<1>19. ASSUME NEW w \in Worker, WorkerAnnounce(w)
      PROVE  OwnerTypes(codes)'
  BY <1>19 DEF WorkerAnnounce, Goto, ownerVars, sockVars
<1>20. ASSUME NEW w \in Worker, WorkerSetup(w)
      PROVE  OwnerTypes(codes)'
  BY <1>20 DEF WorkerSetup, Goto, Exit, ownerVars, sockVars, sharedVars
<1>21. ASSUME NEW w \in Worker, WorkerLoop(w)
      PROVE  OwnerTypes(codes)'
  BY <1>21 DEF WorkerLoop, Goto, Exit, ownerVars, sockVars, sharedVars
<1>22. ASSUME NEW w \in Worker, WorkerLock(w)
      PROVE  OwnerTypes(codes)'
  BY <1>22 DEF WorkerLock, Goto, ownerVars, sockVars, sharedVars
<1>23. ASSUME NEW w \in Worker, WorkerCheck(w)
      PROVE  OwnerTypes(codes)'
  BY <1>23 DEF WorkerCheck, Goto, ownerVars, sockVars, sharedVars
<1>24. ASSUME NEW w \in Worker, WorkerTake(w)
      PROVE  OwnerTypes(codes)'
  BY <1>24 DEF WorkerTake, Goto, ownerVars, sockVars
<1>25. ASSUME NEW w \in Worker, WorkerCheckTerm(w)
      PROVE  OwnerTypes(codes)'
  BY <1>25 DEF WorkerCheckTerm, Goto, Exit, ownerVars, sockVars, sharedVars
<1>26. ASSUME NEW w \in Worker, WorkerWait(w)
      PROVE  OwnerTypes(codes)'
  BY <1>26 DEF WorkerWait, Goto, ownerVars, sockVars, sharedVars
<1>27. ASSUME NEW w \in Worker, SpuriousWakeup(w)
      PROVE  OwnerTypes(codes)'
  BY <1>27 DEF SpuriousWakeup, Goto, ownerVars, sockVars, sharedVars
<1>28. ASSUME NEW w \in Worker, WorkerSend(w)
      PROVE  OwnerTypes(codes)'
  BY <1>28 DEF WorkerSend, Goto, Exit, ownerVars, sockVars, sharedVars
<1>29. ASSUME NEW w \in Worker, WorkerSent(w)
      PROVE  OwnerTypes(codes)'
  BY <1>29 DEF WorkerSent, Goto, Exit, ownerVars, sockVars, sharedVars
<1>30. ASSUME NEW w \in Worker, WorkerDone(w)
      PROVE  OwnerTypes(codes)'
  BY <1>30 DEF WorkerDone, Goto, ownerVars, sockVars
<1>31. ASSUME NEW w \in Worker, WorkerExitRecord(w)
      PROVE  OwnerTypes(codes)'
  BY <1>31 DEF WorkerExitRecord, Goto, ownerVars, sockVars
<1>32. ASSUME NEW w \in Worker, WorkerExitUnlock(w)
      PROVE  OwnerTypes(codes)'
  BY <1>32 DEF WorkerExitUnlock, Goto, ownerVars, sockVars, sharedVars
<1>33. ASSUME NEW w \in Worker, WorkerExitTerm(w)
      PROVE  OwnerTypes(codes)'
  BY <1>33 DEF WorkerExitTerm, Goto, ownerVars, sockVars
<1>34. ASSUME NEW w \in Worker, WorkerUnwind(w)
      PROVE  OwnerTypes(codes)'
  BY <1>34 DEF WorkerUnwind, Goto, ownerVars, sockVars
<1>35. QED
  BY <1>1, <1>2, <1>3, <1>4, <1>5, <1>6, <1>7, <1>8, <1>9, <1>10, <1>11, <1>12,
     <1>13, <1>14, <1>15, <1>16, <1>17, <1>18, <1>19, <1>20, <1>21, <1>22,
     <1>23, <1>24, <1>25, <1>26, <1>27, <1>28, <1>29, <1>30, <1>31, <1>32,
     <1>33, <1>34
     DEF Next, OwnerCall, OwnerStep, EndStep, SendStep, WorkerStep

LEMMA SharedTypeStep ==
  ASSUME NEW pcs, NEW codes, WorkerCodes \subseteq codes,
         Types(pcs, codes), [Next]_vars
  PROVE  SharedTypes(codes)'
<1> USE TcpSenderAssumption
  DEF Types, OwnerTypes, SharedTypes, WorkerTypes,
  WorkerCodes, SetupErrors
<1>1. CASE UNCHANGED vars
  BY <1>1 DEF vars, ownerVars, sockVars, sharedVars, workerVars
<1>2. ASSUME NEW caller \in {"idle", "init_reset"}, EndSender(caller)
      PROVE  SharedTypes(codes)'
  BY <1>2 DEF EndSender, sockVars, sharedVars, workerVars
<1>3. ASSUME NEW l \in Lists, Send(l)
      PROVE  SharedTypes(codes)'
  BY <1>3 DEF Send, sockVars, sharedVars, workerVars
<1>4. CASE EndTerminate
  BY <1>4 DEF EndTerminate, sockVars, workerVars
<1>5. CASE EndLock
  BY <1>5 DEF EndLock, sockVars, sharedVars, workerVars
<1>6. CASE EndCritical
  BY <1>6 DEF EndCritical, Signal, Waiters, sockVars
<1>7. CASE EndWait
  BY <1>7 DEF EndWait, sockVars, sharedVars, workerVars
<1>8. CASE EndClose
  BY <1>8 DEF EndClose, sharedVars, workerVars
<1>9. CASE InitReset
  BY <1>9 DEF InitReset, sockVars, workerVars
<1>10. CASE InitServer
  BY <1>10 DEF InitServer, sharedVars, workerVars
<1>11. CASE InitClient
  BY <1>11 DEF InitClient, sharedVars, workerVars
<1>12. CASE InitThread
  BY <1>12 DEF InitThread, sockVars, sharedVars
<1>13. CASE InitWait
  BY <1>13 DEF InitWait, sockVars, sharedVars, workerVars
<1>14. CASE SendDone
  BY <1>14 DEF SendDone, sockVars, sharedVars, workerVars
<1>15. CASE SendLock
  BY <1>15 DEF SendLock, sockVars, sharedVars, workerVars
<1>16. CASE SendCritical
  BY <1>16 DEF SendCritical, Signal, Waiters, sockVars
<1>17. CASE GetError
  BY <1>17 DEF GetError, sockVars, sharedVars, workerVars
<1>18. ASSUME NEW w \in Worker, WorkerStart(w)
      PROVE  SharedTypes(codes)'
  BY <1>18 DEF WorkerStart, Goto, ownerVars, sockVars
<1>19. ASSUME NEW w \in Worker, WorkerAnnounce(w)
      PROVE  SharedTypes(codes)'
  BY <1>19 DEF WorkerAnnounce, Goto, ownerVars, sockVars
<1>20. ASSUME NEW w \in Worker, WorkerSetup(w)
      PROVE  SharedTypes(codes)'
  BY <1>20 DEF WorkerSetup, Goto, Exit, ownerVars, sockVars, sharedVars
<1>21. ASSUME NEW w \in Worker, WorkerLoop(w)
      PROVE  SharedTypes(codes)'
  BY <1>21 DEF WorkerLoop, Goto, Exit, ownerVars, sockVars, sharedVars
<1>22. ASSUME NEW w \in Worker, WorkerLock(w)
      PROVE  SharedTypes(codes)'
  BY <1>22 DEF WorkerLock, Goto, ownerVars, sockVars, sharedVars
<1>23. ASSUME NEW w \in Worker, WorkerCheck(w)
      PROVE  SharedTypes(codes)'
  BY <1>23 DEF WorkerCheck, Goto, ownerVars, sockVars, sharedVars
<1>24. ASSUME NEW w \in Worker, WorkerTake(w)
      PROVE  SharedTypes(codes)'
  BY <1>24 DEF WorkerTake, Goto, ownerVars, sockVars
<1>25. ASSUME NEW w \in Worker, WorkerCheckTerm(w)
      PROVE  SharedTypes(codes)'
  BY <1>25 DEF WorkerCheckTerm, Goto, Exit, ownerVars, sockVars, sharedVars
<1>26. ASSUME NEW w \in Worker, WorkerWait(w)
      PROVE  SharedTypes(codes)'
  BY <1>26 DEF WorkerWait, Goto, ownerVars, sockVars, sharedVars
<1>27. ASSUME NEW w \in Worker, SpuriousWakeup(w)
      PROVE  SharedTypes(codes)'
  BY <1>27 DEF SpuriousWakeup, Goto, ownerVars, sockVars, sharedVars
<1>28. ASSUME NEW w \in Worker, WorkerSend(w)
      PROVE  SharedTypes(codes)'
  BY <1>28 DEF WorkerSend, Goto, Exit, ownerVars, sockVars, sharedVars
<1>29. ASSUME NEW w \in Worker, WorkerSent(w)
      PROVE  SharedTypes(codes)'
  BY <1>29 DEF WorkerSent, Goto, Exit, ownerVars, sockVars, sharedVars
<1>30. ASSUME NEW w \in Worker, WorkerDone(w)
      PROVE  SharedTypes(codes)'
  BY <1>30 DEF WorkerDone, Goto, ownerVars, sockVars
<1>31. ASSUME NEW w \in Worker, WorkerExitRecord(w)
      PROVE  SharedTypes(codes)'
  BY <1>31 DEF WorkerExitRecord, Goto, ownerVars, sockVars
<1>32. ASSUME NEW w \in Worker, WorkerExitUnlock(w)
      PROVE  SharedTypes(codes)'
  BY <1>32 DEF WorkerExitUnlock, Goto, ownerVars, sockVars, sharedVars
<1>33. ASSUME NEW w \in Worker, WorkerExitTerm(w)
      PROVE  SharedTypes(codes)'
  BY <1>33 DEF WorkerExitTerm, Goto, ownerVars, sockVars
<1>34. ASSUME NEW w \in Worker, WorkerUnwind(w)
      PROVE  SharedTypes(codes)'
  BY <1>34 DEF WorkerUnwind, Goto, ownerVars, sockVars
<1>35. QED
  BY <1>1, <1>2, <1>3, <1>4, <1>5, <1>6, <1>7, <1>8, <1>9, <1>10, <1>11, <1>12,
     <1>13, <1>14, <1>15, <1>16, <1>17, <1>18, <1>19, <1>20, <1>21, <1>22,
     <1>23, <1>24, <1>25, <1>26, <1>27, <1>28, <1>29, <1>30, <1>31, <1>32,
     <1>33, <1>34
     DEF Next, OwnerCall, OwnerStep, EndStep, SendStep, WorkerStep

(* What a call sends never exceeds what is owed: the debt stays in Nat. *)
LEMMA WorkerTypeStep ==
  ASSUME NEW pcs, NEW codes, WorkerPcs \subseteq pcs, WorkerCodes \subseteq codes,
         Types(pcs, codes), SessionInv, DataInv, [Next]_vars
  PROVE  WorkerTypes(pcs, codes)'
<1> USE TcpSenderAssumption
  DEF Types, WorkerTypes, WorkerPcs, SendingPcs, HoldPcs,
  ExitPcs, WorkerCodes, SetupErrors
<1>1. CASE UNCHANGED vars
  BY <1>1 DEF vars, ownerVars, sockVars, sharedVars, workerVars
<1>2. ASSUME NEW caller \in {"idle", "init_reset"}, EndSender(caller)
      PROVE  WorkerTypes(pcs, codes)'
  BY <1>2 DEF EndSender, sockVars, sharedVars, workerVars
<1>3. ASSUME NEW l \in Lists, Send(l)
      PROVE  WorkerTypes(pcs, codes)'
  BY <1>3 DEF Send, sockVars, sharedVars, workerVars
<1>4. CASE EndTerminate
  BY <1>4 DEF EndTerminate, sockVars, workerVars
<1>5. CASE EndLock
  BY <1>5 DEF EndLock, sockVars, sharedVars, workerVars
<1>6. CASE EndCritical
  BY <1>6 DEF EndCritical, Signal, Waiters, sockVars
<1>7. CASE EndWait
  BY <1>7 DEF EndWait, sockVars, sharedVars, workerVars
<1>8. CASE EndClose
  BY <1>8 DEF EndClose, sharedVars, workerVars
<1>9. CASE InitReset
  BY <1>9 DEF InitReset, sockVars, workerVars
<1>10. CASE InitServer
  BY <1>10 DEF InitServer, sharedVars, workerVars
<1>11. CASE InitClient
  BY <1>11 DEF InitClient, sharedVars, workerVars
<1>12. CASE InitThread
  BY <1>12 DEF InitThread, sockVars, sharedVars
<1>13. CASE InitWait
  BY <1>13 DEF InitWait, sockVars, sharedVars, workerVars
<1>14. CASE SendDone
  BY <1>14 DEF SendDone, sockVars, sharedVars, workerVars
<1>15. CASE SendLock
  BY <1>15 DEF SendLock, sockVars, sharedVars, workerVars
<1>16. CASE SendCritical
  BY <1>16
     DEF SendCritical, Signal, Waiters, sockVars, AnyList, Units, OwnerTypes,
         SessionInv, SendPcs
<1>17. CASE GetError
  BY <1>17 DEF GetError, sockVars, sharedVars, workerVars
<1>18. ASSUME NEW w \in Worker, WorkerStart(w)
      PROVE  WorkerTypes(pcs, codes)'
  BY <1>18 DEF WorkerStart, Goto, ownerVars, sockVars
<1>19. ASSUME NEW w \in Worker, WorkerAnnounce(w)
      PROVE  WorkerTypes(pcs, codes)'
  BY <1>19 DEF WorkerAnnounce, Goto, ownerVars, sockVars
<1>20. ASSUME NEW w \in Worker, WorkerSetup(w)
      PROVE  WorkerTypes(pcs, codes)'
  BY <1>20 DEF WorkerSetup, Goto, Exit, ownerVars, sockVars, sharedVars
<1>21. ASSUME NEW w \in Worker, WorkerLoop(w)
      PROVE  WorkerTypes(pcs, codes)'
  BY <1>21 DEF WorkerLoop, Goto, Exit, ownerVars, sockVars, sharedVars
<1>22. ASSUME NEW w \in Worker, WorkerLock(w)
      PROVE  WorkerTypes(pcs, codes)'
  BY <1>22 DEF WorkerLock, Goto, ownerVars, sockVars, sharedVars
<1>23. ASSUME NEW w \in Worker, WorkerCheck(w)
      PROVE  WorkerTypes(pcs, codes)'
  BY <1>23 DEF WorkerCheck, Goto, ownerVars, sockVars, sharedVars
<1>24. ASSUME NEW w \in Worker, WorkerTake(w)
      PROVE  WorkerTypes(pcs, codes)'
  BY <1>24 DEF WorkerTake, Goto, ownerVars, sockVars, AnyList, SharedTypes
<1>25. ASSUME NEW w \in Worker, WorkerCheckTerm(w)
      PROVE  WorkerTypes(pcs, codes)'
  BY <1>25 DEF WorkerCheckTerm, Goto, Exit, ownerVars, sockVars, sharedVars
<1>26. ASSUME NEW w \in Worker, WorkerWait(w)
      PROVE  WorkerTypes(pcs, codes)'
  BY <1>26 DEF WorkerWait, Goto, ownerVars, sockVars, sharedVars
<1>27. ASSUME NEW w \in Worker, SpuriousWakeup(w)
      PROVE  WorkerTypes(pcs, codes)'
  BY <1>27 DEF SpuriousWakeup, Goto, ownerVars, sockVars, sharedVars
<1>28. ASSUME NEW w \in Worker, WorkerSend(w)
      PROVE  WorkerTypes(pcs, codes)'
  <2>1. buf[w].size \in Nat /\ buf[w].tail \in Tails
    BY DEF AnyList
  <2>2. wpc' \in [Worker -> pcs]
    BY <1>28 DEF WorkerSend, Goto, Exit, ownerVars, sockVars, sharedVars
  <2>3. cause' \in [Worker -> codes]
    BY <1>28 DEF WorkerSend, Goto, Exit, ownerVars, sockVars, sharedVars
  <2>4. CASE \E s \in 1..buf[w].size :
               /\ buf' = [buf EXCEPT ![w] = [size |-> @.size - s, tail |-> @.tail]]
               /\ debt' = debt - s
    <3>1. PICK s \in 1..buf[w].size :
            /\ buf' = [buf EXCEPT ![w] = [size |-> @.size - s, tail |-> @.tail]]
            /\ debt' = debt - s
      BY <2>4
    <3>2. debt >= buf[w].size
      BY <1>28, <2>1 DEF WorkerSend, DataInv, Units
    <3>3. buf[w].size - s \in Nat /\ debt - s \in Nat
      BY <2>1, <3>2
    <3>4. [size |-> buf[w].size - s, tail |-> buf[w].tail] \in AnyList
      BY <2>1, <3>3 DEF AnyList
    <3>. QED
      BY <2>2, <2>3, <3>1, <3>3, <3>4
  <2>5. CASE UNCHANGED <<buf, debt>>
    BY <2>2, <2>3, <2>5
  <2>6. QED
    BY <1>28, <2>4, <2>5 DEF WorkerSend
<1>29. ASSUME NEW w \in Worker, WorkerSent(w)
      PROVE  WorkerTypes(pcs, codes)'
  BY <1>29 DEF WorkerSent, Goto, Exit, ownerVars, sockVars, sharedVars
<1>30. ASSUME NEW w \in Worker, WorkerDone(w)
      PROVE  WorkerTypes(pcs, codes)'
  BY <1>30 DEF WorkerDone, Goto, ownerVars, sockVars
<1>31. ASSUME NEW w \in Worker, WorkerExitRecord(w)
      PROVE  WorkerTypes(pcs, codes)'
  BY <1>31 DEF WorkerExitRecord, Goto, ownerVars, sockVars
<1>32. ASSUME NEW w \in Worker, WorkerExitUnlock(w)
      PROVE  WorkerTypes(pcs, codes)'
  BY <1>32 DEF WorkerExitUnlock, Goto, ownerVars, sockVars, sharedVars
<1>33. ASSUME NEW w \in Worker, WorkerExitTerm(w)
      PROVE  WorkerTypes(pcs, codes)'
  BY <1>33 DEF WorkerExitTerm, Goto, ownerVars, sockVars
<1>34. ASSUME NEW w \in Worker, WorkerUnwind(w)
      PROVE  WorkerTypes(pcs, codes)'
  BY <1>34 DEF WorkerUnwind, Goto, ownerVars, sockVars
<1>35. QED
  BY <1>1, <1>2, <1>3, <1>4, <1>5, <1>6, <1>7, <1>8, <1>9, <1>10, <1>11, <1>12,
     <1>13, <1>14, <1>15, <1>16, <1>17, <1>18, <1>19, <1>20, <1>21, <1>22,
     <1>23, <1>24, <1>25, <1>26, <1>27, <1>28, <1>29, <1>30, <1>31, <1>32,
     <1>33, <1>34
     DEF Next, OwnerCall, OwnerStep, EndStep, SendStep, WorkerStep

(* One worker at a time.  FifoExit is used where a thread is created: a thread *)
(* that still unwinds would raise is_terminated_thread under the new one.     *)
LEMMA WorkerStepInv ==
  ASSUME FifoExit, NEW pcs, NEW codes, Types(pcs, codes), WorkerInv, SessionInv, [Next]_vars
  PROVE  WorkerInv'
<1> USE TcpSenderAssumption
  DEF WorkerInv, OneWorker, Active, QuietPcs, SessionInv, Types, OwnerTypes, SharedTypes, WorkerTypes,
  EndPcs, InitPcs, SendPcs,
  SendingPcs, HoldPcs, ExitPcs
<1>1. CASE UNCHANGED vars
  BY <1>1 DEF vars, ownerVars, sockVars, sharedVars, workerVars
<1>2. ASSUME NEW caller \in {"idle", "init_reset"}, EndSender(caller)
      PROVE  WorkerInv'
  BY <1>2 DEF EndSender, sockVars, sharedVars, workerVars
<1>3. ASSUME NEW l \in Lists, Send(l)
      PROVE  WorkerInv'
  BY <1>3 DEF Send, sockVars, sharedVars, workerVars
<1>4. CASE EndTerminate
  BY <1>4 DEF EndTerminate, sockVars, workerVars
<1>5. CASE EndLock
  BY <1>5 DEF EndLock, sockVars, sharedVars, workerVars
<1>6. CASE EndCritical
  BY <1>6 DEF EndCritical, Signal, Waiters, sockVars
<1>7. CASE EndWait
  BY <1>7 DEF EndWait, sockVars, sharedVars, workerVars
<1>8. CASE EndClose
  BY <1>8 DEF EndClose, sharedVars, workerVars
<1>9. CASE InitReset
  BY <1>9 DEF InitReset, sockVars, workerVars
<1>10. CASE InitServer
  BY <1>10 DEF InitServer, sharedVars, workerVars
<1>11. CASE InitClient
  BY <1>11 DEF InitClient, sharedVars, workerVars
<1>12. CASE InitThread
  <2>1. CASE opc' = "idle"
    BY <1>12, <2>1 DEF InitThread, sockVars, sharedVars
  <2>2. CASE opc' = "init_wait"
    <3>1. PICK w \in Worker : wpc[w] = "none" /\ wpc' = [wpc EXCEPT ![w] = "start"]
      BY <1>12, <2>2 DEF InitThread
    <3>2. \A v \in Worker : ~Active(v) /\ wpc[v] # "unwind"
      BY <1>12, <2>2 DEF InitThread
    <3>3. \A v \in Worker : wpc'[v] # "unwind" /\ (Active(v)' <=> v = w)
      BY <3>1, <3>2
    <3>4. UNCHANGED is_terminated_thread /\ thread_initialized' = FALSE
      BY <1>12 DEF InitThread, sockVars, sharedVars
    <3>. QED
      BY <2>2, <3>1, <3>3, <3>4
  <2>3. QED
    BY <1>12, <2>1, <2>2 DEF InitThread
<1>13. CASE InitWait
  BY <1>13 DEF InitWait, sockVars, sharedVars, workerVars
<1>14. CASE SendDone
  BY <1>14 DEF SendDone, sockVars, sharedVars, workerVars
<1>15. CASE SendLock
  BY <1>15 DEF SendLock, sockVars, sharedVars, workerVars
<1>16. CASE SendCritical
  BY <1>16 DEF SendCritical, Signal, Waiters, sockVars
<1>17. CASE GetError
  BY <1>17 DEF GetError, sockVars, sharedVars, workerVars
<1>18. ASSUME NEW w \in Worker, WorkerStart(w)
      PROVE  WorkerInv'
  BY <1>18 DEF WorkerStart, Goto, ownerVars, sockVars
<1>19. ASSUME NEW w \in Worker, WorkerAnnounce(w)
      PROVE  WorkerInv'
  BY <1>19 DEF WorkerAnnounce, Goto, ownerVars, sockVars
<1>20. ASSUME NEW w \in Worker, WorkerSetup(w)
      PROVE  WorkerInv'
  BY <1>20 DEF WorkerSetup, Goto, Exit, ownerVars, sockVars, sharedVars
<1>21. ASSUME NEW w \in Worker, WorkerLoop(w)
      PROVE  WorkerInv'
  BY <1>21 DEF WorkerLoop, Goto, Exit, ownerVars, sockVars, sharedVars
<1>22. ASSUME NEW w \in Worker, WorkerLock(w)
      PROVE  WorkerInv'
  BY <1>22 DEF WorkerLock, Goto, ownerVars, sockVars, sharedVars
<1>23. ASSUME NEW w \in Worker, WorkerCheck(w)
      PROVE  WorkerInv'
  BY <1>23 DEF WorkerCheck, Goto, ownerVars, sockVars, sharedVars
<1>24. ASSUME NEW w \in Worker, WorkerTake(w)
      PROVE  WorkerInv'
  BY <1>24 DEF WorkerTake, Goto, ownerVars, sockVars
<1>25. ASSUME NEW w \in Worker, WorkerCheckTerm(w)
      PROVE  WorkerInv'
  BY <1>25 DEF WorkerCheckTerm, Goto, Exit, ownerVars, sockVars, sharedVars
<1>26. ASSUME NEW w \in Worker, WorkerWait(w)
      PROVE  WorkerInv'
  BY <1>26 DEF WorkerWait, Goto, ownerVars, sockVars, sharedVars
<1>27. ASSUME NEW w \in Worker, SpuriousWakeup(w)
      PROVE  WorkerInv'
  BY <1>27 DEF SpuriousWakeup, Goto, ownerVars, sockVars, sharedVars
<1>28. ASSUME NEW w \in Worker, WorkerSend(w)
      PROVE  WorkerInv'
  BY <1>28 DEF WorkerSend, Goto, Exit, ownerVars, sockVars, sharedVars
<1>29. ASSUME NEW w \in Worker, WorkerSent(w)
      PROVE  WorkerInv'
  BY <1>29 DEF WorkerSent, Goto, Exit, ownerVars, sockVars, sharedVars
<1>30. ASSUME NEW w \in Worker, WorkerDone(w)
      PROVE  WorkerInv'
  BY <1>30 DEF WorkerDone, Goto, ownerVars, sockVars
<1>31. ASSUME NEW w \in Worker, WorkerExitRecord(w)
      PROVE  WorkerInv'
  BY <1>31 DEF WorkerExitRecord, Goto, ownerVars, sockVars
<1>32. ASSUME NEW w \in Worker, WorkerExitUnlock(w)
      PROVE  WorkerInv'
  BY <1>32 DEF WorkerExitUnlock, Goto, ownerVars, sockVars, sharedVars
<1>33. ASSUME NEW w \in Worker, WorkerExitTerm(w)
      PROVE  WorkerInv'
  BY <1>33 DEF WorkerExitTerm, Goto, ownerVars, sockVars
<1>34. ASSUME NEW w \in Worker, WorkerUnwind(w)
      PROVE  WorkerInv'
  BY <1>34 DEF WorkerUnwind, Goto, ownerVars, sockVars
<1>35. QED
  BY <1>1, <1>2, <1>3, <1>4, <1>5, <1>6, <1>7, <1>8, <1>9, <1>10, <1>11, <1>12,
     <1>13, <1>14, <1>15, <1>16, <1>17, <1>18, <1>19, <1>20, <1>21, <1>22,
     <1>23, <1>24, <1>25, <1>26, <1>27, <1>28, <1>29, <1>30, <1>31, <1>32,
     <1>33, <1>34
     DEF Next, OwnerCall, OwnerStep, EndStep, SendStep, WorkerStep

LEMMA SocketStep ==
  ASSUME NEW pcs, NEW codes, Types(pcs, codes), WorkerInv, SocketInv,
         [Next]_vars
  PROVE  SocketInv'
<1> USE TcpSenderAssumption
  DEF SocketInv, SocketOutlivesWorker, WorkerInv, Active, QuietPcs, Types, OwnerTypes, SharedTypes, WorkerTypes,
  EndPcs, InitPcs, SendPcs,
  SendingPcs, HoldPcs, ExitPcs
<1>1. CASE UNCHANGED vars
  BY <1>1 DEF vars, ownerVars, sockVars, sharedVars, workerVars
<1>2. ASSUME NEW caller \in {"idle", "init_reset"}, EndSender(caller)
      PROVE  SocketInv'
  BY <1>2 DEF EndSender, sockVars, sharedVars, workerVars
<1>3. ASSUME NEW l \in Lists, Send(l)
      PROVE  SocketInv'
  BY <1>3 DEF Send, sockVars, sharedVars, workerVars
<1>4. CASE EndTerminate
  BY <1>4 DEF EndTerminate, sockVars, workerVars
<1>5. CASE EndLock
  BY <1>5 DEF EndLock, sockVars, sharedVars, workerVars
<1>6. CASE EndCritical
  BY <1>6 DEF EndCritical, Signal, Waiters, sockVars
<1>7. CASE EndWait
  BY <1>7 DEF EndWait, sockVars, sharedVars, workerVars
<1>8. CASE EndClose
  BY <1>8 DEF EndClose, sharedVars, workerVars
<1>9. CASE InitReset
  BY <1>9 DEF InitReset, sockVars, workerVars
<1>10. CASE InitServer
  BY <1>10 DEF InitServer, sharedVars, workerVars
<1>11. CASE InitClient
  BY <1>11 DEF InitClient, sharedVars, workerVars
<1>12. CASE InitThread
  BY <1>12 DEF InitThread, sockVars, sharedVars
<1>13. CASE InitWait
  BY <1>13 DEF InitWait, sockVars, sharedVars, workerVars
<1>14. CASE SendDone
  BY <1>14 DEF SendDone, sockVars, sharedVars, workerVars
<1>15. CASE SendLock
  BY <1>15 DEF SendLock, sockVars, sharedVars, workerVars
<1>16. CASE SendCritical
  BY <1>16 DEF SendCritical, Signal, Waiters, sockVars
<1>17. CASE GetError
  BY <1>17 DEF GetError, sockVars, sharedVars, workerVars
<1>18. ASSUME NEW w \in Worker, WorkerStart(w)
      PROVE  SocketInv'
  BY <1>18 DEF WorkerStart, Goto, ownerVars, sockVars
<1>19. ASSUME NEW w \in Worker, WorkerAnnounce(w)
      PROVE  SocketInv'
  BY <1>19 DEF WorkerAnnounce, Goto, ownerVars, sockVars
<1>20. ASSUME NEW w \in Worker, WorkerSetup(w)
      PROVE  SocketInv'
  BY <1>20 DEF WorkerSetup, Goto, Exit, ownerVars, sockVars, sharedVars
<1>21. ASSUME NEW w \in Worker, WorkerLoop(w)
      PROVE  SocketInv'
  BY <1>21 DEF WorkerLoop, Goto, Exit, ownerVars, sockVars, sharedVars
<1>22. ASSUME NEW w \in Worker, WorkerLock(w)
      PROVE  SocketInv'
  BY <1>22 DEF WorkerLock, Goto, ownerVars, sockVars, sharedVars
<1>23. ASSUME NEW w \in Worker, WorkerCheck(w)
      PROVE  SocketInv'
  BY <1>23 DEF WorkerCheck, Goto, ownerVars, sockVars, sharedVars
<1>24. ASSUME NEW w \in Worker, WorkerTake(w)
      PROVE  SocketInv'
  BY <1>24 DEF WorkerTake, Goto, ownerVars, sockVars
<1>25. ASSUME NEW w \in Worker, WorkerCheckTerm(w)
      PROVE  SocketInv'
  BY <1>25 DEF WorkerCheckTerm, Goto, Exit, ownerVars, sockVars, sharedVars
<1>26. ASSUME NEW w \in Worker, WorkerWait(w)
      PROVE  SocketInv'
  BY <1>26 DEF WorkerWait, Goto, ownerVars, sockVars, sharedVars
<1>27. ASSUME NEW w \in Worker, SpuriousWakeup(w)
      PROVE  SocketInv'
  BY <1>27 DEF SpuriousWakeup, Goto, ownerVars, sockVars, sharedVars
<1>28. ASSUME NEW w \in Worker, WorkerSend(w)
      PROVE  SocketInv'
  BY <1>28 DEF WorkerSend, Goto, Exit, ownerVars, sockVars, sharedVars
<1>29. ASSUME NEW w \in Worker, WorkerSent(w)
      PROVE  SocketInv'
  BY <1>29 DEF WorkerSent, Goto, Exit, ownerVars, sockVars, sharedVars
<1>30. ASSUME NEW w \in Worker, WorkerDone(w)
      PROVE  SocketInv'
  BY <1>30 DEF WorkerDone, Goto, ownerVars, sockVars
<1>31. ASSUME NEW w \in Worker, WorkerExitRecord(w)
      PROVE  SocketInv'
  BY <1>31 DEF WorkerExitRecord, Goto, ownerVars, sockVars
<1>32. ASSUME NEW w \in Worker, WorkerExitUnlock(w)
      PROVE  SocketInv'
  BY <1>32 DEF WorkerExitUnlock, Goto, ownerVars, sockVars, sharedVars
<1>33. ASSUME NEW w \in Worker, WorkerExitTerm(w)
      PROVE  SocketInv'
  BY <1>33 DEF WorkerExitTerm, Goto, ownerVars, sockVars
<1>34. ASSUME NEW w \in Worker, WorkerUnwind(w)
      PROVE  SocketInv'
  BY <1>34 DEF WorkerUnwind, Goto, ownerVars, sockVars
<1>35. QED
  BY <1>1, <1>2, <1>3, <1>4, <1>5, <1>6, <1>7, <1>8, <1>9, <1>10, <1>11, <1>12,
     <1>13, <1>14, <1>15, <1>16, <1>17, <1>18, <1>19, <1>20, <1>21, <1>22,
     <1>23, <1>24, <1>25, <1>26, <1>27, <1>28, <1>29, <1>30, <1>31, <1>32,
     <1>33, <1>34
     DEF Next, OwnerCall, OwnerStep, EndStep, SendStep, WorkerStep

LEMMA SessionStep ==
  ASSUME NEW pcs, NEW codes, Types(pcs, codes), WorkerInv, SessionInv, DataInv,
         [Next]_vars
  PROVE  SessionInv'
<1> USE TcpSenderAssumption
  DEF SessionInv, DataInv, WorkerInv, Active, QuietPcs, Types, OwnerTypes, SharedTypes, WorkerTypes,
  EndPcs, InitPcs, SendPcs,
  SendingPcs, HoldPcs, ExitPcs
<1>1. CASE UNCHANGED vars
  BY <1>1 DEF vars, ownerVars, sockVars, sharedVars, workerVars
<1>2. ASSUME NEW caller \in {"idle", "init_reset"}, EndSender(caller)
      PROVE  SessionInv'
  BY <1>2 DEF EndSender, sockVars, sharedVars, workerVars
<1>3. ASSUME NEW l \in Lists, Send(l)
      PROVE  SessionInv'
  BY <1>3 DEF Send, sockVars, sharedVars, workerVars
<1>4. CASE EndTerminate
  BY <1>4 DEF EndTerminate, sockVars, workerVars
<1>5. CASE EndLock
  BY <1>5 DEF EndLock, sockVars, sharedVars, workerVars
<1>6. CASE EndCritical
  BY <1>6 DEF EndCritical, Signal, Waiters, sockVars
<1>7. CASE EndWait
  BY <1>7 DEF EndWait, sockVars, sharedVars, workerVars
<1>8. CASE EndClose
  BY <1>8 DEF EndClose, sharedVars, workerVars
<1>9. CASE InitReset
  BY <1>9 DEF InitReset, sockVars, workerVars
<1>10. CASE InitServer
  BY <1>10 DEF InitServer, sharedVars, workerVars
<1>11. CASE InitClient
  BY <1>11 DEF InitClient, sharedVars, workerVars
<1>12. CASE InitThread
  BY <1>12 DEF InitThread, sockVars, sharedVars
<1>13. CASE InitWait
  BY <1>13 DEF InitWait, sockVars, sharedVars, workerVars
<1>14. CASE SendDone
  BY <1>14 DEF SendDone, sockVars, sharedVars, workerVars
<1>15. CASE SendLock
  BY <1>15 DEF SendLock, sockVars, sharedVars, workerVars
<1>16. CASE SendCritical
  BY <1>16 DEF SendCritical, Signal, Waiters, sockVars
<1>17. CASE GetError
  BY <1>17 DEF GetError, sockVars, sharedVars, workerVars
<1>18. ASSUME NEW w \in Worker, WorkerStart(w)
      PROVE  SessionInv'
  BY <1>18 DEF WorkerStart, Goto, ownerVars, sockVars
<1>19. ASSUME NEW w \in Worker, WorkerAnnounce(w)
      PROVE  SessionInv'
  BY <1>19 DEF WorkerAnnounce, Goto, ownerVars, sockVars
<1>20. ASSUME NEW w \in Worker, WorkerSetup(w)
      PROVE  SessionInv'
  BY <1>20 DEF WorkerSetup, Goto, Exit, ownerVars, sockVars, sharedVars
<1>21. ASSUME NEW w \in Worker, WorkerLoop(w)
      PROVE  SessionInv'
  BY <1>21 DEF WorkerLoop, Goto, Exit, ownerVars, sockVars, sharedVars
<1>22. ASSUME NEW w \in Worker, WorkerLock(w)
      PROVE  SessionInv'
  BY <1>22 DEF WorkerLock, Goto, ownerVars, sockVars, sharedVars
<1>23. ASSUME NEW w \in Worker, WorkerCheck(w)
      PROVE  SessionInv'
  BY <1>23 DEF WorkerCheck, Goto, ownerVars, sockVars, sharedVars
<1>24. ASSUME NEW w \in Worker, WorkerTake(w)
      PROVE  SessionInv'
  BY <1>24 DEF WorkerTake, Goto, ownerVars, sockVars
<1>25. ASSUME NEW w \in Worker, WorkerCheckTerm(w)
      PROVE  SessionInv'
  BY <1>25 DEF WorkerCheckTerm, Goto, Exit, ownerVars, sockVars, sharedVars
<1>26. ASSUME NEW w \in Worker, WorkerWait(w)
      PROVE  SessionInv'
  BY <1>26 DEF WorkerWait, Goto, ownerVars, sockVars, sharedVars
<1>27. ASSUME NEW w \in Worker, SpuriousWakeup(w)
      PROVE  SessionInv'
  BY <1>27 DEF SpuriousWakeup, Goto, ownerVars, sockVars, sharedVars
<1>28. ASSUME NEW w \in Worker, WorkerSend(w)
      PROVE  SessionInv'
  BY <1>28 DEF WorkerSend, Goto, Exit, ownerVars, sockVars, sharedVars
<1>29. ASSUME NEW w \in Worker, WorkerSent(w)
      PROVE  SessionInv'
  BY <1>29 DEF WorkerSent, Goto, Exit, ownerVars, sockVars, sharedVars
<1>30. ASSUME NEW w \in Worker, WorkerDone(w)
      PROVE  SessionInv'
  BY <1>30 DEF WorkerDone, Goto, ownerVars, sockVars
<1>31. ASSUME NEW w \in Worker, WorkerExitRecord(w)
      PROVE  SessionInv'
  BY <1>31 DEF WorkerExitRecord, Goto, ownerVars, sockVars
<1>32. ASSUME NEW w \in Worker, WorkerExitUnlock(w)
      PROVE  SessionInv'
  BY <1>32 DEF WorkerExitUnlock, Goto, ownerVars, sockVars, sharedVars
<1>33. ASSUME NEW w \in Worker, WorkerExitTerm(w)
      PROVE  SessionInv'
  BY <1>33 DEF WorkerExitTerm, Goto, ownerVars, sockVars
<1>34. ASSUME NEW w \in Worker, WorkerUnwind(w)
      PROVE  SessionInv'
  BY <1>34 DEF WorkerUnwind, Goto, ownerVars, sockVars
<1>35. QED
  BY <1>1, <1>2, <1>3, <1>4, <1>5, <1>6, <1>7, <1>8, <1>9, <1>10, <1>11, <1>12,
     <1>13, <1>14, <1>15, <1>16, <1>17, <1>18, <1>19, <1>20, <1>21, <1>22,
     <1>23, <1>24, <1>25, <1>26, <1>27, <1>28, <1>29, <1>30, <1>31, <1>32,
     <1>33, <1>34
     DEF Next, OwnerCall, OwnerStep, EndStep, SendStep, WorkerStep

LEMMA MutexStep ==
  ASSUME NEW pcs, NEW codes, Types(pcs, codes), WorkerInv, MutexInv,
         [Next]_vars
  PROVE  MutexInv'
<1> USE TcpSenderAssumption
  DEF MutexInv, WorkerInv, Active, QuietPcs, Types, OwnerTypes, SharedTypes, WorkerTypes,
  EndPcs, InitPcs, SendPcs,
  SendingPcs, HoldPcs, ExitPcs
<1>1. CASE UNCHANGED vars
  BY <1>1 DEF vars, ownerVars, sockVars, sharedVars, workerVars
<1>2. ASSUME NEW caller \in {"idle", "init_reset"}, EndSender(caller)
      PROVE  MutexInv'
  BY <1>2 DEF EndSender, sockVars, sharedVars, workerVars
<1>3. ASSUME NEW l \in Lists, Send(l)
      PROVE  MutexInv'
  BY <1>3 DEF Send, sockVars, sharedVars, workerVars
<1>4. CASE EndTerminate
  BY <1>4 DEF EndTerminate, sockVars, workerVars
<1>5. CASE EndLock
  BY <1>5 DEF EndLock, sockVars, sharedVars, workerVars
<1>6. CASE EndCritical
  BY <1>6 DEF EndCritical, Signal, Waiters, sockVars
<1>7. CASE EndWait
  BY <1>7 DEF EndWait, sockVars, sharedVars, workerVars
<1>8. CASE EndClose
  BY <1>8 DEF EndClose, sharedVars, workerVars
<1>9. CASE InitReset
  BY <1>9 DEF InitReset, sockVars, workerVars
<1>10. CASE InitServer
  BY <1>10 DEF InitServer, sharedVars, workerVars
<1>11. CASE InitClient
  BY <1>11 DEF InitClient, sharedVars, workerVars
<1>12. CASE InitThread
  BY <1>12 DEF InitThread, sockVars, sharedVars
<1>13. CASE InitWait
  BY <1>13 DEF InitWait, sockVars, sharedVars, workerVars
<1>14. CASE SendDone
  BY <1>14 DEF SendDone, sockVars, sharedVars, workerVars
<1>15. CASE SendLock
  BY <1>15 DEF SendLock, sockVars, sharedVars, workerVars
<1>16. CASE SendCritical
  BY <1>16 DEF SendCritical, Signal, Waiters, sockVars
<1>17. CASE GetError
  BY <1>17 DEF GetError, sockVars, sharedVars, workerVars
<1>18. ASSUME NEW w \in Worker, WorkerStart(w)
      PROVE  MutexInv'
  BY <1>18 DEF WorkerStart, Goto, ownerVars, sockVars
<1>19. ASSUME NEW w \in Worker, WorkerAnnounce(w)
      PROVE  MutexInv'
  BY <1>19 DEF WorkerAnnounce, Goto, ownerVars, sockVars
<1>20. ASSUME NEW w \in Worker, WorkerSetup(w)
      PROVE  MutexInv'
  BY <1>20 DEF WorkerSetup, Goto, Exit, ownerVars, sockVars, sharedVars
<1>21. ASSUME NEW w \in Worker, WorkerLoop(w)
      PROVE  MutexInv'
  BY <1>21 DEF WorkerLoop, Goto, Exit, ownerVars, sockVars, sharedVars
<1>22. ASSUME NEW w \in Worker, WorkerLock(w)
      PROVE  MutexInv'
  BY <1>22 DEF WorkerLock, Goto, ownerVars, sockVars, sharedVars
<1>23. ASSUME NEW w \in Worker, WorkerCheck(w)
      PROVE  MutexInv'
  BY <1>23 DEF WorkerCheck, Goto, ownerVars, sockVars, sharedVars
<1>24. ASSUME NEW w \in Worker, WorkerTake(w)
      PROVE  MutexInv'
  BY <1>24 DEF WorkerTake, Goto, ownerVars, sockVars
<1>25. ASSUME NEW w \in Worker, WorkerCheckTerm(w)
      PROVE  MutexInv'
  BY <1>25 DEF WorkerCheckTerm, Goto, Exit, ownerVars, sockVars, sharedVars
<1>26. ASSUME NEW w \in Worker, WorkerWait(w)
      PROVE  MutexInv'
  BY <1>26 DEF WorkerWait, Goto, ownerVars, sockVars, sharedVars
<1>27. ASSUME NEW w \in Worker, SpuriousWakeup(w)
      PROVE  MutexInv'
  BY <1>27 DEF SpuriousWakeup, Goto, ownerVars, sockVars, sharedVars
<1>28. ASSUME NEW w \in Worker, WorkerSend(w)
      PROVE  MutexInv'
  BY <1>28 DEF WorkerSend, Goto, Exit, ownerVars, sockVars, sharedVars
<1>29. ASSUME NEW w \in Worker, WorkerSent(w)
      PROVE  MutexInv'
  BY <1>29 DEF WorkerSent, Goto, Exit, ownerVars, sockVars, sharedVars
<1>30. ASSUME NEW w \in Worker, WorkerDone(w)
      PROVE  MutexInv'
  BY <1>30 DEF WorkerDone, Goto, ownerVars, sockVars
<1>31. ASSUME NEW w \in Worker, WorkerExitRecord(w)
      PROVE  MutexInv'
  BY <1>31 DEF WorkerExitRecord, Goto, ownerVars, sockVars
<1>32. ASSUME NEW w \in Worker, WorkerExitUnlock(w)
      PROVE  MutexInv'
  BY <1>32 DEF WorkerExitUnlock, Goto, ownerVars, sockVars, sharedVars
<1>33. ASSUME NEW w \in Worker, WorkerExitTerm(w)
      PROVE  MutexInv'
  BY <1>33 DEF WorkerExitTerm, Goto, ownerVars, sockVars
<1>34. ASSUME NEW w \in Worker, WorkerUnwind(w)
      PROVE  MutexInv'
  BY <1>34 DEF WorkerUnwind, Goto, ownerVars, sockVars
<1>35. QED
  BY <1>1, <1>2, <1>3, <1>4, <1>5, <1>6, <1>7, <1>8, <1>9, <1>10, <1>11, <1>12,
     <1>13, <1>14, <1>15, <1>16, <1>17, <1>18, <1>19, <1>20, <1>21, <1>22,
     <1>23, <1>24, <1>25, <1>26, <1>27, <1>28, <1>29, <1>30, <1>31, <1>32,
     <1>33, <1>34
     DEF Next, OwnerCall, OwnerStep, EndStep, SendStep, WorkerStep

(* The units owed are those of the list in hand: nothing is lost or counted *)
(* twice between send, WorkerTake, WorkerSend and WorkerDone.               *)
LEMMA DataStep ==
  ASSUME NEW pcs, NEW codes, Types(pcs, codes), WorkerInv, SessionInv, DataInv,
         [Next]_vars
  PROVE  DataInv'
<1> USE TcpSenderAssumption
  DEF DataInv, DoneMeansSent, Units, AnyList, SessionInv,
  WorkerInv, OneWorker, Active, QuietPcs, Types, OwnerTypes, SharedTypes, WorkerTypes,
  EndPcs, InitPcs, SendPcs,
  SendingPcs, HoldPcs, ExitPcs
<1>1. CASE UNCHANGED vars
  BY <1>1 DEF vars, ownerVars, sockVars, sharedVars, workerVars
<1>2. ASSUME NEW caller \in {"idle", "init_reset"}, EndSender(caller)
      PROVE  DataInv'
  BY <1>2 DEF EndSender, sockVars, sharedVars, workerVars
<1>3. ASSUME NEW l \in Lists, Send(l)
      PROVE  DataInv'
  BY <1>3 DEF Send, sockVars, sharedVars, workerVars
<1>4. CASE EndTerminate
  BY <1>4 DEF EndTerminate, sockVars, workerVars
<1>5. CASE EndLock
  BY <1>5 DEF EndLock, sockVars, sharedVars, workerVars
<1>6. CASE EndCritical
  BY <1>6 DEF EndCritical, Signal, Waiters, sockVars
<1>7. CASE EndWait
  BY <1>7 DEF EndWait, sockVars, sharedVars, workerVars
<1>8. CASE EndClose
  BY <1>8 DEF EndClose, sharedVars, workerVars
<1>9. CASE InitReset
  BY <1>9 DEF InitReset, sockVars, workerVars
<1>10. CASE InitServer
  BY <1>10 DEF InitServer, sharedVars, workerVars
<1>11. CASE InitClient
  BY <1>11 DEF InitClient, sharedVars, workerVars
<1>12. CASE InitThread
  BY <1>12 DEF InitThread, sockVars, sharedVars
<1>13. CASE InitWait
  BY <1>13 DEF InitWait, sockVars, sharedVars, workerVars
<1>14. CASE SendDone
  BY <1>14 DEF SendDone, sockVars, sharedVars, workerVars
<1>15. CASE SendLock
  BY <1>15 DEF SendLock, sockVars, sharedVars, workerVars
<1>16. CASE SendCritical
  BY <1>16 DEF SendCritical, Signal, Waiters, sockVars
<1>17. CASE GetError
  BY <1>17 DEF GetError, sockVars, sharedVars, workerVars
<1>18. ASSUME NEW w \in Worker, WorkerStart(w)
      PROVE  DataInv'
  BY <1>18 DEF WorkerStart, Goto, ownerVars, sockVars
<1>19. ASSUME NEW w \in Worker, WorkerAnnounce(w)
      PROVE  DataInv'
  BY <1>19 DEF WorkerAnnounce, Goto, ownerVars, sockVars
<1>20. ASSUME NEW w \in Worker, WorkerSetup(w)
      PROVE  DataInv'
  BY <1>20 DEF WorkerSetup, Goto, Exit, ownerVars, sockVars, sharedVars
<1>21. ASSUME NEW w \in Worker, WorkerLoop(w)
      PROVE  DataInv'
  BY <1>21 DEF WorkerLoop, Goto, Exit, ownerVars, sockVars, sharedVars
<1>22. ASSUME NEW w \in Worker, WorkerLock(w)
      PROVE  DataInv'
  BY <1>22 DEF WorkerLock, Goto, ownerVars, sockVars, sharedVars
<1>23. ASSUME NEW w \in Worker, WorkerCheck(w)
      PROVE  DataInv'
  BY <1>23 DEF WorkerCheck, Goto, ownerVars, sockVars, sharedVars
<1>24. ASSUME NEW w \in Worker, WorkerTake(w)
      PROVE  DataInv'
  BY <1>24 DEF WorkerTake, Goto, ownerVars, sockVars
<1>25. ASSUME NEW w \in Worker, WorkerCheckTerm(w)
      PROVE  DataInv'
  BY <1>25 DEF WorkerCheckTerm, Goto, Exit, ownerVars, sockVars, sharedVars
<1>26. ASSUME NEW w \in Worker, WorkerWait(w)
      PROVE  DataInv'
  BY <1>26 DEF WorkerWait, Goto, ownerVars, sockVars, sharedVars
<1>27. ASSUME NEW w \in Worker, SpuriousWakeup(w)
      PROVE  DataInv'
  BY <1>27 DEF SpuriousWakeup, Goto, ownerVars, sockVars, sharedVars
<1>28. ASSUME NEW w \in Worker, WorkerSend(w)
      PROVE  DataInv'
  <2>1. UNCHANGED <<opc, packets_list, is_done>>
    BY <1>28 DEF WorkerSend, Goto, Exit, ownerVars, sockVars, sharedVars
  <2>2. \A v \in Worker : v # w => wpc[v] \notin SendingPcs /\ wpc'[v] = wpc[v]
    BY <1>28 DEF WorkerSend, Goto, Exit, ownerVars, sockVars, sharedVars
  <2>3. ~is_done /\ packets_list = NULL /\ debt = Units(buf[w])
    BY <1>28 DEF WorkerSend
  <2>4. CASE \E s \in 1..buf[w].size :
               /\ buf' = [buf EXCEPT ![w] = [size |-> @.size - s, tail |-> @.tail]]
               /\ debt' = debt - s
    <3>1. debt' = Units(buf'[w]) /\ wpc'[w] # "done"
      BY <1>28, <2>3, <2>4
         DEF WorkerSend, Goto, Exit, ownerVars, sockVars, sharedVars
    <3>. QED
      BY <2>1, <2>2, <2>3, <3>1
  <2>5. CASE UNCHANGED <<buf, debt>>
    BY <1>28, <2>1, <2>2, <2>3, <2>5
       DEF WorkerSend, Goto, Exit, ownerVars, sockVars, sharedVars
  <2>6. QED
    BY <1>28, <2>4, <2>5 DEF WorkerSend
<1>29. ASSUME NEW w \in Worker, WorkerSent(w)
      PROVE  DataInv'
  BY <1>29 DEF WorkerSent, Goto, Exit, ownerVars, sockVars, sharedVars
<1>30. ASSUME NEW w \in Worker, WorkerDone(w)
      PROVE  DataInv'
  BY <1>30 DEF WorkerDone, Goto, ownerVars, sockVars
<1>31. ASSUME NEW w \in Worker, WorkerExitRecord(w)
      PROVE  DataInv'
  BY <1>31 DEF WorkerExitRecord, Goto, ownerVars, sockVars
<1>32. ASSUME NEW w \in Worker, WorkerExitUnlock(w)
      PROVE  DataInv'
  BY <1>32 DEF WorkerExitUnlock, Goto, ownerVars, sockVars, sharedVars
<1>33. ASSUME NEW w \in Worker, WorkerExitTerm(w)
      PROVE  DataInv'
  BY <1>33 DEF WorkerExitTerm, Goto, ownerVars, sockVars
<1>34. ASSUME NEW w \in Worker, WorkerUnwind(w)
      PROVE  DataInv'
  BY <1>34 DEF WorkerUnwind, Goto, ownerVars, sockVars
<1>35. QED
  BY <1>1, <1>2, <1>3, <1>4, <1>5, <1>6, <1>7, <1>8, <1>9, <1>10, <1>11, <1>12,
     <1>13, <1>14, <1>15, <1>16, <1>17, <1>18, <1>19, <1>20, <1>21, <1>22,
     <1>23, <1>24, <1>25, <1>26, <1>27, <1>28, <1>29, <1>30, <1>31, <1>32,
     <1>33, <1>34
     DEF Next, OwnerCall, OwnerStep, EndStep, SendStep, WorkerStep

LEMMA WakeStep ==
  ASSUME NEW pcs, NEW codes, Types(pcs, codes), WorkerInv, SessionInv, MutexInv, WakeInv,
         [Next]_vars
  PROVE  WakeInv'
<1> USE TcpSenderAssumption
  DEF WakeInv, NoLostWakeup, MutexInv, SessionInv,
  WorkerInv, OneWorker, Active, QuietPcs, Types, OwnerTypes, SharedTypes, WorkerTypes,
  EndPcs, InitPcs, SendPcs,
  SendingPcs, HoldPcs, ExitPcs
<1>1. CASE UNCHANGED vars
  BY <1>1 DEF vars, ownerVars, sockVars, sharedVars, workerVars
<1>2. ASSUME NEW caller \in {"idle", "init_reset"}, EndSender(caller)
      PROVE  WakeInv'
  BY <1>2 DEF EndSender, sockVars, sharedVars, workerVars
<1>3. ASSUME NEW l \in Lists, Send(l)
      PROVE  WakeInv'
  BY <1>3 DEF Send, sockVars, sharedVars, workerVars
<1>4. CASE EndTerminate
  BY <1>4 DEF EndTerminate, sockVars, workerVars
<1>5. CASE EndLock
  BY <1>5 DEF EndLock, sockVars, sharedVars, workerVars
<1>6. CASE EndCritical
  BY <1>6 DEF EndCritical, Signal, Waiters, sockVars
<1>7. CASE EndWait
  BY <1>7 DEF EndWait, sockVars, sharedVars, workerVars
<1>8. CASE EndClose
  BY <1>8 DEF EndClose, sharedVars, workerVars
<1>9. CASE InitReset
  BY <1>9 DEF InitReset, sockVars, workerVars
<1>10. CASE InitServer
  BY <1>10 DEF InitServer, sharedVars, workerVars
<1>11. CASE InitClient
  BY <1>11 DEF InitClient, sharedVars, workerVars
<1>12. CASE InitThread
  BY <1>12 DEF InitThread, sockVars, sharedVars
<1>13. CASE InitWait
  BY <1>13 DEF InitWait, sockVars, sharedVars, workerVars
<1>14. CASE SendDone
  BY <1>14 DEF SendDone, sockVars, sharedVars, workerVars
<1>15. CASE SendLock
  BY <1>15 DEF SendLock, sockVars, sharedVars, workerVars
<1>16. CASE SendCritical
  BY <1>16 DEF SendCritical, Signal, Waiters, sockVars
<1>17. CASE GetError
  BY <1>17 DEF GetError, sockVars, sharedVars, workerVars
<1>18. ASSUME NEW w \in Worker, WorkerStart(w)
      PROVE  WakeInv'
  BY <1>18 DEF WorkerStart, Goto, ownerVars, sockVars
<1>19. ASSUME NEW w \in Worker, WorkerAnnounce(w)
      PROVE  WakeInv'
  BY <1>19 DEF WorkerAnnounce, Goto, ownerVars, sockVars
<1>20. ASSUME NEW w \in Worker, WorkerSetup(w)
      PROVE  WakeInv'
  BY <1>20 DEF WorkerSetup, Goto, Exit, ownerVars, sockVars, sharedVars
<1>21. ASSUME NEW w \in Worker, WorkerLoop(w)
      PROVE  WakeInv'
  BY <1>21 DEF WorkerLoop, Goto, Exit, ownerVars, sockVars, sharedVars
<1>22. ASSUME NEW w \in Worker, WorkerLock(w)
      PROVE  WakeInv'
  BY <1>22 DEF WorkerLock, Goto, ownerVars, sockVars, sharedVars
<1>23. ASSUME NEW w \in Worker, WorkerCheck(w)
      PROVE  WakeInv'
  BY <1>23 DEF WorkerCheck, Goto, ownerVars, sockVars, sharedVars
<1>24. ASSUME NEW w \in Worker, WorkerTake(w)
      PROVE  WakeInv'
  BY <1>24 DEF WorkerTake, Goto, ownerVars, sockVars
<1>25. ASSUME NEW w \in Worker, WorkerCheckTerm(w)
      PROVE  WakeInv'
  BY <1>25 DEF WorkerCheckTerm, Goto, Exit, ownerVars, sockVars, sharedVars
<1>26. ASSUME NEW w \in Worker, WorkerWait(w)
      PROVE  WakeInv'
  BY <1>26 DEF WorkerWait, Goto, ownerVars, sockVars, sharedVars
<1>27. ASSUME NEW w \in Worker, SpuriousWakeup(w)
      PROVE  WakeInv'
  BY <1>27 DEF SpuriousWakeup, Goto, ownerVars, sockVars, sharedVars
<1>28. ASSUME NEW w \in Worker, WorkerSend(w)
      PROVE  WakeInv'
  BY <1>28 DEF WorkerSend, Goto, Exit, ownerVars, sockVars, sharedVars
<1>29. ASSUME NEW w \in Worker, WorkerSent(w)
      PROVE  WakeInv'
  BY <1>29 DEF WorkerSent, Goto, Exit, ownerVars, sockVars, sharedVars
<1>30. ASSUME NEW w \in Worker, WorkerDone(w)
      PROVE  WakeInv'
  BY <1>30 DEF WorkerDone, Goto, ownerVars, sockVars
<1>31. ASSUME NEW w \in Worker, WorkerExitRecord(w)
      PROVE  WakeInv'
  BY <1>31 DEF WorkerExitRecord, Goto, ownerVars, sockVars
<1>32. ASSUME NEW w \in Worker, WorkerExitUnlock(w)
      PROVE  WakeInv'
  BY <1>32 DEF WorkerExitUnlock, Goto, ownerVars, sockVars, sharedVars
<1>33. ASSUME NEW w \in Worker, WorkerExitTerm(w)
      PROVE  WakeInv'
  BY <1>33 DEF WorkerExitTerm, Goto, ownerVars, sockVars
<1>34. ASSUME NEW w \in Worker, WorkerUnwind(w)
      PROVE  WakeInv'
  BY <1>34 DEF WorkerUnwind, Goto, ownerVars, sockVars
<1>35. QED
  BY <1>1, <1>2, <1>3, <1>4, <1>5, <1>6, <1>7, <1>8, <1>9, <1>10, <1>11, <1>12,
     <1>13, <1>14, <1>15, <1>16, <1>17, <1>18, <1>19, <1>20, <1>21, <1>22,
     <1>23, <1>24, <1>25, <1>26, <1>27, <1>28, <1>29, <1>30, <1>31, <1>32,
     <1>33, <1>34
     DEF Next, OwnerCall, OwnerStep, EndStep, SendStep, WorkerStep

LEMMA ErrorStep ==
  ASSUME NEW pcs, NEW codes, Types(pcs, codes), WorkerInv, SessionInv, ErrorInv,
         [Next]_vars
  PROVE  ErrorInv'
<1> USE TcpSenderAssumption
  DEF ErrorInv, Ended, SessionInv, SetupErrors,
  WorkerInv, OneWorker, Active, QuietPcs, Types, OwnerTypes, SharedTypes, WorkerTypes,
  EndPcs, InitPcs, SendPcs,
  SendingPcs, HoldPcs, ExitPcs
<1>1. CASE UNCHANGED vars
  BY <1>1 DEF vars, ownerVars, sockVars, sharedVars, workerVars
<1>2. ASSUME NEW caller \in {"idle", "init_reset"}, EndSender(caller)
      PROVE  ErrorInv'
  BY <1>2 DEF EndSender, sockVars, sharedVars, workerVars
<1>3. ASSUME NEW l \in Lists, Send(l)
      PROVE  ErrorInv'
  BY <1>3 DEF Send, sockVars, sharedVars, workerVars
<1>4. CASE EndTerminate
  BY <1>4 DEF EndTerminate, sockVars, workerVars
<1>5. CASE EndLock
  BY <1>5 DEF EndLock, sockVars, sharedVars, workerVars
<1>6. CASE EndCritical
  BY <1>6 DEF EndCritical, Signal, Waiters, sockVars
<1>7. CASE EndWait
  BY <1>7 DEF EndWait, sockVars, sharedVars, workerVars
<1>8. CASE EndClose
  BY <1>8 DEF EndClose, sharedVars, workerVars
<1>9. CASE InitReset
  BY <1>9 DEF InitReset, sockVars, workerVars
<1>10. CASE InitServer
  BY <1>10 DEF InitServer, sharedVars, workerVars
<1>11. CASE InitClient
  BY <1>11 DEF InitClient, sharedVars, workerVars
<1>12. CASE InitThread
  BY <1>12 DEF InitThread, sockVars, sharedVars
<1>13. CASE InitWait
  BY <1>13 DEF InitWait, sockVars, sharedVars, workerVars
<1>14. CASE SendDone
  BY <1>14 DEF SendDone, sockVars, sharedVars, workerVars
<1>15. CASE SendLock
  BY <1>15 DEF SendLock, sockVars, sharedVars, workerVars
<1>16. CASE SendCritical
  BY <1>16 DEF SendCritical, Signal, Waiters, sockVars
<1>17. CASE GetError
  BY <1>17 DEF GetError, sockVars, sharedVars, workerVars
<1>18. ASSUME NEW w \in Worker, WorkerStart(w)
      PROVE  ErrorInv'
  BY <1>18 DEF WorkerStart, Goto, ownerVars, sockVars
<1>19. ASSUME NEW w \in Worker, WorkerAnnounce(w)
      PROVE  ErrorInv'
  BY <1>19 DEF WorkerAnnounce, Goto, ownerVars, sockVars
<1>20. ASSUME NEW w \in Worker, WorkerSetup(w)
      PROVE  ErrorInv'
  BY <1>20 DEF WorkerSetup, Goto, Exit, ownerVars, sockVars, sharedVars
<1>21. ASSUME NEW w \in Worker, WorkerLoop(w)
      PROVE  ErrorInv'
  BY <1>21 DEF WorkerLoop, Goto, Exit, ownerVars, sockVars, sharedVars
<1>22. ASSUME NEW w \in Worker, WorkerLock(w)
      PROVE  ErrorInv'
  BY <1>22 DEF WorkerLock, Goto, ownerVars, sockVars, sharedVars
<1>23. ASSUME NEW w \in Worker, WorkerCheck(w)
      PROVE  ErrorInv'
  BY <1>23 DEF WorkerCheck, Goto, ownerVars, sockVars, sharedVars
<1>24. ASSUME NEW w \in Worker, WorkerTake(w)
      PROVE  ErrorInv'
  BY <1>24 DEF WorkerTake, Goto, ownerVars, sockVars
<1>25. ASSUME NEW w \in Worker, WorkerCheckTerm(w)
      PROVE  ErrorInv'
  BY <1>25 DEF WorkerCheckTerm, Goto, Exit, ownerVars, sockVars, sharedVars
<1>26. ASSUME NEW w \in Worker, WorkerWait(w)
      PROVE  ErrorInv'
  BY <1>26 DEF WorkerWait, Goto, ownerVars, sockVars, sharedVars
<1>27. ASSUME NEW w \in Worker, SpuriousWakeup(w)
      PROVE  ErrorInv'
  BY <1>27 DEF SpuriousWakeup, Goto, ownerVars, sockVars, sharedVars
<1>28. ASSUME NEW w \in Worker, WorkerSend(w)
      PROVE  ErrorInv'
  BY <1>28 DEF WorkerSend, Goto, Exit, ownerVars, sockVars, sharedVars
<1>29. ASSUME NEW w \in Worker, WorkerSent(w)
      PROVE  ErrorInv'
  BY <1>29 DEF WorkerSent, Goto, Exit, ownerVars, sockVars, sharedVars
<1>30. ASSUME NEW w \in Worker, WorkerDone(w)
      PROVE  ErrorInv'
  BY <1>30 DEF WorkerDone, Goto, ownerVars, sockVars
<1>31. ASSUME NEW w \in Worker, WorkerExitRecord(w)
      PROVE  ErrorInv'
  BY <1>31 DEF WorkerExitRecord, Goto, ownerVars, sockVars
<1>32. ASSUME NEW w \in Worker, WorkerExitUnlock(w)
      PROVE  ErrorInv'
  BY <1>32 DEF WorkerExitUnlock, Goto, ownerVars, sockVars, sharedVars
<1>33. ASSUME NEW w \in Worker, WorkerExitTerm(w)
      PROVE  ErrorInv'
  BY <1>33 DEF WorkerExitTerm, Goto, ownerVars, sockVars
<1>34. ASSUME NEW w \in Worker, WorkerUnwind(w)
      PROVE  ErrorInv'
  BY <1>34 DEF WorkerUnwind, Goto, ownerVars, sockVars
<1>35. QED
  BY <1>1, <1>2, <1>3, <1>4, <1>5, <1>6, <1>7, <1>8, <1>9, <1>10, <1>11, <1>12,
     <1>13, <1>14, <1>15, <1>16, <1>17, <1>18, <1>19, <1>20, <1>21, <1>22,
     <1>23, <1>24, <1>25, <1>26, <1>27, <1>28, <1>29, <1>30, <1>31, <1>32,
     <1>33, <1>34
     DEF Next, OwnerCall, OwnerStep, EndStep, SendStep, WorkerStep

LEMMA InitIndInv == Init => IndInv
<1> SUFFICES ASSUME Init PROVE IndInv
  OBVIOUS
<1> USE TcpSenderAssumption
  DEF Init
<1>1. TypeOK
  <2>1. OwnerTypes(WorkerCodes)
    BY DEF OwnerTypes, OwnerPcs
  <2>2. SharedTypes(WorkerCodes)
    BY DEF SharedTypes, WorkerCodes, SetupErrors
  <2>3. WorkerTypes(WorkerPcs, WorkerCodes)
    BY DEF WorkerTypes, WorkerPcs, AnyList, Tails, WorkerCodes
  <2>. QED
    BY <2>1, <2>2, <2>3 DEF TypeOK, Types
<1>2. WorkerInv /\ SocketInv /\ SessionInv
  BY
     DEF WorkerInv, SocketInv, SessionInv, OneWorker, SocketOutlivesWorker,
         Active,
         QuietPcs, EndPcs, InitPcs, SendPcs
<1>3. MutexInv /\ DataInv /\ WakeInv /\ ErrorInv
  BY DEF MutexInv, DataInv, WakeInv, ErrorInv, DoneMeansSent, NoLostWakeup,
         SendingPcs, HoldPcs, ExitPcs
<1>. QED
  BY <1>1, <1>2, <1>3 DEF IndInv, ProtocolInv

\* Every step of TCPSender preserves the invariant, also for a worker that has
\* more statements and errors than that of TCPSender.
LEMMA ProtocolStep ==
  ASSUME FifoExit, NEW pcs, NEW codes, WorkerPcs \subseteq pcs, WorkerCodes \subseteq codes,
         Types(pcs, codes), ProtocolInv, [Next]_vars
  PROVE  Types(pcs, codes)' /\ ProtocolInv'
<1>1. Types(pcs, codes)'
  <2>1. OwnerTypes(codes)'
    BY OwnerTypeStep
  <2>2. SharedTypes(codes)'
    BY SharedTypeStep
  <2>3. WorkerTypes(pcs, codes)'
    BY WorkerTypeStep DEF ProtocolInv
  <2>. QED
    BY <2>1, <2>2, <2>3 DEF Types
<1>2. WorkerInv' /\ SocketInv' /\ SessionInv'
  BY WorkerStepInv, SocketStep, SessionStep DEF ProtocolInv
<1>3. MutexInv' /\ DataInv' /\ WakeInv' /\ ErrorInv'
  BY MutexStep, DataStep, WakeStep, ErrorStep DEF ProtocolInv
<1>. QED
  BY <1>1, <1>2, <1>3 DEF ProtocolInv

\* Everything the other theorems need: the invariant holds in every behavior.
THEOREM Invariance ==
  ASSUME FifoExit
  PROVE  Spec => []IndInv
<1>1. IndInv /\ [Next]_vars => IndInv'
  BY ProtocolStep DEF IndInv, TypeOK
<1>. QED
  BY InitIndInv, <1>1, PTL DEF Spec

\* No operation leaves its types; in particular no call of the worker sends more
\* than send accepted.
THEOREM TypeCorrect ==
  ASSUME FifoExit
  PROVE  Spec => []TypeOK
<1>1. IndInv => TypeOK
  BY DEF IndInv
<1>. QED
  BY Invariance, <1>1, PTL

\* is_send_done is never true while data that send accepted is not sent.
THEOREM DoneIsSent ==
  ASSUME FifoExit
  PROVE  Spec => []DoneMeansSent
<1>1. IndInv => DoneMeansSent
  BY DEF IndInv, ProtocolInv, DataInv
<1>. QED
  BY Invariance, <1>1, PTL

\* initialize never leaves two workers on the same SenderWorkerData.
THEOREM OneWorkerAtATime ==
  ASSUME FifoExit
  PROVE  Spec => []OneWorker
<1>1. IndInv => OneWorker
  BY DEF IndInv, ProtocolInv, WorkerInv
<1>. QED
  BY Invariance, <1>1, PTL

\* is_terminated_thread, which end_sender polls before it closes the sockets,
\* is never true while a worker runs.
THEOREM TerminatedIsTrue ==
  ASSUME FifoExit
  PROVE  Spec => []TerminatedMeansNoThread
<1>1. IndInv => TerminatedMeansNoThread
  BY DEF IndInv, ProtocolInv, WorkerInv, TerminatedMeansNoThread
<1>. QED
  BY Invariance, <1>1, PTL

\* end_sender closes the client's socket after the worker's last use of it.
THEOREM SocketIsSafe ==
  ASSUME FifoExit
  PROVE  Spec => []SocketOutlivesWorker
<1>1. IndInv => SocketOutlivesWorker
  BY DEF IndInv, ProtocolInv, SocketInv
<1>. QED
  BY Invariance, <1>1, PTL

\* A signal of packets_cond is never lost.
THEOREM SignalIsSeen ==
  ASSUME FifoExit
  PROVE  Spec => []NoLostWakeup
<1>1. IndInv => NoLostWakeup
  BY DEF IndInv, ProtocolInv, WakeInv
<1>. QED
  BY Invariance, <1>1, PTL

\* packets_mutex never leaks: no thread ends, or goes on to other work, with it.
THEOREM MutexIsReleased ==
  ASSUME FifoExit
  PROVE  Spec => []MutexHeldByRunning
<1>1. IndInv => MutexHeldByRunning
  BY DEF IndInv, ProtocolInv, MutexInv, MutexHeldByRunning, ExitPcs
<1>. QED
  BY Invariance, <1>1, PTL

\* send reports the error that ended the worker.
THEOREM ErrorIsReported ==
  ASSUME FifoExit
  PROVE  Spec => []ErrorFaithful
<1>1. IndInv => ErrorFaithful
  BY DEF IndInv, ProtocolInv, ErrorInv, Ended, ErrorFaithful, WorkerInv, SessionInv, InitPcs
<1>. QED
  BY Invariance, <1>1, PTL

LEMMA InitPhase == Init => Contract!Init
  BY DEF Init, Contract!Init, Phase

LEMMA PhaseStep ==
  ASSUME NEW pcs, NEW codes, Types(pcs, codes), ProtocolInv, [Next]_vars
  PROVE  [Contract!Next]_Phase
<1> USE TcpSenderAssumption
  DEF ProtocolInv, SessionInv, DataInv, WorkerInv, OneWorker, Active, QuietPcs,
  Types, OwnerTypes, SharedTypes, WorkerTypes, EndPcs, InitPcs, SendPcs,
  SendingPcs, HoldPcs, ExitPcs,
  Contract!Next, Contract!Open, Contract!Accept, Contract!Take, Contract!Complete,
  Contract!Fail, Contract!Close, Phase
<1>1. CASE UNCHANGED vars
  BY <1>1 DEF vars, ownerVars, sockVars, sharedVars, workerVars
<1>2. ASSUME NEW caller \in {"idle", "init_reset"}, EndSender(caller)
      PROVE  [Contract!Next]_Phase
  BY <1>2 DEF EndSender, sockVars, sharedVars, workerVars
<1>3. ASSUME NEW l \in Lists, Send(l)
      PROVE  [Contract!Next]_Phase
  BY <1>3 DEF Send, sockVars, sharedVars, workerVars
<1>4. CASE EndTerminate
  BY <1>4 DEF EndTerminate, sockVars, workerVars
<1>5. CASE EndLock
  BY <1>5 DEF EndLock, sockVars, sharedVars, workerVars
<1>6. CASE EndCritical
  BY <1>6 DEF EndCritical, Signal, Waiters, sockVars
<1>7. CASE EndWait
  BY <1>7 DEF EndWait, sockVars, sharedVars, workerVars
<1>8. CASE EndClose
  BY <1>8 DEF EndClose, sharedVars, workerVars
<1>9. CASE InitReset
  BY <1>9 DEF InitReset, sockVars, workerVars
<1>10. CASE InitServer
  BY <1>10 DEF InitServer, sharedVars, workerVars
<1>11. CASE InitClient
  BY <1>11 DEF InitClient, sharedVars, workerVars
<1>12. CASE InitThread
  BY <1>12 DEF InitThread, sockVars, sharedVars
<1>13. CASE InitWait
  BY <1>13 DEF InitWait, sockVars, sharedVars, workerVars
<1>14. CASE SendDone
  BY <1>14 DEF SendDone, sockVars, sharedVars, workerVars
<1>15. CASE SendLock
  BY <1>15 DEF SendLock, sockVars, sharedVars, workerVars
<1>16. CASE SendCritical
  BY <1>16 DEF SendCritical, Signal, Waiters, sockVars
<1>17. CASE GetError
  BY <1>17 DEF GetError, sockVars, sharedVars, workerVars
<1>18. ASSUME NEW w \in Worker, WorkerStart(w)
      PROVE  [Contract!Next]_Phase
  BY <1>18 DEF WorkerStart, Goto, ownerVars, sockVars
<1>19. ASSUME NEW w \in Worker, WorkerAnnounce(w)
      PROVE  [Contract!Next]_Phase
  BY <1>19 DEF WorkerAnnounce, Goto, ownerVars, sockVars
<1>20. ASSUME NEW w \in Worker, WorkerSetup(w)
      PROVE  [Contract!Next]_Phase
  BY <1>20 DEF WorkerSetup, Goto, Exit, ownerVars, sockVars, sharedVars
<1>21. ASSUME NEW w \in Worker, WorkerLoop(w)
      PROVE  [Contract!Next]_Phase
  BY <1>21 DEF WorkerLoop, Goto, Exit, ownerVars, sockVars, sharedVars
<1>22. ASSUME NEW w \in Worker, WorkerLock(w)
      PROVE  [Contract!Next]_Phase
  BY <1>22 DEF WorkerLock, Goto, ownerVars, sockVars, sharedVars
<1>23. ASSUME NEW w \in Worker, WorkerCheck(w)
      PROVE  [Contract!Next]_Phase
  BY <1>23 DEF WorkerCheck, Goto, ownerVars, sockVars, sharedVars
<1>24. ASSUME NEW w \in Worker, WorkerTake(w)
      PROVE  [Contract!Next]_Phase
  BY <1>24 DEF WorkerTake, Goto, ownerVars, sockVars
<1>25. ASSUME NEW w \in Worker, WorkerCheckTerm(w)
      PROVE  [Contract!Next]_Phase
  BY <1>25 DEF WorkerCheckTerm, Goto, Exit, ownerVars, sockVars, sharedVars
<1>26. ASSUME NEW w \in Worker, WorkerWait(w)
      PROVE  [Contract!Next]_Phase
  BY <1>26 DEF WorkerWait, Goto, ownerVars, sockVars, sharedVars
<1>27. ASSUME NEW w \in Worker, SpuriousWakeup(w)
      PROVE  [Contract!Next]_Phase
  BY <1>27 DEF SpuriousWakeup, Goto, ownerVars, sockVars, sharedVars
<1>28. ASSUME NEW w \in Worker, WorkerSend(w)
      PROVE  [Contract!Next]_Phase
  BY <1>28 DEF WorkerSend, Goto, Exit, ownerVars, sockVars, sharedVars
<1>29. ASSUME NEW w \in Worker, WorkerSent(w)
      PROVE  [Contract!Next]_Phase
  BY <1>29 DEF WorkerSent, Goto, Exit, ownerVars, sockVars, sharedVars
<1>30. ASSUME NEW w \in Worker, WorkerDone(w)
      PROVE  [Contract!Next]_Phase
  BY <1>30 DEF WorkerDone, Goto, ownerVars, sockVars
<1>31. ASSUME NEW w \in Worker, WorkerExitRecord(w)
      PROVE  [Contract!Next]_Phase
  BY <1>31 DEF WorkerExitRecord, Goto, ownerVars, sockVars
<1>32. ASSUME NEW w \in Worker, WorkerExitUnlock(w)
      PROVE  [Contract!Next]_Phase
  BY <1>32 DEF WorkerExitUnlock, Goto, ownerVars, sockVars, sharedVars
<1>33. ASSUME NEW w \in Worker, WorkerExitTerm(w)
      PROVE  [Contract!Next]_Phase
  BY <1>33 DEF WorkerExitTerm, Goto, ownerVars, sockVars
<1>34. ASSUME NEW w \in Worker, WorkerUnwind(w)
      PROVE  [Contract!Next]_Phase
  BY <1>34 DEF WorkerUnwind, Goto, ownerVars, sockVars
<1>35. QED
  BY <1>1, <1>2, <1>3, <1>4, <1>5, <1>6, <1>7, <1>8, <1>9, <1>10, <1>11, <1>12,
     <1>13, <1>14, <1>15, <1>16, <1>17, <1>18, <1>19, <1>20, <1>21, <1>22,
     <1>23, <1>24, <1>25, <1>26, <1>27, <1>28, <1>29, <1>30, <1>31, <1>32,
     <1>33, <1>34
     DEF Next, OwnerCall, OwnerStep, EndStep, SendStep, WorkerStep

\* TCPSender implements the interface Sender.
THEOREM Implementation ==
  ASSUME FifoExit
  PROVE  Spec => ImplementsSender
<1>1. IndInv /\ [Next]_vars => [Contract!Next]_Phase
  BY PhaseStep DEF IndInv, TypeOK
<1>. QED
  BY Invariance, InitPhase, <1>1, PTL
     DEF Spec, ImplementsSender, Contract!Spec
=============================================================================
