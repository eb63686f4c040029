----------------------------- MODULE TcpSender -----------------------------
(***************************************************************************)
(* TCPSender (src/src/senders/tcp_sender.cpp): a sender object, used by    *)
(* one owner thread, hands lists of packets to a worker thread through a   *)
(* mutex, a condition variable and six atomics (struct SenderWorkerData).  *)
(*                                                                         *)
(* The owner may call the public operations in any order; every access to  *)
(* a shared atomic, every mutex operation and every socket call is a step  *)
(* of its own.  A critical section of the owner is one step, taken while   *)
(* it holds the mutex: nothing it writes is read without the mutex, except *)
(* is_done, which it writes once.                                          *)
(*                                                                         *)
(* A list is abstracted to the number of units of data it holds and to     *)
(* what the worker meets after them (Tails).                               *)
(***************************************************************************)
EXTENDS Naturals, FiniteSets

CONSTANTS
  Worker,    \* the threads pthread_create may return; its size bounds the sessions
  Lists,     \* the lists of packets the owner may pass to send
  NULL,      \* the null pointer
  FifoExit   \* TRUE: an ended thread has unwound before the next pthread_create

\* "end": the list ends; "unsupported": a packet of a type the worker cannot
\* send; "short_file": a file packet longer than its file, for which sendfile
\* returns 0 for ever.
Tails   == {"end", "unsupported", "short_file"}
AnyList == [size : Nat, tail : Tails]

ASSUME TcpSenderAssumption ==
  /\ FifoExit \in BOOLEAN
  /\ Lists \subseteq AnyList
  /\ NULL \notin AnyList
  /\ "free" \notin Worker
  /\ "owner" \notin Worker

VARIABLES
  \* the owner and the private fields of TCPSender
  opc,                   \* where the owner is in a public operation ("idle": in none)
  ret,                   \* where end_sender returns to
  arg,                   \* the argument of the send in progress
  initialized_,
  error_,                \* the error held by error_handler_
  server_sock_fd_,       \* "none" (-1), "open", "closed" (the number of a closed fd)
  client_sock_fd_,       \* "none" (-1), "open"
  \* SenderWorkerData
  packets_list, is_done, is_error, error_code,
  terminate_thread, thread_initialized, is_terminated_thread,
  mutex,                 \* "free", "owner" or the worker that holds packets_mutex
  \* the worker threads
  wpc,                   \* where each thread is ("none": never created)
  buf,                   \* data_to_be_sent, what is left of it
  cause,                 \* the error code the thread is ending with
  debt                   \* history: units accepted by send in this session, not yet sent

ownerVars  == <<opc, ret, arg, initialized_, error_>>
sockVars   == <<server_sock_fd_, client_sock_fd_>>
sharedVars == <<packets_list, is_done, is_error, error_code,
                terminate_thread, thread_initialized, is_terminated_thread>>
workerVars == <<wpc, buf, cause>>
vars == <<ownerVars, sockVars, sharedVars, mutex, workerVars, debt>>

SetupErrors == {"cpu_affinity", "socket_timeout", "socket_buffers"}
WorkerCodes == SetupErrors \cup {"sending_error", "unsupported_type", "no_error"}
SendErrors  == WorkerCodes \cup {"uninitialized", "no_thread", "busy"}
InitErrors  == {"server", "client", "thread"}

EndPcs  == {"end_terminate", "end_lock", "end_crit", "end_wait", "end_close"}
InitPcs == {"init_reset", "init_server", "init_client", "init_thread", "init_wait"}
SendPcs == {"send_done", "send_lock", "send_crit"}
OwnerPcs == {"idle"} \cup EndPcs \cup InitPcs \cup SendPcs

SendingPcs == {"send", "sent", "done"}         \* the worker owns a copied list
HoldPcs    == {"check", "check_term", "wait"}  \* the worker holds the mutex
ExitPcs    == {"exit_record", "exit_unlock", "exit_term"}
WorkerPcs  == {"none", "start", "announce", "setup", "loop", "lock", "waiting", "woken",
               "unwind", "gone"} \cup SendingPcs \cup HoldPcs \cup ExitPcs

\* The data send owes the client for a list: its units, and the packet that
\* stops the worker if there is one.
Units(l) == l.size + (IF l.tail = "end" THEN 0 ELSE 1)

\* A thread that may still touch the shared data, other than by the store its
\* unwinding makes.
Active(w) == wpc[w] \notin {"none", "unwind", "gone"}

Init ==
  /\ opc = "idle" /\ ret = "idle" /\ arg = NULL
  /\ initialized_ = FALSE /\ error_ = "none"
  /\ server_sock_fd_ = "none" /\ client_sock_fd_ = "none"
  /\ packets_list = NULL /\ is_done = TRUE
  /\ is_error = FALSE /\ error_code = "cpu_affinity"
  /\ terminate_thread = FALSE /\ thread_initialized = FALSE
  /\ is_terminated_thread = TRUE
  /\ mutex = "free"
  /\ wpc = [w \in Worker |-> "none"]
  /\ buf = [w \in Worker |-> [size |-> 0, tail |-> "end"]]
  /\ cause = [w \in Worker |-> "no_error"]
  /\ debt = 0

-----------------------------------------------------------------------------
(* The condition variable.                                                 *)

Waiters == {w \in Worker : wpc[w] = "waiting"}

\* Mutant of Signal: the call is forgotten.
SignalForgotten == UNCHANGED wpc

\* pthread_cond_signal wakes one waiter when there is one.
Signal ==
  \/ \E w \in Waiters : wpc' = [wpc EXCEPT ![w] = "woken"]
  \/ Waiters = {} /\ UNCHANGED wpc

-----------------------------------------------------------------------------
(* end_sender, called by the user, by the destructor and by initialize.    *)

EndSender(caller) ==
  /\ opc = "idle"
  /\ initialized_' = FALSE
  /\ ret' = caller
  /\ opc' = IF is_terminated_thread THEN "end_close" ELSE "end_terminate"
  /\ UNCHANGED <<arg, error_, sockVars, sharedVars, mutex, workerVars, debt>>

EndTerminate ==
  /\ opc = "end_terminate"
  /\ terminate_thread' = TRUE
  /\ opc' = "end_lock"
  /\ UNCHANGED <<ret, arg, initialized_, error_, sockVars, packets_list, is_done, is_error,
                 error_code, thread_initialized, is_terminated_thread, mutex,
                 workerVars, debt>>

EndLock ==
  /\ opc = "end_lock"
  /\ mutex = "free"
  /\ mutex' = "owner"
  /\ opc' = "end_crit"
  /\ UNCHANGED <<ret, arg, initialized_, error_, sockVars, sharedVars, workerVars, debt>>

EndCritical ==
  /\ opc = "end_crit"
  /\ packets_list' = NULL
  /\ is_done' = FALSE
  /\ Signal
  /\ mutex' = "free"
  /\ opc' = "end_wait"
  /\ UNCHANGED <<ret, arg, initialized_, error_, sockVars, is_error, error_code,
                 terminate_thread, thread_initialized, is_terminated_thread,
                 buf, cause, debt>>

\* Mutant of EndWait: it does not poll is_terminated_thread.
EndWaitUnpolled ==
  /\ opc = "end_wait"
  /\ opc' = "end_close"
  /\ UNCHANGED <<ret, arg, initialized_, error_, sockVars, sharedVars, mutex,
                 workerVars, debt>>

\* The loop that polls is_terminated_thread every 50 ms.
EndWait ==
  /\ opc = "end_wait"
  /\ is_terminated_thread
  /\ opc' = "end_close"
  /\ UNCHANGED <<ret, arg, initialized_, error_, sockVars, sharedVars, mutex,
                 workerVars, debt>>

\* Mutant of EndClose: the descriptor of the client keeps its number.
EndCloseStale ==
  /\ opc = "end_close"
  /\ server_sock_fd_' = "none"
  /\ client_sock_fd_' = IF client_sock_fd_ = "open" THEN "closed" ELSE client_sock_fd_
  /\ opc' = ret
  /\ ret' = "idle"
  /\ UNCHANGED <<arg, initialized_, error_, sharedVars, mutex, workerVars, debt>>

EndClose ==
  /\ opc = "end_close"
  /\ server_sock_fd_' = "none"
  /\ client_sock_fd_' = "none"
  /\ opc' = ret
  /\ ret' = "idle"
  /\ UNCHANGED <<arg, initialized_, error_, sharedVars, mutex, workerVars, debt>>

-----------------------------------------------------------------------------
(* initialize: end the last session, then build a new one.                 *)

InitReset ==
  /\ opc = "init_reset"
  /\ packets_list' = NULL
  /\ is_done' = TRUE
  /\ is_error' = FALSE
  /\ terminate_thread' = FALSE
  /\ thread_initialized' = FALSE
  /\ error_code' = "cpu_affinity"      \* the enumerator whose value is 0
  /\ mutex' = "free"
  /\ debt' = 0
  /\ opc' = "init_server"
  /\ UNCHANGED <<ret, arg, initialized_, error_, sockVars, is_terminated_thread, workerVars>>

\* create_server.  When bind fails for the last address the descriptor is
\* closed and its number stays in server_sock_fd_.
InitServer ==
  /\ opc = "init_server"
  /\ \/ /\ server_sock_fd_' = "open"
        /\ opc' = "init_client"
        /\ UNCHANGED error_
     \/ /\ server_sock_fd_' \in {"none", "open", "closed"}
        /\ opc' = "idle"
        /\ error_' = "server"
  /\ UNCHANGED <<ret, arg, initialized_, client_sock_fd_, sharedVars, mutex, workerVars, debt>>

\* get_client, and on success the shutdown of the listening socket.
InitClient ==
  /\ opc = "init_client"
  /\ \/ /\ client_sock_fd_' = "open"
        /\ server_sock_fd_' = "none"
        /\ opc' = "init_thread"
        /\ UNCHANGED error_
     \/ /\ client_sock_fd_' = "none"
        /\ opc' = "idle"
        /\ error_' = "client"
        /\ UNCHANGED server_sock_fd_
  /\ UNCHANGED <<ret, arg, initialized_, sharedVars, mutex, workerVars, debt>>

\* The attribute calls and pthread_create.
InitThread ==
  /\ opc = "init_thread"
  /\ \/ /\ FifoExit => \A w \in Worker : wpc[w] # "unwind"
        /\ \E w \in Worker :
             /\ wpc[w] = "none"
             /\ wpc' = [wpc EXCEPT ![w] = "start"]
        /\ opc' = "init_wait"
        /\ UNCHANGED error_
     \/ /\ opc' = "idle"
        /\ error_' = "thread"
        /\ UNCHANGED wpc
  /\ UNCHANGED <<ret, arg, initialized_, sockVars, sharedVars, mutex, buf, cause, debt>>

\* The loop that polls thread_initialized every 5 ms.
InitWait ==
  /\ opc = "init_wait"
  /\ thread_initialized
  /\ initialized_' = TRUE
  /\ opc' = "idle"
  /\ UNCHANGED <<ret, arg, error_, sockVars, sharedVars, mutex, workerVars, debt>>

-----------------------------------------------------------------------------
(* send.                                                                   *)

\* The checks of initialized_ and of is_terminated_thread.  is_error and
\* error_code no longer change once is_terminated_thread is set.
Send(l) ==
  /\ opc = "idle"
  /\ IF initialized_ /\ ~is_terminated_thread
     THEN /\ opc' = "send_done"
          /\ arg' = l
          /\ UNCHANGED error_
     ELSE /\ error_' = IF ~initialized_ THEN "uninitialized"
                       ELSE IF ~is_error THEN "no_thread" ELSE error_code
          /\ UNCHANGED <<opc, arg>>
  /\ UNCHANGED <<ret, initialized_, sockVars, sharedVars, mutex, workerVars, debt>>

\* Mutant of SendDone: is_done is not looked at.
SendDoneUnchecked ==
  /\ opc = "send_done"
  /\ opc' = "send_lock"
  /\ UNCHANGED <<ret, arg, initialized_, error_, sockVars, sharedVars, mutex,
                 workerVars, debt>>

SendDone ==
  /\ opc = "send_done"
  /\ \/ /\ is_done
        /\ opc' = "send_lock"
        /\ UNCHANGED <<arg, error_>>
     \/ /\ ~is_done
        /\ opc' = "idle"
        /\ arg' = NULL
        /\ error_' = "busy"
  /\ UNCHANGED <<ret, initialized_, sockVars, sharedVars, mutex, workerVars, debt>>

SendLock ==
  /\ opc = "send_lock"
  /\ mutex = "free"
  /\ mutex' = "owner"
  /\ opc' = "send_crit"
  /\ UNCHANGED <<ret, arg, initialized_, error_, sockVars, sharedVars, workerVars, debt>>

SendCritical ==
  /\ opc = "send_crit"
  /\ packets_list' = arg
  /\ is_done' = FALSE
  /\ Signal
  /\ mutex' = "free"
  /\ opc' = "idle"
  /\ arg' = NULL
  /\ debt' = debt + Units(arg)
  /\ UNCHANGED <<ret, initialized_, error_, sockVars, is_error, error_code,
                 terminate_thread, thread_initialized, is_terminated_thread,
                 buf, cause>>

\* get_error: read and clear.
GetError ==
  /\ opc = "idle"
  /\ error_ # "none"
  /\ error_' = "none"
  /\ UNCHANGED <<opc, ret, arg, initialized_, sockVars, sharedVars, mutex, workerVars, debt>>

-----------------------------------------------------------------------------
(* tcp_worker_function.                                                    *)

Goto(w, pc) == wpc' = [wpc EXCEPT ![w] = pc]

\* END_THREAD_ERROR: entered with the code to report.
Exit(w, code) ==
  /\ Goto(w, "exit_record")
  /\ cause' = [cause EXCEPT ![w] = code]

\* Mutant of WorkerStart: the thread does not say that it runs.
WorkerStartSilent(w) ==
  /\ wpc[w] = "start"
  /\ Goto(w, "announce")
  /\ UNCHANGED <<ownerVars, sockVars, sharedVars, mutex, buf, cause, debt>>

WorkerStart(w) ==
  /\ wpc[w] = "start"
  /\ is_terminated_thread' = FALSE
  /\ Goto(w, "announce")
  /\ UNCHANGED <<ownerVars, sockVars, packets_list, is_done, is_error, error_code,
                 terminate_thread, thread_initialized, mutex, buf, cause, debt>>

WorkerAnnounce(w) ==
  /\ wpc[w] = "announce"
  /\ thread_initialized' = TRUE
  /\ Goto(w, "setup")
  /\ UNCHANGED <<ownerVars, sockVars, packets_list, is_done, is_error, error_code,
                 terminate_thread, is_terminated_thread, mutex, buf, cause, debt>>

\* The affinity of the thread and the options of the socket.
WorkerSetup(w) ==
  /\ wpc[w] = "setup"
  /\ \/ Goto(w, "loop") /\ UNCHANGED cause
     \/ \E e \in SetupErrors : Exit(w, e)
  /\ UNCHANGED <<ownerVars, sockVars, sharedVars, mutex, buf, debt>>

WorkerLoop(w) ==
  /\ wpc[w] = "loop"
  /\ \/ ~terminate_thread /\ Goto(w, "lock") /\ UNCHANGED cause
     \/ terminate_thread /\ Exit(w, "no_error")
  /\ UNCHANGED <<ownerVars, sockVars, sharedVars, mutex, buf, debt>>

\* lock_block, and the end of pthread_cond_wait.
WorkerLock(w) ==
  /\ wpc[w] \in {"lock", "woken"}
  /\ mutex = "free"
  /\ mutex' = w
  /\ Goto(w, "check")
  /\ UNCHANGED <<ownerVars, sockVars, sharedVars, buf, cause, debt>>

\* No list: go on to look for a termination signal.
WorkerCheck(w) ==
  /\ wpc[w] = "check"
  /\ packets_list = NULL
  /\ Goto(w, "check_term")
  /\ UNCHANGED <<ownerVars, sockVars, sharedVars, mutex, buf, cause, debt>>

\* A list: copy it, clear the pointer, release the mutex.
WorkerTake(w) ==
  /\ wpc[w] = "check"
  /\ packets_list # NULL
  /\ buf' = [buf EXCEPT ![w] = packets_list]
  /\ packets_list' = NULL
  /\ mutex' = "free"
  /\ Goto(w, "send")
  /\ UNCHANGED <<ownerVars, sockVars, is_done, is_error, error_code, terminate_thread,
                 thread_initialized, is_terminated_thread, cause, debt>>

WorkerCheckTerm(w) ==
  /\ wpc[w] = "check_term"
  /\ \/ ~terminate_thread /\ Goto(w, "wait") /\ UNCHANGED cause
     \/ terminate_thread /\ Exit(w, "no_error")
  /\ UNCHANGED <<ownerVars, sockVars, sharedVars, mutex, buf, debt>>

\* pthread_cond_wait releases the mutex and sleeps in one step.
WorkerWait(w) ==
  /\ wpc[w] = "wait"
  /\ mutex' = "free"
  /\ Goto(w, "waiting")
  /\ UNCHANGED <<ownerVars, sockVars, sharedVars, buf, cause, debt>>

\* POSIX lets pthread_cond_wait return without a signal.
SpuriousWakeup(w) ==
  /\ wpc[w] = "waiting"
  /\ Goto(w, "woken")
  /\ UNCHANGED <<ownerVars, sockVars, sharedVars, mutex, buf, cause, debt>>

\* One send or sendfile call: it sends s units, or returns 0 at the end of a
\* short file, or fails (client gone, or the one second timeout of the socket).
WorkerSend(w) ==
  /\ wpc[w] = "send"
  /\ \/ /\ buf[w].size > 0
        /\ \E s \in 1..buf[w].size :
             /\ buf' = [buf EXCEPT ![w] = [size |-> @.size - s, tail |-> @.tail]]
             /\ debt' = debt - s
        /\ Goto(w, "sent")
        /\ UNCHANGED cause
     \/ /\ buf[w].size = 0
        /\ buf[w].tail = "short_file"
        /\ Goto(w, "sent")
        /\ UNCHANGED <<buf, cause, debt>>
     \/ /\ buf[w].size > 0 \/ buf[w].tail = "short_file"
        /\ Exit(w, "sending_error")
        /\ UNCHANGED <<buf, debt>>
     \/ /\ buf[w].size = 0
        /\ buf[w].tail = "unsupported"
        /\ Exit(w, "unsupported_type")
        /\ UNCHANGED <<buf, debt>>
     \/ /\ buf[w].size = 0
        /\ buf[w].tail = "end"
        /\ Goto(w, "done")
        /\ UNCHANGED <<buf, cause, debt>>
  /\ UNCHANGED <<ownerVars, sockVars, sharedVars, mutex>>

\* Mutant of WorkerSent: a termination signal is seen between lists only.
WorkerSentDeaf(w) ==
  /\ wpc[w] = "sent"
  /\ Goto(w, "send")
  /\ UNCHANGED <<ownerVars, sockVars, sharedVars, mutex, buf, cause, debt>>

\* The check for a termination signal after every call.
WorkerSent(w) ==
  /\ wpc[w] = "sent"
  /\ \/ ~terminate_thread /\ Goto(w, "send") /\ UNCHANGED cause
     \/ terminate_thread /\ Exit(w, "no_error")
  /\ UNCHANGED <<ownerVars, sockVars, sharedVars, mutex, buf, debt>>

WorkerDone(w) ==
  /\ wpc[w] = "done"
  /\ is_done' = TRUE
  /\ Goto(w, "loop")
  /\ UNCHANGED <<ownerVars, sockVars, packets_list, is_error, error_code, terminate_thread,
                 thread_initialized, is_terminated_thread, mutex, buf, cause, debt>>

\* Mutant of WorkerExitRecord: the error code is not stored.
WorkerExitNoCode(w) ==
  /\ wpc[w] = "exit_record"
  /\ is_error' = (cause[w] # "no_error")
  /\ Goto(w, "exit_unlock")
  /\ UNCHANGED <<ownerVars, sockVars, packets_list, is_done, error_code, terminate_thread,
                 thread_initialized, is_terminated_thread, mutex, buf, cause, debt>>

\* The two stores of END_THREAD_ERROR.
WorkerExitRecord(w) ==
  /\ wpc[w] = "exit_record"
  /\ is_error' = (cause[w] # "no_error")
  /\ error_code' = cause[w]
  /\ Goto(w, "exit_unlock")
  /\ UNCHANGED <<ownerVars, sockVars, packets_list, is_done, terminate_thread,
                 thread_initialized, is_terminated_thread, mutex, buf, cause, debt>>

\* Mutant of WorkerExitUnlock: the mutex stays locked.
WorkerExitLocked(w) ==
  /\ wpc[w] = "exit_unlock"
  /\ Goto(w, "exit_term")
  /\ UNCHANGED <<ownerVars, sockVars, sharedVars, mutex, buf, cause, debt>>

\* ~MutexRAII: unlock only if this thread locked.
WorkerExitUnlock(w) ==
  /\ wpc[w] = "exit_unlock"
  /\ mutex' = IF mutex = w THEN "free" ELSE mutex
  /\ Goto(w, "exit_term")
  /\ UNCHANGED <<ownerVars, sockVars, sharedVars, buf, cause, debt>>

\* ~AtomicValRAII, called by END_THREAD_ERROR.
WorkerExitTerm(w) ==
  /\ wpc[w] = "exit_term"
  /\ is_terminated_thread' = TRUE
  /\ Goto(w, "unwind")
  /\ UNCHANGED <<ownerVars, sockVars, packets_list, is_done, is_error, error_code,
                 terminate_thread, thread_initialized, mutex, buf, cause, debt>>

\* pthread_exit unwinds the stack of the thread, so ~AtomicValRAII runs again,
\* on an object already destroyed: it stores once more, or does nothing.
WorkerUnwind(w) ==
  /\ wpc[w] = "unwind"
  /\ is_terminated_thread' \in {TRUE, is_terminated_thread}
  /\ Goto(w, "gone")
  /\ UNCHANGED <<ownerVars, sockVars, packets_list, is_done, is_error, error_code,
                 terminate_thread, thread_initialized, mutex, buf, cause, debt>>

-----------------------------------------------------------------------------
EndStep  == EndTerminate \/ EndLock \/ EndCritical \/ EndWait \/ EndClose
SendStep == SendDone \/ SendLock \/ SendCritical

\* accept blocks until a client connects, so InitClient is not a step the
\* owner can take by itself.
OwnerStep == EndStep \/ SendStep \/ InitReset \/ InitServer \/ InitThread \/ InitWait

OwnerCall ==
  \/ \E caller \in {"idle", "init_reset"} : EndSender(caller)
  \/ \E l \in Lists : Send(l)
  \/ GetError

WorkerStep(w) ==
  \/ WorkerStart(w) \/ WorkerAnnounce(w) \/ WorkerSetup(w) \/ WorkerLoop(w)
  \/ WorkerLock(w) \/ WorkerCheck(w) \/ WorkerTake(w) \/ WorkerCheckTerm(w)
  \/ WorkerWait(w) \/ WorkerSend(w) \/ WorkerSent(w) \/ WorkerDone(w)
  \/ WorkerExitRecord(w) \/ WorkerExitUnlock(w) \/ WorkerExitTerm(w) \/ WorkerUnwind(w)

Next ==
  \/ OwnerCall \/ OwnerStep \/ InitClient
  \/ \E w \in Worker : WorkerStep(w) \/ SpuriousWakeup(w)

Spec == Init /\ [][Next]_vars

\* A call that was begun goes on, and a runnable thread runs: both threads are
\* SCHED_FIFO on core 0, the owner sleeps in every loop, and a socket call
\* returns within the timeout set on the socket.  The owner (priority 99) runs
\* before the worker (98), so it takes a mutex that keeps being released.
Fairness ==
  /\ WF_vars(OwnerStep)
  /\ SF_vars(EndLock \/ SendLock)
  /\ \A w \in Worker : WF_vars(WorkerStep(w))

FairSpec == Spec /\ Fairness

-----------------------------------------------------------------------------
(* Properties.                                                             *)

OwnerTypes(codes) ==
  /\ opc \in OwnerPcs
  /\ ret \in {"idle", "init_reset"}
  /\ arg \in Lists \cup {NULL}
  /\ initialized_ \in BOOLEAN
  /\ error_ \in codes \cup SendErrors \cup InitErrors \cup {"none"}
  /\ server_sock_fd_ \in {"none", "open", "closed"}
  /\ client_sock_fd_ \in {"none", "open"}

SharedTypes(codes) ==
  /\ packets_list \in Lists \cup {NULL}
  /\ is_done \in BOOLEAN
  /\ is_error \in BOOLEAN
  /\ error_code \in codes
  /\ terminate_thread \in BOOLEAN
  /\ thread_initialized \in BOOLEAN
  /\ is_terminated_thread \in BOOLEAN
  /\ mutex \in Worker \cup {"free", "owner"}

WorkerTypes(pcs, codes) ==
  /\ wpc \in [Worker -> pcs]
  /\ buf \in [Worker -> AnyList]
  /\ cause \in [Worker -> codes]
  /\ debt \in Nat

\* The types, of a worker whose statements are pcs and error codes are codes.
Types(pcs, codes) == OwnerTypes(codes) /\ SharedTypes(codes) /\ WorkerTypes(pcs, codes)

\* The values every variable can have; a debt that would go below zero, more
\* sent than was accepted, leaves Nat.
TypeOK == Types(WorkerPcs, WorkerCodes)

\* is_send_done never reports a list that is not wholly in the socket
\* (sender.h:52, "true if the send operation done successfully"): whenever
\* is_done is true, every unit send accepted in this session has been sent.
DoneMeansSent == is_done => debt = 0

\* tcp_sender.cpp:139, "this flag means that there is no thread currently
\* operate": while is_terminated_thread is true no worker runs, except one
\* pthread_create has just made and initialize is waiting for.
TerminatedMeansNoThread ==
  is_terminated_thread =>
    \A w \in Worker : Active(w) => wpc[w] = "start" /\ opc = "init_wait"

\* initialize never leaves two workers on the same SenderWorkerData.
OneWorker == \A v, w \in Worker : Active(v) /\ Active(w) => v = w

\* end_sender closes the sockets only after the worker has stopped using them.
SocketOutlivesWorker == \A w \in Worker : Active(w) => client_sock_fd_ = "open"

\* A worker asleep on the condition variable has no list to take, and no
\* termination signal that the owner is not still on its way to announce.
NoLostWakeup ==
  \A w \in Worker : wpc[w] = "waiting" =>
    /\ packets_list = NULL
    /\ terminate_thread => opc \in {"end_lock", "end_crit"}

\* The mutex protects its critical sections, and a thread that ends, on any of
\* the error paths, does not end holding it.
MutexHeldByRunning ==
  /\ \A w \in Worker : /\ wpc[w] \in HoldPcs => mutex = w
                       /\ mutex = w => wpc[w] \in HoldPcs \cup ExitPcs
  /\ mutex = "owner" <=> opc \in {"send_crit", "end_crit"}

\* When send finds the worker ended it reports the error that ended it: the
\* worker wrote is_error and error_code before it announced its end.
ErrorFaithful ==
  initialized_ /\ is_terminated_thread =>
    /\ is_error
    /\ \E w \in Worker : /\ wpc[w] \in {"unwind", "gone"}
                         /\ cause[w] # "no_error"
                         /\ error_code = cause[w]

\* The phase of the Sender interface a state of TCPSender stands for.
Phase ==
  IF ~initialized_ THEN "closed"
  ELSE IF is_terminated_thread THEN (IF is_done THEN "broken" ELSE "stuck")
  ELSE IF packets_list # NULL THEN "queued"
  ELSE IF is_done THEN "ready" ELSE "sending"

Contract == INSTANCE Sender WITH phase <- Phase

\* TCPSender implements the interface: a list goes from accepted to taken to
\* sent, one at a time, and nothing but end_sender leaves a failed worker.
ImplementsSender == Contract!Spec

\* Every public operation returns, whatever the worker is doing when it is
\* called: end_sender gets its answer from a worker asleep, sending or stuck on
\* a short file, initialize from a thread that fails at once, and send does not
\* wait for a list to be sent (sender.h:36).  Only accept may block.
CallsReturn == opc \notin {"idle", "init_client"} ~> opc \in {"idle", "init_client"}

\* The worker takes a list that send has queued, or ends, wherever it was when
\* send gave the signal.  RealTimeSystem relies on it.
QueuedIsTaken == Phase = "queued" ~> Phase # "queued"

\* The worker is in the loop of sendfile at the end of a file that is short.
AtShortFile(w) ==
  wpc[w] \in {"send", "sent"} /\ buf[w] = [size |-> 0, tail |-> "short_file"]

\* A list accepted by send is sent, or the worker ends, or the sender is closed;
\* but for a list with a short file, which may keep the worker busy for ever.
SendResolves ==
  initialized_ /\ ~is_done ~>
    \/ is_done \/ is_terminated_thread \/ ~initialized_
    \/ \E w \in Worker : AtShortFile(w)

\* sender.h:26, "true if the sender correctly initialized, false in case of
\* any error during the initialization": after initialize has returned true
\* the worker does not fail in its initialization.
InitializedMeansSetUp ==
  initialized_ => \A w \in Worker : wpc[w] \in ExitPcs => cause[w] \notin SetupErrors
=============================================================================
