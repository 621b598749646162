------------------------------ MODULE Builtin -------------------------------
(***************************************************************************)
(* A builtin command (libbutl/builtin.{hxx,ixx,txx,cxx}): started on a     *)
(* thread of its own by run_async(), or run synchronously, waited for by   *)
(* any number of threads through the mutex and the condition variable of   *)
(* its async_state, and destroyed, which joins the thread.                 *)
(*                                                                         *)
(* The descriptors handed to the builtin are one unit, owned by the        *)
(* function object fn until a thread runs it.  worker and pc are the       *)
(* program counters of the builtin's thread and of the waiting threads.    *)
(***************************************************************************)
EXTENDS Integers

CONSTANTS
  Waiters,   \* the threads that call wait(), try_wait() and timed_wait()
  Codes,     \* the exit codes of the builtin
  NoCode,    \* nullopt
  Nobody,    \* no thread: the mutex is free
  Worker,    \* the builtin's thread
  Retries    \* how often thread creation is retried (15)

ASSUME BuiltinAssumption ==
  /\ NoCode \notin Codes
  /\ Worker \notin Waiters
  /\ Nobody \notin Waiters \cup {Worker}
  /\ Retries \in Nat

VARIABLES
  phase,     \* of the builtin: "start", "alive", "failed", "join" or "gone"
  async,     \* state_ # nullptr
  attempt,   \* i of run_async()
  fnFds,     \* fn still owns the descriptors it captured
  streams,   \* what the function runs on: "none", "given" or "std"
  worker,    \* the builtin's thread
  code,      \* what the function returned
  result,    \* result_, storage of the caller
  finished,  \* async_state::finished
  mutex,     \* async_state::mutex: its owner
  pc,        \* the waiting threads
  kind,      \* what each calls: "wait", "try" or "timed"
  answer,    \* history: what its last call returned
  early      \* history: its call began before the builtin had completed

start == <<phase, async, attempt, fnFds, streams>>
state == <<worker, code, result, finished>>
calls == <<kind, answer, early>>
vars == <<phase, async, attempt, fnFds, streams, worker, code, result, finished,
          mutex, pc, kind, answer, early>>

Completed == finished \/ (~async /\ phase \in {"alive", "join", "gone"})

Go(t, at) == pc' = [pc EXCEPT ![t] = at]

-----------------------------------------------------------------------------
(* The thread that starts the builtin. *)

(* What a function that owns the descriptors, or no longer does, runs on:  *)
(* the process' standard streams stand in for unopened descriptors.        *)
StreamsOf(owned) == IF owned THEN "given" ELSE "std"

(* One iteration of run_async(): fn is moved into the new async_state,     *)
(* whose thread is created.                                                *)
CreateThread ==
  /\ phase = "start"
  /\ phase' = "alive"
  /\ async' = TRUE
  /\ streams' = StreamsOf(fnFds)
  /\ fnFds' = FALSE
  /\ worker' = "run"
  /\ UNCHANGED <<attempt, code, result, finished, mutex, pc, calls>>

(* Fault: thread creation is retried without a limit. *)
RetryThreadForever ==
  /\ phase = "start"
  /\ attempt' = attempt + 1
  /\ fnFds' = FALSE
  /\ UNCHANGED <<phase, async, streams, state, mutex, pc, calls>>

(* The creation failed with EAGAIN: the async_state is gone, and with it   *)
(* the function moved into it; sleep and try again.                        *)
RetryThread ==
  /\ phase = "start"
  /\ attempt # Retries
  /\ attempt' = attempt + 1
  /\ fnFds' = FALSE
  /\ UNCHANGED <<phase, async, streams, state, mutex, pc, calls>>

(* It failed for another reason, or once too often. *)
ThrowThread ==
  /\ phase = "start"
  /\ phase' = "failed"
  /\ fnFds' = FALSE
  /\ UNCHANGED <<async, attempt, streams, state, mutex, pc, calls>>

(* sync_impl(): the function runs before there is a builtin object. *)
RunSync ==
  /\ phase = "start" /\ attempt = 0
  /\ phase' = "alive"
  /\ streams' = StreamsOf(fnFds)
  /\ fnFds' = FALSE
  /\ code' \in Codes
  /\ result' = code'
  /\ UNCHANGED <<async, attempt, worker, finished, mutex, pc, calls>>

(* ~builtin(), by the owner, once no thread is in a call: join the thread  *)
(* and free the async_state.                                               *)
Destroy ==
  /\ phase = "alive"
  /\ \A t \in Waiters : pc[t] = "idle"
  /\ phase' = "join"
  /\ UNCHANGED <<async, attempt, fnFds, streams, state, mutex, pc, calls>>

(* Fault: the destructor detaches the thread. *)
JoinNot ==
  /\ phase = "join"
  /\ phase' = "gone"
  /\ UNCHANGED <<async, attempt, fnFds, streams, state, mutex, pc, calls>>

Join ==
  /\ phase = "join"
  /\ async => worker = "exit"
  /\ phase' = "gone"
  /\ UNCHANGED <<async, attempt, fnFds, streams, state, mutex, pc, calls>>

-----------------------------------------------------------------------------
(* The builtin's thread: async_state::execute(). *)

Run ==
  /\ worker = "run"
  /\ code' \in Codes
  /\ worker' = "lock"
  /\ UNCHANGED <<start, result, finished, mutex, pc, calls>>

WorkerLock ==
  /\ worker = "lock" /\ mutex = Nobody
  /\ mutex' = Worker
  /\ worker' = "store"
  /\ UNCHANGED <<start, code, result, finished, pc, calls>>

Store ==
  /\ worker = "store"
  /\ result' = code
  /\ worker' = "flag"
  /\ UNCHANGED <<start, code, finished, mutex, pc, calls>>

Flag ==
  /\ worker = "flag"
  /\ finished' = TRUE
  /\ worker' = "unlock"
  /\ UNCHANGED <<start, code, result, mutex, pc, calls>>

WorkerUnlock ==
  /\ worker = "unlock"
  /\ mutex' = Nobody
  /\ worker' = "notify"
  /\ UNCHANGED <<start, code, result, finished, pc, calls>>

(* Fault: notify_one(). *)
NotifyOne ==
  /\ worker = "notify"
  /\ \/ \E t \in Waiters : pc[t] = "blocked" /\ Go(t, "lock")
     \/ (\A t \in Waiters : pc[t] # "blocked") /\ UNCHANGED pc
  /\ worker' = "exit"
  /\ UNCHANGED <<start, code, result, finished, mutex, calls>>

(* notify_all(), after the mutex is released; then the thread ends. *)
Notify ==
  /\ worker = "notify"
  /\ pc' = [t \in Waiters |-> IF pc[t] = "blocked" THEN "lock" ELSE pc[t]]
  /\ worker' = "exit"
  /\ UNCHANGED <<start, code, result, finished, mutex, calls>>

-----------------------------------------------------------------------------
(* A waiting thread t. *)

(* A call begins.  The mutex is only there if the builtin is asynchronous. *)
Call(t) ==
  /\ phase = "alive" /\ pc[t] = "idle"
  /\ \E k \in {"wait", "try", "timed"} : kind' = [kind EXCEPT ![t] = k]
  /\ early' = [early EXCEPT ![t] = ~Completed]
  /\ Go(t, IF async THEN "lock" ELSE "read")
  /\ UNCHANGED <<start, state, mutex, answer>>

(* Acquire the mutex, first or again after waiting on the condition. *)
Lock(t) ==
  /\ pc[t] \in {"lock", "expired"} /\ mutex = Nobody
  /\ mutex' = t
  /\ Go(t, IF pc[t] = "lock" THEN "check" ELSE "last")
  /\ UNCHANGED <<start, state, calls>>

(* Fault: any wakeup is taken for the completion. *)
LeaveUnchecked(t) ==
  /\ pc[t] \in {"check", "last"}
  /\ mutex' = Nobody
  /\ Go(t, "read")
  /\ UNCHANGED <<start, state, calls>>

(* finished is set: leave with the result, which is read unlocked. *)
Leave(t) ==
  /\ pc[t] \in {"check", "last"} /\ finished
  /\ mutex' = Nobody
  /\ Go(t, "read")
  /\ UNCHANGED <<start, state, calls>>

(* It is not: wait on the condition variable, which releases the mutex. *)
Block(t) ==
  /\ pc[t] = "check" /\ ~finished /\ kind[t] # "try"
  /\ mutex' = Nobody
  /\ Go(t, "blocked")
  /\ UNCHANGED <<start, state, calls>>

(* Fault: this early return keeps the mutex. *)
GiveUpLocked(t) ==
  /\ \/ pc[t] = "check" /\ kind[t] = "try"
     \/ pc[t] = "last"
  /\ ~finished
  /\ answer' = [answer EXCEPT ![t] = NoCode]
  /\ early' = [early EXCEPT ![t] = FALSE]
  /\ Go(t, "idle")
  /\ UNCHANGED <<start, state, kind, mutex>>

(* It is not, and try_wait() does not wait, or timed_wait() no longer. *)
GiveUp(t) ==
  /\ \/ pc[t] = "check" /\ kind[t] = "try"
     \/ pc[t] = "last"
  /\ ~finished
  /\ mutex' = Nobody
  /\ answer' = [answer EXCEPT ![t] = NoCode]
  /\ early' = [early EXCEPT ![t] = FALSE]
  /\ Go(t, "idle")
  /\ UNCHANGED <<start, state, kind>>

(* A spurious wakeup, or the timeout of timed_wait(). *)
Wake(t) ==
  /\ pc[t] = "blocked"
  /\ \/ Go(t, "lock")
     \/ kind[t] = "timed" /\ Go(t, "expired")
  /\ UNCHANGED <<start, state, mutex, calls>>

Read(t) ==
  /\ pc[t] = "read"
  /\ answer' = [answer EXCEPT ![t] = result]
  /\ early' = [early EXCEPT ![t] = FALSE]
  /\ Go(t, "idle")
  /\ UNCHANGED <<start, state, mutex, kind>>

-----------------------------------------------------------------------------
(* The builtin is over. *)
Over ==
  /\ phase \in {"failed", "gone"}
  /\ UNCHANGED vars

Init ==
  /\ phase = "start"
  /\ async = FALSE
  /\ attempt = 0
  /\ fnFds = TRUE
  /\ streams = "none"
  /\ worker = "none"
  /\ code = NoCode
  /\ result \in Codes
  /\ finished = FALSE
  /\ mutex = Nobody
  /\ pc = [t \in Waiters |-> "idle"]
  /\ kind = [t \in Waiters |-> "wait"]
  /\ answer = [t \in Waiters |-> NoCode]
  /\ early = [t \in Waiters |-> FALSE]

Starter == CreateThread \/ RetryThread \/ ThrowThread \/ RunSync \/ Destroy \/ Join

WorkerStep == Run \/ WorkerLock \/ Store \/ Flag \/ WorkerUnlock \/ Notify

Waiter(t) == Call(t) \/ Lock(t) \/ Leave(t) \/ Block(t) \/ GiveUp(t) \/ Wake(t) \/ Read(t)

Next == Starter \/ WorkerStep \/ (\E t \in Waiters : Waiter(t)) \/ Over

Spec == Init /\ [][Next]_vars

(* The function returns, every thread keeps running, and one that wants a  *)
(* mutex released again and again gets it.  Nobody has to make a call, and *)
(* there need not be a spurious wakeup or a timeout.                       *)
Fairness ==
  /\ WF_vars(WorkerStep)
  /\ SF_vars(WorkerLock)
  /\ WF_vars(Join)
  /\ \A t \in Waiters :
       /\ WF_vars(Leave(t) \/ Block(t) \/ GiveUp(t) \/ Read(t))
       /\ SF_vars(Lock(t))

FairSpec == Spec /\ Fairness

-----------------------------------------------------------------------------
(* The types of the variables. *)
TypeOK ==
  /\ phase \in {"start", "alive", "failed", "join", "gone"}
  /\ async \in BOOLEAN
  /\ attempt \in 0 .. Retries
  /\ fnFds \in BOOLEAN
  /\ streams \in {"none", "given", "std"}
  /\ worker \in {"none", "run", "lock", "store", "flag", "unlock", "notify", "exit"}
  /\ code \in Codes \cup {NoCode}
  /\ result \in Codes
  /\ finished \in BOOLEAN
  /\ mutex \in Waiters \cup {Worker, Nobody}
  /\ pc \in [Waiters -> {"idle", "lock", "check", "blocked", "expired", "last", "read"}]
  /\ kind \in [Waiters -> {"wait", "try", "timed"}]
  /\ answer \in [Waiters -> Codes \cup {NoCode}]
  /\ early \in [Waiters -> BOOLEAN]

(* Once the owner has destroyed the builtin its thread does not touch the  *)
(* mutex or the condition variable any more, although notify_all() comes   *)
(* after the unlock that lets the last wait() return.                      *)
NoUseAfterFree ==
  phase \in {"failed", "gone"} =>
    /\ worker \in {"none", "exit"}
    /\ mutex = Nobody
    /\ \A t \in Waiters : pc[t] = "idle"

(* wait(), try_wait() and timed_wait(), called by several threads at any   *)
(* moment, together behave as one completion with one result.              *)
Wait == INSTANCE Waitable WITH
  Callers <- Waiters,
  failed <- FALSE,
  done <- Completed,
  value <- IF Completed THEN code ELSE NoCode,
  call <- [t \in Waiters |->
             IF pc[t] = "idle" THEN "none" ELSE IF kind[t] = "wait" THEN "wait" ELSE "poll"]

WaitImplements == Wait!WSpec

(* A thread blocked on the condition variable is not forgotten: the        *)
(* completion that comes between its check and its wait still wakes it.    *)
NoLostWakeup == \A t \in Waiters : pc[t] = "blocked" ~> pc[t] = "idle"

(* Destruction ends: the join waits for a thread that does end. *)
DestroyEnds == phase = "join" ~> phase = "gone"

(* The descriptors passed to a builtin are the ones it runs on; the        *)
(* standard streams are for descriptors the caller left unopened.          *)
RunsOnGiven == streams # "none" => streams = "given"
=============================================================================
