--------------------------- MODULE Builtin_proofs ---------------------------
(***************************************************************************)
(* Proofs about Builtin, for any number of waiting threads: the mutex, the *)
(* flag and the unlocked read of the result together make wait(),          *)
(* try_wait() and timed_wait() one completion with one result, and nothing *)
(* is touched once the builtin has been destroyed.                         *)
(***************************************************************************)
EXTENDS Builtin, TLAPS

(* async_state::mutex: its owner is the thread between lock and unlock.    *)
Mutex ==
  /\ mutex = Worker <=> worker \in {"store", "flag", "unlock"}
  /\ \A t \in Waiters : mutex = t <=> pc[t] \in {"check", "last"}

(* The thread exists if there is an async_state; without one the mutex is  *)
(* not there either, and no call gets to it.                               *)
Asynchronous ==
  /\ async => phase \in {"alive", "join", "gone"} /\ worker # "none"
  /\ ~async => worker = "none" /\ \A t \in Waiters : pc[t] \in {"idle", "read"}

(* Nobody is in a call before the builtin runs or once its owner destroys  *)
(* it, which ends with the end of its thread.                              *)
Lifetime ==
  /\ phase # "alive" => \A t \in Waiters : pc[t] = "idle"
  /\ phase = "gone" => worker \in {"none", "exit"}

(* The flag is set after the result is stored, and never reset.            *)
Stored ==
  /\ finished <=> worker \in {"unlock", "notify", "exit"}
  /\ worker \in {"lock", "store", "flag"} => code \in Codes
  /\ worker = "flag" => result = code
  /\ Completed => result = code /\ code \in Codes

(* A call gets to the unlocked read when the builtin has completed, and    *)
(* one that has seen it uncompleted began before the completion; only      *)
(* timed_wait() expires.                                                   *)
Waiting ==
  \A t \in Waiters :
    /\ pc[t] = "read" => Completed
    /\ pc[t] # "idle" /\ ~Completed => early[t]
    /\ pc[t] \in {"expired", "last"} => kind[t] = "timed"

IInv ==
  /\ TypeOK
  /\ Mutex
  /\ Asynchronous
  /\ Lifetime
  /\ Stored
  /\ Waiting

-----------------------------------------------------------------------------
LEMMA InitIInv == Init => IInv
<1> SUFFICES ASSUME Init PROVE IInv
  OBVIOUS
<1> USE BuiltinAssumption DEF Init
<1>1. TypeOK
  <2>1. attempt \in 0 .. Retries
    OBVIOUS
  <2>2. early \in [Waiters -> BOOLEAN]
    OBVIOUS
  <2> QED
    BY <2>1, <2>2 DEF TypeOK
<1>2. Mutex /\ Asynchronous /\ Lifetime
  BY DEF Mutex, Asynchronous, Lifetime
<1>3. Stored /\ Waiting
  BY DEF Stored, Waiting, Completed
<1> QED
  BY <1>1, <1>2, <1>3 DEF IInv

(* The thread that starts the builtin and destroys it.                     *)
LEMMA StarterIInv == ASSUME IInv, Starter PROVE IInv'
<1> USE BuiltinAssumption DEF IInv, TypeOK, state, calls
<1>1. CASE CreateThread
  BY <1>1 DEF CreateThread, StreamsOf, Mutex, Asynchronous, Lifetime, Stored, Waiting, Completed
<1>2. CASE RetryThread
  <2>1. attempt' \in 0 .. Retries
    BY <1>2 DEF RetryThread
  <2>2. TypeOK'
    BY <1>2, <2>1 DEF RetryThread
  <2> QED
    BY <1>2, <2>2 DEF RetryThread, Mutex, Asynchronous, Lifetime, Stored, Waiting, Completed
<1>3. CASE ThrowThread
  BY <1>3 DEF ThrowThread, Mutex, Asynchronous, Lifetime, Stored, Waiting, Completed
<1>4. CASE RunSync
  BY <1>4 DEF RunSync, StreamsOf, Mutex, Asynchronous, Lifetime, Stored, Waiting, Completed
<1>5. CASE Destroy
  BY <1>5 DEF Destroy, Mutex, Asynchronous, Lifetime, Stored, Waiting, Completed
<1>6. CASE Join
  BY <1>6 DEF Join, Mutex, Asynchronous, Lifetime, Stored, Waiting, Completed
<1> QED
  BY <1>1, <1>2, <1>3, <1>4, <1>5, <1>6 DEF Starter

(* The builtin's thread.                                                   *)
LEMMA WorkerIInv == ASSUME IInv, WorkerStep PROVE IInv'
<1> USE BuiltinAssumption DEF IInv, TypeOK, start, calls
<1>1. CASE Run
  BY <1>1 DEF Run, Mutex, Asynchronous, Lifetime, Stored, Waiting, Completed
<1>2. CASE WorkerLock
  BY <1>2 DEF WorkerLock, Mutex, Asynchronous, Lifetime, Stored, Waiting, Completed
<1>3. CASE Store
  BY <1>3 DEF Store, Mutex, Asynchronous, Lifetime, Stored, Waiting, Completed
<1>4. CASE Flag
  BY <1>4 DEF Flag, Mutex, Asynchronous, Lifetime, Stored, Waiting, Completed
<1>5. CASE WorkerUnlock
  BY <1>5 DEF WorkerUnlock, Mutex, Asynchronous, Lifetime, Stored, Waiting, Completed
<1>6. CASE Notify
  BY <1>6 DEF Notify, Mutex, Asynchronous, Lifetime, Stored, Waiting, Completed
<1> QED
  BY <1>1, <1>2, <1>3, <1>4, <1>5, <1>6 DEF WorkerStep

(* A waiting thread.                                                       *)
LEMMA WaiterIInv == ASSUME IInv, NEW t \in Waiters, Waiter(t) PROVE IInv'
<1> USE BuiltinAssumption DEF IInv, TypeOK, Go, start, state, calls
<1>1. CASE Call(t)
  BY <1>1 DEF Call, Mutex, Asynchronous, Lifetime, Stored, Waiting, Completed
<1>2. CASE Lock(t)
  BY <1>2 DEF Lock, Mutex, Asynchronous, Lifetime, Stored, Waiting, Completed
<1>3. CASE Leave(t)
  BY <1>3 DEF Leave, Mutex, Asynchronous, Lifetime, Stored, Waiting, Completed
<1>4. CASE Block(t)
  BY <1>4 DEF Block, Mutex, Asynchronous, Lifetime, Stored, Waiting, Completed
<1>5. CASE GiveUp(t)
  BY <1>5 DEF GiveUp, Mutex, Asynchronous, Lifetime, Stored, Waiting, Completed
<1>6. CASE Wake(t)
  BY <1>6 DEF Wake, Mutex, Asynchronous, Lifetime, Stored, Waiting, Completed
<1>7. CASE Read(t)
  BY <1>7 DEF Read, Mutex, Asynchronous, Lifetime, Stored, Waiting, Completed
<1> QED
  BY <1>1, <1>2, <1>3, <1>4, <1>5, <1>6, <1>7 DEF Waiter

LEMMA NextIInv == IInv /\ [Next]_vars => IInv'
<1> SUFFICES ASSUME IInv, [Next]_vars PROVE IInv'
  OBVIOUS
<1>1. CASE UNCHANGED vars
  BY <1>1 DEF vars, IInv, TypeOK, Mutex, Asynchronous, Lifetime, Stored, Waiting, Completed
<1> QED
  BY <1>1, StarterIInv, WorkerIInv, WaiterIInv DEF Next, Over

(* In every behaviour the invariant holds in every state.                  *)
THEOREM Invariant == Spec => []IInv
  BY InitIInv, NextIInv, PTL DEF Spec

(* The variables keep their types, whatever the calls and their order.     *)
THEOREM TypeCorrect == Spec => []TypeOK
<1>1. IInv => TypeOK
  BY DEF IInv
<1> QED
  BY <1>1, Invariant, PTL

(* After the destructor, or a start that failed, no thread is at the mutex *)
(* or the condition variable, or gets there.                               *)
THEOREM NothingUsedAfterFree == Spec => []NoUseAfterFree
<1>1. IInv => NoUseAfterFree
  BY BuiltinAssumption
  DEF IInv, TypeOK, Mutex, Asynchronous, Lifetime, NoUseAfterFree
<1> QED
  BY <1>1, Invariant, PTL

-----------------------------------------------------------------------------
(* The refinement of Waitable: RunSync and Flag complete, Call calls, Read *)
(* and GiveUp answer, and the other steps change nothing that Waitable     *)
(* talks of.                                                               *)

WCallOf == [t \in Waiters |->
              IF pc[t] = "idle" THEN "none" ELSE IF kind[t] = "wait" THEN "wait" ELSE "poll"]
WValue == IF Completed THEN code ELSE NoCode

(* A step after which the builtin has completed as it had, with the same   *)
(* code, and every thread is in the same call.                             *)
Unnoticed ==
  /\ Completed' = Completed /\ WValue' = WValue /\ WCallOf' = WCallOf
  /\ UNCHANGED <<answer, early>>

LEMMA UnnoticedStutters == ASSUME Unnoticed PROVE UNCHANGED Wait!wvars
  BY DEF Unnoticed, WValue, WCallOf, Wait!wvars

LEMMA InitWaits == Init => Wait!WInit
  BY DEF Init, Wait!WInit, Completed

LEMMA StarterWaits == ASSUME IInv, Starter PROVE [Wait!WNext]_Wait!wvars
<1> USE DEF IInv, TypeOK, Asynchronous, Lifetime, Stored, WValue, WCallOf, Unnoticed, Completed, state, calls
<1>1. CASE RunSync
  <2>1. Wait!WComplete
    BY <1>1 DEF RunSync, Wait!WComplete
  <2> QED
    BY <2>1 DEF Wait!WNext
<1>2. CASE CreateThread
  BY <1>2, UnnoticedStutters DEF CreateThread
<1>3. CASE RetryThread
  BY <1>3, UnnoticedStutters DEF RetryThread
<1>4. CASE ThrowThread
  BY <1>4, UnnoticedStutters DEF ThrowThread
<1>5. CASE Destroy
  BY <1>5, UnnoticedStutters DEF Destroy
<1>6. CASE Join
  BY <1>6, UnnoticedStutters DEF Join
<1> QED
  BY <1>1, <1>2, <1>3, <1>4, <1>5, <1>6 DEF Starter

LEMMA WorkerWaits == ASSUME IInv, WorkerStep PROVE [Wait!WNext]_Wait!wvars
<1> USE DEF IInv, TypeOK, Asynchronous, Lifetime, Stored, WValue, WCallOf, Unnoticed, Completed, start, calls
<1>1. CASE Flag
  <2>1. Wait!WComplete
    BY <1>1 DEF Flag, Wait!WComplete
  <2> QED
    BY <2>1 DEF Wait!WNext
<1>2. CASE Run
  BY <1>2, UnnoticedStutters DEF Run
<1>3. CASE WorkerLock
  BY <1>3, UnnoticedStutters DEF WorkerLock
<1>4. CASE Store
  BY <1>4, UnnoticedStutters DEF Store
<1>5. CASE WorkerUnlock
  BY <1>5, UnnoticedStutters DEF WorkerUnlock
<1>6. CASE Notify
  BY <1>6, UnnoticedStutters DEF Notify
<1> QED
  BY <1>1, <1>2, <1>3, <1>4, <1>5, <1>6 DEF WorkerStep

LEMMA WaiterWaits == ASSUME IInv, NEW t \in Waiters, Waiter(t) PROVE [Wait!WNext]_Wait!wvars
<1> USE DEF IInv, TypeOK, Asynchronous, Stored, Waiting, WValue, WCallOf, Unnoticed, Completed, Go, start, state, calls
<1>1. CASE Call(t)
  <2>1. Wait!WCall(t)
    BY <1>1, ZenonT(40) DEF Call, Wait!WCall
  <2> QED
    BY <2>1 DEF Wait!WNext
<1>2. CASE Lock(t)
  BY <1>2, UnnoticedStutters DEF Lock
<1>3. CASE Leave(t)
  BY <1>3, UnnoticedStutters DEF Leave
<1>4. CASE Block(t)
  BY <1>4, UnnoticedStutters DEF Block
<1>5. CASE GiveUp(t)
  <2>1. Wait!WAnswer(t)
    BY <1>5 DEF GiveUp, Wait!WAnswer
  <2> QED
    BY <2>1 DEF Wait!WNext
<1>6. CASE Wake(t)
  BY <1>6, UnnoticedStutters DEF Wake
<1>7. CASE Read(t)
  <2>1. Wait!WAnswer(t)
    BY <1>7 DEF Read, Wait!WAnswer
  <2> QED
    BY <2>1 DEF Wait!WNext
<1> QED
  BY <1>1, <1>2, <1>3, <1>4, <1>5, <1>6, <1>7 DEF Waiter

LEMMA NextWaits == IInv /\ [Next]_vars => [Wait!WNext]_Wait!wvars
<1> SUFFICES ASSUME IInv, [Next]_vars PROVE [Wait!WNext]_Wait!wvars
  OBVIOUS
<1>1. CASE UNCHANGED vars
  BY <1>1, UnnoticedStutters DEF vars, Unnoticed, WValue, WCallOf, Completed
<1> QED
  BY <1>1, StarterWaits, WorkerWaits, WaiterWaits DEF Next, Over

(* The mutex, the flag, the condition variable and the unlocked read of    *)
(* the result implement one completion with one result, for any number of  *)
(* threads that wait in any of the three ways.                             *)
THEOREM Refinement == Spec => WaitImplements
  BY Invariant, InitWaits, NextWaits, PTL DEF Spec, WaitImplements, Wait!WSpec
=============================================================================
