--------------------------- MODULE Process_proofs ---------------------------
(***************************************************************************)
(* Proofs about Process, for a child with any amount of output, pipes of   *)
(* any capacity and timeouts of any length: the handle is that of a child  *)
(* not yet reaped, and the ways to wait agree with each other and with the *)
(* fate of the child.                                                      *)
(***************************************************************************)
EXTENDS Process, TLAPS

(* What the child has come to, and what is known of it: the exit is that   *)
(* status or absent, and known once the handle is gone, unless waitpid()   *)
(* has failed.                                                             *)
Fate ==
  /\ child = "running" <=> status = "none"
  /\ exit # "none" => exit = status
  /\ ~handle /\ ~lost => exit = status

(* A call in waitpid() has a handle; one that waits for a pending signal   *)
(* has reaped the child already; a failure gives the handle up and ends    *)
(* the call.                                                               *)
InWaitpid ==
  /\ pc \in {"waitpid", "poll", "sleep"} => handle
  /\ pc = "pending" => ~handle
  /\ lost => ~handle /\ pc \in {"idle", "gone"}

(* Which calls are where; only timed_wait() sleeps, with time left.        *)
Progress ==
  /\ pc = "waitpid" => call \in {"wait", "ignore", "destroy", "assign"}
  /\ pc \in {"poll", "sleep"} => call \in {"try", "timed"}
  /\ pc = "sleep" => call = "timed" /\ delay >= 0

(* Between calls the last answer is the outcome, once it is known; a call  *)
(* that finds the child running began when it was.                         *)
Answered ==
  /\ pc = "idle" /\ ~handle /\ ~lost => answer = (status = "ok")
  /\ pc \in {"idle", "gone"} => ~early
  /\ pc \in {"waitpid", "poll", "sleep"} /\ child = "running" => early

IInv ==
  /\ TypeOK
  /\ HandleMatchesChild
  /\ Fate
  /\ InWaitpid
  /\ Progress
  /\ Answered

-----------------------------------------------------------------------------
LEMMA InitIInv == Init => IInv
<1> SUFFICES ASSUME Init PROVE IInv
  OBVIOUS
<1> USE ProcessAssumption DEF Init
<1>1. TypeOK
  <2>1. end \in [{"out_fd", "in_ofd"} -> {"object", "stream", "closed"}]
    OBVIOUS
  <2>2. left \in 0 .. Output /\ fill \in 0 .. PipeCap /\ delay \in -1 .. Ticks
    OBVIOUS
  <2>3. answer \in BOOLEAN \cup {NoCode} /\ needEof \in BOOLEAN
    OBVIOUS
  <2> QED
    BY <2>1, <2>2, <2>3 DEF TypeOK, Calls, Statuses
<1>2. HandleMatchesChild /\ Fate /\ InWaitpid /\ Progress /\ Answered
  BY DEF HandleMatchesChild, Fate, InWaitpid, Progress, Answered
<1> QED
  BY <1>1, <1>2 DEF IInv

(* The child and the system.                                               *)
LEMMA ChildIInv ==
  ASSUME IInv, ChildStep \/ GroupSignal \/ Deliver
  PROVE  IInv'
<1> USE ProcessAssumption
    DEF IInv, TypeOK, Calls, Statuses, HandleMatchesChild, Fate, InWaitpid, Progress, Answered,
        object, control, history, Terminate
<1>1. CASE ChildWrite
  BY <1>1 DEF ChildWrite
<1>2. CASE ChildPipe
  BY <1>2 DEF ChildPipe
<1>3. CASE ChildExit
  BY <1>3 DEF ChildExit
<1>4. CASE GroupSignal
  BY <1>4 DEF GroupSignal
<1>5. CASE Deliver
  <2>1. sigPending' \in BOOLEAN /\ UNCHANGED <<child, status, needEof, left, fill, object, control, history>>
    BY <1>5 DEF Deliver
  <2> QED
    BY <2>1
<1> QED
  BY <1>1, <1>2, <1>3, <1>4, <1>5 DEF ChildStep

(* What the caller does with the pipe ends and with signals.               *)
LEMMA EndsIInv ==
  ASSUME IInv, Kill \/ ReadStream \/ \E e \in {"out_fd", "in_ofd"} : MoveToStream(e) \/ CloseStream(e)
  PROVE  IInv'
<1> USE ProcessAssumption
    DEF IInv, TypeOK, Calls, Statuses, HandleMatchesChild, Fate, InWaitpid, Progress, Answered,
        kernel, object, control, history, Terminate
<1>1. CASE Kill
  BY <1>1 DEF Kill
<1>2. CASE ReadStream
  BY <1>2 DEF ReadStream
<1>3. ASSUME NEW e \in {"out_fd", "in_ofd"}, MoveToStream(e) \/ CloseStream(e) PROVE IInv'
  BY <1>3 DEF MoveToStream, CloseStream
<1> QED
  BY <1>1, <1>2, <1>3

(* The begin of a call.                                                    *)
LEMMA BeginIInv ==
  ASSUME IInv, \E k \in Calls : Wait(k) \/ Known(k) \/ \E d \in 0 .. Ticks : Poll(k, d)
  PROVE  IInv'
<1> USE ProcessAssumption
    DEF IInv, TypeOK, Calls, Statuses, HandleMatchesChild, Fate, InWaitpid, Progress, Answered,
        kernel, object
<1>1. ASSUME NEW k \in Calls, Wait(k) PROVE IInv'
  BY <1>1, ZenonT(60) DEF Wait, CloseEnds
<1>2. ASSUME NEW k \in Calls, Known(k) PROVE IInv'
  BY <1>2 DEF Known, WaitAnswer, TryAnswer
<1>3. ASSUME NEW k \in Calls, NEW d \in 0 .. Ticks, Poll(k, d) PROVE IInv'
  <2>1. k \in {"try", "timed"}
    BY <1>3 DEF Poll
  <2>2. delay' \in -1 .. Ticks
    BY <1>3 DEF Poll
  <2>3. early' = (child = "running")
    BY <1>3 DEF Poll
  <2> QED
    BY <1>3, <2>1, <2>2, <2>3, ZenonT(60) DEF Poll
<1> QED
  BY <1>1, <1>2, <1>3

(* The steps of a call.                                                    *)
LEMMA ReapIInv == ASSUME IInv, pc \in {"waitpid", "poll"}, Reap PROVE IInv'
<1> USE ProcessAssumption
    DEF IInv, TypeOK, Calls, Statuses, HandleMatchesChild, Fate, InWaitpid, Progress, Answered
<1>1. CASE status = "term"
  BY <1>1 DEF Reap, history
<1>2. CASE status # "term"
  BY <1>2, ZenonT(60) DEF Reap, Return, AnswerOf, WaitAnswer, TryAnswer
<1> QED
  BY <1>1, <1>2

LEMMA CallIInv == ASSUME IInv, InCall PROVE IInv'
<1> USE ProcessAssumption
    DEF IInv, TypeOK, Calls, Statuses, HandleMatchesChild, Fate, InWaitpid, Progress, Answered
<1>1. ASSUME pc \in {"waitpid", "poll"}, ReapFails PROVE IInv'
  BY <1>1, ZenonT(60) DEF ReapFails, Fail, kernel
<1>2. ASSUME pc = "poll", StillRunning PROVE IInv'
  BY <1>2 DEF StillRunning, Return, kernel, object, history
<1>3. CASE Sleep
  BY <1>3 DEF Sleep, kernel, object, history
<1>4. CASE Pending
  BY <1>4 DEF Pending, Return, AnswerOf, WaitAnswer, TryAnswer, kernel, object
<1> QED
  BY <1>1, <1>2, <1>3, <1>4, ReapIInv DEF InCall, Waitpid, WaitpidNoHang

LEMMA NextIInv == IInv /\ [Next]_vars => IInv'
<1> SUFFICES ASSUME IInv, [Next]_vars PROVE IInv'
  OBVIOUS
<1>1. CASE UNCHANGED vars
  BY <1>1 DEF vars, IInv, TypeOK, HandleMatchesChild, Fate, InWaitpid, Progress, Answered
<1>2. CASE User
  BY <1>2, EndsIInv, BeginIInv DEF User
<1> QED
  BY <1>1, <1>2, ChildIInv, CallIInv DEF Next, Over

(* In every behaviour the invariant holds in every state.                  *)
THEOREM Invariant == Spec => []IInv
  BY InitIInv, NextIInv, PTL DEF Spec

(* The variables keep their types; timed_wait() never runs its clock below *)
(* the one sleep past its end.                                             *)
THEOREM TypeCorrect == Spec => []TypeOK
<1>1. IInv => TypeOK
  BY DEF IInv
<1> QED
  BY <1>1, Invariant, PTL

(* A handle is never that of a child already reaped, and a child is not    *)
(* left unreaped without one unless waitpid() has failed.                  *)
THEOREM HandleIsChild == Spec => []HandleMatchesChild
<1>1. IInv => HandleMatchesChild
  BY DEF IInv
<1> QED
  BY <1>1, Invariant, PTL

-----------------------------------------------------------------------------
(* The refinement of Waitable: the child terminates, Wait and Poll call,   *)
(* the end of a call answers, a failure of waitpid() fails; destruction    *)
(* and assignment are no calls, and what a call without a handle answers   *)
(* is the last answer again.                                               *)

MCall == [c \in {Caller} |->
            IF pc \in {"idle", "gone"} \/ call \in {"destroy", "assign"} THEN "none"
            ELSE IF call \in {"wait", "ignore"} THEN "wait" ELSE "poll"]
MEarly == [c \in {Caller} |-> early /\ call \notin {"destroy", "assign"}]
MAnswer == [c \in {Caller} |-> answer]
MDone == child # "running"
MValue == IF child = "running" THEN NoCode ELSE status = "ok"

(* A step that leaves all that Waitable talks of as it is.                 *)
Unnoticed == MCall' = MCall /\ MEarly' = MEarly /\ MAnswer' = MAnswer /\ MDone' = MDone
             /\ MValue' = MValue /\ UNCHANGED lost

LEMMA UnnoticedStutters == ASSUME Unnoticed PROVE UNCHANGED Outcome!wvars
  BY DEF Unnoticed, MCall, MEarly, MAnswer, MDone, MValue, Outcome!wvars

LEMMA InitWaits == Init => Outcome!WInit
  BY DEF Init, Outcome!WInit

(* The child terminates, or does something else.                           *)
LEMMA TerminateWaits ==
  ASSUME NEW s \in Statuses, Terminate(s), UNCHANGED <<control, history>>
  PROVE  Outcome!WNext
<1>1. Outcome!WComplete
  BY DEF Terminate, Outcome!WComplete, control, history
<1> QED
  BY <1>1 DEF Outcome!WNext

LEMMA ChildWaits ==
  ASSUME IInv, ChildStep \/ GroupSignal \/ Deliver
  PROVE  [Outcome!WNext]_Outcome!wvars
<1> USE DEF Unnoticed, MCall, MEarly, MAnswer, MDone, MValue, object, control, history
<1>1. CASE ChildWrite
  BY <1>1, UnnoticedStutters DEF ChildWrite
<1>2. CASE ChildPipe
  BY <1>2, TerminateWaits DEF ChildPipe, Statuses
<1>3. CASE ChildExit
  BY <1>3, TerminateWaits DEF ChildExit, Statuses
<1>4. CASE GroupSignal
  BY <1>4, TerminateWaits DEF GroupSignal, Statuses
<1>5. CASE Deliver
  BY <1>5, UnnoticedStutters DEF Deliver
<1> QED
  BY <1>1, <1>2, <1>3, <1>4, <1>5 DEF ChildStep

LEMMA EndsWaits ==
  ASSUME IInv, Kill \/ ReadStream \/ \E e \in {"out_fd", "in_ofd"} : MoveToStream(e) \/ CloseStream(e)
  PROVE  [Outcome!WNext]_Outcome!wvars
<1> USE DEF Unnoticed, MCall, MEarly, MAnswer, MDone, MValue, kernel, object, control, history
<1>1. CASE Kill
  BY <1>1, UnnoticedStutters, TerminateWaits DEF Kill, Statuses
<1>2. CASE ReadStream
  BY <1>2, UnnoticedStutters DEF ReadStream
<1>3. ASSUME NEW e \in {"out_fd", "in_ofd"}, MoveToStream(e) \/ CloseStream(e)
      PROVE  [Outcome!WNext]_Outcome!wvars
  BY <1>3, UnnoticedStutters DEF MoveToStream, CloseStream
<1> QED
  BY <1>1, <1>2, <1>3

(* A call without a handle answers what was answered before, since the     *)
(* call that gave the handle up told the outcome or failed.                *)
LEMMA BeginWaits ==
  ASSUME IInv, \E k \in Calls : Wait(k) \/ Known(k) \/ \E d \in 0 .. Ticks : Poll(k, d)
  PROVE  [Outcome!WNext]_Outcome!wvars
<1> USE DEF kernel, object
<1>1. ASSUME NEW k \in Calls, Wait(k) PROVE [Outcome!WNext]_Outcome!wvars
  <2>1. CASE k \in {"destroy", "assign"}
    BY <1>1, <2>1, UnnoticedStutters
    DEF Wait, Unnoticed, MCall, MEarly, MAnswer, MDone, MValue, IInv, Answered
  <2>2. CASE k \notin {"destroy", "assign"}
    <3>1. Outcome!WCall(Caller)
      BY <1>1, <2>2 DEF Wait, Outcome!WCall, Calls
    <3> QED
      BY <3>1 DEF Outcome!WNext
  <2> QED
    BY <2>1, <2>2
<1>2. ASSUME NEW k \in Calls, Known(k) PROVE [Outcome!WNext]_Outcome!wvars
  <2>1. CASE lost
    BY <1>2, <2>1 DEF Known, Outcome!WNext, Outcome!WFail
  <2>2. CASE ~lost
    <3>1. exit = status /\ status # "none" /\ answer = (status = "ok") /\ ~early /\ pc = "idle"
      BY <1>2, <2>2 DEF Known, IInv, TypeOK, HandleMatchesChild, Fate, Answered
    <3>2. answer' = answer /\ pc' \in {"idle", "gone"} /\ UNCHANGED <<child, status, early, lost>>
      BY <1>2, <3>1 DEF Known, WaitAnswer, TryAnswer, Calls
    <3> QED
      BY <3>1, <3>2, UnnoticedStutters DEF Unnoticed, MCall, MEarly, MAnswer, MDone, MValue
  <2> QED
    BY <2>1, <2>2
<1>3. ASSUME NEW k \in Calls, NEW d \in 0 .. Ticks, Poll(k, d)
      PROVE  [Outcome!WNext]_Outcome!wvars
  <2>1. k \in {"try", "timed"}
    BY <1>3 DEF Poll
  <2>2. Outcome!WCall(Caller)
    BY <1>3, <2>1 DEF Poll, Outcome!WCall
  <2> QED
    BY <2>2 DEF Outcome!WNext
<1> QED
  BY <1>1, <1>2, <1>3

(* A call ends: with the outcome, or with "not yet" if the child was       *)
(* running when it began.                                                  *)
LEMMA ReturnWaits ==
  ASSUME NEW a, Return(a), pc \notin {"idle", "gone"}, call \in Calls, ~early',
         UNCHANGED status, (child = "running") <=> (child' = "running"),
         \/ call \in {"destroy", "assign"}
         \/ child # "running" /\ a = (status = "ok")
         \/ call \in {"try", "timed"} /\ early /\ a = NoCode
  PROVE  [Outcome!WNext]_Outcome!wvars
<1>1. CASE call \in {"destroy", "assign"}
  BY <1>1, UnnoticedStutters DEF Return, Unnoticed, MCall, MEarly, MAnswer, MDone, MValue
<1>2. CASE call \notin {"destroy", "assign"}
  <2>1. pc' = "idle" /\ answer' = a /\ early' = FALSE /\ UNCHANGED <<call, lost>>
    BY <1>2 DEF Return
  <2>2. Outcome!WAnswer(Caller)
    BY <1>2, <2>1 DEF Outcome!WAnswer, Calls
  <2> QED
    BY <2>2 DEF Outcome!WNext
<1> QED
  BY <1>1, <1>2

LEMMA CallWaits == ASSUME IInv, InCall PROVE [Outcome!WNext]_Outcome!wvars
<1>1. ASSUME pc \in {"waitpid", "poll"}, Reap PROVE [Outcome!WNext]_Outcome!wvars
  <2>1. CASE status = "term"
    BY <1>1, <2>1, UnnoticedStutters
    DEF Reap, history, Unnoticed, MCall, MEarly, MAnswer, MDone, MValue
  <2>2. CASE status # "term"
    <3>1. Return(AnswerOf(status)) /\ UNCHANGED status /\ child # "running" /\ child' # "running"
      BY <1>1, <2>2 DEF Reap
    <3>2. AnswerOf(status) = (status = "ok")
      BY <3>1 DEF AnswerOf, WaitAnswer, TryAnswer, IInv, TypeOK, Fate
    <3>3. ~early' /\ call \in Calls
      BY <3>1 DEF Return, IInv, TypeOK
    <3> QED
      BY <1>1, <3>1, <3>2, <3>3, ReturnWaits
  <2> QED
    BY <2>1, <2>2
<1>2. ASSUME ReapFails PROVE [Outcome!WNext]_Outcome!wvars
  BY <1>2 DEF ReapFails, Fail, Outcome!WNext, Outcome!WFail
<1>3. ASSUME pc = "poll", StillRunning PROVE [Outcome!WNext]_Outcome!wvars
  <2>1. CASE call = "timed" /\ delay >= 0
    BY <1>3, <2>1, UnnoticedStutters
    DEF StillRunning, kernel, object, history, Unnoticed, MCall, MEarly, MAnswer, MDone, MValue
  <2>2. CASE ~(call = "timed" /\ delay >= 0)
    <3>1. Return(NoCode) /\ UNCHANGED <<child, status>>
      BY <1>3, <2>2 DEF StillRunning, kernel
    <3>2. ~early' /\ call \in {"try", "timed"} /\ early /\ call \in Calls
      BY <1>3, <3>1 DEF StillRunning, Return, IInv, Progress, Answered, TypeOK
    <3> QED
      BY <1>3, <3>1, <3>2, ReturnWaits
  <2> QED
    BY <2>1, <2>2
<1>4. CASE Sleep
  BY <1>4, UnnoticedStutters
  DEF Sleep, kernel, object, history, Unnoticed, MCall, MEarly, MAnswer, MDone, MValue
<1>5. CASE Pending
  <2>1. Return(AnswerOf(exit)) /\ UNCHANGED <<child, status>> /\ pc = "pending"
    BY <1>5 DEF Pending, kernel
  <2>2. exit = status /\ status # "none" /\ child # "running"
    BY <2>1 DEF IInv, TypeOK, HandleMatchesChild, Fate, InWaitpid
  <2>3. AnswerOf(exit) = (status = "ok")
    BY <2>2 DEF AnswerOf, WaitAnswer, TryAnswer
  <2>4. ~early' /\ call \in Calls
    BY <2>1 DEF Return, IInv, TypeOK
  <2> QED
    BY <2>1, <2>2, <2>3, <2>4, ReturnWaits
<1> QED
  BY <1>1, <1>2, <1>3, <1>4, <1>5 DEF InCall, Waitpid, WaitpidNoHang

LEMMA NextWaits == IInv /\ [Next]_vars => [Outcome!WNext]_Outcome!wvars
<1> SUFFICES ASSUME IInv, [Next]_vars PROVE [Outcome!WNext]_Outcome!wvars
  OBVIOUS
<1>1. CASE UNCHANGED vars
  BY <1>1, UnnoticedStutters DEF vars, Unnoticed, MCall, MEarly, MAnswer, MDone, MValue
<1>2. CASE User
  BY <1>2, EndsWaits, BeginWaits DEF User
<1> QED
  BY <1>1, <1>2, ChildWaits, CallWaits DEF Next, Over

(* wait(), try_wait(), timed_wait() and a process that is already known to *)
(* have exited agree with each other and with the child, until waitpid()   *)
(* refuses to tell.                                                        *)
THEOREM Refinement == Spec => WaitImplements
  BY Invariant, InitWaits, NextWaits, PTL DEF Spec, WaitImplements, Outcome!WSpec
=============================================================================
