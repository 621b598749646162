------------------------------ MODULE Process -------------------------------
(***************************************************************************)
(* A process object and its child (libbutl/process.{hxx,ixx,cxx}, POSIX):  *)
(* waiting for the child in the three ways, signalling it, and letting go  *)
(* of the object, which waits first.  The child's stdin and stdout are     *)
(* pipes whose other ends are the out_fd and in_ofd members, until the     *)
(* caller moves them into streams.  One thread uses the object.            *)
(***************************************************************************)
EXTENDS Integers

CONSTANTS
  Caller,     \* the thread that uses the object
  NoCode,     \* nullopt
  WaitFails,  \* waitpid() may fail and leave the child alone (EINTR)
  PipeCap,    \* bound: how many chunks the stdout pipe holds
  Output,     \* bound: how many chunks the child writes
  Ticks       \* bound: the longest timed_wait(), in sleeps of 10ms

ASSUME ProcessAssumption ==
  /\ NoCode \notin BOOLEAN
  /\ WaitFails \in BOOLEAN
  /\ PipeCap \in Nat /\ Output \in Nat /\ Ticks \in Nat

VARIABLES
  child,      \* "running", "zombie" or "reaped" (kernel)
  status,     \* how it terminated: "none", "ok", "fail", "term" or "kill"
  needEof,    \* the child reads its stdin until EOF before it exits
  left,       \* the chunks it has still to write to its stdout
  fill,       \* the chunks in the stdout pipe
  sigPending, \* the signal that terminated the child is pending here too
  handle,     \* handle # 0
  exit,       \* exit, "none" if absent
  end,        \* who has out_fd and in_ofd: "object", "stream" or "closed"
  pc,         \* "idle", "waitpid", "pending", "poll", "sleep" or "gone"
  call,       \* the call being made
  delay,      \* what is left of d in timed_wait()
  answer,     \* history: the last answer
  early,      \* history: the call began before the child had terminated
  lost        \* history: waitpid() has failed

kernel == <<child, status, needEof, left, fill, sigPending>>
object == <<handle, exit, end>>
control == <<pc, call, delay>>
history == <<answer, early, lost>>
vars == <<child, status, needEof, left, fill, sigPending, handle, exit, end,
          pc, call, delay, answer, early, lost>>

Statuses == {"ok", "fail", "term", "kill"}
Calls == {"wait", "ignore", "try", "timed", "destroy", "assign"}

-----------------------------------------------------------------------------
(* The child and the system. *)

Terminate(s) ==
  /\ child = "running"
  /\ child' = "zombie"
  /\ status' = s

(* It writes its output when there is room in the pipe and somebody to     *)
(* read it; writing to a pipe nobody can read kills it (SIGPIPE).          *)
ChildWrite ==
  /\ child = "running" /\ left > 0 /\ fill < PipeCap /\ end["in_ofd"] # "closed"
  /\ left' = left - 1
  /\ fill' = fill + 1
  /\ UNCHANGED <<child, status, needEof, sigPending, object, control, history>>

ChildPipe ==
  /\ left > 0 /\ end["in_ofd"] = "closed"
  /\ Terminate("kill")
  /\ UNCHANGED <<needEof, left, fill, sigPending, object, control, history>>

ChildExit ==
  /\ left = 0
  /\ needEof => end["out_fd"] = "closed"
  /\ \E s \in {"ok", "fail"} : Terminate(s)
  /\ UNCHANGED <<needEof, left, fill, sigPending, object, control, history>>

(* A signal for the whole process group: it terminates the child and is    *)
(* pending for the parent, too, until its handler runs.                    *)
GroupSignal ==
  /\ Terminate("term")
  /\ sigPending' = TRUE
  /\ UNCHANGED <<needEof, left, fill, object, control, history>>

Deliver ==
  /\ sigPending
  /\ sigPending' = FALSE
  /\ UNCHANGED <<child, status, needEof, left, fill, object, control, history>>

-----------------------------------------------------------------------------
(* What the caller does with the pipe ends. *)

MoveToStream(e) ==
  /\ pc = "idle" /\ end[e] = "object"
  /\ end' = [end EXCEPT ![e] = "stream"]
  /\ UNCHANGED <<kernel, handle, exit, control, history>>

CloseStream(e) ==
  /\ pc = "idle" /\ end[e] = "stream"
  /\ end' = [end EXCEPT ![e] = "closed"]
  /\ UNCHANGED <<kernel, handle, exit, control, history>>

ReadStream ==
  /\ pc = "idle" /\ end["in_ofd"] = "stream" /\ fill > 0
  /\ fill' = fill - 1
  /\ UNCHANGED <<child, status, needEof, left, sigPending, object, control, history>>

-----------------------------------------------------------------------------
(* How a call ends. *)

(* The call returns the answer a (destruction and assignment return        *)
(* nothing and leave no object).                                           *)
Return(a) ==
  /\ pc' = IF call \in {"destroy", "assign"} THEN "gone" ELSE "idle"
  /\ answer' = IF call \in {"destroy", "assign"} THEN answer ELSE a
  /\ early' = FALSE
  /\ UNCHANGED <<call, delay, lost>>

(* waitpid() has failed, and the call throws process_error; wait(true)     *)
(* and the destructor ignore the error and answer false.                   *)
Fail ==
  /\ lost' = TRUE
  /\ pc' = IF call = "destroy" THEN "gone" ELSE "idle"
  /\ answer' = IF call = "ignore" THEN FALSE ELSE answer
  /\ early' = FALSE
  /\ UNCHANGED <<call, delay>>

(* Fault: a process that was terminated by a signal succeeded. *)
WaitAnswerSignal(e) == e \in {"ok", "term"}

(* What wait() and try_wait() answer of the exit e, absent or not. *)
WaitAnswer(e) == e = "ok"
TryAnswer(e) == IF e = "none" THEN NoCode ELSE e = "ok"
AnswerOf(e) == IF call \in {"try", "timed"} THEN TryAnswer(e) ELSE WaitAnswer(e)

(* Fault: the handle is kept. *)
ReapKeepsHandle ==
  /\ child = "zombie"
  /\ child' = "reaped"
  /\ exit' = status
  /\ Return(AnswerOf(status))
  /\ UNCHANGED <<status, needEof, left, fill, sigPending, handle, end>>

(* waitpid() returned the status: the handle is gone and the exit is       *)
(* known.  If the child died of a signal the parent may be about to get as *)
(* well, wait while that is pending.                                       *)
Reap ==
  /\ child = "zombie"
  /\ child' = "reaped"
  /\ handle' = FALSE
  /\ exit' = status
  /\ IF status = "term"
     THEN /\ pc' = "pending"
          /\ UNCHANGED <<call, delay, history>>
     ELSE Return(AnswerOf(status))
  /\ UNCHANGED <<status, needEof, left, fill, sigPending, end>>

(* It failed: "we have tried". *)
ReapFails ==
  /\ WaitFails
  /\ handle' = FALSE
  /\ Fail
  /\ UNCHANGED <<kernel, exit, end>>

-----------------------------------------------------------------------------
(* The calls. *)

(* Fault: wait() leaves the pipe ends open. *)
CloseEndsNot == UNCHANGED end

(* wait(), the destructor and the move assignment: close the pipe ends the *)
(* object still has, so that the child does not wait for us.               *)
CloseEnds == end' = [e \in DOMAIN end |-> IF end[e] = "object" THEN "closed" ELSE end[e]]

Wait(k) ==
  /\ pc = "idle" /\ handle
  /\ k \in {"wait", "ignore", "destroy", "assign"}
  /\ CloseEnds
  /\ pc' = "waitpid"
  /\ call' = k
  /\ early' = (child = "running")
  /\ UNCHANGED <<kernel, handle, exit, delay, answer, lost>>

(* try_wait() and timed_wait(d). *)
Poll(k, d) ==
  /\ pc = "idle" /\ handle
  /\ <<k, d>> \in ({"try"} \X {0}) \cup ({"timed"} \X (0 .. Ticks))
  /\ pc' = "poll"
  /\ call' = k
  /\ delay' = d
  /\ early' = (child = "running")
  /\ UNCHANGED <<kernel, object, answer, lost>>

(* Without a handle every call answers from exit; timed_wait() does so     *)
(* after sleeping for nothing if that is absent.                           *)
Known(k) ==
  /\ pc = "idle" /\ ~handle
  /\ k \in Calls
  /\ call' = k
  /\ pc' = IF k \in {"destroy", "assign"} THEN "gone" ELSE "idle"
  /\ answer' = CASE k \in {"destroy", "assign"} -> answer
                 [] k \in {"wait", "ignore"} -> WaitAnswer(exit)
                 [] OTHER -> TryAnswer(exit)
  /\ UNCHANGED <<kernel, object, delay, early, lost>>

Waitpid == pc = "waitpid" /\ (Reap \/ ReapFails)

(* waitpid(WNOHANG) tells that the child is still running: try_wait()      *)
(* answers "not yet", timed_wait() sleeps for 10ms or what is left, and    *)
(* tries one last time after the latter.                                   *)
StillRunning ==
  /\ child = "running"
  /\ IF call = "timed" /\ delay >= 0
     THEN pc' = "sleep" /\ UNCHANGED <<call, delay, history>>
     ELSE Return(NoCode)
  /\ UNCHANGED <<kernel, object>>

WaitpidNoHang == pc = "poll" /\ (Reap \/ ReapFails \/ StillRunning)

Sleep ==
  /\ pc = "sleep"
  /\ delay' = delay - 1
  /\ pc' = "poll"
  /\ UNCHANGED <<kernel, object, call, history>>

Pending ==
  /\ pc = "pending" /\ ~sigPending
  /\ Return(AnswerOf(exit))
  /\ UNCHANGED <<kernel, object>>

(* kill() and term(), which the child may have a handler for. *)
Kill ==
  /\ pc = "idle" /\ handle
  /\ \/ Terminate("kill") /\ UNCHANGED <<needEof, left, fill, sigPending>>
     \/ Terminate("term") /\ UNCHANGED <<needEof, left, fill, sigPending>>
     \/ UNCHANGED kernel
  /\ UNCHANGED <<object, control, history>>

Over == pc = "gone" /\ UNCHANGED vars

Init ==
  /\ child = "running"
  /\ status = "none"
  /\ needEof \in BOOLEAN
  /\ left \in 0 .. Output
  /\ fill = 0
  /\ sigPending = FALSE
  /\ handle = TRUE
  /\ exit = "none"
  /\ end = [e \in {"out_fd", "in_ofd"} |-> "object"]
  /\ pc = "idle"
  /\ call = "wait"
  /\ delay = 0
  /\ answer = NoCode
  /\ early = FALSE
  /\ lost = FALSE

ChildStep == ChildWrite \/ ChildPipe \/ ChildExit

User ==
  \/ \E e \in {"out_fd", "in_ofd"} : MoveToStream(e) \/ CloseStream(e)
  \/ ReadStream
  \/ \E k \in Calls : Wait(k) \/ Known(k) \/ \E d \in 0 .. Ticks : Poll(k, d)
  \/ Kill

InCall == Waitpid \/ WaitpidNoHang \/ Sleep \/ Pending

Next == ChildStep \/ GroupSignal \/ Deliver \/ User \/ InCall \/ Over

Spec == Init /\ [][Next]_vars

(* The steps of a call but for a failure of waitpid(). *)
GoOn ==
  \/ pc = "waitpid" /\ Reap
  \/ pc = "poll" /\ (Reap \/ StillRunning)
  \/ Sleep
  \/ Pending

(* The child keeps running, a call that can go on does, and a pending      *)
(* signal is delivered (some thread has it unblocked).  The caller need    *)
(* not do anything, nobody needs to send a signal, and waitpid() need not  *)
(* fail.                                                                   *)
Fairness == WF_vars(ChildStep) /\ WF_vars(GoOn) /\ WF_vars(Deliver)

FairSpec == Spec /\ Fairness

-----------------------------------------------------------------------------
(* The types of the variables. *)
TypeOK ==
  /\ child \in {"running", "zombie", "reaped"}
  /\ status \in Statuses \cup {"none"}
  /\ needEof \in BOOLEAN
  /\ left \in 0 .. Output
  /\ fill \in 0 .. PipeCap
  /\ sigPending \in BOOLEAN
  /\ handle \in BOOLEAN
  /\ exit \in Statuses \cup {"none"}
  /\ end \in [{"out_fd", "in_ofd"} -> {"object", "stream", "closed"}]
  /\ pc \in {"idle", "waitpid", "pending", "poll", "sleep", "gone"}
  /\ call \in Calls
  /\ delay \in -1 .. Ticks
  /\ answer \in BOOLEAN \cup {NoCode}
  /\ early \in BOOLEAN
  /\ lost \in BOOLEAN

(* As long as there is a handle for a later call to signal or to wait for, *)
(* its id is not that of some other process; and when there is none the    *)
(* child has been reaped, unless waitpid() itself refused.                 *)
HandleMatchesChild ==
  /\ handle => child # "reaped"
  /\ ~handle /\ ~lost => child = "reaped"

(* The three ways to wait agree with each other and with the child's fate, *)
(* until waitpid() refuses to tell it.                                     *)
Outcome == INSTANCE Waitable WITH
  Callers <- {Caller},
  Codes <- BOOLEAN,
  done <- child # "running",
  value <- IF child = "running" THEN NoCode ELSE status = "ok",
  call <- [c \in {Caller} |->
             IF pc \in {"idle", "gone"} \/ call \in {"destroy", "assign"} THEN "none"
             ELSE IF call \in {"wait", "ignore"} THEN "wait" ELSE "poll"],
  early <- [c \in {Caller} |-> early /\ call \notin {"destroy", "assign"}],
  answer <- [c \in {Caller} |-> answer],
  failed <- lost

WaitImplements == Outcome!WSpec

(* A call ends, whatever the child still wants to read or write, as long   *)
(* as the caller has not left one of its streams open.                     *)
CallEnds ==
  (pc \notin {"idle", "gone"} /\ \A e \in DOMAIN end : end[e] # "stream")
    ~> pc \in {"idle", "gone"}
=============================================================================
