------------------------------ MODULE Waitable ------------------------------
(***************************************************************************)
(* What wait(), try_wait() and timed_wait() promise, for a builtin and for *)
(* a process alike: the thing that runs completes once, with one result;   *)
(* wait() answers that result; the other two answer it if the thing has    *)
(* already completed when they are called, and may answer "not yet"        *)
(* otherwise.  They can be called any number of times.  Nothing is         *)
(* promised any more once the system has refused to tell the result.       *)
(***************************************************************************)
CONSTANTS
  Callers,   \* the threads that wait
  Codes,     \* the results
  NoCode     \* nullopt

VARIABLES
  done,      \* it has completed
  value,     \* its result, once done
  call,      \* what each caller is doing: "none", "wait" or "poll"
  early,     \* the caller's pending call began before the completion
  answer,    \* the last answer each caller got
  failed     \* the result is not to be had

wvars == <<done, value, call, early, answer, failed>>

WInit ==
  /\ done = FALSE
  /\ value = NoCode
  /\ call = [c \in Callers |-> "none"]
  /\ early = [c \in Callers |-> FALSE]
  /\ answer = [c \in Callers |-> NoCode]
  /\ failed = FALSE

WComplete ==
  /\ ~done
  /\ done'
  /\ value' \in Codes
  /\ UNCHANGED <<call, early, answer, failed>>

WCall(c) ==
  /\ call[c] = "none"
  /\ \E k \in {"wait", "poll"} : call' = [call EXCEPT ![c] = k]
  /\ early' = [early EXCEPT ![c] = ~done]
  /\ UNCHANGED <<done, value, answer, failed>>

WAnswer(c) ==
  /\ call[c] # "none"
  /\ \/ done /\ answer' = [answer EXCEPT ![c] = value]
     \/ call[c] = "poll" /\ early[c] /\ answer' = [answer EXCEPT ![c] = NoCode]
  /\ call' = [call EXCEPT ![c] = "none"]
  /\ early' = [early EXCEPT ![c] = FALSE]
  /\ UNCHANGED <<done, value, failed>>

WFail == failed'

WNext == WComplete \/ WFail \/ \E c \in Callers : WCall(c) \/ WAnswer(c)

WSpec == WInit /\ [][WNext]_wvars
=============================================================================
