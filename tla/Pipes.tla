------------------------------- MODULE Pipes --------------------------------
(***************************************************************************)
(* A process that reads the output of a child through ifdstreams, and      *)
(* maybe writes its input: the clients of process and fdstream in libbutl  *)
(* (curl, openssl, b_info) and the non-blocking loop over two streams that *)
(* fdstream.hxx recommends.  Any read may fail and the caller may throw    *)
(* between two lines; then the streams are destroyed, last one first, and  *)
(* the process waits for the child.                                        *)
(***************************************************************************)
EXTENDS FdInBuf, SequencesExt

CONSTANTS
  Char,         \* the other characters
  Client,       \* the clients, a subset of AnyClient
  MaxText,      \* bound: how much the child writes to each stream
  MaxFeed,      \* bound: how much is written to the child
  PipeCap       \* bound: how much a pipe holds

AnyClient == {"version", "info", "b_info", "filter", "select"}

ASSUME PipesAssumption ==
  /\ Stream = {"out", "err"} /\ Client \subseteq AnyClient
  /\ MaxText \in [Stream -> Nat] /\ MaxFeed \in Nat /\ PipeCap \in [Stream \cup {"in"} -> Nat \ {0}]

VARIABLES
  client,       \* who runs, never changed
  plan,         \* what the child writes if nothing goes wrong, never changed
  child,        \* "running", "zombie" or "reaped"
  status,       \* "none", "ok", "fail" or "pipe" (SIGPIPE)
  rest,         \* what the child has yet to write
  fed,          \* how much is in the pipe to its stdin
  toFeed,       \* how much the parent has yet to write to it
  feeding,      \* the parent has the write end of that pipe
  pc,           \* where the parent is
  cur,          \* the stream of the call being made
  retry,        \* the streams to try before the next fdselect()
  live,         \* the streams that have not ended yet
  thrown,       \* an exception is propagating
  outcome,      \* "none", "ok", "nullopt" or "throw"
  lines,        \* the lines each stream has delivered
  said          \* history: the text of these lines, with their delimiters

childVars == <<child, status, rest>>
feedVars == <<fed, toFeed, feeding>>
setup == <<client, plan>>
control == <<pc, cur, retry, live, thrown, outcome, lines, said>>
vars == <<pipe, writer, open, nonBlocking, area, off, bits, line, took,
          client, plan, child, status, rest, fed, toFeed, feeding,
          pc, cur, retry, live, thrown, outcome, lines, said>>

-----------------------------------------------------------------------------
(* The clients. *)

Piped == IF client = "select" THEN Stream ELSE {"out"}
Skip == {"out"}
FeedsInput == client \in {"filter", "select"}

(* The exception mask contains failbit, so that no line is an error.       *)
NeedsLine == client \in {"version", "info"}

(* Fault: the stream that skips is declared last.                          *)
UnwindSkipFirst == <<"in", "out", "err">>

(* Streams in the order of their destruction: the one that skips last.     *)
Unwind == <<"in", "err", "out">>

Init ==
  /\ client \in Client
  /\ \E p \in BoundedSeq(Char \cup {NL}, MaxText["out"]), q \in BoundedSeq(Char \cup {NL}, MaxText["err"]) :
        plan = [s \in Stream |-> IF s = "out" THEN p ELSE IF client = "select" THEN q ELSE <<>>]
  /\ pipe = [s \in Stream |-> <<>>] /\ writer = [s \in Stream |-> TRUE]
  /\ open = [s \in Stream |-> s \in Piped]
  /\ nonBlocking = [s \in Stream |-> client = "select"]
  /\ area = [s \in Stream |-> <<>>] /\ off = [s \in Stream |-> 0]
  /\ bits = [s \in Stream |-> {}]
  /\ line = [s \in Stream |-> <<>>] /\ took = [s \in Stream |-> <<>>]
  /\ child = "running" /\ status = "none" /\ rest = plan
  /\ fed = 0 /\ toFeed = (IF FeedsInput THEN MaxFeed ELSE 0)
  /\ feeding = FeedsInput
  /\ pc = IF FeedsInput THEN "feed" ELSE "read"
  /\ cur = "out" /\ retry = Piped /\ live = Piped
  /\ thrown = FALSE /\ outcome = "none"
  /\ lines = [s \in Stream |-> <<>>] /\ said = [s \in Stream |-> <<>>]

-----------------------------------------------------------------------------
(* The child: it reads its stdin until the end of file, then writes.       *)

Terminate(st) ==
  /\ child = "running"
  /\ child' = "zombie" /\ status' = st
  /\ writer' = [s \in Stream |-> FALSE]
  /\ UNCHANGED <<pipe, stream, rest, setup, feedVars, control>>

ChildRead ==
  /\ child = "running" /\ fed > 0
  /\ fed' = fed - 1
  /\ UNCHANGED <<kernel, stream, childVars, setup, toFeed, feeding, control>>

InputEnded == fed = 0 /\ ~feeding

ChildWrite(s) ==
  /\ child = "running" /\ InputEnded
  /\ rest[s] # <<>> /\ open[s] /\ Len(pipe[s]) < PipeCap[s]
  /\ pipe' = [pipe EXCEPT ![s] = Append(@, Head(rest[s]))]
  /\ rest' = [rest EXCEPT ![s] = Tail(@)]
  /\ UNCHANGED <<writer, stream, child, status, setup, feedVars, control>>

(* Nobody can read the pipe any more.                                      *)
ChildPipe(s) == InputEnded /\ rest[s] # <<>> /\ ~open[s] /\ Terminate("pipe")

ChildExit ==
  /\ InputEnded /\ \A s \in Stream : rest[s] = <<>>
  /\ \E st \in {"ok", "fail"} : Terminate(st)

ChildCrash == Terminate("fail")

-----------------------------------------------------------------------------
(* Exceptions. *)

(* The stack is unwound: the destructor of the first stream is next.       *)
Throw ==
  /\ thrown' = TRUE
  /\ pc' = "unwind" /\ cur' = Unwind[1]
  /\ UNCHANGED <<retry, live, outcome, lines, said>>

(* A read() fails.                                                         *)
ReadError ==
  /\ pc \in {"getline", "drain"} /\ area[cur] = <<>>
  /\ ReadFails(cur, pc = "getline" /\ client \in {"filter", "select"})
  /\ Throw
  /\ UNCHANGED <<setup, childVars, feedVars>>

(* The caller does not like what it has read.                              *)
CallerThrows ==
  /\ pc = "read" /\ ~NeedsLine
  /\ Throw
  /\ UNCHANGED <<kernel, stream, setup, childVars, feedVars>>

-----------------------------------------------------------------------------
(* Writing the input of the child, in blocking mode. *)

Feed ==
  /\ pc = "feed" /\ toFeed > 0 /\ child = "running" /\ fed < PipeCap["in"]
  /\ fed' = fed + 1 /\ toFeed' = toFeed - 1
  /\ UNCHANGED <<kernel, stream, childVars, setup, feeding, control>>

(* EPIPE.                                                                  *)
FeedFails ==
  /\ pc = "feed" /\ toFeed > 0 /\ child # "running"
  /\ Throw
  /\ UNCHANGED <<kernel, stream, childVars, setup, feedVars>>

EndFeed ==
  /\ pc = "feed" /\ toFeed = 0
  /\ feeding' = FALSE
  /\ pc' = "read"
  /\ UNCHANGED <<kernel, stream, childVars, setup, fed, toFeed, cur, retry, live,
                 thrown, outcome, lines, said>>

-----------------------------------------------------------------------------
(* Reading. *)

(* The next call: of the only stream or, in the non-blocking loop, of one  *)
(* that has not said yet that it would block.                              *)
Call ==
  /\ pc = "read" /\ live # {}
  /\ \E s \in retry : cur' = s
  /\ pc' = "getline"
  /\ UNCHANGED <<kernel, stream, childVars, setup, feedVars, retry, live, thrown,
                 outcome, lines, said>>

Deliver(l) ==
  /\ lines' = [lines EXCEPT ![cur] = Append(@, l)]
  /\ said' = [said EXCEPT ![cur] = Append(@ \o l, NL)]

(* One more piece of the line; if the delimiter is there, getline()        *)
(* returns and the caller consumes the line.                               *)
GetPiece ==
  /\ pc = "getline" /\ client # "filter"
  /\ Extract(cur)
  /\ UNCHANGED <<setup, childVars, feedVars, retry, live, thrown, outcome>>
  /\ IF Complete(cur)
     THEN /\ Deliver(line'[cur])
          /\ pc' = "line"
     ELSE UNCHANGED <<lines, said, pc>>
  /\ UNCHANGED cur

(* The caller clears the string and goes on, or is content with one line.  *)
NextLine ==
  /\ pc = "line"
  /\ line' = [line EXCEPT ![cur] = <<>>]
  /\ pc' = IF NeedsLine THEN "close" ELSE "read"
  /\ UNCHANGED <<kernel, open, nonBlocking, area, off, bits, took, setup, childVars, feedVars,
                 cur, retry, live, thrown, outcome, lines, said>>

(* read_binary() extracts everything.                                      *)
GetBinary ==
  /\ pc = "getline" /\ client = "filter"
  /\ Discard(cur)
  /\ UNCHANGED <<setup, childVars, feedVars, control>>

EndBinary ==
  /\ pc = "getline" /\ client = "filter"
  /\ area[cur] = <<>> /\ AtEof(cur)
  /\ live' = live \ {cur}
  /\ pc' = "close"
  /\ UNCHANGED <<kernel, stream, setup, childVars, feedVars, cur, retry, thrown,
                 outcome, lines, said>>

Fill ==
  /\ pc \in {"getline", "drain", "unwindDrain"}
  /\ cur \in Stream
  /\ Refill(cur)
  /\ UNCHANGED <<setup, childVars, feedVars, control>>

(* The end of the file: a last line without a delimiter is a line as any   *)
(* other; no line ends the loop of the caller (eof()), or is an error.     *)
GetEnd ==
  /\ pc = "getline" /\ client # "filter"
  /\ EndOfFile(cur)
  /\ UNCHANGED <<setup, childVars, feedVars>>
  /\ IF "fail" \notin bits'[cur]
     THEN /\ Deliver(line[cur])
          /\ pc' = "line"
          /\ UNCHANGED <<cur, retry, live, thrown, outcome>>
     ELSE IF NeedsLine THEN Throw
     ELSE /\ live' = live \ {cur} /\ retry' = retry \ {cur}
          /\ pc' = IF live' = {} THEN "close" ELSE "read"
          /\ UNCHANGED <<cur, thrown, outcome, lines, said>>

(* getline_non_blocking() returns false, with the piece of the line kept.  *)
GetBlocked ==
  /\ pc = "getline"
  /\ WouldBlock(cur) \/ Interrupted(cur)
  /\ retry' = retry \ {cur}
  /\ pc' = "read"
  /\ UNCHANGED <<setup, childVars, feedVars, cur, live, thrown, outcome, lines, said>>

(* fdselect() returns when one of the streams can be read.                 *)
Select ==
  /\ pc = "read" /\ client = "select" /\ live # {} /\ retry = {}
  /\ \E s \in live : Readable(s)
  /\ retry' = live
  /\ UNCHANGED <<kernel, stream, setup, childVars, feedVars, pc, cur, live, thrown,
                 outcome, lines, said>>

-----------------------------------------------------------------------------
(* close(), the destructors, and waiting. *)

CloseOut ==
  /\ pc = "close"
  /\ cur' = "out"
  /\ IF MustSkip("out", Skip)
     THEN SetBlocking("out") /\ pc' = "drain"
     ELSE CloseFd("out") /\ pc' = "wait"
  /\ UNCHANGED <<setup, childVars, feedVars, retry, live, thrown, outcome, lines, said>>

Drain ==
  /\ pc \in {"drain", "unwindDrain"}
  /\ Discard(cur)
  /\ UNCHANGED <<setup, childVars, feedVars, control>>

EndDrain ==
  /\ pc \in {"drain", "unwindDrain"}
  /\ IgnoreEnds(cur)
  /\ pc' = IF pc = "drain" THEN "close" ELSE "unwind"
  /\ UNCHANGED <<setup, childVars, feedVars, cur, retry, live, thrown, outcome,
                 lines, said>>

(* An error while the destructor skips is ignored.                         *)
DrainError ==
  /\ pc = "unwindDrain" /\ area[cur] = <<>>
  /\ ReadFails(cur, FALSE)
  /\ pc' = "unwind"
  /\ UNCHANGED <<setup, childVars, feedVars, cur, retry, live, thrown, outcome,
                 lines, said>>

After(s) == LET i == CHOOSE i \in DOMAIN Unwind : Unwind[i] = s
            IN IF i = Len(Unwind) THEN "none" ELSE Unwind[i + 1]

(* ~ofdstream() closes without saving.                                     *)
DestroyFeed ==
  /\ pc = "unwind" /\ cur = "in"
  /\ feeding' = FALSE
  /\ cur' = After("in")
  /\ UNCHANGED <<kernel, stream, setup, childVars, fed, toFeed, pc, retry, live,
                 thrown, outcome, lines, said>>

DestroyStream ==
  /\ pc = "unwind" /\ cur \in Stream
  /\ IF MustSkip(cur, Skip)
     THEN SetBlocking(cur) /\ pc' = "unwindDrain" /\ UNCHANGED cur
     ELSE /\ CloseFd(cur)
          /\ cur' = After(cur)
          /\ pc' = IF After(cur) = "none" THEN "wait" ELSE "unwind"
  /\ UNCHANGED <<setup, childVars, feedVars, retry, live, thrown, outcome, lines, said>>

(* Fault: the exit status of the child does not matter.                    *)
OutcomeNoStatus ==
  IF thrown THEN IF client = "version" THEN "nullopt" ELSE "throw" ELSE "ok"

(* What the caller gets: curl::version() catches the failures of streams,  *)
(* the others let them through.                                            *)
Outcome ==
  IF thrown THEN IF client = "version" THEN "nullopt" ELSE "throw"
  ELSE IF status = "ok" THEN "ok"
  ELSE IF client = "b_info" THEN "throw" ELSE "nullopt"

Wait ==
  /\ pc = "wait" /\ child = "zombie"
  /\ child' = "reaped"
  /\ outcome' = Outcome
  /\ pc' = "done"
  /\ open' = [s \in Stream |-> FALSE]
  /\ UNCHANGED <<kernel, nonBlocking, area, off, bits, line, took, status, rest,
                 setup, feedVars, cur, retry, live, thrown, lines, said>>

Done == pc = "done" /\ UNCHANGED vars

-----------------------------------------------------------------------------
ChildNext ==
  \/ ChildRead \/ ChildExit \/ ChildCrash
  \/ \E s \in Stream : ChildWrite(s) \/ ChildPipe(s)

ParentNext ==
  \/ Feed \/ FeedFails \/ EndFeed \/ Call \/ GetPiece \/ NextLine \/ GetBinary
  \/ EndBinary \/ Fill \/ GetEnd \/ GetBlocked \/ Select \/ CloseOut \/ Drain
  \/ EndDrain \/ DestroyFeed \/ DestroyStream \/ Wait

Next == ChildNext \/ ParentNext \/ ReadError \/ DrainError \/ CallerThrows \/ Done

(* The child keeps running and the parent does; interrupted calls are      *)
(* repeated, and one day not interrupted.                                  *)
ChildRuns ==
  \/ ChildRead \/ ChildExit \/ \E s \in Stream : ChildWrite(s) \/ ChildPipe(s)

Spec ==
  /\ Init /\ [][Next]_vars
  /\ WF_vars(ChildRuns) /\ WF_vars(ParentNext) /\ SF_vars(Fill) /\ SF_vars(GetEnd)

-----------------------------------------------------------------------------
(* Every character the child has to write is at one place and in order: it *)
(* was extracted, is in the get area or in the pipe, or is still to be     *)
(* written; and tellg() is the number of those extracted.  This is about   *)
(* reads that fill the buffer partly, lines that span buffers, and the     *)
(* changes between modes.                                                  *)
Delivered ==
  \A s \in Stream :
    /\ took[s] \o area[s] \o pipe[s] \o rest[s] = plan[s]
    /\ Tellg(s) = Len(took[s])

(* A stream that skips does not let the child be killed for writing to it, *)
(* unless reading has failed: not when the caller throws between two lines *)
(* nor when close() comes early, and in the non-blocking mode neither.     *)
SkipDrains ==
  status = "pipe" =>
    \E s \in Stream : ~open[s] /\ rest[s] # <<>> /\ (s \notin Skip \/ "bad" \in bits[s])

(* A client that succeeds had a child that did, and all the output it was  *)
(* after.  (The text has one delimiter more than the child wrote if its    *)
(* last line has none.)                                                    *)
OutcomeTrue ==
  outcome = "ok" =>
    /\ status = "ok"
    /\ client = "filter" => took["out"] = plan["out"]
    /\ client \in {"b_info", "select"} =>
         \A s \in Stream : said[s] \in {plan[s], Append(plan[s], NL)}
    /\ NeedsLine => Len(lines["out"]) = 1 /\ IsPrefix(said["out"], Append(plan["out"], NL))

(* The streams are sources of lines.                                       *)
Source == INSTANCE LineSource WITH
  text <- [s \in Stream |-> SubSeq(plan[s], 1, Len(plan[s]) - Len(rest[s]))],
  closed <- [s \in Stream |-> ~writer[s]],
  next <- [s \in Stream |-> Len(said[s]) + 1],
  ended <- [s \in Stream |-> "fail" \in bits[s]]

(* Reading in pieces, from a child that writes when it likes, delivers the *)
(* lines of what it writes: none is lost, split, joined or repeated, and   *)
(* the end is not reported before the last one, with a delimiter or not.   *)
LinesImplement == Source!LSSpec

(* The parent gets to its end, whatever fails and whenever the caller      *)
(* throws: it neither waits in fdselect() with a line at hand, nor skips   *)
(* one stream while the child waits for another.                           *)
ParentEnds == <>(pc = "done")
=============================================================================
