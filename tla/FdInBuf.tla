------------------------------ MODULE FdInBuf -------------------------------
(***************************************************************************)
(* The input half of fdstreambuf and the ifdstream calls that reach it, on *)
(* pipes whose write ends another process has (libbutl/fdstream.cxx,       *)
(* POSIX).  The operators are the steps of the calls, each with at most    *)
(* one system call; Pipes puts them in order.                              *)
(***************************************************************************)
EXTENDS Integers, Sequences

CONSTANTS
  Stream,       \* the streams of the reading process
  NL,           \* the delimiter of a line
  BufSize       \* sizeof (buf_)

ASSUME FdInBufAssumption == BufSize \in Nat \ {0}

VARIABLES
  pipe,         \* what is in each pipe (kernel)
  writer,       \* somebody has its write end (kernel)
  open,         \* fd_ >= 0
  nonBlocking,  \* non_blocking_, and the mode of the descriptor
  area,         \* [gptr(), egptr())
  off,          \* off_
  bits,         \* the state bits, of "eof", "fail" and "bad"
  line,         \* the string getline() appends to
  took          \* history: the characters extracted from the stream

kernel == <<pipe, writer>>
stream == <<open, nonBlocking, area, off, bits, line, took>>

Good(s) == bits[s] = {}

-----------------------------------------------------------------------------
(* fdread() *)

Readable(s) == pipe[s] # <<>> \/ ~writer[s]
AtEof(s) == pipe[s] = <<>> /\ ~writer[s]

(* A read() that returns something fills the get area, which was empty.    *)
Refill(s) ==
  /\ area[s] = <<>> /\ pipe[s] # <<>>
  /\ LET n == IF Len(pipe[s]) < BufSize THEN Len(pipe[s]) ELSE BufSize
     IN /\ area' = [area EXCEPT ![s] = SubSeq(pipe[s], 1, n)]
        /\ pipe' = [pipe EXCEPT ![s] = SubSeq(@, n + 1, Len(@))]
        /\ off' = [off EXCEPT ![s] = @ + n]
  /\ UNCHANGED <<writer, open, nonBlocking, bits, line, took>>

-----------------------------------------------------------------------------
(* getline(), blocking or not *)

(* The next n characters are of the line, which the delimiter then ends,   *)
(* unless that is not in the get area (memchr()).                          *)
Piece(s, n) ==
  /\ \A i \in 1..n : area[s][i] # NL
  /\ n < Len(area[s]) => area[s][n + 1] = NL

(* How many characters go, with the delimiter.                             *)
Extent(s, n) == IF n < Len(area[s]) THEN n + 1 ELSE n

(* Fault: what follows the delimiter goes, too.                            *)
ExtractAll(s) ==
  /\ area[s] # <<>>
  /\ \E n \in 0..Len(area[s]) :
       /\ Piece(s, n)
       /\ line' = [line EXCEPT ![s] = @ \o SubSeq(area[s], 1, n)]
       /\ took' = [took EXCEPT ![s] = @ \o SubSeq(area[s], 1, Extent(s, n))]
  /\ area' = [area EXCEPT ![s] = <<>>]
  /\ UNCHANGED <<kernel, open, nonBlocking, off, bits>>

Extract(s) ==
  /\ area[s] # <<>>
  /\ \E n \in 0..Len(area[s]) :
       /\ Piece(s, n)
       /\ line' = [line EXCEPT ![s] = @ \o SubSeq(area[s], 1, n)]
       /\ took' = [took EXCEPT ![s] = @ \o SubSeq(area[s], 1, Extent(s, n))]
       /\ area' = [area EXCEPT ![s] = SubSeq(@, Extent(s, n) + 1, Len(@))]
  /\ UNCHANGED <<kernel, open, nonBlocking, off, bits>>

(* The last extraction ends with the delimiter.                            *)
Complete(s) == \E i \in 1..Len(area[s]) : area[s][i] = NL

(* Fault: the last line fails when its delimiter is missing.               *)
EndOfFileFails(s) ==
  /\ area[s] = <<>> /\ AtEof(s)
  /\ bits' = [bits EXCEPT ![s] = @ \cup {"eof", "fail"}]
  /\ UNCHANGED <<kernel, open, nonBlocking, area, off, line, took>>

(* A read() that returns 0: end of file, and a failure if nothing has been *)
(* extracted, not even a delimiter.                                        *)
EndOfFile(s) ==
  /\ area[s] = <<>> /\ AtEof(s)
  /\ bits' = [bits EXCEPT ![s] = @ \cup {"eof"} \cup IF line[s] = <<>> THEN {"fail"} ELSE {}]
  /\ UNCHANGED <<kernel, open, nonBlocking, area, off, line, took>>

(* A non-blocking read() that would block or, at any time, is interrupted. *)
WouldBlock(s) ==
  /\ area[s] = <<>> /\ nonBlocking[s] /\ ~Readable(s)
  /\ UNCHANGED <<kernel, stream>>

Interrupted(s) ==
  /\ area[s] = <<>> /\ nonBlocking[s]
  /\ UNCHANGED <<kernel, stream>>

-----------------------------------------------------------------------------
(* close() and the destructor *)

(* Fault: a stream at which nothing has failed is not skipped either.      *)
MustSkipNever(s, skip) == FALSE

MustSkip(s, skip) == s \in skip /\ open[s] /\ Good(s)

(* Skipping blocks, so the mode is set back first.                         *)
SetBlocking(s) ==
  /\ nonBlocking' = [nonBlocking EXCEPT ![s] = FALSE]
  /\ UNCHANGED <<kernel, open, area, off, bits, line, took>>

(* ignore(): the get area is dropped, filled and dropped again until the   *)
(* end of file, which is no failure here.                                  *)
Discard(s) ==
  /\ area[s] # <<>>
  /\ took' = [took EXCEPT ![s] = @ \o area[s]]
  /\ area' = [area EXCEPT ![s] = <<>>]
  /\ UNCHANGED <<kernel, open, nonBlocking, off, bits, line>>

IgnoreEnds(s) ==
  /\ area[s] = <<>> /\ AtEof(s)
  /\ bits' = [bits EXCEPT ![s] = @ \cup {"eof"}]
  /\ UNCHANGED <<kernel, open, nonBlocking, area, off, line, took>>

(* auto_fd::close().  The get area is left as it is.                       *)
CloseFd(s) ==
  /\ open' = [open EXCEPT ![s] = FALSE]
  /\ UNCHANGED <<kernel, nonBlocking, area, off, bits, line, took>>

(* load() fails: the exception goes through the istream, which sets        *)
(* badbit, or directly to who has called the buffer and not the stream.    *)
ReadFails(s, direct) ==
  /\ bits' = IF direct THEN bits ELSE [bits EXCEPT ![s] = @ \cup {"bad"}]
  /\ UNCHANGED <<kernel, open, nonBlocking, area, off, line, took>>

(* tellg() *)
Tellg(s) == off[s] - Len(area[s])
=============================================================================
