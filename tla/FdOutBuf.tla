------------------------------ MODULE FdOutBuf ------------------------------
(***************************************************************************)
(* The output half of fdstreambuf and the ofdstream over it                *)
(* (libbutl/fdstream.{hxx,ixx,cxx}): a put area in front of a file         *)
(* descriptor whose writes may be short or fail.                           *)
(*                                                                         *)
(* The put area buf_ has Cap characters plus one kept for overflow().  The *)
(* state of the std::ostream is rdstate; the standard library's part of an *)
(* operation (the sentry that makes it a noop on a stream that is not      *)
(* good, which bit a result sets) is modelled as the C++ standard has it.  *)
(* file and pos are the kernel's: the content of the open file and its     *)
(* offset.                                                                 *)
(***************************************************************************)
EXTENDS Integers, Sequences

CONSTANTS
  Byte,        \* the characters written
  Hole,        \* what a position nobody wrote holds
  Cap,         \* epptr() - pbase(): buffer_size - 1
  FileMax,     \* the size of the device
  MaxChunk,    \* bound: the longest string handed to xsputn()
  Builds       \* the implementations of xsputn(): "posix" and "win"

ASSUME FdOutBufAssumption ==
  /\ Cap \in Nat \ {0}
  /\ FileMax \in Nat
  /\ MaxChunk \in Nat
  /\ Hole \notin Byte
  /\ Builds \subseteq {"posix", "win"}

VARIABLES
  open,         \* fd_ >= 0
  nonBlocking,  \* non_blocking_
  buf,          \* the characters of [pbase(), pptr())
  off,          \* off_
  rdstate,      \* "good", "fail" (failbit only) or "bad" (badbit set)
  file,         \* the content of the file (kernel)
  pos,          \* the offset of the open file description (kernel)
  want,         \* history: the file as the accepted operations should leave it
  wpos,         \* history: the position of the next character
  torn,         \* history: a save() wrote a part of what it left in the buffer
  closed        \* history: close() has returned normally

kernel == <<file, pos>>
caller == <<want, wpos>>
vars == <<open, nonBlocking, buf, off, rdstate, file, pos, want, wpos, torn, closed>>

Positions == 0 .. FileMax - 1
Content == [Positions -> Byte \cup {Hole}]
EmptyFile == [i \in Positions |-> Hole]

-----------------------------------------------------------------------------
(* The file f after the characters s were written at position p. *)
Overlay(f, p, s) ==
  [i \in DOMAIN f |-> IF i \in p .. p + Len(s) - 1 THEN s[i - p + 1] ELSE f[i]]

(* write(2): the first m characters of s go out, as many as the device     *)
(* takes, and both the kernel's offset and off_ move.                      *)
Write(s, m) ==
  /\ pos + m <= FileMax
  /\ file' = Overlay(file, pos, SubSeq(s, 1, m))
  /\ pos' = pos + m
  /\ off' = off + m

(* The caller counts the characters s as written. *)
Accept(s) ==
  /\ want' = Overlay(want, wpos, s)
  /\ wpos' = wpos + Len(s)

Reject == UNCHANGED caller

(* save(): flush the characters b of the put area.  The result r is "all", *)
(* "short" (return false; the put area is left as it was) or "error" (the  *)
(* system call failed: throw).                                             *)
Save(b, r) ==
  \/ /\ r = "all"
     /\ Write(b, Len(b))
     /\ buf' = <<>>
     /\ UNCHANGED torn
  \/ /\ r = "short"
     /\ \E m \in 0 .. Len(b) - 1 : Write(b, m)
     /\ buf' = b
     /\ torn' = TRUE
  \/ /\ r = "error"
     /\ b # <<>>
     /\ buf' = b
     /\ UNCHANGED <<kernel, off, torn>>

Results == {"all", "short", "error"}

(* An exception of the streambuf or its EOF sets badbit. *)
BadUnless(ok) == rdstate' = IF ok THEN rdstate ELSE "bad"

(* The operation throws before it does anything: the descriptor is in the  *)
(* non-blocking mode (ENOTSUP), is not open, or the system call fails.     *)
Broken ==
  /\ rdstate' = "bad"
  /\ UNCHANGED <<open, nonBlocking, buf, off, kernel, caller, torn, closed>>

-----------------------------------------------------------------------------
(* Fault: overflow() returns the character even if save() was short. *)
OverflowShort(c) ==
  /\ open /\ ~nonBlocking
  /\ \E r \in Results :
       /\ Save(Append(buf, c), r)
       /\ BadUnless(r # "error")
       /\ IF r = "all" THEN Accept(<<c>>) ELSE Reject
  /\ UNCHANGED <<open, nonBlocking, closed>>

(* overflow(c): the last character goes into the space open() reserved and *)
(* everything is saved.                                                    *)
Overflow(c) ==
  /\ open /\ ~nonBlocking
  /\ \E r \in Results :
       /\ Save(Append(buf, c), r)
       /\ BadUnless(r = "all")
       /\ IF r = "all" THEN Accept(<<c>>) ELSE Reject
  /\ UNCHANGED <<open, nonBlocking, closed>>

(* ostream::put(): sputc() stores the character if there is room, without  *)
(* asking whether the descriptor is open, and calls overflow() otherwise.  *)
Put(c) ==
  /\ rdstate = "good"
  /\ \/ /\ Len(buf) < Cap
        /\ buf' = Append(buf, c)
        /\ IF open THEN Accept(<<c>>) ELSE Reject
        /\ UNCHANGED <<open, nonBlocking, rdstate, off, kernel, torn, closed>>
     \/ Len(buf) >= Cap /\ Overflow(c)
     \/ Len(buf) >= Cap /\ (~open \/ nonBlocking) /\ Broken

(* The POSIX xsputn(): one writev() of the buffered and the new data; what *)
(* of the buffered data was not written moves to the front of the buffer.  *)
WriteThrough(s) ==
  \E m \in 0 .. Len(buf) + Len(s) :
    /\ Write(buf \o s, m)
    /\ BadUnless(m = Len(buf) + Len(s))
    /\ IF m < Len(buf)
       THEN buf' = SubSeq(buf, m + 1, Len(buf)) /\ Reject
       ELSE buf' = <<>> /\ Accept(SubSeq(s, 1, m - Len(buf)))

(* The Windows xsputn(): fill and flush the buffer, then buffer the tail,  *)
(* or write it if it is too long (none of it goes out if that write        *)
(* fails).  Nothing is filled in if two buffers would not hold the data.   *)
FillAndFlush(s) ==
  LET an   == IF Len(buf) + Len(s) > 2 * Cap THEN 0 ELSE Cap - Len(buf)
      b    == buf \o SubSeq(s, 1, an)
      tail == SubSeq(s, an + 1, Len(s))
  IN \/ \E m \in 0 .. Len(b) - 1 :
          /\ Write(b, m)
          /\ buf' = SubSeq(b, m + 1, Len(b))
          /\ IF m < Len(buf) THEN Reject ELSE Accept(SubSeq(s, 1, m - Len(buf)))
          /\ rdstate' = "bad"
     \/ /\ b # <<>>
        /\ buf' = b
        /\ rdstate' = "bad"
        /\ Reject
        /\ UNCHANGED <<kernel, off>>
     \/ /\ Len(tail) <= Cap
        /\ Write(b, Len(b))
        /\ buf' = tail
        /\ Accept(s)
        /\ UNCHANGED rdstate
     \/ /\ Len(tail) > Cap
        /\ \E m \in 0 .. Len(tail) :
             /\ Write(b \o tail, Len(b) + m)
             /\ buf' = <<>>
             /\ Accept(SubSeq(s, 1, an + m))
             /\ BadUnless(m = Len(tail))

(* ostream::write(): xsputn(), which buffers the string if it fits; badbit *)
(* unless the whole string was accepted.                                   *)
PutString(s) ==
  /\ rdstate = "good"
  /\ \/ /\ ~nonBlocking /\ Len(s) <= Cap - Len(buf)
        /\ buf' = buf \o s
        /\ IF open THEN Accept(s) ELSE Reject
        /\ UNCHANGED <<open, nonBlocking, rdstate, off, kernel, torn, closed>>
     \/ /\ ~nonBlocking /\ Len(s) > Cap - Len(buf) /\ open
        /\ \/ "posix" \in Builds /\ WriteThrough(s)
           \/ "win" \in Builds /\ FillAndFlush(s)
        /\ UNCHANGED <<open, nonBlocking, torn, closed>>
     \/ (nonBlocking \/ Len(s) > Cap - Len(buf)) /\ Broken

(* ostream::flush(): sync(). *)
Flush ==
  /\ rdstate = "good"
  /\ \/ /\ open /\ ~nonBlocking
        /\ \E r \in Results : Save(buf, r) /\ BadUnless(r = "all")
        /\ UNCHANGED <<open, nonBlocking, caller, closed>>
     \/ (~open \/ nonBlocking) /\ Broken

(* ostream::tellp(): seekoff(0, cur, out).  It saves the buffer first.  A  *)
(* short save() is the result -1, for which tellp() sets no state bit; if  *)
(* fdseek() fails after a complete one it throws.                          *)
Tellp ==
  /\ rdstate = "good"
  /\ \/ /\ open /\ ~nonBlocking
        /\ \E r \in Results, seekable \in BOOLEAN :
             /\ Save(buf, r)
             /\ BadUnless(r = "short" \/ (r = "all" /\ seekable))
        /\ UNCHANGED <<open, nonBlocking, caller, closed>>
     \/ (~open \/ nonBlocking) /\ Broken

(* Fault: seekp() drops the put area instead of saving it. *)
SeekpDrops(p) ==
  /\ rdstate = "good" /\ open /\ ~nonBlocking
  /\ pos' = p /\ off' = p /\ wpos' = p
  /\ buf' = <<>>
  /\ UNCHANGED <<open, nonBlocking, rdstate, file, want, torn, closed>>

(* ostream::seekp(p): as tellp(), but -1 sets failbit, and the descriptor  *)
(* moves to position p once the buffer is saved.                           *)
Seekp(p) ==
  /\ rdstate = "good"
  /\ \/ /\ open /\ ~nonBlocking
        /\ pos + Len(buf) <= FileMax
        /\ file' = Overlay(file, pos, buf)
        /\ pos' = p /\ off' = p /\ wpos' = p
        /\ buf' = <<>>
        /\ UNCHANGED <<open, nonBlocking, rdstate, want, torn, closed>>
     \/ /\ open /\ ~nonBlocking
        /\ \E r \in Results :
             /\ Save(buf, r)
             /\ rdstate' = IF r = "short" THEN "fail" ELSE "bad"
        /\ UNCHANGED <<open, nonBlocking, caller, closed>>
     \/ (~open \/ nonBlocking) /\ Broken

(* The caller caught the failbit exception and goes on: only a stream that *)
(* threw because of badbit is documented to be unusable.                   *)
Clear ==
  /\ rdstate = "fail"
  /\ rdstate' = "good"
  /\ UNCHANGED <<open, nonBlocking, buf, off, kernel, caller, torn, closed>>

(* fdstreambuf::blocking(m), for a caller that holds the streambuf. *)
SetBlocking(m) ==
  /\ open
  /\ nonBlocking' = ~m
  /\ UNCHANGED <<open, buf, off, rdstate, kernel, caller, torn, closed>>

(* Fault: close() lets go of the descriptor without flush(). *)
CloseUnflushed ==
  /\ open
  /\ open' = FALSE
  /\ closed' = TRUE
  /\ UNCHANGED <<nonBlocking, buf, off, rdstate, kernel, caller, torn>>

(* ofdstream::close() (and release(), which hands the descriptor over):    *)
(* flush() and, unless it throws, let go of the descriptor.  badbit is     *)
(* always in the exception mask.  flush() of a stream that is not good     *)
(* saves nothing, and may or may not throw if badbit is set.  The          *)
(* descriptor is gone even if close(2) fails.                              *)
Close ==
  /\ open
  /\ \/ /\ rdstate = "good" /\ ~nonBlocking
        /\ \E r \in Results : Save(buf, r) /\ BadUnless(r = "all")
     \/ /\ rdstate = "good" /\ nonBlocking
        /\ rdstate' = "bad"
        /\ UNCHANGED <<buf, off, kernel, torn>>
     \/ /\ rdstate # "good"
        /\ UNCHANGED <<rdstate, buf, off, kernel, torn>>
  /\ \/ rdstate' = "bad" /\ UNCHANGED <<open, closed>>
     \/ /\ rdstate' = "bad" => rdstate = "bad"
        /\ open' = FALSE
        /\ closed' \in BOOLEAN
  /\ UNCHANGED <<nonBlocking, caller>>

(* Fault: open() keeps the position of the old descriptor. *)
OpenKeepsPosition(m) ==
  /\ open' = TRUE
  /\ nonBlocking' = ~m
  /\ buf' = <<>>
  /\ rdstate' = "good"
  /\ file' = EmptyFile
  /\ pos' = 0
  /\ want' = EmptyFile
  /\ wpos' = 0
  /\ torn' = FALSE
  /\ closed' = FALSE
  /\ UNCHANGED off

(* ofdstream::open() on a new file: fdstreambuf::open() closes the old     *)
(* descriptor without saving, resets both areas and the position, and the  *)
(* state is cleared.  m is the blocking mode of the new descriptor.        *)
Open(m) ==
  /\ open' = TRUE
  /\ nonBlocking' = ~m
  /\ buf' = <<>>
  /\ off' = 0
  /\ rdstate' = "good"
  /\ file' = EmptyFile
  /\ pos' = 0
  /\ want' = EmptyFile
  /\ wpos' = 0
  /\ torn' = FALSE
  /\ closed' = FALSE

Init ==
  /\ open = TRUE
  /\ nonBlocking = FALSE
  /\ buf = <<>>
  /\ off = 0
  /\ rdstate = "good"
  /\ file = EmptyFile
  /\ pos = 0
  /\ want = EmptyFile
  /\ wpos = 0
  /\ torn = FALSE
  /\ closed = FALSE

Next ==
  \/ \E c \in Byte : Put(c)
  \/ \E n \in 1 .. MaxChunk : \E s \in [1 .. n -> Byte] : PutString(s)
  \/ Flush
  \/ Tellp
  \/ \E p \in 0 .. FileMax : Seekp(p)
  \/ Clear
  \/ \E m \in BOOLEAN : SetBlocking(m)
  \/ Close
  \/ \E m \in BOOLEAN : Open(m)

Spec == Init /\ [][Next]_vars

-----------------------------------------------------------------------------
(* The types of the variables. *)
TypeOK ==
  /\ open \in BOOLEAN
  /\ nonBlocking \in BOOLEAN
  /\ buf \in Seq(Byte)
  /\ off \in Nat
  /\ rdstate \in {"good", "fail", "bad"}
  /\ file \in Content
  /\ pos \in 0 .. FileMax
  /\ want \in Content
  /\ wpos \in Nat
  /\ torn \in BOOLEAN
  /\ closed \in BOOLEAN

(* The extra character overflow() stores past epptr() is gone before the   *)
(* stream can be used again: otherwise epptr() - pptr() would wrap around  *)
(* in the next xsputn(), which would copy any string into the buffer.      *)
BufferBound == rdstate # "bad" => Len(buf) <= Cap

(* As long as nothing was reported to the caller and no save() was torn,   *)
(* the bytes already in the file and those in the put area are together    *)
(* exactly what was accepted, and the position tellp() reports is the one  *)
(* the next byte goes to, whatever mix of short writes, seeks and flushes  *)
(* led here.                                                               *)
Intact ==
  open /\ rdstate = "good" /\ ~torn =>
    /\ Overlay(file, pos, buf) = want
    /\ off = pos
    /\ off + Len(buf) = wpos

(* If the stream was good when close() returned then every accepted byte   *)
(* is in the file: close() never loses data silently.  (Unless it is torn: *)
(* after a save() that was short, a stream is good only if that was in     *)
(* tellp(), or if the caller has cleared the failbit.)                     *)
CloseDurable ==
  closed /\ rdstate = "good" /\ ~torn => file = want

(* Seen by its caller the stream is an unbuffered file: an accepted byte   *)
(* counts as written, no later flush, seek or close changes what the file  *)
(* will hold, and after a failure it promises nothing until it is opened   *)
(* again.                                                                  *)
Out == INSTANCE OutputFile WITH
  MaxWrite <- MaxChunk + 1,
  content <- IF open THEN Overlay(file, pos, buf) ELSE file,
  position <- IF open THEN off + Len(buf) ELSE off,
  broken <- rdstate # "good" \/ torn

Implements == Out!ASpec
=============================================================================
