---------------------------- MODULE Pipes_proofs ----------------------------
(***************************************************************************)
(* Proofs about Pipes, for buffers and pipes of any size and any output of *)
(* the child.                                                              *)
(***************************************************************************)
EXTENDS Pipes, SequenceTheorems, TLAPS

Texts == Seq(Char \cup {NL})
Places ==
  {"feed", "read", "getline", "line", "close", "drain", "unwind", "unwindDrain", "wait", "done"}

TypeInv ==
  /\ pipe \in [Stream -> Texts] /\ writer \in [Stream -> BOOLEAN]
  /\ open \in [Stream -> BOOLEAN] /\ nonBlocking \in [Stream -> BOOLEAN]
  /\ area \in [Stream -> Texts] /\ off \in [Stream -> Nat]
  /\ bits \in [Stream -> SUBSET {"eof", "fail", "bad"}]
  /\ line \in [Stream -> Texts] /\ took \in [Stream -> Texts]
  /\ client \in AnyClient /\ plan \in [Stream -> Texts]
  /\ child \in {"running", "zombie", "reaped"} /\ status \in {"none", "ok", "fail", "pipe"}
  /\ rest \in [Stream -> Texts]
  /\ pc \in Places /\ cur \in Stream \cup {"in", "none"}
  /\ retry \in SUBSET Stream /\ live \in SUBSET Stream
  /\ thrown \in BOOLEAN /\ outcome \in {"none", "ok", "nullopt", "throw"}
  /\ lines \in [Stream -> Seq(Texts)] /\ said \in [Stream -> Texts]

(* The child has both write ends until it terminates, and with success     *)
(* only when everything is written.                                        *)
ChildInv ==
  /\ \A s \in Stream : writer[s] = (child = "running")
  /\ status = "none" <=> child = "running"
  /\ status = "ok" => \A s \in Stream : rest[s] = <<>>

(* Nothing more can come from the stream s.                                *)
Over(s) == child # "running" /\ pipe[s] = <<>> /\ area[s] = <<>>

BitsInv ==
  \A s \in Stream :
    /\ "eof" \in bits[s] => Over(s)
    /\ "fail" \in bits[s] => "eof" \in bits[s]

(* Delivered, with tellg() expanded.                                       *)
Flow ==
  \A s \in Stream :
    /\ took[s] \o (area[s] \o (pipe[s] \o rest[s])) = plan[s]
    /\ off[s] = Len(took[s]) + Len(area[s])

(* A stream that skips is closed only when the child is not there any more *)
(* or reading from it has failed.                                          *)
Skipped ==
  /\ \A s \in Skip : open[s] \/ "bad" \in bits[s] \/ child # "running"
  /\ SkipDrains

(* Where the parent is, and with which streams.                            *)
Control ==
  /\ pc \in {"getline", "line", "drain", "unwindDrain"} => cur \in Stream
  /\ pc = "unwind" => cur # "none"
  /\ pc \in {"feed", "read", "getline", "line", "close", "drain"} => ~thrown
  /\ pc \in {"unwind", "unwindDrain"} => thrown
  /\ live \subseteq Piped
  /\ pc \in {"getline", "line"} => cur \in live
  /\ pc # "done" => outcome = "none"

Reading == pc \in {"feed", "read", "getline", "line"}
AfterReading == pc \in {"close", "drain", "wait", "done"} /\ ~thrown

(* The parent goes on reading only streams that have not failed.           *)
LiveInv == Reading => retry \subseteq live /\ \A s \in live : "fail" \notin bits[s]

(* The part of a line that has been extracted but not been delivered.      *)
Partial(s) == IF pc = "line" /\ cur = s THEN <<>> ELSE line[s]

(* What has been extracted are the lines delivered and a part of one, but  *)
(* for the delimiter the last one may not have had.                        *)
Lines(s) ==
  \/ /\ took[s] = said[s] \o Partial(s)
     /\ \A i \in 1 .. Len(Partial(s)) : Partial(s)[i] # NL
  \/ /\ said[s] = Append(took[s], NL)
     /\ Partial(s) = <<>> /\ "eof" \in bits[s]

LinesInv == Reading /\ client # "filter" => \A s \in Stream : Lines(s)

(* All lines have been delivered.                                          *)
AllSaid(s) == Over(s) /\ said[s] \in {took[s], Append(took[s], NL)}

(* They have been of the streams the loop of the caller has left behind.   *)
Finished == IF Reading THEN Piped \ live ELSE IF AfterReading THEN Piped ELSE {}
AllInv == client \in {"b_info", "select"} => \A s \in Finished : AllSaid(s)

(* One line has been delivered, of which not more than the delimiter was   *)
(* made up.                                                                *)
OneSaid ==
  /\ Len(lines["out"]) = 1
  /\ \/ IsPrefix(said["out"], plan["out"])
     \/ Over("out") /\ said["out"] = Append(took["out"], NL)

OneInv ==
  NeedsLine =>
    /\ pc = "line" \/ AfterReading => OneSaid
    /\ Reading /\ pc # "line" => lines["out"] = <<>> /\ said["out"] = <<>>

BinaryInv == client = "filter" /\ AfterReading => Over("out")

RestInv ==
  /\ \A s \in Stream \ Piped : plan[s] = <<>> /\ said[s] = <<>>
  /\ outcome = "ok" => status = "ok" /\ ~thrown

ReadInv == LiveInv /\ LinesInv /\ AllInv /\ OneInv /\ BinaryInv /\ RestInv

IInv == TypeInv /\ ChildInv /\ BitsInv /\ Flow /\ Skipped /\ Control /\ ReadInv

-----------------------------------------------------------------------------
(* Texts. *)

(* Texts are put together.                                                 *)
LEMMA TextConcat ==
  /\ <<>> \in Texts /\ Len(<<>>) = 0
  /\ \A a \in Texts : Len(a) \in Nat /\ a \o <<>> = a /\ <<>> \o a = a
  /\ \A a \in Texts : Len(a) = 0 <=> a = <<>>
  /\ \A a, b \in Texts : a \o b \in Texts /\ Len(a \o b) = Len(a) + Len(b)
BY EmptySeq, LenProperties, ConcatEmptySeq, ConcatProperties DEF Texts

(* It does not matter where a text is cut: by its name, for the provers    *)
(* look for instances of an equation between concatenations for ever.      *)
Assoc(a, b, c) == (a \o b) \o c = a \o (b \o c)

LEMMA TextAssoc ==
  ASSUME NEW a \in Texts, NEW b \in Texts, NEW c \in Texts
  PROVE  Assoc(a, b, c)
<1> DEFINE C == Char \cup {NL}
<1>1. a \in Seq(C) /\ b \in Seq(C) /\ c \in Seq(C)
  BY DEF Texts
<1> HIDE DEF C
<1> QED BY ONLY <1>1, ConcatAssociative DEF Assoc

(* A text is cut in two.                                                   *)
LEMMA TextCut ==
  ASSUME NEW a \in Texts, NEW n \in 0 .. Len(a)
  PROVE  /\ SubSeq(a, 1, n) \in Texts /\ Len(SubSeq(a, 1, n)) = n
         /\ SubSeq(a, n + 1, Len(a)) \in Texts /\ Len(SubSeq(a, n + 1, Len(a))) = Len(a) - n
         /\ a = SubSeq(a, 1, n) \o SubSeq(a, n + 1, Len(a))
         /\ \A i \in 1 .. n : SubSeq(a, 1, n)[i] = a[i]
<1> DEFINE C == Char \cup {NL}
<1>1. a \in Seq(C) /\ Len(a) \in Nat
  BY LenProperties DEF Texts
<1>2. \A i \in 1 .. Len(a) : a[i] \in C
  BY <1>1, ElementOfSeq
<1>3. SubSeq(a, 1, n) \in Texts /\ Len(SubSeq(a, 1, n)) = n /\ \A i \in 1 .. n : SubSeq(a, 1, n)[i] = a[i]
  BY <1>1, <1>2, SubSeqProperties DEF Texts
<1>4. SubSeq(a, n + 1, Len(a)) \in Texts /\ Len(SubSeq(a, n + 1, Len(a))) = Len(a) - n
  <2>1. n + 1 \in Int /\ Len(a) \in Int /\ \A i \in n + 1 .. Len(a) : a[i] \in C
    BY <1>1, <1>2
  <2>2. PICK k \in Int, l \in Int : k = n + 1 /\ l = Len(a)
    BY <2>1
  <2>3. SubSeq(a, k, l) \in Seq(C) /\ Len(SubSeq(a, k, l)) = IF k <= l THEN l - k + 1 ELSE 0
    <3>1. \A i \in k .. l : a[i] \in C
      BY <2>1, <2>2
    <3> HIDE DEF C
    <3> QED BY ONLY k \in Int, l \in Int, <3>1, SubSeqProperties
  <2> QED BY <1>1, <2>2, <2>3 DEF Texts
<1>5. SubSeq(a, 1, n) \o SubSeq(a, n + 1, Len(a)) = SubSeq(a, 1, Len(a))
  <2>1. 1 \in 1 .. Len(a) + 1 /\ n \in 1 - 1 .. Len(a) /\ Len(a) \in n .. Len(a)
    BY <1>1
  <2> QED BY <1>1, <2>1, ConcatAdjacentSubSeq, Zenon
<1>6. SubSeq(a, 1, Len(a)) = a
  BY <1>1, SubSeqFull, Zenon
<1> QED BY <1>3, <1>4, <1>5, <1>6, Zenon

(* The texts up to some length.                                            *)
LEMMA BoundedIsText ==
  ASSUME NEW n \in Nat, NEW p \in BoundedSeq(Char \cup {NL}, n)
  PROVE  p \in Texts
<1>1. PICK m \in 0 .. n : p \in [1 .. m -> Char \cup {NL}]
  BY DEF BoundedSeq, SeqOf
<1>2. m \in Nat
  OBVIOUS
<1> QED BY <1>1, <1>2, SeqDef, Zenon DEF Texts

(* A character is put at the end of a text.                                *)
LEMMA TextAppend ==
  ASSUME NEW a \in Texts, NEW c \in Char \cup {NL}
  PROVE  /\ <<c>> \in Texts /\ Append(a, c) \in Texts
         /\ Append(a, c) = a \o <<c>> /\ Len(Append(a, c)) = Len(a) + 1
BY AppendIsConcat, AppendProperties DEF Texts

(* Its first character is taken.                                           *)
LEMMA TextHead ==
  ASSUME NEW a \in Texts, a # <<>>
  PROVE  /\ Head(a) \in Char \cup {NL} /\ Tail(a) \in Texts /\ Len(Tail(a)) = Len(a) - 1
         /\ a = <<Head(a)>> \o Tail(a)
<1>1. Head(a) \in Char \cup {NL} /\ Tail(a) \in Texts /\ Len(Tail(a)) = Len(a) - 1
  BY HeadTailProperties DEF Texts
<1>2. Tail(a) = SubSeq(a, 2, Len(a)) /\ Len(a) \in Nat /\ Len(a) # 0
  BY TailIsSubSeq, LenProperties, EmptySeq DEF Texts
<1>3. Head(a) = a[1]
  OBVIOUS
<1>4. SubSeq(a, 1, Len(a)) = <<a[1]>> \o SubSeq(a, 1 + 1, Len(a))
  <2>1. 1 \in 1 .. Len(a) /\ Len(a) \in 1 .. Len(a)
    BY <1>2
  <2> QED BY <2>1, SubSeqRecursiveFirst, Zenon DEF Texts
<1>5. SubSeq(a, 1, Len(a)) = a
  BY SubSeqFull, Zenon DEF Texts
<1> QED BY <1>1, <1>2, <1>3, <1>4, <1>5

(* The beginning of a text with one character more.                        *)
LEMMA TextMore ==
  ASSUME NEW a \in Texts, NEW n \in Nat, n < Len(a)
  PROVE  SubSeq(a, 1, n + 1) = SubSeq(a, 1, n) \o <<a[n + 1]>>
<1>1. Len(a) \in Nat
  BY TextConcat
<1>2. PICK k \in 1 .. Len(a) : k = n + 1 /\ k - 1 = n
  BY <1>1
<1>3. 1 \in 1 .. Len(a) /\ 1 \in Int /\ k \in 1 .. Len(a)
  BY <1>1
<1>4. SubSeq(a, 1, k) = SubSeq(a, 1, k - 1) \o <<a[k]>>
  BY <1>3, SubSeqRecursiveSecond, Zenon DEF Texts
<1> QED BY <1>2, <1>4

(* A text that follows another at the beginning of a third.                *)
LEMMA TextPrefix ==
  ASSUME NEW a \in Texts, NEW b \in Texts
  PROVE  SubSeq(a \o b, 1, Len(a)) = a
<1>1. a \o b \in Texts /\ Len(a) \in 0 .. Len(a \o b) /\ Len(a) \in Nat
  BY TextConcat
<1>2. SubSeq(a \o b, 1, Len(a)) \in Texts /\ Len(SubSeq(a \o b, 1, Len(a))) = Len(a)
  BY <1>1, TextCut
<1>3. \A i \in 1 .. Len(a) : SubSeq(a \o b, 1, Len(a))[i] = (a \o b)[i]
  BY <1>1, TextCut
<1>4. \A i \in 1 .. Len(a) : (a \o b)[i] = a[i]
  BY <1>1, ConcatProperties DEF Texts
<1> HIDE DEF Texts
<1> QED BY <1>1, <1>2, <1>3, <1>4, SeqEqual DEF Texts

-----------------------------------------------------------------------------
(* What the steps of the streams do. *)

(* read() moves the beginning of the pipe to the get area.                 *)
LEMMA RefillEffect ==
  ASSUME TypeInv, NEW s \in Stream, Refill(s)
  PROVE  \E p \in Texts :
           /\ p # <<>> /\ area[s] = <<>> /\ pipe[s] = p \o pipe'[s] /\ pipe'[s] \in Texts
           /\ area' = [area EXCEPT ![s] = p] /\ off' = [off EXCEPT ![s] = @ + Len(p)]
           /\ pipe' = [pipe EXCEPT ![s] = pipe'[s]]
<1>1. pipe[s] \in Texts /\ Len(pipe[s]) \in Nat /\ Len(pipe[s]) # 0 /\ area[s] = <<>>
  BY TextConcat DEF TypeInv, Refill
<1> DEFINE n == IF Len(pipe[s]) < BufSize THEN Len(pipe[s]) ELSE BufSize
           p == SubSeq(pipe[s], 1, n)
           q == SubSeq(pipe[s], n + 1, Len(pipe[s]))
<1>2. n \in 0 .. Len(pipe[s]) /\ n # 0
  BY <1>1, FdInBufAssumption
<1>3. /\ area' = [area EXCEPT ![s] = p] /\ off' = [off EXCEPT ![s] = @ + n]
      /\ pipe' = [pipe EXCEPT ![s] = q]
  BY DEF Refill
<1> HIDE DEF n
<1>4. p \in Texts /\ Len(p) = n /\ q \in Texts /\ pipe[s] = p \o q
  BY <1>1, <1>2, TextCut, Zenon
<1>5. pipe'[s] = q
  BY <1>3 DEF TypeInv
<1> HIDE DEF p, q
<1>6. p # <<>>
  BY <1>2, <1>4, TextConcat
<1> QED BY <1>1, <1>3, <1>4, <1>5, <1>6

(* getline() moves the beginning of the get area to the line, the          *)
(* delimiter excepted.                                                     *)
LEMMA ExtractEffect ==
  ASSUME TypeInv, NEW s \in Stream, Extract(s)
  PROVE  \E p, q \in Texts :
           /\ area[s] # <<>> /\ area[s] = q \o area'[s] /\ area'[s] \in Texts
           /\ q = IF Complete(s) THEN p \o <<NL>> ELSE p
           /\ ~Complete(s) => area'[s] = <<>>
           /\ \A i \in 1 .. Len(p) : p[i] # NL
           /\ line' = [line EXCEPT ![s] = @ \o p] /\ took' = [took EXCEPT ![s] = @ \o q]
           /\ area' = [area EXCEPT ![s] = area'[s]]
<1>1. area[s] \in Texts /\ Len(area[s]) \in Nat /\ area[s] # <<>>
  BY TextConcat DEF TypeInv, Extract
<1>2. PICK n \in 0 .. Len(area[s]) :
        /\ Piece(s, n)
        /\ line' = [line EXCEPT ![s] = @ \o SubSeq(area[s], 1, n)]
        /\ took' = [took EXCEPT ![s] = @ \o SubSeq(area[s], 1, Extent(s, n))]
        /\ area' = [area EXCEPT ![s] = SubSeq(@, Extent(s, n) + 1, Len(@))]
  BY DEF Extract
<1> DEFINE m == Extent(s, n)
           p == SubSeq(area[s], 1, n)
           q == SubSeq(area[s], 1, m)
           r == SubSeq(area[s], m + 1, Len(area[s]))
<1>3. n \in Nat /\ m \in 0 .. Len(area[s])
  BY <1>1 DEF Extent
<1>4. /\ p \in Texts /\ Len(p) = n /\ \A i \in 1 .. n : p[i] = area[s][i]
      /\ q \in Texts /\ r \in Texts /\ area[s] = q \o r /\ Len(r) = Len(area[s]) - m
  <2> HIDE DEF m
  <2> QED BY <1>1, <1>3, TextCut, Zenon
<1>5. area'[s] = r
  BY <1>2 DEF TypeInv
<1>6. \A i \in 1 .. Len(p) : p[i] # NL
  <2> HIDE DEF p
  <2> QED BY <1>2, <1>4 DEF Piece
<1>7. Complete(s) <=> n < Len(area[s])
  BY <1>1, <1>2, <1>3 DEF Complete, Piece
<1>8. CASE Complete(s)
  <2>1. n < Len(area[s]) /\ m = n + 1 /\ area[s][n + 1] = NL
    BY <1>2, <1>7, <1>8 DEF Extent, Piece
  <2>2. SubSeq(area[s], 1, n + 1) = SubSeq(area[s], 1, n) \o <<area[s][n + 1]>>
    BY <1>1, <1>3, <2>1, TextMore
  <2>3. q = p \o <<NL>>
    BY <2>1, <2>2
  <2> HIDE DEF m, p, q, r
  <2> QED BY <1>1, <1>2, <1>4, <1>5, <1>6, <1>8, <2>3 DEF m, p, q, r
<1>9. CASE ~Complete(s)
  <2>1. m = n /\ n = Len(area[s])
    BY <1>3, <1>7, <1>9 DEF Extent
  <2>2. q = p
    BY <2>1
  <2>3. r = <<>>
    <3> HIDE DEF r
    <3> QED BY <1>1, <1>4, <2>1, TextConcat
  <2> HIDE DEF m, p, q, r
  <2> QED BY <1>1, <1>2, <1>4, <1>5, <1>6, <1>9, <2>2, <2>3 DEF m, p, q, r
<1> QED BY <1>8, <1>9

(* The steps that move text; the others leave it where it is.              *)
LEMMA TextFrame ==
  ASSUME Next
  PROVE  \/ \E s \in Stream : ChildWrite(s)
         \/ Fill \/ GetPiece \/ NextLine \/ GetBinary \/ GetEnd \/ Drain
         \/ UNCHANGED <<pipe, area, off, line, took, rest, lines, said>>
<1> USE DEF kernel, stream, childVars, feedVars, setup, control, vars, Terminate, Throw
<1>1. CASE ChildRead
  BY <1>1 DEF ChildRead
<1>2. CASE ChildExit
  BY <1>2 DEF ChildExit
<1>3. CASE ChildCrash
  BY <1>3 DEF ChildCrash
<1>4. CASE Feed
  BY <1>4 DEF Feed
<1>5. CASE FeedFails
  BY <1>5 DEF FeedFails
<1>6. CASE EndFeed
  BY <1>6 DEF EndFeed
<1>7. CASE Call
  BY <1>7 DEF Call
<1>8. CASE EndBinary
  BY <1>8 DEF EndBinary, AtEof
<1>9. CASE GetBlocked
  BY <1>9 DEF GetBlocked, WouldBlock, Interrupted
<1>10. CASE Select
  BY <1>10 DEF Select
<1>11. CASE CloseOut
  BY <1>11 DEF CloseOut, SetBlocking, CloseFd
<1>12. CASE EndDrain
  BY <1>12 DEF EndDrain, IgnoreEnds
<1>13. CASE DestroyFeed
  BY <1>13 DEF DestroyFeed
<1>14. CASE DestroyStream
  BY <1>14 DEF DestroyStream, SetBlocking, CloseFd
<1>15. CASE Wait
  BY <1>15 DEF Wait
<1>16. CASE ReadError
  BY <1>16 DEF ReadError, ReadFails
<1>17. CASE DrainError
  BY <1>17 DEF DrainError, ReadFails
<1>18. CASE CallerThrows
  BY <1>18 DEF CallerThrows
<1>19. CASE Done
  BY <1>19 DEF Done
<1>20. CASE \E s \in Stream : ChildPipe(s)
  BY <1>20 DEF ChildPipe
<1> QED
  BY <1>1, <1>2, <1>3, <1>4, <1>5, <1>6, <1>7, <1>8, <1>9, <1>10, <1>11, <1>12, <1>13,
     <1>14, <1>15, <1>16, <1>17, <1>18, <1>19, <1>20 DEF Next, ChildNext, ParentNext

(* Who runs, and what the child has to write, never change.                *)
LEMMA SetupFrame ==
  ASSUME Next
  PROVE  client' = client /\ plan' = plan
<1> USE DEF setup
<1>1. CASE ChildNext
  BY <1>1 DEF ChildNext, ChildRead, ChildExit, ChildCrash, ChildWrite, ChildPipe, Terminate
<1>2. CASE ParentNext
  BY <1>2 DEF ParentNext, Feed, FeedFails, EndFeed, Call, GetPiece, NextLine, GetBinary,
     EndBinary, Fill,
     GetEnd, GetBlocked, Select, CloseOut, Drain, EndDrain, DestroyFeed, DestroyStream, Wait
<1>3. CASE ReadError \/ DrainError \/ CallerThrows
  BY <1>3 DEF ReadError, DrainError, CallerThrows
<1>4. CASE Done
  BY <1>4 DEF Done, vars
<1> QED
  BY <1>1, <1>2, <1>3, <1>4 DEF Next

-----------------------------------------------------------------------------
(* Nothing is lost between the child and the client. *)

LEMMA FlowStep ==
  ASSUME TypeInv, Control, Flow, Next
  PROVE  Flow'
<1> USE DEF stream, kernel, childVars, feedVars, control
<1>1. plan' = plan
  BY SetupFrame
<1>2. \A s \in Stream : took[s] \in Texts /\ area[s] \in Texts /\ pipe[s] \in Texts /\ rest[s] \in Texts /\ off[s] \in Nat
  BY DEF TypeInv
<1> SUFFICES ASSUME NEW t \in Stream
             PROVE  /\ took'[t] \o (area'[t] \o (pipe'[t] \o rest'[t])) = plan[t]
                    /\ off'[t] = Len(took'[t]) + Len(area'[t])
  BY <1>1 DEF Flow
<1>3. took[t] \o (area[t] \o (pipe[t] \o rest[t])) = plan[t]
  BY DEF Flow
<1>4. off[t] = Len(took[t]) + Len(area[t])
  BY DEF Flow
<1>5. ASSUME NEW s \in Stream, ChildWrite(s)
      PROVE  /\ took'[t] \o (area'[t] \o (pipe'[t] \o rest'[t])) = plan[t]
             /\ off'[t] = Len(took'[t]) + Len(area'[t])
  <2>1. UNCHANGED <<took, area, off>>
    BY <1>5 DEF ChildWrite
  <2>2. CASE s = t
    <3> DEFINE h == <<Head(rest[t])>>
               r == Tail(rest[t])
    <3>1. rest[t] # <<>> /\ pipe'[t] = Append(pipe[t], Head(rest[t])) /\ rest'[t] = r
      BY <1>5, <2>2 DEF ChildWrite, TypeInv
    <3>2. h \in Texts /\ r \in Texts /\ rest[t] = h \o r /\ pipe'[t] = pipe[t] \o h
      BY <1>2, <3>1, TextHead, TextAppend
    <3> HIDE DEF h, r
    <3>3. (pipe[t] \o h) \o r = pipe[t] \o (h \o r)
      <4>1. pipe[t] \in Texts
        BY <1>2
      <4>2. h \in Texts /\ r \in Texts
        BY <3>2
      <4>3. Assoc(pipe[t], h, r)
        BY <4>1, <4>2, TextAssoc
      <4> QED BY <4>3, Zenon DEF Assoc
    <3>4. pipe'[t] \o rest'[t] = pipe[t] \o rest[t]
      BY <3>1, <3>2, <3>3, Zenon
    <3>5. took'[t] = took[t] /\ area'[t] = area[t] /\ off'[t] = off[t]
      BY <2>1
    <3>6. took'[t] \o (area'[t] \o (pipe'[t] \o rest'[t])) = plan[t]
      BY <1>3, <3>4, <3>5, Zenon
    <3> QED BY <1>4, <3>5, <3>6
  <2>3. CASE s # t
    BY <1>3, <1>4, <1>5, <2>1, <2>3 DEF ChildWrite, TypeInv
  <2> QED BY <2>2, <2>3
<1>6. ASSUME Fill
      PROVE  /\ took'[t] \o (area'[t] \o (pipe'[t] \o rest'[t])) = plan[t]
             /\ off'[t] = Len(took'[t]) + Len(area'[t])
  <2>1. took'[t] = took[t] /\ rest'[t] = rest[t] /\ Refill(cur) /\ cur \in Stream
    BY <1>6 DEF Fill, Refill
  <2>2. PICK p \in Texts :
           /\ p # <<>> /\ area[cur] = <<>> /\ pipe[cur] = p \o pipe'[cur] /\ pipe'[cur] \in Texts
           /\ area' = [area EXCEPT ![cur] = p] /\ off' = [off EXCEPT ![cur] = @ + Len(p)]
           /\ pipe' = [pipe EXCEPT ![cur] = pipe'[cur]]
    BY <2>1, RefillEffect
  <2>3. CASE t = cur
    <3> DEFINE q == pipe'[t]
    <3>1. area[t] = <<>> /\ pipe[t] = p \o q /\ q \in Texts /\ area'[t] = p
      BY <2>1, <2>2, <2>3 DEF TypeInv
    <3>8. area'[t] = p /\ off'[t] = off[t] + Len(p)
      BY <2>1, <2>2, <2>3 DEF TypeInv
    <3>2. area[t] \o (pipe[t] \o rest[t]) = (p \o q) \o rest[t]
      <4>1. pipe[t] \o rest[t] \in Texts
        BY <1>2, TextConcat
      <4>2. <<>> \o (pipe[t] \o rest[t]) = pipe[t] \o rest[t]
        BY <4>1, TextConcat, Zenon
      <4> QED BY <3>1, <4>2, Zenon
    <3>3. Len(area[t]) = 0 /\ Len(p) \in Nat /\ Len(took[t]) \in Nat
      BY <1>2, <3>1, TextConcat
    <3>4. (p \o q) \o rest[t] = p \o (q \o rest[t])
      <4>1. Assoc(p, q, rest[t])
        BY <1>2, <3>1, TextAssoc
      <4> QED BY <4>1, Zenon DEF Assoc
    <3>5. took[t] \o (p \o (q \o rest[t])) = plan[t]
      BY <1>3, <3>2, <3>4, Zenon
    <3>6. took'[t] \o (area'[t] \o (pipe'[t] \o rest'[t])) = plan[t]
      BY <2>1, <3>1, <3>5, Zenon
    <3> HIDE DEF q
    <3>7. off'[t] = Len(took'[t]) + Len(area'[t])
      BY <1>4, <2>1, <3>8, <3>3
    <3> QED BY <3>6, <3>7
  <2>4. CASE t # cur
    <3>1. area'[t] = area[t] /\ off'[t] = off[t] /\ pipe'[t] = pipe[t]
      BY <2>2, <2>4 DEF TypeInv
    <3> QED BY <1>3, <1>4, <2>1, <3>1
  <2> QED BY <2>3, <2>4
<1>7. ASSUME GetPiece
      PROVE  /\ took'[t] \o (area'[t] \o (pipe'[t] \o rest'[t])) = plan[t]
             /\ off'[t] = Len(took'[t]) + Len(area'[t])
  <2>1. pipe'[t] = pipe[t] /\ rest'[t] = rest[t] /\ off'[t] = off[t] /\ Extract(cur) /\ cur \in Stream
    BY <1>7 DEF GetPiece, Extract, Control
  <2>2. PICK q \in Texts :
           /\ area[cur] = q \o area'[cur] /\ area'[cur] \in Texts
           /\ took' = [took EXCEPT ![cur] = @ \o q]
           /\ area' = [area EXCEPT ![cur] = area'[cur]]
    BY <2>1, ExtractEffect
  <2>3. CASE t = cur
    <3> DEFINE r == area'[t]
    <3>1. area[t] = q \o r /\ r \in Texts /\ took'[t] = took[t] \o q
      BY <2>1, <2>2, <2>3 DEF TypeInv
    <3> HIDE DEF r
    <3>2. pipe[t] \o rest[t] \in Texts
      BY <1>2, TextConcat
    <3>3. took[t] \o ((q \o r) \o (pipe[t] \o rest[t])) = (took[t] \o q) \o (r \o (pipe[t] \o rest[t]))
      <4>1. (q \o r) \o (pipe[t] \o rest[t]) = q \o (r \o (pipe[t] \o rest[t]))
        <5>1. Assoc(q, r, pipe[t] \o rest[t])
          BY <3>1, <3>2, TextAssoc
        <5> QED BY <5>1, Zenon DEF Assoc
      <4>2. r \o (pipe[t] \o rest[t]) \in Texts
        BY <3>1, <3>2, TextConcat
      <4>3. (took[t] \o q) \o (r \o (pipe[t] \o rest[t])) = took[t] \o (q \o (r \o (pipe[t] \o rest[t])))
        <5>1. took[t] \in Texts
          BY <1>2
        <5>2. Assoc(took[t], q, r \o (pipe[t] \o rest[t]))
          BY <4>2, <5>1, TextAssoc
        <5> QED BY <5>2, Zenon DEF Assoc
      <4> QED BY <4>1, <4>3, Zenon
    <3>4. Len(took'[t]) = Len(took[t]) + Len(q) /\ Len(area[t]) = Len(q) + Len(r)
          /\ Len(took[t]) \in Nat /\ Len(q) \in Nat /\ Len(r) \in Nat
      BY <1>2, <3>1, TextConcat
    <3>5. took'[t] \o (area'[t] \o (pipe'[t] \o rest'[t])) = plan[t]
      BY <1>3, <2>1, <3>1, <3>3, Zenon DEF r
    <3>6. off'[t] = Len(took'[t]) + Len(area'[t])
      <4>1. off'[t] = off[t]
        BY <2>1
      <4>2. Len(area'[t]) = Len(r)
        BY DEF r
      <4>3. Len(took[t]) + (Len(q) + Len(r)) = (Len(took[t]) + Len(q)) + Len(r)
        <5>1. \A x, y, z \in Nat : x + (y + z) = (x + y) + z
          OBVIOUS
        <5> QED BY <3>4, <5>1, Zenon
      <4> QED BY <1>4, <3>4, <4>1, <4>2, <4>3, Zenon
    <3> QED BY <3>5, <3>6
  <2>4. CASE t # cur
    <3>1. area'[t] = area[t] /\ took'[t] = took[t]
      BY <2>2, <2>4 DEF TypeInv
    <3> QED BY <1>3, <1>4, <2>1, <3>1
  <2> QED BY <2>3, <2>4
<1>8. ASSUME GetBinary \/ Drain
      PROVE  /\ took'[t] \o (area'[t] \o (pipe'[t] \o rest'[t])) = plan[t]
             /\ off'[t] = Len(took'[t]) + Len(area'[t])
  <2>1. /\ pipe'[t] = pipe[t] /\ rest'[t] = rest[t] /\ off'[t] = off[t] /\ cur \in Stream
        /\ took' = [took EXCEPT ![cur] = @ \o area[cur]] /\ area' = [area EXCEPT ![cur] = <<>>]
    BY <1>8 DEF GetBinary, Drain, Discard, Control
  <2>2. CASE t = cur
    <3>1. took'[t] = took[t] \o area[t] /\ area'[t] = <<>>
      BY <2>1, <2>2 DEF TypeInv
    <3>2. pipe[t] \o rest[t] \in Texts /\ <<>> \o (pipe[t] \o rest[t]) = pipe[t] \o rest[t]
      BY <1>2, TextConcat
    <3>3. (took[t] \o area[t]) \o (pipe[t] \o rest[t]) = took[t] \o (area[t] \o (pipe[t] \o rest[t]))
      <4>1. Assoc(took[t], area[t], pipe[t] \o rest[t])
        BY <1>2, <3>2, TextAssoc
      <4> QED BY <4>1, Zenon DEF Assoc
    <3>4. Len(took'[t]) = Len(took[t]) + Len(area[t]) /\ Len(area'[t]) = 0
          /\ Len(took[t]) \in Nat /\ Len(area[t]) \in Nat
      BY <1>2, <3>1, TextConcat
    <3>5. took'[t] \o (area'[t] \o (pipe'[t] \o rest'[t])) = plan[t]
      BY <1>3, <2>1, <3>1, <3>2, <3>3, Zenon
    <3>6. off'[t] = Len(took'[t]) + Len(area'[t])
      <4>1. off'[t] = off[t]
        BY <2>1
      <4> QED BY <1>4, <3>4, <4>1
    <3> QED BY <3>5, <3>6
  <2>3. CASE t # cur
    <3>1. area'[t] = area[t] /\ took'[t] = took[t]
      BY <2>1, <2>3 DEF TypeInv
    <3> QED BY <1>3, <1>4, <2>1, <3>1
  <2> QED BY <2>2, <2>3
<1>9. ASSUME UNCHANGED <<pipe, area, off, took, rest>>
      PROVE  /\ took'[t] \o (area'[t] \o (pipe'[t] \o rest'[t])) = plan[t]
             /\ off'[t] = Len(took'[t]) + Len(area'[t])
  BY <1>3, <1>4, <1>9
<1>10. GetEnd \/ NextLine => UNCHANGED <<pipe, area, off, took, rest>>
  BY DEF GetEnd, EndOfFile, NextLine
<1> QED
  BY <1>5, <1>6, <1>7, <1>8, <1>9, <1>10, TextFrame

-----------------------------------------------------------------------------
(* Types. *)

(* The order of the destructors.                                           *)
LEMMA AfterIs == After("in") = "err" /\ After("err") = "out" /\ After("out") = "none"
<1>1. DOMAIN Unwind = {1, 2, 3} /\ Unwind[1] = "in" /\ Unwind[2] = "err" /\ Unwind[3] = "out" /\ Len(Unwind) = 3
  BY DEF Unwind
<1>2. (CHOOSE i \in DOMAIN Unwind : Unwind[i] = "in") = 1
  BY <1>1
<1>3. (CHOOSE i \in DOMAIN Unwind : Unwind[i] = "err") = 2
  BY <1>1
<1>4. (CHOOSE i \in DOMAIN Unwind : Unwind[i] = "out") = 3
  BY <1>1
<1> QED BY <1>1, <1>2, <1>3, <1>4 DEF After

TextType ==
  /\ pipe \in [Stream -> Texts] /\ area \in [Stream -> Texts] /\ off \in [Stream -> Nat]
  /\ line \in [Stream -> Texts] /\ took \in [Stream -> Texts]
  /\ plan \in [Stream -> Texts] /\ rest \in [Stream -> Texts]

SaidType == lines \in [Stream -> Seq(Texts)] /\ said \in [Stream -> Texts]

LEMMA TextTypeStep ==
  ASSUME TypeInv, Control, Next
  PROVE  TextType'
<1> USE DEF stream, kernel, childVars, feedVars, control
<1>1. plan' \in [Stream -> Texts]
  BY SetupFrame DEF TypeInv
<1>2. TextType
  BY DEF TextType, TypeInv
<1>3. ASSUME UNCHANGED <<pipe, area, off, line, took, rest>> PROVE TextType'
  BY <1>1, <1>2, <1>3 DEF TextType
<1>4. ASSUME NEW s \in Stream, ChildWrite(s) PROVE TextType'
  <2>1. Append(pipe[s], Head(rest[s])) \in Texts /\ Tail(rest[s]) \in Texts
    <3>1. pipe[s] \in Texts /\ rest[s] \in Texts /\ rest[s] # <<>>
      BY <1>4 DEF TypeInv, ChildWrite
    <3> QED BY <3>1, TextHead, TextAppend
  <2> QED BY <1>1, <1>2, <1>4, <2>1 DEF TextType, ChildWrite
<1>5. ASSUME Fill PROVE TextType'
  <2>1. Refill(cur) /\ cur \in Stream /\ UNCHANGED <<line, took, rest>>
    BY <1>5 DEF Fill, Refill
  <2>2. PICK p \in Texts :
           /\ pipe'[cur] \in Texts
           /\ area' = [area EXCEPT ![cur] = p] /\ off' = [off EXCEPT ![cur] = @ + Len(p)]
           /\ pipe' = [pipe EXCEPT ![cur] = pipe'[cur]]
    BY <2>1, RefillEffect
  <2>3. Len(p) \in Nat
    BY TextConcat
  <2>4. pipe' \in [Stream -> Texts]
    BY <1>2, <2>1, <2>2 DEF TextType
  <2>5. area' \in [Stream -> Texts]
    BY <1>2, <2>1, <2>2 DEF TextType
  <2>6. off' \in [Stream -> Nat]
    BY <1>2, <2>1, <2>2, <2>3 DEF TextType
  <2> QED BY <1>1, <1>2, <2>1, <2>4, <2>5, <2>6 DEF TextType
<1>6. ASSUME GetPiece PROVE TextType'
  <2>1. Extract(cur) /\ cur \in Stream /\ UNCHANGED <<pipe, off, rest>>
    BY <1>6 DEF GetPiece, Extract, Control
  <2>2. PICK p, q \in Texts :
           /\ area'[cur] \in Texts
           /\ line' = [line EXCEPT ![cur] = @ \o p] /\ took' = [took EXCEPT ![cur] = @ \o q]
           /\ area' = [area EXCEPT ![cur] = area'[cur]]
    <3>1. TypeInv
      OBVIOUS
    <3> QED BY ONLY <2>1, <3>1, ExtractEffect, ZenonT(40)
  <2>3. line[cur] \o p \in Texts /\ took[cur] \o q \in Texts
    BY <1>2, <2>1, TextConcat DEF TextType
  <2>4. area' \in [Stream -> Texts]
    BY <1>2, <2>1, <2>2 DEF TextType
  <2>5. line' \in [Stream -> Texts] /\ took' \in [Stream -> Texts]
    BY <1>2, <2>1, <2>2, <2>3 DEF TextType
  <2> QED BY <1>1, <1>2, <2>1, <2>4, <2>5 DEF TextType
<1>7. ASSUME NextLine PROVE TextType'
  BY <1>1, <1>2, <1>7, TextConcat DEF TextType, NextLine
<1>8. ASSUME GetBinary \/ Drain PROVE TextType'
  <2>1. /\ cur \in Stream /\ UNCHANGED <<pipe, off, line, rest>>
        /\ took' = [took EXCEPT ![cur] = @ \o area[cur]] /\ area' = [area EXCEPT ![cur] = <<>>]
    BY <1>8 DEF GetBinary, Drain, Discard, Control
  <2>2. took[cur] \o area[cur] \in Texts /\ <<>> \in Texts
    BY <1>2, <2>1, TextConcat DEF TextType
  <2>3. took' \in [Stream -> Texts] /\ area' \in [Stream -> Texts]
    BY <1>2, <2>1, <2>2 DEF TextType
  <2> QED BY <1>1, <1>2, <2>1, <2>3 DEF TextType
<1>9. GetEnd => UNCHANGED <<pipe, area, off, line, took, rest>>
  BY DEF GetEnd, EndOfFile
<1> QED
  BY <1>3, <1>4, <1>5, <1>6, <1>7, <1>8, <1>9, TextFrame

(* A line is delivered, or nothing is.                                     *)
LEMMA SaidFrame ==
  ASSUME TypeInv, Control, Next
  PROVE  \/ UNCHANGED <<lines, said>>
         \/ \E l \in Texts : pc = "getline" /\ cur \in live /\ pc' = "line" /\ cur' = cur /\ Deliver(l)
<1>1. CASE GetPiece
  <2>1. pc = "getline" /\ cur' = cur /\ cur \in live /\ cur \in Stream
    BY <1>1 DEF GetPiece, Control
  <2>2. line'[cur] \in Texts
    BY <2>1, TextTypeStep DEF TextType
  <2> QED BY <1>1, <2>1, <2>2 DEF GetPiece
<1>2. CASE GetEnd
  <2>1. pc = "getline" /\ cur \in live /\ cur \in Stream
    BY <1>2 DEF GetEnd, Control
  <2>2. line[cur] \in Texts
    BY <2>1 DEF TypeInv
  <2> QED BY <1>2, <2>1, <2>2 DEF GetEnd, Throw
<1>3. GetBinary \/ Drain \/ Fill \/ NextLine => UNCHANGED <<lines, said>>
  BY DEF GetBinary, Drain, Fill, NextLine, control
<1>4. (\E s \in Stream : ChildWrite(s)) => UNCHANGED <<lines, said>>
  BY DEF ChildWrite, control
<1> QED
  BY <1>1, <1>2, <1>3, <1>4, TextFrame

LEMMA SaidTypeStep ==
  ASSUME TypeInv, Control, Next
  PROVE  SaidType'
<1>1. SaidType
  BY DEF SaidType, TypeInv
<1>2. CASE UNCHANGED <<lines, said>>
  BY <1>1, <1>2 DEF SaidType
<1>3. ASSUME NEW l \in Texts, cur \in live, Deliver(l) PROVE SaidType'
  <2>1. cur \in Stream
    BY <1>3 DEF TypeInv
  <2>2. Append(lines[cur], l) \in Seq(Texts)
    BY <1>1, <2>1, AppendProperties DEF SaidType
  <2>3. Append(said[cur] \o l, NL) \in Texts
    <3>1. said[cur] \o l \in Texts
      BY <1>1, <2>1, TextConcat DEF SaidType
    <3> QED BY <3>1, TextAppend
  <2>4. lines' = [lines EXCEPT ![cur] = Append(lines[cur], l)]
        /\ said' = [said EXCEPT ![cur] = Append(said[cur] \o l, NL)]
    BY <1>3 DEF Deliver
  <2>5. lines' \in [Stream -> Seq(Texts)]
    BY <1>1, <2>1, <2>2, <2>4 DEF SaidType
  <2>6. said' \in [Stream -> Texts]
    BY <1>1, <2>1, <2>3, <2>4 DEF SaidType
  <2> QED BY <2>5, <2>6 DEF SaidType
<1> QED
  BY <1>2, <1>3, SaidFrame

-----------------------------------------------------------------------------
(* The parent. *)

ControlType ==
  /\ pc \in Places /\ cur \in Stream \cup {"in", "none"}
  /\ retry \in SUBSET Stream /\ live \in SUBSET Stream
  /\ thrown \in BOOLEAN /\ outcome \in {"none", "ok", "nullopt", "throw"}

LEMMA ControlStep ==
  ASSUME TypeInv, Control, LiveInv, Next
  PROVE  ControlType' /\ Control'
<1> USE DEF stream, kernel, childVars, feedVars, control, vars
<1> USE PipesAssumption
<1>1. ControlType
  BY DEF ControlType, TypeInv
<1>2. Piped' = Piped
  BY SetupFrame DEF Piped
<1>3. CASE ChildRead
  BY <1>3, <1>1, <1>2 DEF ChildRead, ControlType, Control, Places
<1>4. CASE ChildExit
  BY <1>4, <1>1, <1>2 DEF ChildExit, Terminate, ControlType, Control, Places
<1>5. CASE ChildCrash
  BY <1>5, <1>1, <1>2 DEF ChildCrash, Terminate, ControlType, Control, Places
<1>6. CASE Feed
  BY <1>6, <1>1, <1>2 DEF Feed, ControlType, Control, Places
<1>7. CASE FeedFails
  BY <1>7, <1>1, <1>2 DEF FeedFails, Throw, ControlType, Control, Places, Unwind
<1>8. CASE EndFeed
  BY <1>8, <1>1, <1>2 DEF EndFeed, ControlType, Control, Places
<1>9. CASE Call
  BY <1>9, <1>1, <1>2 DEF Call, ControlType, Control, Places, LiveInv, Reading
<1>10. CASE GetPiece
  BY <1>10, <1>1, <1>2 DEF GetPiece, Extract, Deliver, ControlType, Control, Places
<1>11. CASE NextLine
  BY <1>11, <1>1, <1>2 DEF NextLine, ControlType, Control, Places
<1>12. CASE GetBinary
  BY <1>12, <1>1, <1>2 DEF GetBinary, Discard, ControlType, Control, Places
<1>13. CASE EndBinary
  BY <1>13, <1>1, <1>2 DEF EndBinary, AtEof, ControlType, Control, Places
<1>14. CASE Fill
  BY <1>14, <1>1, <1>2 DEF Fill, Refill, ControlType, Control, Places
<1>15. CASE GetEnd
  <2>1. pc = "getline" /\ cur \in live /\ cur \in Stream /\ ~thrown /\ outcome = "none"
    BY <1>15 DEF GetEnd, Control
  <2>2. CASE "fail" \notin bits'[cur]
    <3>1. pc' = "line" /\ UNCHANGED <<cur, retry, live, thrown, outcome>>
      BY <1>15, <2>2 DEF GetEnd
    <3> QED BY <1>1, <1>2, <2>1, <3>1 DEF ControlType, Control, Places
  <2>3. CASE "fail" \in bits'[cur] /\ NeedsLine
    BY <1>15, <1>1, <1>2, <2>1, <2>3 DEF GetEnd, Throw, ControlType, Control, Places, Unwind
  <2>4. CASE "fail" \in bits'[cur] /\ ~NeedsLine
    <3>1. live' = live \ {cur} /\ retry' = retry \ {cur} /\ UNCHANGED <<cur, thrown, outcome>>
      BY <1>15, <2>4 DEF GetEnd
    <3>2. pc' = IF live' = {} THEN "close" ELSE "read"
      BY <1>15, <2>4 DEF GetEnd
    <3> QED BY <1>1, <1>2, <2>1, <3>1, <3>2 DEF ControlType, Control, Places
  <2> QED BY <2>2, <2>3, <2>4
<1>16. CASE GetBlocked
  BY <1>16, <1>1, <1>2 DEF GetBlocked, WouldBlock, Interrupted, ControlType, Control, Places
<1>17. CASE Select
  BY <1>17, <1>1, <1>2 DEF Select, ControlType, Control, Places
<1>18. CASE CloseOut
  BY <1>18, <1>1, <1>2 DEF CloseOut, SetBlocking, CloseFd, ControlType, Control, Places
<1>19. CASE Drain
  BY <1>19, <1>1, <1>2 DEF Drain, Discard, ControlType, Control, Places
<1>20. CASE EndDrain
  BY <1>20, <1>1, <1>2 DEF EndDrain, IgnoreEnds, ControlType, Control, Places
<1>21. CASE DestroyFeed
  BY <1>21, <1>1, <1>2, AfterIs DEF DestroyFeed, ControlType, Control, Places
<1>22. CASE DestroyStream
  BY <1>22, <1>1, <1>2, AfterIs DEF DestroyStream, SetBlocking, CloseFd, ControlType,
     Control, Places
<1>23. CASE Wait
  BY <1>23, <1>1, <1>2 DEF Wait, Outcome, ControlType, Control, Places
<1>24. CASE ReadError
  BY <1>24, <1>1, <1>2 DEF ReadError, ReadFails, Throw, ControlType, Control, Places, Unwind
<1>25. CASE DrainError
  BY <1>25, <1>1, <1>2 DEF DrainError, ReadFails, ControlType, Control, Places
<1>26. CASE CallerThrows
  BY <1>26, <1>1, <1>2 DEF CallerThrows, Throw, ControlType, Control, Places, Unwind
<1>27. CASE Done
  BY <1>27, <1>1, <1>2 DEF Done, ControlType, Control, Places
<1>28. CASE \E s \in Stream : ChildWrite(s)
  BY <1>28, <1>1, <1>2 DEF ChildWrite, ControlType, Control, Places
<1>29. CASE \E s \in Stream : ChildPipe(s)
  BY <1>29, <1>1, <1>2 DEF ChildPipe, Terminate, ControlType, Control, Places
<1> QED
  BY <1>3, <1>4, <1>5, <1>6, <1>7, <1>8, <1>9, <1>10, <1>11, <1>12, <1>13, <1>14, <1>15,
     <1>16, <1>17, <1>18, <1>19, <1>20, <1>21, <1>22, <1>23, <1>24, <1>25, <1>26, <1>27,
     <1>28, <1>29 DEF Next, ChildNext, ParentNext

-----------------------------------------------------------------------------
(* The child, and the states of the streams. *)

StateType ==
  /\ writer \in [Stream -> BOOLEAN] /\ open \in [Stream -> BOOLEAN] /\ nonBlocking \in [Stream -> BOOLEAN]
  /\ bits \in [Stream -> SUBSET {"eof", "fail", "bad"}]
  /\ child \in {"running", "zombie", "reaped"} /\ status \in {"none", "ok", "fail", "pipe"}

LEMMA StateTypeStep ==
  ASSUME TypeInv, Control, Next
  PROVE  StateType'
<1> USE DEF stream, kernel, childVars, feedVars, control, vars
<1> USE PipesAssumption
<1>1. StateType
  BY DEF StateType, TypeInv
<1>2. pc = "getline" => cur \in Stream
  BY DEF Control
<1>3. CASE ChildRead
  BY <1>3, <1>1, <1>2 DEF ChildRead, StateType
<1>4. CASE ChildExit
  BY <1>4, <1>1, <1>2 DEF ChildExit, Terminate, StateType
<1>5. CASE ChildCrash
  BY <1>5, <1>1, <1>2 DEF ChildCrash, Terminate, StateType
<1>6. CASE Feed
  BY <1>6, <1>1, <1>2 DEF Feed, StateType
<1>7. CASE FeedFails
  BY <1>7, <1>1, <1>2 DEF FeedFails, Throw, StateType
<1>8. CASE EndFeed
  BY <1>8, <1>1, <1>2 DEF EndFeed, StateType
<1>9. CASE Call
  BY <1>9, <1>1, <1>2 DEF Call, StateType
<1>10. CASE GetPiece
  BY <1>10, <1>1, <1>2 DEF GetPiece, Extract, Deliver, StateType
<1>11. CASE NextLine
  BY <1>11, <1>1, <1>2 DEF NextLine, StateType
<1>12. CASE GetBinary
  BY <1>12, <1>1, <1>2 DEF GetBinary, Discard, StateType
<1>13. CASE EndBinary
  BY <1>13, <1>1, <1>2 DEF EndBinary, AtEof, StateType
<1>14. CASE Fill
  BY <1>14, <1>1, <1>2 DEF Fill, Refill, StateType
<1>15. CASE GetEnd
  BY <1>15, <1>1, <1>2 DEF GetEnd, EndOfFile, Deliver, Throw, StateType
<1>16. CASE GetBlocked
  BY <1>16, <1>1, <1>2 DEF GetBlocked, WouldBlock, Interrupted, StateType
<1>17. CASE Select
  BY <1>17, <1>1, <1>2 DEF Select, StateType
<1>18. CASE CloseOut
  BY <1>18, <1>1, <1>2 DEF CloseOut, SetBlocking, CloseFd, StateType
<1>19. CASE Drain
  BY <1>19, <1>1, <1>2 DEF Drain, Discard, StateType
<1>20. CASE EndDrain
  BY <1>20, <1>1, <1>2 DEF EndDrain, IgnoreEnds, StateType
<1>21. CASE DestroyFeed
  BY <1>21, <1>1, <1>2 DEF DestroyFeed, StateType
<1>22. CASE DestroyStream
  BY <1>22, <1>1, <1>2 DEF DestroyStream, SetBlocking, CloseFd, StateType
<1>23. CASE Wait
  BY <1>23, <1>1, <1>2 DEF Wait, Outcome, StateType
<1>24. CASE ReadError
  BY <1>24, <1>1, <1>2 DEF ReadError, ReadFails, Throw, StateType
<1>25. CASE DrainError
  BY <1>25, <1>1, <1>2 DEF DrainError, ReadFails, StateType
<1>26. CASE CallerThrows
  BY <1>26, <1>1, <1>2 DEF CallerThrows, Throw, StateType
<1>27. CASE Done
  BY <1>27, <1>1, <1>2 DEF Done, StateType
<1>28. CASE \E s \in Stream : ChildWrite(s)
  BY <1>28, <1>1, <1>2 DEF ChildWrite, StateType
<1>29. CASE \E s \in Stream : ChildPipe(s)
  BY <1>29, <1>1, <1>2 DEF ChildPipe, Terminate, StateType
<1> QED
  BY <1>3, <1>4, <1>5, <1>6, <1>7, <1>8, <1>9, <1>10, <1>11, <1>12, <1>13, <1>14, <1>15,
     <1>16, <1>17, <1>18, <1>19, <1>20, <1>21, <1>22, <1>23, <1>24, <1>25, <1>26, <1>27,
     <1>28, <1>29 DEF Next, ChildNext, ParentNext

(* The child and the pipes only change so that what is over stays over,    *)
(* and the bits of a stream stay set.                                      *)
LEMMA StateFrame ==
  ASSUME TypeInv, Control, Next
  PROVE  /\ child # "running" => child' # "running" /\ status' = status /\ rest' = rest
         /\ \A s \in Stream : bits[s] \subseteq bits'[s]
         /\ \A s \in Stream : open'[s] => open[s]
<1> USE DEF stream, kernel, childVars, feedVars, control, vars
<1> USE PipesAssumption
<1>1. bits \in [Stream -> SUBSET {"eof", "fail", "bad"}] /\ open \in [Stream -> BOOLEAN]
  BY DEF TypeInv
<1>2. CASE ChildRead
  BY <1>2, <1>1 DEF ChildRead
<1>3. CASE ChildExit
  BY <1>3, <1>1 DEF ChildExit, Terminate
<1>4. CASE ChildCrash
  BY <1>4, <1>1 DEF ChildCrash, Terminate
<1>5. CASE Feed
  BY <1>5, <1>1 DEF Feed
<1>6. CASE FeedFails
  BY <1>6, <1>1 DEF FeedFails, Throw
<1>7. CASE EndFeed
  BY <1>7, <1>1 DEF EndFeed
<1>8. CASE Call
  BY <1>8, <1>1 DEF Call
<1>9. CASE GetPiece
  BY <1>9, <1>1 DEF GetPiece, Extract, Deliver
<1>10. CASE NextLine
  BY <1>10, <1>1 DEF NextLine
<1>11. CASE GetBinary
  BY <1>11, <1>1 DEF GetBinary, Discard
<1>12. CASE EndBinary
  BY <1>12, <1>1 DEF EndBinary, AtEof
<1>13. CASE Fill
  BY <1>13, <1>1 DEF Fill, Refill
<1>14. CASE GetEnd
  BY <1>14, <1>1 DEF GetEnd, EndOfFile, Deliver, Throw
<1>15. CASE GetBlocked
  BY <1>15, <1>1 DEF GetBlocked, WouldBlock, Interrupted
<1>16. CASE Select
  BY <1>16, <1>1 DEF Select
<1>17. CASE CloseOut
  BY <1>17, <1>1 DEF CloseOut, SetBlocking, CloseFd
<1>18. CASE Drain
  BY <1>18, <1>1 DEF Drain, Discard
<1>19. CASE EndDrain
  BY <1>19, <1>1 DEF EndDrain, IgnoreEnds
<1>20. CASE DestroyFeed
  BY <1>20, <1>1 DEF DestroyFeed
<1>21. CASE DestroyStream
  BY <1>21, <1>1 DEF DestroyStream, SetBlocking, CloseFd
<1>22. CASE Wait
  BY <1>22, <1>1 DEF Wait, Outcome
<1>23. CASE ReadError
  BY <1>23, <1>1 DEF ReadError, ReadFails, Throw
<1>24. CASE DrainError
  BY <1>24, <1>1 DEF DrainError, ReadFails
<1>25. CASE CallerThrows
  BY <1>25, <1>1 DEF CallerThrows, Throw
<1>26. CASE Done
  BY <1>26, <1>1 DEF Done
<1>27. CASE \E s \in Stream : ChildWrite(s)
  BY <1>27, <1>1 DEF ChildWrite
<1>28. CASE \E s \in Stream : ChildPipe(s)
  BY <1>28, <1>1 DEF ChildPipe, Terminate
<1> QED
  BY <1>2, <1>3, <1>4, <1>5, <1>6, <1>7, <1>8, <1>9, <1>10, <1>11, <1>12, <1>13, <1>14,
     <1>15, <1>16, <1>17, <1>18, <1>19, <1>20, <1>21, <1>22, <1>23, <1>24, <1>25, <1>26,
     <1>27, <1>28 DEF Next, ChildNext, ParentNext

LEMMA ChildStep ==
  ASSUME TypeInv, Control, ChildInv, Next
  PROVE  ChildInv'
<1> USE DEF stream, kernel, childVars, feedVars, control, vars
<1> USE PipesAssumption
<1>1. ChildInv /\ rest \in [Stream -> Texts] /\ writer \in [Stream -> BOOLEAN]
  BY DEF TypeInv
<1>2. CASE ChildRead
  BY <1>2, <1>1 DEF ChildRead, ChildInv
<1>3. CASE ChildExit
  BY <1>3, <1>1 DEF ChildExit, Terminate, ChildInv
<1>4. CASE ChildCrash
  BY <1>4, <1>1 DEF ChildCrash, Terminate, ChildInv
<1>5. CASE Feed
  BY <1>5, <1>1 DEF Feed, ChildInv
<1>6. CASE FeedFails
  BY <1>6, <1>1 DEF FeedFails, Throw, ChildInv
<1>7. CASE EndFeed
  BY <1>7, <1>1 DEF EndFeed, ChildInv
<1>8. CASE Call
  BY <1>8, <1>1 DEF Call, ChildInv
<1>9. CASE GetPiece
  BY <1>9, <1>1 DEF GetPiece, Extract, Deliver, ChildInv
<1>10. CASE NextLine
  BY <1>10, <1>1 DEF NextLine, ChildInv
<1>11. CASE GetBinary
  BY <1>11, <1>1 DEF GetBinary, Discard, ChildInv
<1>12. CASE EndBinary
  BY <1>12, <1>1 DEF EndBinary, AtEof, ChildInv
<1>13. CASE Fill
  BY <1>13, <1>1 DEF Fill, Refill, ChildInv
<1>14. CASE GetEnd
  BY <1>14, <1>1 DEF GetEnd, EndOfFile, Deliver, Throw, ChildInv
<1>15. CASE GetBlocked
  BY <1>15, <1>1 DEF GetBlocked, WouldBlock, Interrupted, ChildInv
<1>16. CASE Select
  BY <1>16, <1>1 DEF Select, ChildInv
<1>17. CASE CloseOut
  BY <1>17, <1>1 DEF CloseOut, SetBlocking, CloseFd, ChildInv
<1>18. CASE Drain
  BY <1>18, <1>1 DEF Drain, Discard, ChildInv
<1>19. CASE EndDrain
  BY <1>19, <1>1 DEF EndDrain, IgnoreEnds, ChildInv
<1>20. CASE DestroyFeed
  BY <1>20, <1>1 DEF DestroyFeed, ChildInv
<1>21. CASE DestroyStream
  BY <1>21, <1>1 DEF DestroyStream, SetBlocking, CloseFd, ChildInv
<1>22. CASE Wait
  BY <1>22, <1>1 DEF Wait, Outcome, ChildInv
<1>23. CASE ReadError
  BY <1>23, <1>1 DEF ReadError, ReadFails, Throw, ChildInv
<1>24. CASE DrainError
  BY <1>24, <1>1 DEF DrainError, ReadFails, ChildInv
<1>25. CASE CallerThrows
  BY <1>25, <1>1 DEF CallerThrows, Throw, ChildInv
<1>26. CASE Done
  BY <1>26, <1>1 DEF Done, ChildInv
<1>27. CASE \E s \in Stream : ChildWrite(s)
  BY <1>27, <1>1 DEF ChildWrite, ChildInv
<1>28. CASE \E s \in Stream : ChildPipe(s)
  BY <1>28, <1>1 DEF ChildPipe, Terminate, ChildInv
<1> QED
  BY <1>2, <1>3, <1>4, <1>5, <1>6, <1>7, <1>8, <1>9, <1>10, <1>11, <1>12, <1>13, <1>14,
     <1>15, <1>16, <1>17, <1>18, <1>19, <1>20, <1>21, <1>22, <1>23, <1>24, <1>25, <1>26,
     <1>27, <1>28 DEF Next, ChildNext, ParentNext

(* Nothing more comes from a stream that is over.                          *)
LEMMA OverStep ==
  ASSUME TypeInv, Control, Next, NEW s \in Stream, Over(s)
  PROVE  Over(s)' /\ took'[s] = took[s] /\ rest'[s] = rest[s]
<1>1. child # "running" /\ pipe[s] = <<>> /\ area[s] = <<>>
  BY DEF Over
<1>2. child' # "running" /\ rest' = rest
  BY <1>1, StateFrame
<1> SUFFICES pipe'[s] = <<>> /\ area'[s] = <<>> /\ took'[s] = took[s]
  BY <1>2 DEF Over
<1>3. ~\E t \in Stream : ChildWrite(t)
  BY <1>1 DEF ChildWrite
<1>4. CASE Fill
  BY <1>1, <1>4 DEF Fill, Refill, TypeInv
<1>5. CASE GetPiece
  <2>1. cur \in Stream /\ cur # s /\ Extract(cur) /\ pipe' = pipe
    BY <1>1, <1>5 DEF GetPiece, Extract, Control, kernel
  <2>2. PICK p, q \in Texts :
          took' = [took EXCEPT ![cur] = @ \o q] /\ area' = [area EXCEPT ![cur] = area'[cur]]
    BY <2>1, ExtractEffect
  <2> QED BY <1>1, <2>1, <2>2 DEF TypeInv
<1>6. CASE GetBinary \/ Drain
  <2>1. cur \in Stream /\ area[cur] # <<>> /\ pipe' = pipe
        /\ took' = [took EXCEPT ![cur] = @ \o area[cur]] /\ area' = [area EXCEPT ![cur] = <<>>]
    BY <1>6 DEF GetBinary, Drain, Discard, Control, kernel
  <2> QED BY <1>1, <2>1 DEF TypeInv
<1>7. CASE GetEnd \/ NextLine
  BY <1>1, <1>7 DEF GetEnd, EndOfFile, NextLine, kernel
<1> QED
  BY <1>1, <1>3, <1>4, <1>5, <1>6, <1>7, TextFrame

(* The steps that set bits.                                                *)
LEMMA BitsFrame ==
  ASSUME Next
  PROVE  bits' = bits \/ GetEnd \/ EndDrain \/ ReadError \/ DrainError
<1> USE DEF stream, kernel, childVars, feedVars, control, vars
<1>1. CASE ChildRead
  BY <1>1 DEF ChildRead
<1>2. CASE ChildExit
  BY <1>2 DEF ChildExit, Terminate
<1>3. CASE ChildCrash
  BY <1>3 DEF ChildCrash, Terminate
<1>4. CASE Feed
  BY <1>4 DEF Feed
<1>5. CASE FeedFails
  BY <1>5 DEF FeedFails, Throw
<1>6. CASE EndFeed
  BY <1>6 DEF EndFeed
<1>7. CASE Call
  BY <1>7 DEF Call
<1>8. CASE GetPiece
  BY <1>8 DEF GetPiece, Extract, Deliver
<1>9. CASE NextLine
  BY <1>9 DEF NextLine
<1>10. CASE GetBinary
  BY <1>10 DEF GetBinary, Discard
<1>11. CASE EndBinary
  BY <1>11 DEF EndBinary, AtEof
<1>12. CASE Fill
  BY <1>12 DEF Fill, Refill
<1>13. CASE GetBlocked
  BY <1>13 DEF GetBlocked, WouldBlock, Interrupted
<1>14. CASE Select
  BY <1>14 DEF Select
<1>15. CASE CloseOut
  BY <1>15 DEF CloseOut, SetBlocking, CloseFd
<1>16. CASE Drain
  BY <1>16 DEF Drain, Discard
<1>17. CASE DestroyFeed
  BY <1>17 DEF DestroyFeed
<1>18. CASE DestroyStream
  BY <1>18 DEF DestroyStream, SetBlocking, CloseFd
<1>19. CASE Wait
  BY <1>19 DEF Wait, Outcome
<1>20. CASE CallerThrows
  BY <1>20 DEF CallerThrows, Throw
<1>21. CASE Done
  BY <1>21 DEF Done
<1>22. CASE \E s \in Stream : ChildWrite(s)
  BY <1>22 DEF ChildWrite
<1>23. CASE \E s \in Stream : ChildPipe(s)
  BY <1>23 DEF ChildPipe, Terminate
<1> QED
  BY <1>1, <1>2, <1>3, <1>4, <1>5, <1>6, <1>7, <1>8, <1>9, <1>10, <1>11, <1>12, <1>13,
     <1>14, <1>15, <1>16, <1>17, <1>18, <1>19, <1>20, <1>21, <1>22, <1>23 DEF Next,
     ChildNext, ParentNext

LEMMA BitsStep ==
  ASSUME TypeInv, Control, ChildInv, BitsInv, Next
  PROVE  BitsInv'
<1>1. bits \in [Stream -> SUBSET {"eof", "fail", "bad"}]
  BY DEF TypeInv
<1>2. \A s \in Stream : Over(s) => Over(s)'
  BY OverStep
<1>3. CASE bits' = bits
  BY <1>2, <1>3 DEF BitsInv
<1>4. CASE ReadError \/ DrainError
  <2>1. cur \in Stream /\ (bits' = bits \/ bits' = [bits EXCEPT ![cur] = @ \cup {"bad"}])
    BY <1>4 DEF ReadError, DrainError, ReadFails, Control
  <2> QED BY <1>1, <1>2, <2>1 DEF BitsInv
<1>5. CASE GetEnd \/ EndDrain
  <2>1. /\ cur \in Stream /\ area[cur] = <<>> /\ pipe[cur] = <<>> /\ ~writer[cur]
        /\ \/ bits' = [bits EXCEPT ![cur] = @ \cup {"eof"}]
           \/ bits' = [bits EXCEPT ![cur] = @ \cup {"eof"} \cup {"fail"}]
    <3>1. CASE GetEnd
      BY <1>1, <3>1 DEF GetEnd, EndOfFile, AtEof, Control
    <3>2. CASE EndDrain
      BY <3>2 DEF EndDrain, IgnoreEnds, AtEof, Control
    <3> QED BY <1>5, <3>1, <3>2
  <2>2. Over(cur)
    BY <2>1 DEF Over, ChildInv
  <2>3. ASSUME NEW s \in Stream
        PROVE  ("eof" \in bits'[s] => Over(s)') /\ ("fail" \in bits'[s] => "eof" \in bits'[s])
    <3>1. CASE s = cur
      BY <1>1, <1>2, <2>1, <2>2, <3>1
    <3>2. CASE s # cur
      <4>1. bits'[s] = bits[s]
        BY <1>1, <2>1, <3>2
      <4> QED BY <1>2, <4>1 DEF BitsInv
    <3> QED BY <3>1, <3>2
  <2> QED BY <2>3 DEF BitsInv
<1> QED
  BY <1>3, <1>4, <1>5, BitsFrame

(* A stream is closed when it does not skip, or has failed or ended; or    *)
(* when all is done.                                                       *)
LEMMA OpenFrame ==
  ASSUME Control, Next
  PROVE  \/ open' = open
         \/ child' # "running"
         \/ \E s \in Stream : ~MustSkip(s, Skip) /\ open' = [open EXCEPT ![s] = FALSE]
<1> USE DEF stream, kernel, childVars, feedVars, control, vars, CloseFd
<1> USE PipesAssumption
<1>1. CASE ChildRead
  BY <1>1 DEF ChildRead
<1>2. CASE ChildExit
  BY <1>2 DEF ChildExit, Terminate
<1>3. CASE ChildCrash
  BY <1>3 DEF ChildCrash, Terminate
<1>4. CASE Feed
  BY <1>4 DEF Feed
<1>5. CASE FeedFails
  BY <1>5 DEF FeedFails, Throw
<1>6. CASE EndFeed
  BY <1>6 DEF EndFeed
<1>7. CASE Call
  BY <1>7 DEF Call
<1>8. CASE GetPiece
  BY <1>8 DEF GetPiece, Extract, Deliver
<1>9. CASE NextLine
  BY <1>9 DEF NextLine
<1>10. CASE GetBinary
  BY <1>10 DEF GetBinary, Discard
<1>11. CASE EndBinary
  BY <1>11 DEF EndBinary, AtEof
<1>12. CASE Fill
  BY <1>12 DEF Fill, Refill
<1>13. CASE GetEnd
  BY <1>13 DEF GetEnd, EndOfFile, Deliver, Throw
<1>14. CASE GetBlocked
  BY <1>14 DEF GetBlocked, WouldBlock, Interrupted
<1>15. CASE Select
  BY <1>15 DEF Select
<1>16. CASE CloseOut
  BY <1>16 DEF CloseOut, SetBlocking, CloseFd
<1>17. CASE Drain
  BY <1>17 DEF Drain, Discard
<1>18. CASE EndDrain
  BY <1>18 DEF EndDrain, IgnoreEnds
<1>19. CASE DestroyFeed
  BY <1>19 DEF DestroyFeed
<1>20. CASE DestroyStream
  BY <1>20 DEF DestroyStream, SetBlocking, CloseFd
<1>21. CASE Wait
  BY <1>21 DEF Wait, Outcome
<1>22. CASE ReadError
  BY <1>22 DEF ReadError, ReadFails, Throw
<1>23. CASE DrainError
  BY <1>23 DEF DrainError, ReadFails
<1>24. CASE CallerThrows
  BY <1>24 DEF CallerThrows, Throw
<1>25. CASE Done
  BY <1>25 DEF Done
<1>26. CASE \E s \in Stream : ChildWrite(s)
  BY <1>26 DEF ChildWrite
<1>27. CASE \E s \in Stream : ChildPipe(s)
  BY <1>27 DEF ChildPipe, Terminate
<1> QED
  BY <1>1, <1>2, <1>3, <1>4, <1>5, <1>6, <1>7, <1>8, <1>9, <1>10, <1>11, <1>12, <1>13,
     <1>14, <1>15, <1>16, <1>17, <1>18, <1>19, <1>20, <1>21, <1>22, <1>23, <1>24, <1>25,
     <1>26, <1>27 DEF Next, ChildNext, ParentNext

(* The child terminates with status "pipe" only when it writes to a pipe   *)
(* nobody reads.                                                           *)
LEMMA StatusFrame ==
  ASSUME Next
  PROVE  status' = status \/ status' \in {"ok", "fail"} \/ \E s \in Stream : ChildPipe(s)
<1> USE DEF stream, kernel, childVars, feedVars, control, vars
<1>1. CASE ChildRead
  BY <1>1 DEF ChildRead
<1>2. CASE ChildExit
  BY <1>2 DEF ChildExit, Terminate
<1>3. CASE ChildCrash
  BY <1>3 DEF ChildCrash, Terminate
<1>4. CASE Feed
  BY <1>4 DEF Feed
<1>5. CASE FeedFails
  BY <1>5 DEF FeedFails, Throw
<1>6. CASE EndFeed
  BY <1>6 DEF EndFeed
<1>7. CASE Call
  BY <1>7 DEF Call
<1>8. CASE GetPiece
  BY <1>8 DEF GetPiece, Extract, Deliver
<1>9. CASE NextLine
  BY <1>9 DEF NextLine
<1>10. CASE GetBinary
  BY <1>10 DEF GetBinary, Discard
<1>11. CASE EndBinary
  BY <1>11 DEF EndBinary, AtEof
<1>12. CASE Fill
  BY <1>12 DEF Fill, Refill
<1>13. CASE GetEnd
  BY <1>13 DEF GetEnd, EndOfFile, Deliver, Throw
<1>14. CASE GetBlocked
  BY <1>14 DEF GetBlocked, WouldBlock, Interrupted
<1>15. CASE Select
  BY <1>15 DEF Select
<1>16. CASE CloseOut
  BY <1>16 DEF CloseOut, SetBlocking, CloseFd
<1>17. CASE Drain
  BY <1>17 DEF Drain, Discard
<1>18. CASE EndDrain
  BY <1>18 DEF EndDrain, IgnoreEnds
<1>19. CASE DestroyFeed
  BY <1>19 DEF DestroyFeed
<1>20. CASE DestroyStream
  BY <1>20 DEF DestroyStream, SetBlocking, CloseFd
<1>21. CASE Wait
  BY <1>21 DEF Wait, Outcome
<1>22. CASE ReadError
  BY <1>22 DEF ReadError, ReadFails, Throw
<1>23. CASE DrainError
  BY <1>23 DEF DrainError, ReadFails
<1>24. CASE CallerThrows
  BY <1>24 DEF CallerThrows, Throw
<1>25. CASE Done
  BY <1>25 DEF Done
<1>26. CASE \E s \in Stream : ChildWrite(s)
  BY <1>26 DEF ChildWrite
<1> QED
  BY <1>1, <1>2, <1>3, <1>4, <1>5, <1>6, <1>7, <1>8, <1>9, <1>10, <1>11, <1>12, <1>13,
     <1>14, <1>15, <1>16, <1>17, <1>18, <1>19, <1>20, <1>21, <1>22, <1>23, <1>24, <1>25,
     <1>26 DEF Next, ChildNext, ParentNext

LEMMA SkippedStep ==
  ASSUME TypeInv, Control, ChildInv, BitsInv, Skipped, Next
  PROVE  Skipped'
<1>1. "out" \in Stream /\ Skip = {"out"} /\ open \in [Stream -> BOOLEAN]
      /\ bits \in [Stream -> SUBSET {"eof", "fail", "bad"}]
  BY PipesAssumption DEF Skip, TypeInv
<1>2. \A s \in Stream : bits[s] \subseteq bits'[s] /\ (open'[s] => open[s])
  BY StateFrame
<1>3. child # "running" => child' # "running" /\ status' = status /\ rest' = rest
  BY StateFrame
<1>4. open'["out"] \/ "bad" \in bits'["out"] \/ child' # "running"
  <2>1. CASE open' = open
    BY <1>1, <1>2, <1>3, <2>1 DEF Skipped
  <2>2. CASE child' # "running"
    BY <2>2
  <2>3. ASSUME NEW s \in Stream, ~MustSkip(s, Skip), open' = [open EXCEPT ![s] = FALSE]
        PROVE  open'["out"] \/ "bad" \in bits'["out"] \/ child' # "running"
    <3>1. CASE s # "out"
      <4>1. open'["out"] = open["out"]
        BY <1>1, <2>3, <3>1
      <4> QED BY <1>1, <1>2, <1>3, <4>1 DEF Skipped
    <3>2. CASE s = "out"
      <4>1. open["out"] => bits["out"] # {}
        BY <1>1, <2>3, <3>2 DEF MustSkip, Good
      <4>2. "eof" \in bits["out"] => child # "running"
        BY <1>1 DEF BitsInv, Over
      <4>3. "fail" \in bits["out"] => "eof" \in bits["out"]
        BY <1>1 DEF BitsInv
      <4> QED BY <1>1, <1>2, <1>3, <4>1, <4>2, <4>3 DEF Skipped
    <3> QED BY <3>1, <3>2
  <2> QED BY <2>1, <2>2, <2>3, OpenFrame
<1>5. SkipDrains'
  <2>1. CASE status = "pipe"
    <3>1. child # "running"
      BY <2>1 DEF ChildInv
    <3>2. PICK s \in Stream : ~open[s] /\ rest[s] # <<>> /\ (s \notin Skip \/ "bad" \in bits[s])
      BY <2>1 DEF Skipped, SkipDrains
    <3>3. ~open'[s] /\ rest'[s] # <<>> /\ (s \notin Skip \/ "bad" \in bits'[s])
      BY <1>2, <1>3, <3>1, <3>2
    <3> QED BY <3>3 DEF SkipDrains, Skip
  <2>2. CASE status # "pipe" /\ status' = "pipe"
    <3>1. PICK s \in Stream : ChildPipe(s)
      BY <2>2, StatusFrame
    <3>2. child = "running" /\ rest[s] # <<>> /\ ~open[s] /\ UNCHANGED <<open, rest, bits>>
      BY <3>1 DEF ChildPipe, Terminate, stream
    <3>3. s \notin Skip \/ "bad" \in bits[s]
      BY <3>2 DEF Skipped
    <3> QED BY <3>2, <3>3 DEF SkipDrains, Skip
  <2>3. CASE status' # "pipe"
    BY <2>3 DEF SkipDrains
  <2> QED BY <2>1, <2>2, <2>3
<1> QED
  BY <1>1, <1>4, <1>5 DEF Skipped, Skip

-----------------------------------------------------------------------------
(* The lines. *)

LEMMA LiveStep ==
  ASSUME TypeInv, Control, LiveInv, Next
  PROVE  LiveInv'
<1> USE DEF stream, kernel, childVars, feedVars, control, vars
<1>1. /\ Control /\ LiveInv /\ bits \in [Stream -> SUBSET {"eof", "fail", "bad"}]
      /\ retry \in SUBSET Stream /\ live \in SUBSET Stream
  BY DEF TypeInv
<1>2. CASE ChildRead
  BY <1>2, <1>1 DEF ChildRead, LiveInv, Reading, Control
<1>3. CASE ChildExit
  BY <1>3, <1>1 DEF ChildExit, Terminate, LiveInv, Reading, Control
<1>4. CASE ChildCrash
  BY <1>4, <1>1 DEF ChildCrash, Terminate, LiveInv, Reading, Control
<1>5. CASE Feed
  BY <1>5, <1>1 DEF Feed, LiveInv, Reading, Control
<1>6. CASE FeedFails
  BY <1>6, <1>1 DEF FeedFails, Throw, LiveInv, Reading, Control
<1>7. CASE EndFeed
  BY <1>7, <1>1 DEF EndFeed, LiveInv, Reading, Control
<1>8. CASE Call
  BY <1>8, <1>1 DEF Call, LiveInv, Reading, Control
<1>9. CASE GetPiece
  BY <1>9, <1>1 DEF GetPiece, Extract, Deliver, LiveInv, Reading, Control
<1>10. CASE NextLine
  BY <1>10, <1>1 DEF NextLine, LiveInv, Reading, Control
<1>11. CASE GetBinary
  BY <1>11, <1>1 DEF GetBinary, Discard, LiveInv, Reading, Control
<1>12. CASE EndBinary
  BY <1>12, <1>1 DEF EndBinary, AtEof, LiveInv, Reading, Control
<1>13. CASE Fill
  BY <1>13, <1>1 DEF Fill, Refill, LiveInv, Reading, Control
<1>14. CASE GetBlocked
  BY <1>14, <1>1 DEF GetBlocked, WouldBlock, Interrupted, LiveInv, Reading, Control
<1>15. CASE Select
  BY <1>15, <1>1 DEF Select, LiveInv, Reading, Control
<1>16. CASE CloseOut
  BY <1>16, <1>1 DEF CloseOut, SetBlocking, CloseFd, LiveInv, Reading, Control
<1>17. CASE Drain
  BY <1>17, <1>1 DEF Drain, Discard, LiveInv, Reading, Control
<1>18. CASE EndDrain
  BY <1>18, <1>1 DEF EndDrain, IgnoreEnds, LiveInv, Reading, Control
<1>19. CASE DestroyFeed
  BY <1>19, <1>1 DEF DestroyFeed, LiveInv, Reading, Control
<1>20. CASE DestroyStream
  BY <1>20, <1>1 DEF DestroyStream, SetBlocking, CloseFd, LiveInv, Reading, Control
<1>21. CASE Wait
  BY <1>21, <1>1 DEF Wait, Outcome, LiveInv, Reading, Control
<1>22. CASE ReadError
  BY <1>22, <1>1 DEF ReadError, ReadFails, Throw, LiveInv, Reading, Control
<1>23. CASE DrainError
  BY <1>23, <1>1 DEF DrainError, ReadFails, LiveInv, Reading, Control
<1>24. CASE CallerThrows
  BY <1>24, <1>1 DEF CallerThrows, Throw, LiveInv, Reading, Control
<1>25. CASE Done
  BY <1>25, <1>1 DEF Done, LiveInv, Reading, Control
<1>26. CASE \E s \in Stream : ChildWrite(s)
  BY <1>26, <1>1 DEF ChildWrite, LiveInv, Reading, Control
<1>27. CASE \E s \in Stream : ChildPipe(s)
  BY <1>27, <1>1 DEF ChildPipe, Terminate, LiveInv, Reading, Control
<1>28. CASE GetEnd
  <2>1. pc = "getline" /\ cur \in live /\ cur \in Stream
    BY <1>28, <1>1 DEF GetEnd, Control
  <2>2. \A s \in live : s # cur => "fail" \notin bits'[s]
    BY <1>28, <1>1, <2>1 DEF GetEnd, EndOfFile, LiveInv, Reading
  <2>3. CASE "fail" \notin bits'[cur]
    <3>1. retry' = retry /\ live' = live
      BY <1>28, <2>3 DEF GetEnd
    <3> QED BY <1>1, <2>1, <2>2, <2>3, <3>1 DEF LiveInv, Reading
  <2>4. CASE "fail" \in bits'[cur] /\ NeedsLine
    BY <1>28, <2>4 DEF GetEnd, Throw, LiveInv, Reading
  <2>5. CASE "fail" \in bits'[cur] /\ ~NeedsLine
    <3>1. live' = live \ {cur} /\ retry' = retry \ {cur}
      BY <1>28, <2>5 DEF GetEnd
    <3> QED BY <1>1, <2>1, <2>2, <3>1 DEF LiveInv, Reading
  <2> QED BY <2>3, <2>4, <2>5
<1> QED
  BY <1>28, <1>2, <1>3, <1>4, <1>5, <1>6, <1>7, <1>8, <1>9, <1>10, <1>11, <1>12, <1>13,
     <1>14, <1>15, <1>16, <1>17, <1>18, <1>19, <1>20, <1>21, <1>22, <1>23, <1>24, <1>25,
     <1>26, <1>27 DEF Next, ChildNext, ParentNext

(* The steps that change what a stream has delivered, or of which line.    *)
LEMMA LineFrame ==
  ASSUME Next
  PROVE  \/ GetPiece \/ GetEnd \/ NextLine \/ GetBinary \/ Drain
         \/ /\ UNCHANGED <<line, took, lines, said>>
            /\ \/ pc' = pc /\ cur' = cur
               \/ pc # "line" /\ (Reading' => Reading /\ pc' # "line")
<1> USE DEF stream, kernel, childVars, feedVars, control, vars, Reading
<1>1. CASE ChildRead
  BY <1>1 DEF ChildRead
<1>2. CASE ChildExit
  BY <1>2 DEF ChildExit, Terminate
<1>3. CASE ChildCrash
  BY <1>3 DEF ChildCrash, Terminate
<1>4. CASE Feed
  BY <1>4 DEF Feed
<1>5. CASE FeedFails
  BY <1>5 DEF FeedFails, Throw
<1>6. CASE EndFeed
  BY <1>6 DEF EndFeed
<1>7. CASE Call
  BY <1>7 DEF Call
<1>8. CASE EndBinary
  BY <1>8 DEF EndBinary, AtEof
<1>9. CASE Fill
  BY <1>9 DEF Fill, Refill
<1>10. CASE GetBlocked
  BY <1>10 DEF GetBlocked, WouldBlock, Interrupted
<1>11. CASE Select
  BY <1>11 DEF Select
<1>12. CASE CloseOut
  BY <1>12 DEF CloseOut, SetBlocking, CloseFd
<1>13. CASE EndDrain
  BY <1>13 DEF EndDrain, IgnoreEnds
<1>14. CASE DestroyFeed
  BY <1>14 DEF DestroyFeed
<1>15. CASE DestroyStream
  BY <1>15 DEF DestroyStream, SetBlocking, CloseFd
<1>16. CASE Wait
  BY <1>16 DEF Wait, Outcome
<1>17. CASE ReadError
  BY <1>17 DEF ReadError, ReadFails, Throw
<1>18. CASE DrainError
  BY <1>18 DEF DrainError, ReadFails
<1>19. CASE CallerThrows
  BY <1>19 DEF CallerThrows, Throw
<1>20. CASE Done
  BY <1>20 DEF Done
<1>21. CASE \E s \in Stream : ChildWrite(s)
  BY <1>21 DEF ChildWrite
<1>22. CASE \E s \in Stream : ChildPipe(s)
  BY <1>22 DEF ChildPipe, Terminate
<1> QED
  BY <1>1, <1>2, <1>3, <1>4, <1>5, <1>6, <1>7, <1>8, <1>9, <1>10, <1>11, <1>12, <1>13,
     <1>14, <1>15, <1>16, <1>17, <1>18, <1>19, <1>20, <1>21, <1>22 DEF Next, ChildNext,
     ParentNext

(* A line that ends with a delimiter is delivered with everything that has *)
(* been extracted.                                                         *)
LEMMA PieceSaid ==
  ASSUME TypeInv, Control, BitsInv, LinesInv, GetPiece
  PROVE  /\ cur \in Stream /\ cur \in live /\ pc = "getline" /\ client # "filter" /\ cur' = cur
         /\ UNCHANGED <<bits, live, thrown>>
         /\ \A s \in Stream : s # cur => took'[s] = took[s] /\ said'[s] = said[s] /\ line'[s] = line[s]
         /\ \A i \in 1 .. Len(line'[cur]) : line'[cur][i] # NL
         /\ Complete(cur) =>
              /\ pc' = "line" /\ said'[cur] = took'[cur] /\ lines' = [lines EXCEPT ![cur] = Append(@, line'[cur])]
              /\ said' = [said EXCEPT ![cur] = Append(@ \o line'[cur], NL)]
         /\ ~Complete(cur) =>
              /\ pc' = "getline" /\ UNCHANGED <<lines, said>>
              /\ took'[cur] = said[cur] \o line'[cur]
<1>1. /\ cur \in Stream /\ cur \in live /\ pc = "getline" /\ client # "filter" /\ cur' = cur
      /\ UNCHANGED <<bits, live, thrown>> /\ Extract(cur)
  BY DEF GetPiece, Control, Extract
<1>2. took[cur] \in Texts /\ line[cur] \in Texts /\ said[cur] \in Texts
      /\ took \in [Stream -> Texts] /\ line \in [Stream -> Texts] /\ said \in [Stream -> Texts]
  BY <1>1 DEF TypeInv
<1>3. PICK p, q \in Texts :
        /\ area[cur] # <<>> /\ area[cur] = q \o area'[cur] /\ area'[cur] \in Texts
        /\ q = IF Complete(cur) THEN p \o <<NL>> ELSE p
        /\ ~Complete(cur) => area'[cur] = <<>>
        /\ \A i \in 1 .. Len(p) : p[i] # NL
        /\ line' = [line EXCEPT ![cur] = @ \o p] /\ took' = [took EXCEPT ![cur] = @ \o q]
        /\ area' = [area EXCEPT ![cur] = area'[cur]]
  BY <1>1, ExtractEffect, Zenon
<1>4. took[cur] = said[cur] \o line[cur] /\ \A i \in 1 .. Len(line[cur]) : line[cur][i] # NL
  <2>1. Lines(cur) /\ Partial(cur) = line[cur]
    BY <1>1 DEF LinesInv, Reading, Partial
  <2>2. "eof" \notin bits[cur]
    BY <1>1, <1>3 DEF BitsInv, Over
  <2> QED BY <2>1, <2>2 DEF Lines
<1>5. line'[cur] = line[cur] \o p /\ took'[cur] = took[cur] \o q
  BY <1>1, <1>2, <1>3
<1>6. \A s \in Stream : s # cur => took'[s] = took[s] /\ line'[s] = line[s]
  BY <1>1, <1>2, <1>3
<1>7. \A i \in 1 .. Len(line'[cur]) : line'[cur][i] # NL
  <2>1. \A i \in 1 .. Len(line[cur]) + Len(p) :
          (line[cur] \o p)[i] = IF i <= Len(line[cur]) THEN line[cur][i] ELSE p[i - Len(line[cur])]
    BY <1>2, ConcatProperties DEF Texts
  <2>2. Len(line'[cur]) = Len(line[cur]) + Len(p) /\ Len(line[cur]) \in Nat /\ Len(p) \in Nat
    BY <1>2, <1>5, TextConcat
  <2>3. ASSUME NEW i \in 1 .. Len(line[cur]) + Len(p) PROVE (line[cur] \o p)[i] # NL
    <3>1. CASE i <= Len(line[cur])
      BY <1>4, <2>1, <2>2, <3>1
    <3>2. CASE ~(i <= Len(line[cur]))
      <4>1. i - Len(line[cur]) \in 1 .. Len(p)
        BY <2>2, <3>2
      <4> QED BY <1>3, <2>1, <3>2, <4>1
    <3> QED BY <3>1, <3>2
  <2> QED BY <1>5, <2>2, <2>3
<1>8. CASE Complete(cur)
  <2>1. /\ pc' = "line" /\ lines' = [lines EXCEPT ![cur] = Append(@, line'[cur])]
        /\ said' = [said EXCEPT ![cur] = Append(@ \o line'[cur], NL)]
    BY <1>8 DEF GetPiece, Deliver
  <2>2. said'[cur] = Append(said[cur] \o (line[cur] \o p), NL) /\ \A s \in Stream : s # cur => said'[s] = said[s]
    BY <1>1, <1>2, <1>5, <2>1
  <2>3. <<NL>> \in Texts
    BY <1>2, TextAppend
  <2>4. line[cur] \o p \in Texts /\ said[cur] \o (line[cur] \o p) \in Texts /\ said[cur] \o line[cur] \in Texts
    BY <1>2, TextConcat
  <2>5. said'[cur] = (said[cur] \o (line[cur] \o p)) \o <<NL>>
    BY <2>2, <2>4, TextAppend
  <2>6. said[cur] \o (line[cur] \o p) = (said[cur] \o line[cur]) \o p
    <3>1. Assoc(said[cur], line[cur], p)
      BY <1>2, TextAssoc
    <3> QED BY <3>1, Zenon DEF Assoc
  <2>7. ((said[cur] \o line[cur]) \o p) \o <<NL>> = (said[cur] \o line[cur]) \o (p \o <<NL>>)
    <3>1. Assoc(said[cur] \o line[cur], p, <<NL>>)
      BY <2>3, <2>4, TextAssoc
    <3> QED BY <3>1, Zenon DEF Assoc
  <2>8. took'[cur] = (said[cur] \o line[cur]) \o (p \o <<NL>>)
    BY <1>3, <1>4, <1>5, <1>8, Zenon
  <2>9. said'[cur] = took'[cur]
    BY <2>5, <2>6, <2>7, <2>8, Zenon
  <2> QED BY <1>1, <1>6, <1>8, <1>7, <2>1, <2>2, <2>9
<1>9. CASE ~Complete(cur)
  <2>1. pc' = "getline" /\ UNCHANGED <<lines, said>>
    BY <1>1, <1>9 DEF GetPiece
  <2>2. took'[cur] = (said[cur] \o line[cur]) \o p
    BY <1>3, <1>4, <1>5, <1>9, Zenon
  <2>3. took'[cur] = said[cur] \o line'[cur]
    <3>1. (said[cur] \o line[cur]) \o p = said[cur] \o (line[cur] \o p)
      <4>1. Assoc(said[cur], line[cur], p)
        BY <1>2, TextAssoc
      <4> QED BY <4>1, Zenon DEF Assoc
    <3> QED BY <1>5, <2>2, <3>1, Zenon
  <2> QED BY <1>1, <1>6, <1>9, <1>7, <2>1, <2>3
<1> QED
  BY <1>8, <1>9

(* At the end of the file the last line is delivered, which has no         *)
(* delimiter, or everything has been delivered.                            *)
LEMMA EndSaid ==
  ASSUME TypeInv, Control, ChildInv, BitsInv, LiveInv, LinesInv, GetEnd
  PROVE  /\ cur \in Stream /\ cur \in live /\ pc = "getline" /\ client # "filter" /\ UNCHANGED <<took, line>>
         /\ Over(cur) /\ "eof" \in bits'[cur]
         /\ "fail" \notin bits'[cur] =>
              /\ pc' = "line" /\ cur' = cur /\ UNCHANGED <<live, thrown>>
              /\ said' = [said EXCEPT ![cur] = Append(took[cur], NL)]
              /\ lines' = [lines EXCEPT ![cur] = Append(@, line[cur])]
              /\ took[cur] = said[cur] \o line[cur] /\ line[cur] # <<>>
              /\ \A i \in 1 .. Len(line[cur]) : line[cur][i] # NL
         /\ "fail" \in bits'[cur] =>
              /\ UNCHANGED <<lines, said>> /\ said[cur] \in {took[cur], Append(took[cur], NL)}
              /\ NeedsLine => thrown' /\ pc' = "unwind"
              /\ ~NeedsLine => live' = live \ {cur} /\ thrown' = thrown /\ cur' = cur /\ pc' \in {"close", "read"}
              /\ pc' = "close" => live' = {}
<1>1. /\ cur \in Stream /\ cur \in live /\ pc = "getline" /\ client # "filter" /\ UNCHANGED <<took, line>>
      /\ area[cur] = <<>> /\ AtEof(cur) /\ "fail" \notin bits[cur]
      /\ bits' = [bits EXCEPT ![cur] = @ \cup {"eof"} \cup IF line[cur] = <<>> THEN {"fail"} ELSE {}]
  BY DEF GetEnd, EndOfFile, Control, LiveInv, Reading
<1>2. took[cur] \in Texts /\ line[cur] \in Texts /\ said[cur] \in Texts /\ said \in [Stream -> Texts]
      /\ bits \in [Stream -> SUBSET {"eof", "fail", "bad"}]
  BY <1>1 DEF TypeInv
<1>3. Over(cur) /\ "eof" \in bits'[cur] /\ ("fail" \in bits'[cur] <=> line[cur] = <<>>)
  BY <1>1, <1>2 DEF AtEof, Over, ChildInv
<1>4. \/ took[cur] = said[cur] \o line[cur] /\ \A i \in 1 .. Len(line[cur]) : line[cur][i] # NL
      \/ said[cur] = Append(took[cur], NL) /\ line[cur] = <<>>
  BY <1>1 DEF LinesInv, Reading, Lines, Partial
<1>5. CASE "fail" \notin bits'[cur]
  <2>1. Append(said[cur] \o line[cur], NL) = Append(took[cur], NL)
    BY <1>3, <1>4, <1>5
  <2>2. /\ pc' = "line" /\ cur' = cur /\ UNCHANGED <<live, thrown>>
        /\ said' = [said EXCEPT ![cur] = Append(@ \o line[cur], NL)]
        /\ lines' = [lines EXCEPT ![cur] = Append(@, line[cur])]
    BY <1>5 DEF GetEnd, Deliver
  <2>3. said' = [said EXCEPT ![cur] = Append(took[cur], NL)]
    BY <2>1, <2>2
  <2> QED BY <1>1, <1>3, <1>4, <1>5, <2>2, <2>3
<1>6. CASE "fail" \in bits'[cur]
  <2>1. said[cur] \o <<>> = said[cur]
    BY <1>2, TextConcat, Zenon
  <2>2. said[cur] \in {took[cur], Append(took[cur], NL)}
    BY <1>3, <1>4, <1>6, <2>1
  <2>3. CASE NeedsLine
    BY <1>1, <1>3, <1>6, <2>2, <2>3 DEF GetEnd, Throw
  <2>4. CASE ~NeedsLine
    <3>1. /\ live' = live \ {cur} /\ pc' = IF live' = {} THEN "close" ELSE "read"
          /\ UNCHANGED <<cur, thrown, lines, said>>
      BY <1>6, <2>4 DEF GetEnd
    <3> QED BY <1>1, <1>3, <1>6, <2>2, <2>4, <3>1
  <2> QED BY <2>3, <2>4
<1> QED
  BY <1>5, <1>6

LEMMA LinesStep ==
  ASSUME TypeInv, Control, ChildInv, BitsInv, LiveInv, LinesInv, Next
  PROVE  LinesInv'
<1>1. client' = client /\ \A s \in Stream : bits[s] \subseteq bits'[s]
  BY SetupFrame, StateFrame
<1>2. /\ took \in [Stream -> Texts] /\ line \in [Stream -> Texts] /\ said \in [Stream -> Texts]
      /\ took' \in [Stream -> Texts] /\ line' \in [Stream -> Texts] /\ said' \in [Stream -> Texts]
  BY TextTypeStep, SaidTypeStep DEF TypeInv, TextType, SaidType
<1> SUFFICES ASSUME NEW s \in Stream, Reading', client # "filter"
             PROVE  Lines(s)'
  BY <1>1 DEF LinesInv
<1>3. ASSUME Lines(s), took'[s] = took[s], said'[s] = said[s], Partial(s)' = Partial(s) PROVE Lines(s)'
  <2>1. CASE took[s] = said[s] \o Partial(s) /\ \A i \in 1 .. Len(Partial(s)) : Partial(s)[i] # NL
    <3>1. took'[s] = said'[s] \o Partial(s)'
      BY <1>3, <2>1, Zenon
    <3>2. \A i \in 1 .. Len(Partial(s)') : Partial(s)'[i] # NL
      BY <1>3, <2>1
    <3> QED BY <3>1, <3>2 DEF Lines
  <2>2. CASE said[s] = Append(took[s], NL) /\ Partial(s) = <<>> /\ "eof" \in bits[s]
    BY <1>1, <1>3, <2>2 DEF Lines
  <2> QED BY <1>3, <2>1, <2>2 DEF Lines
<1>4. Reading => Lines(s)
  BY DEF LinesInv
<1>5. CASE GetPiece
  <2>1. /\ cur \in Stream /\ pc = "getline" /\ cur' = cur
        /\ s # cur => took'[s] = took[s] /\ said'[s] = said[s] /\ line'[s] = line[s]
        /\ Complete(cur) => pc' = "line" /\ said'[cur] = took'[cur]
        /\ ~Complete(cur) =>
             /\ pc' = "getline" /\ UNCHANGED <<lines, said>>
             /\ took'[cur] = said[cur] \o line'[cur] /\ \A i \in 1 .. Len(line'[cur]) : line'[cur][i] # NL
    BY <1>5, PieceSaid
  <2>2. CASE s # cur
    <3>1. Partial(s) = line[s] /\ Partial(s)' = line'[s]
      BY <2>1, <2>2 DEF Partial
    <3> QED BY <1>3, <1>4, <2>1, <2>2, <3>1 DEF Reading
  <2>3. CASE s = cur /\ Complete(cur)
    <3>1. Partial(s)' = <<>> /\ said'[s] = took'[s] /\ said'[s] \in Texts
      BY <1>2, <2>1, <2>3 DEF Partial
    <3>2. said'[s] \o <<>> = said'[s] /\ Len(<<>>) = 0
      BY <3>1, TextConcat, Zenon
    <3> QED BY <3>1, <3>2 DEF Lines
  <2>4. CASE s = cur /\ ~Complete(cur)
    <3>1. Partial(s)' = line'[s] /\ said'[s] = said[s]
      BY <2>1, <2>4 DEF Partial
    <3> QED BY <2>1, <2>4, <3>1 DEF Lines
  <2> QED BY <2>2, <2>3, <2>4
<1>6. CASE GetEnd
  <2>1. /\ cur \in Stream /\ pc = "getline" /\ UNCHANGED <<took, line>> /\ "eof" \in bits'[cur]
        /\ "fail" \notin bits'[cur] =>
             pc' = "line" /\ cur' = cur /\ said' = [said EXCEPT ![cur] = Append(took[cur], NL)]
        /\ "fail" \in bits'[cur] =>
             /\ UNCHANGED <<lines, said>> /\ (NeedsLine => pc' = "unwind")
             /\ ~NeedsLine => pc' \in {"close", "read"}
    BY <1>6, EndSaid
  <2>2. CASE "fail" \in bits'[cur]
    <3>1. pc' # "line" /\ Partial(s)' = Partial(s)
      BY <2>1, <2>2 DEF Partial
    <3> QED BY <1>3, <1>4, <2>1, <2>2, <3>1 DEF Reading
  <2>3. CASE "fail" \notin bits'[cur] /\ s = cur
    <3>1. Partial(s)' = <<>> /\ said'[s] = Append(took'[s], NL)
      BY <1>2, <2>1, <2>3 DEF Partial
    <3> QED BY <2>1, <2>3, <3>1 DEF Lines
  <2>4. CASE "fail" \notin bits'[cur] /\ s # cur
    <3>1. Partial(s)' = Partial(s) /\ said'[s] = said[s]
      BY <1>2, <2>1, <2>4 DEF Partial
    <3> QED BY <1>3, <1>4, <2>1, <3>1 DEF Reading
  <2> QED BY <2>2, <2>3, <2>4
<1>7. CASE NextLine
  <2>1. /\ cur \in Stream /\ pc = "line" /\ pc' \in {"close", "read"} /\ UNCHANGED <<took, said>>
        /\ line' = [line EXCEPT ![cur] = <<>>] /\ cur' = cur
    BY <1>7 DEF NextLine, Control
  <2>2. Partial(s)' = Partial(s)
    BY <1>2, <2>1 DEF Partial
  <2> QED BY <1>3, <1>4, <2>1, <2>2 DEF Reading
<1>8. CASE GetBinary \/ Drain
  BY <1>8 DEF GetBinary, Drain, Reading, control
<1>9. CASE /\ UNCHANGED <<line, took, lines, said>>
           /\ \/ pc' = pc /\ cur' = cur
              \/ pc # "line" /\ (Reading' => Reading /\ pc' # "line")
  <2>1. Partial(s)' = Partial(s) /\ Reading
    BY <1>9 DEF Partial, Reading
  <2> QED BY <1>3, <1>4, <1>9, <2>1
<1> QED
  BY <1>5, <1>6, <1>7, <1>8, <1>9, LineFrame

(* The streams that are done with.                                         *)
LEMMA FinishedFrame ==
  ASSUME Next, Control, client \in {"b_info", "select"}
  PROVE  \/ Finished' \subseteq Finished
         \/ GetEnd /\ "fail" \in bits'[cur] /\ Finished' \subseteq Finished \cup {cur}
<1> USE DEF stream, kernel, childVars, feedVars, control, vars, Reading
<1>1. Piped' = Piped
  BY SetupFrame DEF Piped
<1>2. CASE ChildRead
  BY <1>2, <1>1 DEF ChildRead, Finished, Reading, AfterReading, NeedsLine, Control
<1>3. CASE ChildExit
  BY <1>3, <1>1 DEF ChildExit, Terminate, Finished, Reading, AfterReading, NeedsLine, Control
<1>4. CASE ChildCrash
  BY <1>4, <1>1 DEF ChildCrash, Terminate, Finished, Reading, AfterReading, NeedsLine, Control
<1>5. CASE Feed
  BY <1>5, <1>1 DEF Feed, Finished, Reading, AfterReading, NeedsLine, Control
<1>6. CASE FeedFails
  BY <1>6, <1>1 DEF FeedFails, Throw, Finished, Reading, AfterReading, NeedsLine, Control
<1>7. CASE EndFeed
  BY <1>7, <1>1 DEF EndFeed, Finished, Reading, AfterReading, NeedsLine, Control
<1>8. CASE Call
  BY <1>8, <1>1 DEF Call, Finished, Reading, AfterReading, NeedsLine, Control
<1>9. CASE GetPiece
  BY <1>9, <1>1 DEF GetPiece, Extract, Deliver, Finished, Reading, AfterReading,
     NeedsLine, Control
<1>10. CASE NextLine
  BY <1>10, <1>1 DEF NextLine, Finished, Reading, AfterReading, NeedsLine, Control
<1>11. CASE GetBinary
  BY <1>11, <1>1 DEF GetBinary, Discard, Finished, Reading, AfterReading, NeedsLine, Control
<1>12. CASE EndBinary
  BY <1>12, <1>1 DEF EndBinary, AtEof, Finished, Reading, AfterReading, NeedsLine, Control
<1>13. CASE Fill
  BY <1>13, <1>1 DEF Fill, Refill, Finished, Reading, AfterReading, NeedsLine, Control
<1>14. CASE GetBlocked
  BY <1>14, <1>1 DEF GetBlocked, WouldBlock, Interrupted, Finished, Reading,
     AfterReading, NeedsLine, Control
<1>15. CASE Select
  BY <1>15, <1>1 DEF Select, Finished, Reading, AfterReading, NeedsLine, Control
<1>16. CASE CloseOut
  BY <1>16, <1>1 DEF CloseOut, SetBlocking, CloseFd, Finished, Reading, AfterReading,
     NeedsLine, Control
<1>17. CASE Drain
  BY <1>17, <1>1 DEF Drain, Discard, Finished, Reading, AfterReading, NeedsLine, Control
<1>18. CASE EndDrain
  BY <1>18, <1>1 DEF EndDrain, IgnoreEnds, Finished, Reading, AfterReading, NeedsLine, Control
<1>19. CASE DestroyFeed
  BY <1>19, <1>1 DEF DestroyFeed, Finished, Reading, AfterReading, NeedsLine, Control
<1>20. CASE DestroyStream
  BY <1>20, <1>1 DEF DestroyStream, SetBlocking, CloseFd, Finished, Reading,
     AfterReading, NeedsLine, Control
<1>21. CASE Wait
  BY <1>21, <1>1 DEF Wait, Outcome, Finished, Reading, AfterReading, NeedsLine, Control
<1>22. CASE ReadError
  BY <1>22, <1>1 DEF ReadError, ReadFails, Throw, Finished, Reading, AfterReading,
     NeedsLine, Control
<1>23. CASE DrainError
  BY <1>23, <1>1 DEF DrainError, ReadFails, Finished, Reading, AfterReading, NeedsLine, Control
<1>24. CASE CallerThrows
  BY <1>24, <1>1 DEF CallerThrows, Throw, Finished, Reading, AfterReading, NeedsLine, Control
<1>25. CASE Done
  BY <1>25, <1>1 DEF Done, Finished, Reading, AfterReading, NeedsLine, Control
<1>26. CASE \E s \in Stream : ChildWrite(s)
  BY <1>26, <1>1 DEF ChildWrite, Finished, Reading, AfterReading, NeedsLine, Control
<1>27. CASE \E s \in Stream : ChildPipe(s)
  BY <1>27, <1>1 DEF ChildPipe, Terminate, Finished, Reading, AfterReading, NeedsLine, Control
<1>28. CASE GetEnd
  <2>1. pc = "getline" /\ ~thrown
    BY <1>28 DEF GetEnd, Control
  <2>2. CASE "fail" \notin bits'[cur]
    <3>1. pc' = "line" /\ live' = live
      BY <1>28, <2>2 DEF GetEnd
    <3> QED BY <1>1, <2>1, <3>1 DEF Finished
  <2>3. CASE "fail" \in bits'[cur]
    <3>1. live' = live \ {cur} /\ pc' = IF live' = {} THEN "close" ELSE "read"
      BY <1>28, <2>3 DEF GetEnd, NeedsLine
    <3>2. Finished' \subseteq Piped \ live' /\ Finished = Piped \ live
      BY <1>1, <2>1, <3>1 DEF Finished, AfterReading
    <3> QED BY <1>28, <2>3, <3>1, <3>2
  <2> QED BY <2>2, <2>3
<1> QED
  BY <1>28, <1>2, <1>3, <1>4, <1>5, <1>6, <1>7, <1>8, <1>9, <1>10, <1>11, <1>12, <1>13,
     <1>14, <1>15, <1>16, <1>17, <1>18, <1>19, <1>20, <1>21, <1>22, <1>23, <1>24, <1>25,
     <1>26, <1>27 DEF Next, ChildNext, ParentNext

LEMMA AllStep ==
  ASSUME TypeInv, Control, ChildInv, BitsInv, LiveInv, LinesInv, AllInv, Next
  PROVE  AllInv'
<1>1. client' = client
  BY SetupFrame
<1>2. said \in [Stream -> Texts] /\ live \in SUBSET Stream /\ Finished \subseteq Stream
  BY PipesAssumption DEF TypeInv, Finished, Piped, Control
<1> SUFFICES ASSUME client \in {"b_info", "select"}, NEW s \in Finished' PROVE AllSaid(s)'
  BY <1>1 DEF AllInv
<1>3. ASSUME s \in Finished PROVE AllSaid(s)'
  <2>1. s \in Stream /\ AllSaid(s)
    BY <1>2, <1>3 DEF AllInv
  <2>2. Over(s)' /\ took'[s] = took[s]
    BY <2>1, OverStep DEF AllSaid
  <2>3. said'[s] = said[s]
    <3>1. CASE UNCHANGED <<lines, said>>
      BY <3>1
    <3>2. ASSUME NEW l \in Texts, pc = "getline", cur \in live, Deliver(l) PROVE said'[s] = said[s]
      <4>1. s # cur
        BY <1>3, <3>2 DEF Finished, Reading
      <4> QED BY <1>2, <2>1, <3>2, <4>1 DEF Deliver
    <3> QED BY <3>1, <3>2, SaidFrame
  <2> QED BY <2>1, <2>2, <2>3 DEF AllSaid
<1>4. ASSUME GetEnd, "fail" \in bits'[cur] PROVE AllSaid(cur)'
  <2>1. /\ cur \in Stream /\ took' = took /\ said' = said /\ Over(cur)
        /\ said[cur] \in {took[cur], Append(took[cur], NL)}
    BY <1>4, EndSaid
  <2>3. cur' = cur
    BY <1>4, EndSaid DEF NeedsLine
  <2>2. Over(cur)'
    BY <2>1, <2>3, OverStep DEF Over
  <2> QED BY <2>1, <2>2, <2>3 DEF AllSaid
<1>5. CASE s \in Finished
  BY <1>3, <1>5
<1>6. CASE GetEnd /\ "fail" \in bits'[cur] /\ s = cur
  <2>1. cur' = cur
    BY <1>6, EndSaid DEF NeedsLine
  <2> QED BY <1>4, <1>6, <2>1
<1> QED
  BY <1>5, <1>6, FinishedFrame

(* When the only line of a client is there.                                *)
LEMMA OneFrame ==
  ASSUME Next, Control, NeedsLine
  PROVE  \/ GetPiece \/ GetEnd
         \/ /\ UNCHANGED <<lines, said>>
            /\ pc' = "line" \/ AfterReading' => pc = "line" \/ AfterReading
            /\ Reading' /\ pc' # "line" => Reading /\ pc # "line"
<1> USE DEF stream, kernel, childVars, feedVars, control, vars, Reading, NeedsLine
<1>1. CASE ChildRead
  BY <1>1 DEF ChildRead, AfterReading, Control
<1>2. CASE ChildExit
  BY <1>2 DEF ChildExit, Terminate, AfterReading, Control
<1>3. CASE ChildCrash
  BY <1>3 DEF ChildCrash, Terminate, AfterReading, Control
<1>4. CASE Feed
  BY <1>4 DEF Feed, AfterReading, Control
<1>5. CASE FeedFails
  BY <1>5 DEF FeedFails, Throw, AfterReading, Control
<1>6. CASE EndFeed
  BY <1>6 DEF EndFeed, AfterReading, Control
<1>7. CASE Call
  BY <1>7 DEF Call, AfterReading, Control
<1>8. CASE NextLine
  BY <1>8 DEF NextLine, AfterReading, Control
<1>9. CASE GetBinary
  BY <1>9 DEF GetBinary, Discard, AfterReading, Control
<1>10. CASE EndBinary
  BY <1>10 DEF EndBinary, AtEof, AfterReading, Control
<1>11. CASE Fill
  BY <1>11 DEF Fill, Refill, AfterReading, Control
<1>12. CASE GetBlocked
  BY <1>12 DEF GetBlocked, WouldBlock, Interrupted, AfterReading, Control
<1>13. CASE Select
  BY <1>13 DEF Select, AfterReading, Control
<1>14. CASE CloseOut
  BY <1>14 DEF CloseOut, SetBlocking, CloseFd, AfterReading, Control
<1>15. CASE Drain
  BY <1>15 DEF Drain, Discard, AfterReading, Control
<1>16. CASE EndDrain
  BY <1>16 DEF EndDrain, IgnoreEnds, AfterReading, Control
<1>17. CASE DestroyFeed
  BY <1>17 DEF DestroyFeed, AfterReading, Control
<1>18. CASE DestroyStream
  BY <1>18 DEF DestroyStream, SetBlocking, CloseFd, AfterReading, Control
<1>19. CASE Wait
  BY <1>19 DEF Wait, Outcome, AfterReading, Control
<1>20. CASE ReadError
  BY <1>20 DEF ReadError, ReadFails, Throw, AfterReading, Control
<1>21. CASE DrainError
  BY <1>21 DEF DrainError, ReadFails, AfterReading, Control
<1>22. CASE CallerThrows
  BY <1>22 DEF CallerThrows, Throw, AfterReading, Control
<1>23. CASE Done
  BY <1>23 DEF Done, AfterReading, Control
<1>24. CASE \E s \in Stream : ChildWrite(s)
  BY <1>24 DEF ChildWrite, AfterReading, Control
<1>25. CASE \E s \in Stream : ChildPipe(s)
  BY <1>25 DEF ChildPipe, Terminate, AfterReading, Control
<1> QED
  BY <1>1, <1>2, <1>3, <1>4, <1>5, <1>6, <1>7, <1>8, <1>9, <1>10, <1>11, <1>12, <1>13,
     <1>14, <1>15, <1>16, <1>17, <1>18, <1>19, <1>20, <1>21, <1>22, <1>23, <1>24, <1>25 DEF
     Next, ChildNext, ParentNext

(* A text is a prefix of what begins with it.                              *)
LEMMA TextIsPrefix ==
  ASSUME NEW a \in Texts, NEW b \in Texts
  PROVE  IsPrefix(a, a \o b)
<1>1. SubSeq(a \o b, 1, Len(a)) = a
  BY TextPrefix
<1>2. SubSeq(a, 1, Len(a)) = a
  BY SubSeqFull, Zenon DEF Texts
<1>3. Len(a) <= Len(a \o b)
  <2>1. Len(a) \in Nat /\ Len(b) \in Nat
    BY TextConcat, Zenon
  <2>2. Len(a \o b) = Len(a) + Len(b)
    BY TextConcat, Zenon
  <2> QED BY <2>1, <2>2
<1> QED
  BY <1>1, <1>2, <1>3, Zenon DEF IsPrefix

(* The types of all variables.                                             *)
LEMMA TypeStep ==
  ASSUME TypeInv, Control, LiveInv, Next
  PROVE  TypeInv'
<1>1. client' \in AnyClient
  BY SetupFrame DEF TypeInv
<1> QED
  BY <1>1, TextTypeStep, SaidTypeStep, ControlStep, StateTypeStep
     DEF TypeInv, TextType, SaidType, ControlType, StateType

LEMMA OneStep ==
  ASSUME TypeInv, Control, ChildInv, BitsInv, Flow, LiveInv, LinesInv, OneInv, Next
  PROVE  OneInv'
<1>1. client' = client /\ plan' = plan
  BY SetupFrame
<1>2. "out" \in Stream /\ (NeedsLine' <=> NeedsLine)
  BY <1>1, PipesAssumption DEF NeedsLine
<1> SUFFICES ASSUME NeedsLine
             PROVE  /\ (pc = "line" \/ AfterReading)' => OneSaid'
                    /\ (Reading /\ pc # "line")' => lines'["out"] = <<>> /\ said'["out"] = <<>>
  BY <1>2 DEF OneInv
<1>3. \A s \in live : s = "out"
  BY DEF Control, Piped, NeedsLine
<1>4. /\ lines \in [Stream -> Seq(Texts)] /\ said \in [Stream -> Texts] /\ took \in [Stream -> Texts]
      /\ said' \in [Stream -> Texts] /\ line \in [Stream -> Texts] /\ line' \in [Stream -> Texts]
  BY SaidTypeStep, TextTypeStep DEF TypeInv, SaidType, TextType
<1>5. \A l : Len(Append(<<>>, l)) = 1
  OBVIOUS
<1>6. CASE GetPiece
  <2>1. /\ cur = "out" /\ pc = "getline" /\ thrown' = thrown /\ lines["out"] = <<>>
        /\ Complete(cur) =>
             pc' = "line" /\ said'[cur] = took'[cur] /\ lines' = [lines EXCEPT ![cur] = Append(@, line'[cur])]
        /\ ~Complete(cur) => pc' = "getline" /\ UNCHANGED <<lines, said>>
    BY <1>3, <1>6, PieceSaid DEF OneInv, Reading
  <2>2. CASE Complete(cur)
    <3>1. Len(lines'["out"]) = 1
      <4>1. lines'["out"] = Append(<<>>, line'["out"])
        BY <1>2, <1>4, <2>1, <2>2
      <4> QED BY <1>5, <4>1
    <3>2. IsPrefix(took'["out"], plan'["out"])
      <4>1. TextType' /\ Flow'
        BY FlowStep, TextTypeStep
      <4>2. took'["out"] \in Texts /\ area'["out"] \in Texts /\ pipe'["out"] \in Texts /\ rest'["out"] \in Texts
        BY <1>2, <4>1 DEF TextType
      <4>3. took'["out"] \o (area'["out"] \o (pipe'["out"] \o rest'["out"])) = plan'["out"]
        BY <1>2, <4>1 DEF Flow
      <4>4. area'["out"] \o (pipe'["out"] \o rest'["out"]) \in Texts
        BY <4>2, TextConcat
      <4>5. IsPrefix(took'["out"], took'["out"] \o (area'["out"] \o (pipe'["out"] \o rest'["out"])))
        BY <4>2, <4>4, TextIsPrefix, Zenon
      <4> QED BY <4>3, <4>5, Zenon
    <3>3. OneSaid'
      BY <2>1, <2>2, <3>1, <3>2 DEF OneSaid
    <3> QED BY <2>1, <2>2, <3>3 DEF Reading
  <2>3. CASE ~Complete(cur)
    BY <2>1, <2>3 DEF OneInv, Reading, AfterReading
  <2> QED BY <2>2, <2>3
<1>7. CASE GetEnd
  <2>1. /\ cur = "out" /\ pc = "getline" /\ lines["out"] = <<>> /\ said["out"] = <<>> /\ Over("out") /\ took' = took
        /\ "fail" \notin bits'[cur] =>
             /\ pc' = "line"
             /\ said' = [said EXCEPT ![cur] = Append(took[cur], NL)]
             /\ lines' = [lines EXCEPT ![cur] = Append(@, line[cur])]
        /\ "fail" \in bits'[cur] => thrown' /\ pc' = "unwind"
    <3>1. cur = "out" /\ pc = "getline"
      BY <1>3, <1>7, EndSaid
    <3> QED BY <1>7, <3>1, EndSaid DEF OneInv, Reading
  <2>2. CASE "fail" \notin bits'[cur]
    <3>1. Len(lines'["out"]) = 1
      <4>1. lines'["out"] = Append(<<>>, line["out"])
        BY <1>2, <1>4, <2>1, <2>2
      <4> QED BY <1>5, <4>1
    <3>2. Over("out")' /\ said'["out"] = Append(took'["out"], NL)
      BY <1>2, <1>4, <2>1, <2>2, OverStep
    <3> QED BY <2>1, <2>2, <3>1, <3>2 DEF Reading, OneSaid
  <2>3. CASE "fail" \in bits'[cur]
    BY <2>1, <2>3 DEF Reading, AfterReading
  <2> QED BY <2>2, <2>3
<1>8. CASE /\ UNCHANGED <<lines, said>>
           /\ pc' = "line" \/ AfterReading' => pc = "line" \/ AfterReading
           /\ Reading' /\ pc' # "line" => Reading /\ pc # "line"
  <2>1. OneSaid => OneSaid'
    BY <1>1, <1>2, <1>8, OverStep DEF OneSaid
  <2> QED BY <1>8, <2>1 DEF OneInv
<1> QED
  BY <1>6, <1>7, <1>8, OneFrame

(* A client that reads everything stops only at the end.                   *)
LEMMA BinaryFrame ==
  ASSUME Next, Control, client = "filter"
  PROVE  (AfterReading' => AfterReading) \/ EndBinary
<1> USE DEF stream, kernel, childVars, feedVars, control, vars, AfterReading, NeedsLine
<1>1. CASE ChildRead
  BY <1>1 DEF ChildRead, Control
<1>2. CASE ChildExit
  BY <1>2 DEF ChildExit, Terminate, Control
<1>3. CASE ChildCrash
  BY <1>3 DEF ChildCrash, Terminate, Control
<1>4. CASE Feed
  BY <1>4 DEF Feed, Control
<1>5. CASE FeedFails
  BY <1>5 DEF FeedFails, Throw, Control
<1>6. CASE EndFeed
  BY <1>6 DEF EndFeed, Control
<1>7. CASE Call
  BY <1>7 DEF Call, Control
<1>8. CASE GetPiece
  BY <1>8 DEF GetPiece, Extract, Deliver, Control
<1>9. CASE NextLine
  BY <1>9 DEF NextLine, Control
<1>10. CASE GetBinary
  BY <1>10 DEF GetBinary, Discard, Control
<1>11. CASE Fill
  BY <1>11 DEF Fill, Refill, Control
<1>12. CASE GetEnd
  BY <1>12 DEF GetEnd, EndOfFile, Deliver, Throw, Control
<1>13. CASE GetBlocked
  BY <1>13 DEF GetBlocked, WouldBlock, Interrupted, Control
<1>14. CASE Select
  BY <1>14 DEF Select, Control
<1>15. CASE CloseOut
  BY <1>15 DEF CloseOut, SetBlocking, CloseFd, Control
<1>16. CASE Drain
  BY <1>16 DEF Drain, Discard, Control
<1>17. CASE EndDrain
  BY <1>17 DEF EndDrain, IgnoreEnds, Control
<1>18. CASE DestroyFeed
  BY <1>18 DEF DestroyFeed, Control
<1>19. CASE DestroyStream
  BY <1>19 DEF DestroyStream, SetBlocking, CloseFd, Control
<1>20. CASE Wait
  BY <1>20 DEF Wait, Outcome, Control
<1>21. CASE ReadError
  BY <1>21 DEF ReadError, ReadFails, Throw, Control
<1>22. CASE DrainError
  BY <1>22 DEF DrainError, ReadFails, Control
<1>23. CASE CallerThrows
  BY <1>23 DEF CallerThrows, Throw, Control
<1>24. CASE Done
  BY <1>24 DEF Done, Control
<1>25. CASE \E s \in Stream : ChildWrite(s)
  BY <1>25 DEF ChildWrite, Control
<1>26. CASE \E s \in Stream : ChildPipe(s)
  BY <1>26 DEF ChildPipe, Terminate, Control
<1> QED
  BY <1>1, <1>2, <1>3, <1>4, <1>5, <1>6, <1>7, <1>8, <1>9, <1>10, <1>11, <1>12, <1>13,
     <1>14, <1>15, <1>16, <1>17, <1>18, <1>19, <1>20, <1>21, <1>22, <1>23, <1>24, <1>25,
     <1>26 DEF Next, ChildNext, ParentNext

LEMMA BinaryStep ==
  ASSUME TypeInv, Control, ChildInv, BinaryInv, Next
  PROVE  BinaryInv'
<1>1. client' = client /\ "out" \in Stream
  BY SetupFrame, PipesAssumption
<1>2. CASE client = "filter" /\ EndBinary
  <2>1. cur \in live /\ area[cur] = <<>> /\ AtEof(cur)
    BY <1>2 DEF EndBinary, Control
  <2>2. cur = "out"
    BY <1>2, <2>1 DEF Control, Piped
  <2>3. Over("out")
    BY <1>1, <2>1, <2>2 DEF Over, AtEof, ChildInv
  <2> QED BY <1>1, <2>3, OverStep DEF BinaryInv
<1>3. CASE client = "filter" /\ (AfterReading' => AfterReading)
  BY <1>1, <1>3, OverStep DEF BinaryInv
<1>4. CASE client # "filter"
  BY <1>1, <1>4 DEF BinaryInv
<1> QED
  BY <1>2, <1>3, <1>4, BinaryFrame

(* The outcome is there when all is done.                                  *)
LEMMA OutcomeFrame ==
  ASSUME Next, Control
  PROVE  (outcome' = outcome /\ (outcome = "none" \/ thrown' = thrown)) \/ Wait
<1> USE DEF stream, kernel, childVars, feedVars, control, vars
<1>1. CASE ChildRead
  BY <1>1 DEF ChildRead, Control
<1>2. CASE ChildExit
  BY <1>2 DEF ChildExit, Terminate, Control
<1>3. CASE ChildCrash
  BY <1>3 DEF ChildCrash, Terminate, Control
<1>4. CASE Feed
  BY <1>4 DEF Feed, Control
<1>5. CASE FeedFails
  BY <1>5 DEF FeedFails, Throw, Control
<1>6. CASE EndFeed
  BY <1>6 DEF EndFeed, Control
<1>7. CASE Call
  BY <1>7 DEF Call, Control
<1>8. CASE GetPiece
  BY <1>8 DEF GetPiece, Extract, Deliver, Control
<1>9. CASE NextLine
  BY <1>9 DEF NextLine, Control
<1>10. CASE GetBinary
  BY <1>10 DEF GetBinary, Discard, Control
<1>11. CASE EndBinary
  BY <1>11 DEF EndBinary, AtEof, Control
<1>12. CASE Fill
  BY <1>12 DEF Fill, Refill, Control
<1>13. CASE GetEnd
  BY <1>13 DEF GetEnd, EndOfFile, Deliver, Throw, Control
<1>14. CASE GetBlocked
  BY <1>14 DEF GetBlocked, WouldBlock, Interrupted, Control
<1>15. CASE Select
  BY <1>15 DEF Select, Control
<1>16. CASE CloseOut
  BY <1>16 DEF CloseOut, SetBlocking, CloseFd, Control
<1>17. CASE Drain
  BY <1>17 DEF Drain, Discard, Control
<1>18. CASE EndDrain
  BY <1>18 DEF EndDrain, IgnoreEnds, Control
<1>19. CASE DestroyFeed
  BY <1>19 DEF DestroyFeed, Control
<1>20. CASE DestroyStream
  BY <1>20 DEF DestroyStream, SetBlocking, CloseFd, Control
<1>21. CASE ReadError
  BY <1>21 DEF ReadError, ReadFails, Throw, Control
<1>22. CASE DrainError
  BY <1>22 DEF DrainError, ReadFails, Control
<1>23. CASE CallerThrows
  BY <1>23 DEF CallerThrows, Throw, Control
<1>24. CASE Done
  BY <1>24 DEF Done, Control
<1>25. CASE \E s \in Stream : ChildWrite(s)
  BY <1>25 DEF ChildWrite, Control
<1>26. CASE \E s \in Stream : ChildPipe(s)
  BY <1>26 DEF ChildPipe, Terminate, Control
<1> QED
  BY <1>1, <1>2, <1>3, <1>4, <1>5, <1>6, <1>7, <1>8, <1>9, <1>10, <1>11, <1>12, <1>13,
     <1>14, <1>15, <1>16, <1>17, <1>18, <1>19, <1>20, <1>21, <1>22, <1>23, <1>24, <1>25,
     <1>26 DEF Next, ChildNext, ParentNext

LEMMA RestStep ==
  ASSUME TypeInv, Control, ChildInv, RestInv, Next
  PROVE  RestInv'
<1>1. client' = client /\ plan' = plan /\ Piped' = Piped
  BY SetupFrame DEF Piped
<1>2. ASSUME NEW s \in Stream \ Piped PROVE plan'[s] = <<>> /\ said'[s] = <<>>
  <2>1. plan[s] = <<>> /\ said[s] = <<>>
    BY <1>2 DEF RestInv
  <2>2. CASE UNCHANGED <<lines, said>>
    BY <1>1, <2>1, <2>2
  <2>3. ASSUME NEW l \in Texts, cur \in live, Deliver(l) PROVE said'[s] = said[s]
    <3>1. s # cur /\ said \in [Stream -> Texts]
      BY <1>2, <2>3 DEF Control, TypeInv
    <3> QED BY <1>2, <2>3, <3>1 DEF Deliver
  <2> QED BY <1>1, <2>1, <2>2, <2>3, SaidFrame
<1>3. outcome' = "ok" => status' = "ok" /\ ~thrown'
  <2>1. CASE Wait
    <3>1. outcome' = Outcome /\ status' = status /\ thrown' = thrown
      BY <2>1 DEF Wait
    <3> QED BY <3>1 DEF Outcome
  <2>2. CASE outcome' = outcome /\ (outcome = "none" \/ thrown' = thrown)
    <3>1. status = "ok" => status' = "ok"
      BY StateFrame DEF ChildInv
    <3> QED BY <2>2, <3>1 DEF RestInv
  <2> QED BY <2>1, <2>2, OutcomeFrame
<1> QED
  BY <1>1, <1>2, <1>3 DEF RestInv

(* It stays one when something is put at the end.                          *)
LEMMA PrefixMore ==
  ASSUME NEW a \in Texts, NEW b \in Texts
  PROVE  /\ IsPrefix(a, b) => IsPrefix(a, Append(b, NL))
         /\ IsPrefix(a, a)
<1>1. Len(a) \in Nat /\ Len(b) \in Nat /\ Len(Append(b, NL)) = Len(b) + 1
  BY TextConcat, TextAppend
<1>2. ASSUME IsPrefix(a, b) PROVE IsPrefix(a, Append(b, NL))
  <2>1. Len(a) <= Len(b) /\ SubSeq(a, 1, Len(a)) = SubSeq(b, 1, Len(a))
    BY <1>2, Zenon DEF IsPrefix
  <2>2. SubSeq(Append(b, NL), 1, Len(a)) = SubSeq(b, 1, Len(a))
    <3>1. <<NL>> \in Texts /\ Append(b, NL) = b \o <<NL>>
      BY TextAppend
    <3>2. CASE Len(a) = 0
      BY <3>2, SubSeqEmpty
    <3>3. CASE Len(a) # 0
      <4>1. 1 \in 1 .. Len(b) /\ Len(a) \in 1 .. Len(b)
        BY <1>1, <2>1, <3>3
      <4>2. SubSeq(b \o <<NL>>, 1, Len(a)) = SubSeq(b, 1, Len(a))
        BY <3>1, <4>1, SubSeqOfConcat1, Zenon DEF Texts
      <4> QED BY <3>1, <4>2, Zenon
    <3> QED BY <3>2, <3>3
  <2>3. Len(a) <= Len(Append(b, NL))
    BY <1>1, <2>1
  <2> QED BY <2>1, <2>2, <2>3, Zenon DEF IsPrefix
<1>3. IsPrefix(a, a)
  BY <1>1 DEF IsPrefix
<1> QED
  BY <1>2, <1>3

-----------------------------------------------------------------------------
(* The theorems. *)

LEMMA InitInv ==
  ASSUME Init
  PROVE  IInv
<1> USE PipesAssumption
<1>1. plan \in [Stream -> Texts]
  <2>1. PICK p \in BoundedSeq(Char \cup {NL}, MaxText["out"]), q \in BoundedSeq(Char \cup {NL}, MaxText["err"]) :
          plan = [s \in Stream |-> IF s = "out" THEN p ELSE IF client = "select" THEN q ELSE <<>>]
    BY DEF Init
  <2>2. p \in Texts /\ q \in Texts
    <3>1. MaxText["out"] \in Nat /\ MaxText["err"] \in Nat
      BY PipesAssumption
    <3> QED BY <3>1, BoundedIsText
  <2> QED BY <2>1, <2>2, TextConcat
<1>2. /\ <<>> \in Texts /\ <<>> \in Seq(Texts) /\ <<>> \o <<>> = <<>> /\ Len(<<>>) = 0
      /\ \A a \in Texts : <<>> \o a = a
  BY TextConcat, EmptySeq
<1>3. client \in AnyClient /\ Piped \subseteq Stream
  BY DEF Init, Piped
<1>4. TypeInv
  <2>1. /\ pipe = [s \in Stream |-> <<>>] /\ writer = [s \in Stream |-> TRUE]
        /\ open = [s \in Stream |-> s \in Piped] /\ nonBlocking = [s \in Stream |-> client = "select"]
        /\ area = [s \in Stream |-> <<>>] /\ off = [s \in Stream |-> 0]
        /\ bits = [s \in Stream |-> {}]
        /\ line = [s \in Stream |-> <<>>] /\ took = [s \in Stream |-> <<>>]
        /\ lines = [s \in Stream |-> <<>>] /\ said = [s \in Stream |-> <<>>]
        /\ child = "running" /\ status = "none" /\ rest = plan
    BY DEF Init
  <2>2. /\ pc \in {"feed", "read"} /\ cur = "out" /\ retry = Piped /\ live = Piped
        /\ thrown = FALSE /\ outcome = "none"
    BY DEF Init
  <2>3. ControlType
    BY <1>3, <2>2 DEF ControlType, Places
  <2>4. StateType
    BY <2>1 DEF StateType
  <2>5. TextType /\ SaidType
    BY <1>1, <1>2, <2>1 DEF TextType, SaidType
  <2> QED BY <1>3, <2>3, <2>4, <2>5 DEF TypeInv, ControlType, StateType, TextType, SaidType
<1>5. ChildInv /\ BitsInv
  BY DEF Init, ChildInv, BitsInv
<1>6. Flow
  <2> SUFFICES ASSUME NEW s \in Stream
               PROVE  /\ took[s] \o (area[s] \o (pipe[s] \o rest[s])) = plan[s]
                      /\ off[s] = Len(took[s]) + Len(area[s])
    BY DEF Flow
  <2>1. took[s] = <<>> /\ area[s] = <<>> /\ pipe[s] = <<>> /\ rest[s] = plan[s] /\ off[s] = 0
    BY DEF Init
  <2>2. plan[s] \in Texts
    BY <1>1
  <2>3. took[s] \o (area[s] \o (pipe[s] \o rest[s])) = plan[s]
    BY <1>2, <2>1, <2>2, Zenon
  <2>4. off[s] = Len(took[s]) + Len(area[s])
    BY <2>1
  <2> QED BY <2>3, <2>4
<1>7. Skipped
  BY DEF Init, Skipped, SkipDrains, Skip, Piped
<1>8. Control /\ LiveInv
  BY <1>3 DEF Init, Control, LiveInv
<1>9. LinesInv
  <2> SUFFICES ASSUME NEW s \in Stream PROVE Lines(s)
    BY DEF LinesInv
  <2>1. took[s] = <<>> /\ said[s] = <<>> /\ Partial(s) = <<>>
    BY DEF Init, Partial
  <2> QED BY <1>2, <2>1 DEF Lines
<1>10. AllInv /\ OneInv /\ BinaryInv
  BY DEF Init, AllInv, Finished, Reading, AfterReading, OneInv, BinaryInv
<1>11. RestInv
  BY DEF Init, RestInv, Piped
<1> QED
  BY <1>4, <1>5, <1>6, <1>7, <1>8, <1>9, <1>10, <1>11 DEF IInv, ReadInv

LEMMA Stutter ==
  ASSUME IInv, UNCHANGED vars
  PROVE  IInv'
<1> USE DEF vars
<1>1. TypeInv' /\ Control'
  BY DEF IInv, TypeInv, Control, Piped
<1>2. ChildInv' /\ BitsInv' /\ Flow' /\ Skipped'
  BY DEF IInv, ChildInv, BitsInv, Over, Flow, Skipped, SkipDrains, Skip
<1>3. LiveInv' /\ LinesInv'
  BY DEF IInv, ReadInv, LiveInv, LinesInv, Reading, Lines, Partial
<1>4. AllInv' /\ OneInv' /\ BinaryInv' /\ RestInv'
  BY DEF IInv, ReadInv, AllInv, OneInv, BinaryInv, RestInv, Finished, Reading,
     AfterReading, AllSaid, OneSaid, Over,
     NeedsLine, Piped
<1> QED
  BY <1>1, <1>2, <1>3, <1>4 DEF IInv, ReadInv

(* The invariant below is inductive: where the characters are, what the    *)
(* state of a stream says of the child, which lines the parent has, and    *)
(* what each client has read when it stops reading.                        *)
THEOREM Invariant == Spec => []IInv
<1>1. Init => IInv
  BY InitInv
<1>2. IInv /\ [Next]_vars => IInv'
  <2> SUFFICES ASSUME IInv, Next PROVE IInv'
    BY Stutter
  <2>1. /\ TypeInv /\ ChildInv /\ BitsInv /\ Flow /\ Skipped /\ Control
        /\ LiveInv /\ LinesInv /\ AllInv /\ OneInv /\ BinaryInv /\ RestInv
    BY DEF IInv, ReadInv
  <2>2. TypeInv' /\ Control' /\ ChildInv' /\ BitsInv' /\ Flow' /\ Skipped'
    BY <2>1, TypeStep, ControlStep, ChildStep, BitsStep, FlowStep, SkippedStep
  <2>3. LiveInv' /\ LinesInv' /\ AllInv' /\ OneInv' /\ BinaryInv' /\ RestInv'
    BY <2>1, LiveStep, LinesStep, AllStep, OneStep, BinaryStep, RestStep
  <2> QED BY <2>2, <2>3 DEF IInv, ReadInv
<1> QED
  BY <1>1, <1>2, PTL DEF Spec

(* Whatever is read, in whichever pieces and modes, no character of what   *)
(* the child writes is lost, repeated or moved, and tellg() is right.      *)
THEOREM NothingLost == Spec => []Delivered
<1>1. IInv => Delivered
  <2> SUFFICES ASSUME IInv, NEW s \in Stream
               PROVE  took[s] \o area[s] \o pipe[s] \o rest[s] = plan[s] /\ Tellg(s) = Len(took[s])
    BY DEF Delivered
  <2>1. /\ took[s] \in Texts /\ area[s] \in Texts /\ pipe[s] \in Texts /\ rest[s] \in Texts
    BY DEF IInv, TypeInv
  <2>2. took[s] \o (area[s] \o (pipe[s] \o rest[s])) = plan[s]
    BY DEF IInv, Flow
  <2>3. off[s] = Len(took[s]) + Len(area[s])
    BY DEF IInv, Flow
  <2>4. ((took[s] \o area[s]) \o pipe[s]) \o rest[s] = took[s] \o (area[s] \o (pipe[s] \o rest[s]))
    <3>1. PICK a, b, c, d \in Texts : a = took[s] /\ b = area[s] /\ c = pipe[s] /\ d = rest[s]
      BY <2>1, Zenon
    <3>2. ((a \o b) \o c) \o d = a \o (b \o (c \o d))
      <4>1. a \o b \in Texts
        BY TextConcat
      <4>2. PICK e \in Texts : e = c \o d
        BY TextConcat
      <4>3. ((a \o b) \o c) \o d = (a \o b) \o (c \o d)
        <5>1. Assoc(a \o b, c, d)
          BY <4>1, TextAssoc
        <5> QED BY <5>1, Zenon DEF Assoc
      <4>4. (a \o b) \o e = a \o (b \o e)
        <5>1. Assoc(a, b, e)
          BY TextAssoc
        <5> QED BY <5>1, Zenon DEF Assoc
      <4> QED BY <4>2, <4>3, <4>4, Zenon
    <3> QED BY <3>1, <3>2, Zenon
  <2>5. took[s] \o area[s] \o pipe[s] \o rest[s] = plan[s]
    BY <2>2, <2>4, Zenon
  <2>6. Tellg(s) = Len(took[s])
    <3>1. Len(took[s]) \in Nat /\ Len(area[s]) \in Nat
      BY <2>1, TextConcat
    <3> QED BY <2>3, <3>1 DEF Tellg
  <2> QED BY <2>5, <2>6
<1> QED
  BY <1>1, Invariant, PTL

(* No child is killed for writing to a stream that skips, unless reading   *)
(* from it has failed.                                                     *)
THEOREM SkipKeepsWriter == Spec => []SkipDrains
<1>1. IInv => SkipDrains
  BY DEF IInv, Skipped
<1> QED
  BY <1>1, Invariant, PTL

(* A client that succeeds has a child that did, and what it was after.     *)
THEOREM SuccessIsTrue == Spec => []OutcomeTrue
<1>1. IInv => OutcomeTrue
  <2> SUFFICES ASSUME IInv, outcome = "ok" PROVE OutcomeTrue
    BY DEF OutcomeTrue
  <2>1. status = "ok" /\ ~thrown /\ pc = "done" /\ "out" \in Stream
    BY PipesAssumption DEF IInv, ReadInv, RestInv, Control
  <2>2. \A s \in Stream : rest[s] = <<>>
    BY <2>1 DEF IInv, ChildInv
  <2>3. ASSUME NEW s \in Stream, Over(s) PROVE took[s] = plan[s]
    <3>1. took[s] \in Texts /\ <<>> \o <<>> = <<>> /\ took[s] \o <<>> = took[s]
      BY TextConcat DEF IInv, TypeInv
    <3>2. took[s] \o (area[s] \o (pipe[s] \o rest[s])) = plan[s]
      BY DEF IInv, Flow
    <3>3. area[s] = <<>> /\ pipe[s] = <<>> /\ rest[s] = <<>>
      BY <2>2, <2>3 DEF Over
    <3> QED BY <3>1, <3>2, <3>3, Zenon
  <2>4. AfterReading
    BY <2>1 DEF AfterReading
  <2>5. client = "filter" => took["out"] = plan["out"]
    BY <2>1, <2>3, <2>4 DEF IInv, ReadInv, BinaryInv
  <2>6. ASSUME client \in {"b_info", "select"}, NEW s \in Stream PROVE said[s] \in {plan[s], Append(plan[s], NL)}
    <3>1. CASE s \in Piped
      <4>1. AllSaid(s)
        BY <2>1, <2>4, <2>6, <3>1 DEF IInv, ReadInv, AllInv, Finished, Reading
      <4> QED BY <2>3, <4>1 DEF AllSaid
    <3>2. CASE s \notin Piped
      BY <3>2 DEF IInv, ReadInv, RestInv
    <3> QED BY <3>1, <3>2
  <2>7. ASSUME NeedsLine PROVE Len(lines["out"]) = 1 /\ IsPrefix(said["out"], Append(plan["out"], NL))
    <3>1. OneSaid
      BY <2>4, <2>7 DEF IInv, ReadInv, OneInv
    <3>2. said["out"] \in Texts /\ plan["out"] \in Texts
      BY <2>1 DEF IInv, TypeInv
    <3>3. CASE IsPrefix(said["out"], plan["out"])
      BY <3>1, <3>2, <3>3, PrefixMore DEF OneSaid
    <3>4. CASE Over("out") /\ said["out"] = Append(took["out"], NL)
      <4>1. said["out"] = Append(plan["out"], NL)
        BY <2>1, <2>3, <3>4
      <4> QED BY <3>1, <3>2, <4>1, PrefixMore DEF OneSaid
    <3> QED BY <3>1, <3>3, <3>4 DEF OneSaid
  <2> QED BY <2>1, <2>5, <2>6, <2>7 DEF OutcomeTrue
<1> QED
  BY <1>1, Invariant, PTL

-----------------------------------------------------------------------------
(* The streams are sources of lines. *)

(* A text in the middle of another.                                        *)
Middle(t, a, b, c) ==
  /\ Len(a) \in Nat /\ Len(b) \in Nat /\ Len(c) \in Nat /\ Len(t) = Len(a) + (Len(b) + Len(c))
  /\ \A i \in Len(a) + 1 .. Len(a) + Len(b) : t[i] = b[i - Len(a)]
  /\ c # <<>> => t[Len(a) + Len(b) + 1] = c[1]
  /\ SubSeq(t, Len(a) + 1, Len(a) + Len(b)) = b

LEMMA TextMiddle ==
  ASSUME NEW a \in Texts, NEW b \in Texts, NEW c \in Texts, NEW t \in Texts, t = a \o (b \o c)
  PROVE  Middle(t, a, b, c)
<1>1. Len(a) \in Nat /\ Len(b) \in Nat /\ Len(c) \in Nat
  BY TextConcat
<1>2. PICK d \in Texts : d = b \o c /\ t = a \o d
  BY TextConcat
<1>3. Len(d) = Len(b) + Len(c) /\ \A i \in 1 .. Len(b) + Len(c) : d[i] = IF i <= Len(b) THEN b[i] ELSE c[i - Len(b)]
  BY <1>2, ConcatProperties DEF Texts
<1>4. Len(t) = Len(a) + Len(d) /\ \A i \in 1 .. Len(a) + Len(d) : t[i] = IF i <= Len(a) THEN a[i] ELSE d[i - Len(a)]
  BY <1>2, ConcatProperties DEF Texts
<1>5. \A i \in Len(a) + 1 .. Len(a) + Len(b) : t[i] = b[i - Len(a)]
  <2> SUFFICES ASSUME NEW i \in Len(a) + 1 .. Len(a) + Len(b) PROVE t[i] = b[i - Len(a)]
    OBVIOUS
  <2>1. i \in 1 .. Len(a) + Len(d) /\ ~(i <= Len(a)) /\ i - Len(a) \in 1 .. Len(b) + Len(c) /\ i - Len(a) <= Len(b)
    BY <1>1, <1>3
  <2> QED BY <1>3, <1>4, <2>1
<1>6. c # <<>> => t[Len(a) + Len(b) + 1] = c[1]
  <2> SUFFICES ASSUME c # <<>> PROVE t[Len(a) + Len(b) + 1] = c[1]
    OBVIOUS
  <2> DEFINE i == Len(a) + Len(b) + 1
  <2>1. Len(c) # 0
    BY TextConcat
  <2>2. i \in 1 .. Len(a) + Len(d) /\ ~(i <= Len(a)) /\ i - Len(a) = Len(b) + 1
    BY <1>1, <1>3, <2>1
  <2>3. Len(b) + 1 \in 1 .. Len(b) + Len(c) /\ ~(Len(b) + 1 <= Len(b)) /\ Len(b) + 1 - Len(b) = 1
    BY <1>1, <2>1
  <2>4. t[i] = d[Len(b) + 1]
    BY <1>4, <2>2
  <2>5. d[Len(b) + 1] = c[1]
    BY <1>3, <2>3
  <2> QED BY <2>4, <2>5
<1>7. SubSeq(t, Len(a) + 1, Len(a) + Len(b)) = b
  <2> DEFINE u == SubSeq(t, Len(a) + 1, Len(a) + Len(b))
  <2>1. \A i \in Len(a) + 1 .. Len(a) + Len(b) : t[i] \in Char \cup {NL}
    <3>1. \A i \in 1 .. Len(b) : b[i] \in Char \cup {NL}
      BY ElementOfSeq DEF Texts
    <3> QED BY <1>1, <1>5, <3>1
  <2>2. /\ u \in Seq(Char \cup {NL})
        /\ Len(u) = IF Len(a) + 1 <= Len(a) + Len(b) THEN Len(a) + Len(b) - (Len(a) + 1) + 1 ELSE 0
        /\ \A i \in 1 .. Len(a) + Len(b) - (Len(a) + 1) + 1 : u[i] = t[Len(a) + 1 + i - 1]
    BY <1>1, <2>1, SubSeqProperties
  <2> HIDE DEF u
  <2>3. Len(u) = Len(b)
    BY <1>1, <2>2
  <2>4. \A i \in 1 .. Len(u) : u[i] = b[i]
    <3> SUFFICES ASSUME NEW i \in 1 .. Len(u) PROVE u[i] = b[i]
      OBVIOUS
    <3>1. i \in 1 .. Len(a) + Len(b) - (Len(a) + 1) + 1 /\ Len(a) + 1 + i - 1 = Len(a) + i
          /\ Len(a) + i \in Len(a) + 1 .. Len(a) + Len(b) /\ Len(a) + i - Len(a) = i
      BY <1>1, <2>3
    <3>2. u[i] = t[Len(a) + i]
      BY <2>2, <3>1
    <3> QED BY <1>5, <3>1, <3>2
  <2>5. u = b
    BY <2>2, <2>3, <2>4, SeqEqual DEF Texts
  <2> QED BY <2>5 DEF u
<1> QED
  BY <1>1, <1>3, <1>4, <1>5, <1>6, <1>7 DEF Middle

(* What the child has written to the stream s.                             *)
Written(s) == SubSeq(plan[s], 1, Len(plan[s]) - Len(rest[s]))

LEMMA WrittenIs ==
  TypeInv /\ Flow => \A s \in Stream : Written(s) = took[s] \o (area[s] \o pipe[s]) /\ Written(s) \in Texts
<1> SUFFICES ASSUME TypeInv, Flow, NEW s \in Stream
             PROVE  Written(s) = took[s] \o (area[s] \o pipe[s]) /\ Written(s) \in Texts
  OBVIOUS
<1>1. PICK a, b, c, d \in Texts : a = took[s] /\ b = area[s] /\ c = pipe[s] /\ d = rest[s]
  BY DEF TypeInv
<1>2. PICK e \in Texts : e = b \o c
  BY TextConcat
<1>3. PICK f \in Texts : f = a \o e
  BY TextConcat
<1>4. a \o (b \o (c \o d)) = plan[s]
  BY <1>1, Zenon DEF Flow
<1>5. plan[s] = f \o d
  <2>1. e \o d = b \o (c \o d)
    <3>1. Assoc(b, c, d)
      BY TextAssoc
    <3> QED BY <1>2, <3>1, Zenon DEF Assoc
  <2>2. f \o d = a \o (e \o d)
    <3>1. Assoc(a, e, d)
      BY TextAssoc
    <3> QED BY <1>3, <3>1, Zenon DEF Assoc
  <2> QED BY <1>4, <2>1, <2>2, Zenon
<1>6. Len(plan[s]) - Len(d) = Len(f)
  <2>1. Len(f \o d) = Len(f) + Len(d) /\ Len(f) \in Nat /\ Len(d) \in Nat
    BY TextConcat
  <2>2. Len(plan[s]) = Len(f) + Len(d)
    BY <1>5, <2>1, Zenon
  <2> QED BY <2>1, <2>2
<1>7. SubSeq(f \o d, 1, Len(f)) = f
  BY TextPrefix
<1>8. Written(s) = f
  BY <1>1, <1>5, <1>6, <1>7, Zenon DEF Written
<1> QED
  BY <1>1, <1>2, <1>3, <1>8, Zenon

LEMMA WrittenIsNext ==
  (TypeInv /\ Flow => \A s \in Stream : Written(s) = took[s] \o (area[s] \o pipe[s]) /\ Written(s) \in Texts)'
BY WrittenIs, PTL

LEMMA SourceWrite ==
  ASSUME NEW s \in Stream,
         SubSeq(Written(s)', 1, Len(Written(s))) = Written(s),
         ~writer[s] => ~writer'[s] /\ Written(s)' = Written(s),
         lines'[s] = lines[s], said'[s] = said[s], "fail" \in bits'[s] <=> "fail" \in bits[s]
  PROVE  Source!Write(s)
<1> DEFINE text == [t \in Stream |-> SubSeq(plan[t], 1, Len(plan[t]) - Len(rest[t]))]
           closed == [t \in Stream |-> ~writer[t]]
           next == [t \in Stream |-> Len(said[t]) + 1]
           ended == [t \in Stream |-> "fail" \in bits[t]]
<1>1. text[s] = Written(s) /\ text'[s] = Written(s)' /\ next'[s] = next[s]
  BY DEF Written
<1>2. (closed[s] <=> ~writer[s]) /\ (closed'[s] <=> ~writer'[s])
  OBVIOUS
<1>3. ended'[s] = ended[s]
  OBVIOUS
<1> HIDE DEF text, closed, next, ended
<1>4. /\ SubSeq(text'[s], 1, Len(text[s])) = text[s]
      /\ closed[s] => closed'[s] /\ text'[s] = text[s]
  BY <1>1, <1>2
<1> QED
  BY <1>1, <1>3, <1>4 DEF Source!Write, Source!Same, text, closed, next, ended

LEMMA SourceDeliver ==
  ASSUME NEW s \in Stream, NEW e \in Int,
         Written(s)' = Written(s), writer'[s] = writer[s],
         "fail" \notin bits[s], "fail" \notin bits'[s],
         Len(said[s]) \in Nat, Len(Written(s)) \in Nat,
         Len(said[s]) <= e, e <= Len(Written(s)),
         \A i \in Len(said[s]) + 1 .. e : Written(s)[i] # NL,
         IF e < Len(Written(s)) THEN Written(s)[e + 1] = NL ELSE ~writer[s] /\ Len(said[s]) + 1 <= e,
         lines'[s] = Append(lines[s], SubSeq(Written(s), Len(said[s]) + 1, e)),
         Len(said'[s]) = e + 1
  PROVE  Source!Deliver(s)
<1>1. e \in Len(said[s]) + 1 - 1 .. Len(Written(s)) /\ Len(said'[s]) + 1 = e + 2
  OBVIOUS
<1>2. Source!EndsAt(s, e)
  BY DEF Source!EndsAt, Written
<1> DEFINE text == [t \in Stream |-> SubSeq(plan[t], 1, Len(plan[t]) - Len(rest[t]))]
           closed == [t \in Stream |-> ~writer[t]]
           next == [t \in Stream |-> Len(said[t]) + 1]
           ended == [t \in Stream |-> "fail" \in bits[t]]
<1>3. text[s] = Written(s) /\ text'[s] = Written(s)'
  BY DEF Written
<1>4. next[s] = Len(said[s]) + 1 /\ next'[s] = Len(said'[s]) + 1
  OBVIOUS
<1>5. closed'[s] = (~writer'[s]) /\ closed[s] = (~writer[s])
  OBVIOUS
<1>6. closed'[s] = closed[s]
  BY <1>5, Zenon
<1>7. ~ended'[s] /\ ~ended[s]
  OBVIOUS
<1>8. ended'[s] = ended[s]
  OBVIOUS
<1> HIDE DEF text, closed, next, ended
<1>9. \E n \in next[s]-1..Len(text[s]) :
        /\ Source!EndsAt(s, n)
        /\ lines'[s] = Append(lines[s], SubSeq(text[s], next[s], n))
        /\ next'[s] = n + 2
  <2>1. e \in next[s]-1..Len(text[s])
    <3>1. next[s] = Len(said[s]) + 1
      BY <1>4, Zenon
    <3>2. next[s] - 1 = Len(said[s])
      BY <3>1
    <3>3. Len(text[s]) = Len(Written(s))
      BY <1>3, Zenon
    <3>4. e \in Len(said[s]) .. Len(Written(s))
      OBVIOUS
    <3> QED BY <3>2, <3>3, <3>4, Zenon
  <2>2. lines'[s] = Append(lines[s], SubSeq(text[s], next[s], e))
    BY <1>3, <1>4, Zenon
  <2>3. next'[s] = e + 2
    BY <1>1, <1>4, Zenon
  <2> QED BY <1>2, <2>1, <2>2, <2>3, Zenon
<1>10. text'[s] = text[s]
  BY <1>3, Zenon
<1> QED
  BY <1>6, <1>7, <1>8, <1>9, <1>10, Zenon DEF Source!Deliver, text, closed, next, ended

LEMMA SourceEnd ==
  ASSUME NEW s \in Stream,
         Written(s)' = Written(s), writer'[s] = writer[s], ~writer[s],
         Len(said[s]) + 1 > Len(Written(s)),
         lines'[s] = lines[s], said'[s] = said[s], "fail" \in bits'[s]
  PROVE  Source!End(s)
BY DEF Source!End, Source!Same, Written

(* A write end is not opened again.                                        *)
LEMMA WriterFrame ==
  ASSUME TypeInv, Next, NEW s \in Stream
  PROVE  ~writer[s] => ~writer'[s]
<1> USE DEF stream, kernel, childVars, feedVars, control, vars
<1>1. CASE ChildRead
  BY <1>1 DEF ChildRead
<1>2. CASE ChildExit
  BY <1>2 DEF ChildExit, Terminate
<1>3. CASE ChildCrash
  BY <1>3 DEF ChildCrash, Terminate
<1>4. CASE Feed
  BY <1>4 DEF Feed
<1>5. CASE FeedFails
  BY <1>5 DEF FeedFails, Throw
<1>6. CASE EndFeed
  BY <1>6 DEF EndFeed
<1>7. CASE Call
  BY <1>7 DEF Call
<1>8. CASE GetPiece
  BY <1>8 DEF GetPiece, Extract, Deliver
<1>9. CASE NextLine
  BY <1>9 DEF NextLine
<1>10. CASE GetBinary
  BY <1>10 DEF GetBinary, Discard
<1>11. CASE EndBinary
  BY <1>11 DEF EndBinary, AtEof
<1>12. CASE Fill
  BY <1>12 DEF Fill, Refill
<1>13. CASE GetEnd
  BY <1>13 DEF GetEnd, EndOfFile, Deliver, Throw
<1>14. CASE GetBlocked
  BY <1>14 DEF GetBlocked, WouldBlock, Interrupted
<1>15. CASE Select
  BY <1>15 DEF Select
<1>16. CASE CloseOut
  BY <1>16 DEF CloseOut, SetBlocking, CloseFd
<1>17. CASE Drain
  BY <1>17 DEF Drain, Discard
<1>18. CASE EndDrain
  BY <1>18 DEF EndDrain, IgnoreEnds
<1>19. CASE DestroyFeed
  BY <1>19 DEF DestroyFeed
<1>20. CASE DestroyStream
  BY <1>20 DEF DestroyStream, SetBlocking, CloseFd
<1>21. CASE Wait
  BY <1>21 DEF Wait, Outcome
<1>22. CASE ReadError
  BY <1>22 DEF ReadError, ReadFails, Throw
<1>23. CASE DrainError
  BY <1>23 DEF DrainError, ReadFails
<1>24. CASE CallerThrows
  BY <1>24 DEF CallerThrows, Throw
<1>25. CASE Done
  BY <1>25 DEF Done
<1>26. CASE \E t \in Stream : ChildWrite(t)
  BY <1>26 DEF ChildWrite
<1>27. CASE \E t \in Stream : ChildPipe(t)
  BY <1>27 DEF ChildPipe, Terminate
<1> QED
  BY <1>1, <1>2, <1>3, <1>4, <1>5, <1>6, <1>7, <1>8, <1>9, <1>10, <1>11, <1>12, <1>13,
     <1>14, <1>15, <1>16, <1>17, <1>18, <1>19, <1>20, <1>21, <1>22, <1>23, <1>24, <1>25,
     <1>26, <1>27 DEF Next, ChildNext, ParentNext

LEMMA RestFrame ==
  ASSUME Next
  PROVE  rest' = rest \/ \E s \in Stream : ChildWrite(s)
<1> USE DEF stream, kernel, childVars, feedVars, control, vars
<1>1. CASE ChildRead
  BY <1>1 DEF ChildRead
<1>2. CASE ChildExit
  BY <1>2 DEF ChildExit, Terminate
<1>3. CASE ChildCrash
  BY <1>3 DEF ChildCrash, Terminate
<1>4. CASE Feed
  BY <1>4 DEF Feed
<1>5. CASE FeedFails
  BY <1>5 DEF FeedFails, Throw
<1>6. CASE EndFeed
  BY <1>6 DEF EndFeed
<1>7. CASE Call
  BY <1>7 DEF Call
<1>8. CASE GetPiece
  BY <1>8 DEF GetPiece, Extract, Deliver
<1>9. CASE NextLine
  BY <1>9 DEF NextLine
<1>10. CASE GetBinary
  BY <1>10 DEF GetBinary, Discard
<1>11. CASE EndBinary
  BY <1>11 DEF EndBinary, AtEof
<1>12. CASE Fill
  BY <1>12 DEF Fill, Refill
<1>13. CASE GetEnd
  BY <1>13 DEF GetEnd, EndOfFile, Deliver, Throw
<1>14. CASE GetBlocked
  BY <1>14 DEF GetBlocked, WouldBlock, Interrupted
<1>15. CASE Select
  BY <1>15 DEF Select
<1>16. CASE CloseOut
  BY <1>16 DEF CloseOut, SetBlocking, CloseFd
<1>17. CASE Drain
  BY <1>17 DEF Drain, Discard
<1>18. CASE EndDrain
  BY <1>18 DEF EndDrain, IgnoreEnds
<1>19. CASE DestroyFeed
  BY <1>19 DEF DestroyFeed
<1>20. CASE DestroyStream
  BY <1>20 DEF DestroyStream, SetBlocking, CloseFd
<1>21. CASE Wait
  BY <1>21 DEF Wait, Outcome
<1>22. CASE ReadError
  BY <1>22 DEF ReadError, ReadFails, Throw
<1>23. CASE DrainError
  BY <1>23 DEF DrainError, ReadFails
<1>24. CASE CallerThrows
  BY <1>24 DEF CallerThrows, Throw
<1>25. CASE Done
  BY <1>25 DEF Done
<1>26. CASE \E s \in Stream : ChildPipe(s)
  BY <1>26 DEF ChildPipe, Terminate
<1> QED
  BY <1>1, <1>2, <1>3, <1>4, <1>5, <1>6, <1>7, <1>8, <1>9, <1>10, <1>11, <1>12, <1>13,
     <1>14, <1>15, <1>16, <1>17, <1>18, <1>19, <1>20, <1>21, <1>22, <1>23, <1>24, <1>25,
     <1>26 DEF Next, ChildNext, ParentNext

(* What is to be written is the end of what the child writes.              *)
LEMMA RestFits ==
  ASSUME TypeInv, Flow, NEW s \in Stream
  PROVE  Len(rest[s]) <= Len(plan[s])
<1>1. PICK a, b, c, d \in Texts : a = took[s] /\ b = area[s] /\ c = pipe[s] /\ d = rest[s]
  BY DEF TypeInv
<1>2. PICK e \in Texts : e = c \o d
  BY TextConcat
<1>3. PICK f \in Texts : f = b \o e
  BY TextConcat
<1>4. plan[s] = a \o f
  BY <1>1, <1>2, <1>3, Zenon DEF Flow
<1>5. /\ Len(a \o f) = Len(a) + Len(f) /\ Len(b \o e) = Len(b) + Len(e) /\ Len(c \o d) = Len(c) + Len(d)
      /\ Len(a) \in Nat /\ Len(b) \in Nat /\ Len(c) \in Nat /\ Len(d) \in Nat
  BY TextConcat
<1>6. Len(plan[s]) = Len(a) + Len(f) /\ Len(f) = Len(b) + Len(e) /\ Len(e) = Len(c) + Len(d)
  BY <1>2, <1>3, <1>4, <1>5, Zenon
<1>7. Len(d) <= Len(plan[s])
  BY <1>5, <1>6
<1> QED
  BY <1>1, <1>7

(* The child has written more, or the same.                                *)
LEMMA WrittenStep ==
  ASSUME TypeInv, Control, LiveInv, Flow, Next, NEW s \in Stream
  PROVE  /\ SubSeq(Written(s)', 1, Len(Written(s))) = Written(s)
         /\ rest'[s] = rest[s] => Written(s)' = Written(s)
<1>1. plan' = plan
  BY SetupFrame
<1>2. Written(s) \in Texts
  BY WrittenIs
<1>3. rest'[s] = rest[s] => Written(s)' = Written(s)
  BY <1>1 DEF Written
<1>4. SubSeq(Written(s), 1, Len(Written(s))) = Written(s)
  BY <1>2, SubSeqFull, Zenon DEF Texts
<1>5. CASE rest'[s] = rest[s]
  BY <1>3, <1>4, <1>5
<1>6. CASE rest'[s] # rest[s]
  <2>1. PICK t \in Stream : ChildWrite(t)
    BY <1>6, RestFrame
  <2>2. t = s
    BY <1>6, <2>1 DEF ChildWrite, TypeInv
  <2>3. rest[s] # <<>> /\ rest'[s] = Tail(rest[s])
    BY <2>1, <2>2 DEF ChildWrite, TypeInv
  <2>4. plan[s] \in Texts /\ rest[s] \in Texts
    BY DEF TypeInv
  <2>5. Len(rest'[s]) = Len(rest[s]) - 1 /\ Len(rest[s]) \in Nat /\ Len(rest[s]) # 0 /\ Len(plan[s]) \in Nat
        /\ Len(rest[s]) <= Len(plan[s])
    BY <2>3, <2>4, TextHead, TextConcat, RestFits
  <2>6. PICK k \in Nat, m \in Nat : k = Len(plan[s]) /\ m = Len(rest[s]) /\ m # 0 /\ m <= k /\ Len(rest'[s]) = m - 1
    BY <2>5, Zenon
  <2>7. PICK n \in Nat : n = k - m /\ n < k /\ k - (m - 1) = n + 1 /\ n + 1 \in 1 .. k
    <3>1. k - m \in Nat /\ k - m < k /\ k - (m - 1) = k - m + 1 /\ k - m + 1 \in 1 .. k
      <4>1. m # 0 /\ m <= k
        BY <2>6, Zenon
      <4> QED BY <4>1
    <3> QED BY <3>1
  <2>8. Written(s) = SubSeq(plan[s], 1, n) /\ Written(s)' = SubSeq(plan[s], 1, n + 1)
    <3>1. Written(s) = SubSeq(plan[s], 1, k - m)
      BY <2>6, Zenon DEF Written
    <3>2. Written(s)' = SubSeq(plan[s], 1, k - (m - 1))
      BY <1>1, <2>6, Zenon DEF Written
    <3> QED BY <2>7, <3>1, <3>2, Zenon
  <2>9. SubSeq(plan[s], 1, n + 1) = SubSeq(plan[s], 1, n) \o <<plan[s][n + 1]>>
    <3>1. n < Len(plan[s])
      BY <2>6, <2>7, Zenon
    <3> QED BY <2>4, <3>1, TextMore
  <2>10. <<plan[s][n + 1]>> \in Texts
    <3>1. n + 1 \in 1 .. Len(plan[s])
      BY <2>6, <2>7, Zenon
    <3>2. plan[s][n + 1] \in Char \cup {NL}
      BY <2>4, <3>1, ElementOfSeq DEF Texts
    <3> QED BY <2>4, <3>2, TextAppend
  <2>11. PICK a, b \in Texts : a = Written(s) /\ b = <<plan[s][n + 1]>>
    BY <1>2, <2>10
  <2>12. Written(s)' = a \o b
    BY <2>8, <2>9, <2>11, Zenon
  <2>13. SubSeq(a \o b, 1, Len(a)) = a
    BY TextPrefix
  <2> QED BY <1>3, <1>6, <2>11, <2>12, <2>13, Zenon
<1> QED
  BY <1>5, <1>6

(* The end is reported by getline() only.                                  *)
LEMMA EndedFrame ==
  ASSUME TypeInv, Control, Next, NEW s \in Stream
  PROVE  ("fail" \in bits'[s] <=> "fail" \in bits[s]) \/ (GetEnd /\ s = cur)
<1>1. bits \in [Stream -> SUBSET {"eof", "fail", "bad"}]
  BY DEF TypeInv
<1>2. CASE GetEnd
  BY <1>1, <1>2 DEF GetEnd, EndOfFile
<1>3. CASE EndDrain
  BY <1>1, <1>3 DEF EndDrain, IgnoreEnds
<1>4. CASE ReadError \/ DrainError
  BY <1>1, <1>4 DEF ReadError, DrainError, ReadFails
<1>5. CASE bits' = bits
  BY <1>5
<1> QED
  BY <1>2, <1>3, <1>4, <1>5, BitsFrame

(* getline() has found a delimiter.                                        *)
LEMMA PieceDelivers ==
  ASSUME TypeInv, Control, BitsInv, Flow, LiveInv, LinesInv, Next, GetPiece, Complete(cur),
         NEW s \in Stream, s = cur
  PROVE  Source!Deliver(s)
<1>1. /\ s \in live /\ pc = "getline" /\ bits' = bits
      /\ \A i \in 1 .. Len(line'[s]) : line'[s][i] # NL
      /\ said'[s] = took'[s] /\ lines' = [lines EXCEPT ![s] = Append(@, line'[s])]
      /\ said' = [said EXCEPT ![s] = Append(@ \o line'[s], NL)]
  BY PieceSaid
<1>2. TextType' /\ Flow' /\ TypeInv'
  BY TextTypeStep, FlowStep, TypeStep
<1>3. /\ Written(s)' = Written(s) /\ writer' = writer
  BY <1>1, WrittenStep DEF GetPiece, Extract, kernel, childVars
<1>4. PICK a, b, z, t \in Texts :
        a = said[s] /\ b = line'[s] /\ z = area'[s] \o pipe'[s] /\ t = Written(s)
  <2>1. said[s] \in Texts /\ line'[s] \in Texts /\ area'[s] \in Texts /\ pipe'[s] \in Texts
    BY <1>1, <1>2 DEF TypeInv, TextType
  <2>2. area'[s] \o pipe'[s] \in Texts
    BY <2>1, TextConcat
  <2>3. Written(s) \in Texts
    BY <1>1, WrittenIs
  <2> QED BY <2>1, <2>2, <2>3, Zenon
<1>5. t = took'[s] \o z
  <2>1. Written(s)' = took'[s] \o (area'[s] \o pipe'[s])
    BY <1>2, WrittenIsNext, Zenon
  <2> QED BY <1>1, <1>3, <1>4, <2>1, Zenon
<1>6. said'[s] = Append(a \o b, NL) /\ lines'[s] = Append(lines[s], b)
  BY <1>1, <1>4 DEF TypeInv
<1>7. PICK c \in Texts : c = <<NL>> \o z /\ c # <<>> /\ c[1] = NL
  <2>1. <<NL>> \in Texts /\ Len(<<NL>>) = 1 /\ <<NL>>[1] = NL
    BY TextAppend, <1>4
  <2>2. <<NL>> \o z \in Texts /\ Len(<<NL>> \o z) = Len(<<NL>>) + Len(z) /\ Len(z) \in Nat
    BY <2>1, TextConcat
  <2>3. (<<NL>> \o z)[1] = <<NL>>[1]
    <3>1. \A i \in 1 .. Len(<<NL>>) + Len(z) : (<<NL>> \o z)[i] = IF i <= Len(<<NL>>) THEN <<NL>>[i] ELSE z[i - Len(<<NL>>)]
      BY <2>1, ConcatProperties DEF Texts
    <3>2. 1 \in 1 .. Len(<<NL>>) + Len(z) /\ 1 <= Len(<<NL>>)
      BY <2>1, <2>2
    <3> QED BY <3>1, <3>2
  <2>4. <<NL>> \o z # <<>>
    BY <2>1, <2>2, TextConcat
  <2> QED BY <2>1, <2>2, <2>3, <2>4, Zenon
<1>8. t = a \o (b \o c)
  <2>1. PICK u \in Texts : u = a \o b
    BY TextConcat
  <2>2. <<NL>> \in Texts /\ Append(u, NL) = u \o <<NL>>
    BY TextAppend
  <2>3. took'[s] = u \o <<NL>>
    BY <1>1, <1>6, <2>1, <2>2, Zenon
  <2>4. (u \o <<NL>>) \o z = u \o (<<NL>> \o z)
    <3>1. Assoc(u, <<NL>>, z)
      BY <2>2, TextAssoc
    <3> QED BY <3>1, Zenon DEF Assoc
  <2>5. u \o c = a \o (b \o c)
    <3>1. Assoc(a, b, c)
      BY TextAssoc
    <3> QED BY <2>1, <3>1, Zenon DEF Assoc
  <2> QED BY <1>5, <1>7, <2>3, <2>4, <2>5, Zenon
<1>9. /\ Len(a) \in Nat /\ Len(b) \in Nat /\ Len(c) \in Nat /\ Len(t) = Len(a) + (Len(b) + Len(c))
      /\ \A i \in Len(a) + 1 .. Len(a) + Len(b) : t[i] = b[i - Len(a)]
      /\ t[Len(a) + Len(b) + 1] = c[1]
      /\ SubSeq(t, Len(a) + 1, Len(a) + Len(b)) = b
  <2>1. c # <<>>
    BY <1>7
  <2>2. Middle(t, a, b, c)
    BY <1>8, TextMiddle, Zenon
  <2> QED BY <2>1, <2>2 DEF Middle
<1>10. PICK e \in Nat : e = Len(a) + Len(b)
  BY <1>9
<1>11. Len(c) # 0
  BY <1>7, TextConcat
<1>12. e \in Int /\ Len(a) <= e /\ e < Len(t) /\ e <= Len(t) /\ t[e + 1] = NL
  BY <1>7, <1>9, <1>10, <1>11
<1>13. \A i \in Len(a) + 1 .. e : t[i] # NL
  <2> SUFFICES ASSUME NEW i \in Len(a) + 1 .. Len(a) + Len(b) PROVE t[i] # NL
    BY <1>10
  <2>1. i - Len(a) \in 1 .. Len(b)
    BY <1>9
  <2>2. t[i] = b[i - Len(a)]
    BY <1>9, Zenon
  <2>3. b[i - Len(a)] # NL
    BY <1>1, <1>4, <2>1, Zenon
  <2> QED BY <2>2, <2>3, Zenon
<1>14. Len(said'[s]) = e + 1
  <2>1. a \o b \in Texts /\ Len(a \o b) = Len(a) + Len(b)
    BY TextConcat
  <2>2. Len(Append(a \o b, NL)) = Len(a \o b) + 1
    BY <2>1, TextAppend
  <2> QED BY <1>6, <1>10, <2>1, <2>2, Zenon
<1>15. "fail" \notin bits[s] /\ "fail" \notin bits'[s]
  BY <1>1 DEF LiveInv, Reading
<1>16. lines'[s] = Append(lines[s], SubSeq(t, Len(a) + 1, e))
  BY <1>6, <1>9, <1>10, Zenon
<1>17. /\ Len(said[s]) \in Nat /\ Len(Written(s)) \in Nat /\ writer'[s] = writer[s]
       /\ Len(said[s]) <= e /\ e <= Len(Written(s)) /\ e < Len(Written(s)) /\ Written(s)[e + 1] = NL
       /\ \A i \in Len(said[s]) + 1 .. e : Written(s)[i] # NL
       /\ lines'[s] = Append(lines[s], SubSeq(Written(s), Len(said[s]) + 1, e))
  <2>1. Len(t) \in Nat
    BY TextConcat
  <2> QED BY <1>3, <1>4, <1>9, <1>12, <1>13, <1>16, <2>1, Zenon
<1> QED
  BY <1>1, <1>3, <1>12, <1>14, <1>15, <1>17, SourceDeliver

(* The end of the file: the last line, or the end.                         *)
LEMMA EndDelivers ==
  ASSUME TypeInv, Control, ChildInv, BitsInv, Flow, LiveInv, LinesInv, Next, GetEnd,
         NEW s \in Stream, s = cur
  PROVE  Source!Deliver(s) \/ Source!End(s)
<1>1. /\ s \in live /\ pc = "getline" /\ Over(s)
      /\ "fail" \notin bits'[s] =>
           /\ said' = [said EXCEPT ![s] = Append(took[s], NL)]
           /\ lines' = [lines EXCEPT ![s] = Append(@, line[s])]
           /\ took[s] = said[s] \o line[s] /\ line[s] # <<>>
           /\ \A i \in 1 .. Len(line[s]) : line[s][i] # NL
      /\ "fail" \in bits'[s] =>
           UNCHANGED <<lines, said>> /\ said[s] \in {took[s], Append(took[s], NL)}
  BY EndSaid
<1>2. Written(s)' = Written(s) /\ writer'[s] = writer[s] /\ ~writer[s]
  BY <1>1, WrittenStep DEF GetEnd, EndOfFile, AtEof, kernel, childVars
<1>3. took[s] \in Texts /\ said[s] \in Texts /\ line[s] \in Texts
      /\ said \in [Stream -> Texts] /\ lines \in [Stream -> Seq(Texts)]
  BY DEF TypeInv
<1>4. Written(s) = took[s]
  <2>1. Written(s) = took[s] \o (area[s] \o pipe[s])
    BY WrittenIs
  <2>2. area[s] = <<>> /\ pipe[s] = <<>>
    BY <1>1 DEF Over
  <2>3. <<>> \o <<>> = <<>> /\ took[s] \o <<>> = took[s]
    BY <1>3, TextConcat
  <2> QED BY <2>1, <2>2, <2>3, Zenon
<1>5. Len(took[s]) \in Nat /\ Len(Append(took[s], NL)) = Len(took[s]) + 1 /\ Len(said[s]) \in Nat
  BY <1>3, TextAppend, TextConcat
<1>6. CASE "fail" \notin bits'[s]
  <2>1. PICK a, b, t \in Texts : a = said[s] /\ b = line[s] /\ t = took[s]
    BY <1>3
  <2>2. t = a \o (b \o <<>>)
    <3>1. b \o <<>> = b
      BY TextConcat, Zenon
    <3>2. t = a \o b
      BY <1>1, <1>6, <2>1, Zenon
    <3> QED BY <3>1, <3>2, Zenon
  <2>3. PICK c \in Texts : c = <<>> /\ Len(c) = 0
    BY TextConcat
  <2>4. t = a \o (b \o c)
    BY <2>2, <2>3, Zenon
  <2>5. Middle(t, a, b, c)
    BY <2>4, TextMiddle, Zenon
  <2>6. /\ Len(a) \in Nat /\ Len(b) \in Nat /\ Len(t) = Len(a) + (Len(b) + 0)
        /\ \A i \in Len(a) + 1 .. Len(a) + Len(b) : t[i] = b[i - Len(a)]
        /\ SubSeq(t, Len(a) + 1, Len(a) + Len(b)) = b
    BY <2>3, <2>5, Zenon DEF Middle
  <2>7. PICK e \in Nat : e = Len(a) + Len(b)
    BY <2>6
  <2>8. Len(b) # 0
    BY <1>1, <1>6, <2>1, TextConcat
  <2>9. e \in Int /\ Len(a) <= e /\ ~(e < Len(t)) /\ e <= Len(t) /\ e = Len(t) /\ Len(a) + 1 <= e
    BY <2>6, <2>7, <2>8
  <2>10. \A i \in Len(a) + 1 .. e : t[i] # NL
    <3> SUFFICES ASSUME NEW i \in Len(a) + 1 .. Len(a) + Len(b) PROVE t[i] # NL
      BY <2>7
    <3>1. i - Len(a) \in 1 .. Len(b)
      BY <2>6
    <3>2. \A j \in 1 .. Len(b) : b[j] # NL
      BY <1>1, <1>6, <2>1, Zenon
    <3> QED BY <2>6, <3>1, <3>2
  <2>11. said'[s] = Append(took[s], NL) /\ lines'[s] = Append(lines[s], b)
    BY <1>1, <1>3, <1>6, <2>1
  <2>12. Len(said'[s]) = e + 1
    BY <1>5, <2>1, <2>9, <2>11, Zenon
  <2>13. "fail" \notin bits[s] /\ "fail" \notin bits'[s]
    BY <1>1, <1>6 DEF LiveInv, Reading
  <2>14. lines'[s] = Append(lines[s], SubSeq(t, Len(a) + 1, e))
    BY <2>6, <2>7, <2>11, Zenon
  <2>15. Written(s) = t /\ Len(t) \in Nat
    BY <1>4, <1>5, <2>1, Zenon
  <2>16. /\ Len(Written(s)) \in Nat /\ Len(said[s]) <= e /\ e <= Len(Written(s)) /\ ~(e < Len(Written(s)))
         /\ Len(said[s]) + 1 <= e
         /\ \A i \in Len(said[s]) + 1 .. e : Written(s)[i] # NL
         /\ lines'[s] = Append(lines[s], SubSeq(Written(s), Len(said[s]) + 1, e))
    BY <2>1, <2>9, <2>10, <2>14, <2>15, Zenon
  <2> QED BY <1>2, <1>5, <2>9, <2>12, <2>13, <2>16, SourceDeliver
<1>7. CASE "fail" \in bits'[s]
  <2>1. lines'[s] = lines[s] /\ said'[s] = said[s]
    BY <1>1, <1>7
  <2>2. Len(said[s]) + 1 > Len(Written(s))
    <3>1. CASE said[s] = took[s]
      BY <1>4, <1>5, <3>1
    <3>2. CASE said[s] = Append(took[s], NL)
      BY <1>4, <1>5, <3>2
    <3> QED BY <1>1, <1>7, <3>1, <3>2
  <2> QED BY <1>2, <1>7, <2>1, <2>2, SourceEnd
<1> QED
  BY <1>6, <1>7

(* Every step is one of the source of lines.                               *)
LEMMA SourceStep ==
  ASSUME TypeInv, Control, ChildInv, BitsInv, Flow, LiveInv, LinesInv, Next, NEW s \in Stream
  PROVE  Source!Write(s) \/ Source!Deliver(s) \/ Source!End(s)
<1>1. CASE GetEnd /\ s = cur
  BY <1>1, EndDelivers
<1>2. CASE GetPiece /\ Complete(cur) /\ s = cur
  BY <1>2, PieceDelivers
<1>3. CASE ~(GetEnd /\ s = cur) /\ ~(GetPiece /\ Complete(cur) /\ s = cur)
  <2>1. "fail" \in bits'[s] <=> "fail" \in bits[s]
    BY <1>3, EndedFrame
  <2>2. SubSeq(Written(s)', 1, Len(Written(s))) = Written(s)
    BY WrittenStep
  <2>3. ~writer[s] => ~writer'[s] /\ Written(s)' = Written(s)
    <3>1. ~writer[s] => ~writer'[s]
      BY WriterFrame
    <3>2. ~writer[s] => rest' = rest
      BY StateFrame DEF ChildInv
    <3> QED BY <3>1, <3>2, WrittenStep
  <2>4. lines'[s] = lines[s] /\ said'[s] = said[s]
    <3>1. CASE UNCHANGED <<lines, said>>
      BY <3>1
    <3>2. CASE GetPiece
      <4>1. ~Complete(cur) => UNCHANGED <<lines, said>>
        BY <3>2, PieceSaid
      <4>2. CASE Complete(cur)
        <5>1. s # cur /\ cur \in Stream
          BY <1>3, <3>2, <4>2, PieceSaid
        <5>2. lines' = [lines EXCEPT ![cur] = Append(@, line'[cur])]
              /\ said' = [said EXCEPT ![cur] = Append(@ \o line'[cur], NL)]
          BY <3>2, <4>2, PieceSaid
        <5> QED BY <5>1, <5>2 DEF TypeInv
      <4> QED BY <4>1, <4>2
    <3>3. CASE GetEnd
      <4>1. s # cur
        BY <1>3, <3>3
      <4>2. CASE "fail" \in bits'[cur]
        BY <3>3, <4>2, EndSaid
      <4>3. CASE "fail" \notin bits'[cur]
        <5>1. lines' = [lines EXCEPT ![cur] = Append(@, line[cur])]
              /\ said' = [said EXCEPT ![cur] = Append(took[cur], NL)]
          BY <3>3, <4>3, EndSaid
        <5> QED BY <4>1, <5>1 DEF TypeInv
      <4> QED BY <4>2, <4>3
    <3>4. NextLine \/ GetBinary \/ Drain => UNCHANGED <<lines, said>>
      BY DEF NextLine, GetBinary, Drain, control
    <3> QED BY <3>1, <3>2, <3>3, <3>4, LineFrame
  <2> QED BY <2>1, <2>2, <2>3, <2>4, SourceWrite
<1> QED
  BY <1>1, <1>2, <1>3

(* Reading lines through the pipe, the buffer, and getline(), in pieces    *)
(* and in both modes, is what the abstract source of lines does.           *)
THEOREM Refinement == Spec => LinesImplement
<1>1. Init => Source!LSInit
  <2> SUFFICES ASSUME Init PROVE Source!LSInit
    OBVIOUS
  <2>1. [s \in Stream |-> SubSeq(plan[s], 1, Len(plan[s]) - Len(rest[s]))] = [s \in Stream |-> <<>>]
    <3> SUFFICES ASSUME NEW s \in Stream PROVE SubSeq(plan[s], 1, Len(plan[s]) - Len(rest[s])) = <<>>
      BY Zenon
    <3>1. rest[s] = plan[s] /\ Len(plan[s]) \in Nat
      BY InitInv, TextConcat DEF Init, IInv, TypeInv
    <3>2. Len(plan[s]) - Len(rest[s]) = 0
      BY <3>1
    <3>3. SubSeq(plan[s], 1, 0) = <<>>
      BY SubSeqEmpty
    <3> QED BY <3>2, <3>3, Zenon
  <2>2. [s \in Stream |-> ~writer[s]] = [s \in Stream |-> FALSE]
    <3> SUFFICES ASSUME NEW s \in Stream PROVE (~writer[s]) = FALSE
      BY Zenon
    <3>1. writer[s] = TRUE
      BY DEF Init
    <3> QED BY <3>1
  <2>3. [s \in Stream |-> "fail" \in bits[s]] = [s \in Stream |-> FALSE]
    <3> SUFFICES ASSUME NEW s \in Stream PROVE ("fail" \in bits[s]) = FALSE
      BY Zenon
    <3>1. bits[s] = {}
      BY DEF Init
    <3> QED BY <3>1
  <2>4. [s \in Stream |-> Len(said[s]) + 1] = [s \in Stream |-> 1] /\ lines = [s \in Stream |-> <<>>]
    BY DEF Init
  <2> QED BY <2>1, <2>2, <2>3, <2>4, Zenon DEF Source!LSInit
<1>2. IInv /\ [Next]_vars => [Source!LSNext]_(Source!lsvars)
  <2> SUFFICES ASSUME IInv, [Next]_vars PROVE [Source!LSNext]_(Source!lsvars)
    OBVIOUS
  <2>1. CASE Next
    BY <2>1, SourceStep DEF Source!LSNext, IInv, ReadInv
  <2>2. CASE UNCHANGED vars
    BY <2>2 DEF vars, Source!lsvars
  <2> QED BY <2>1, <2>2
<1> QED
  BY <1>1, <1>2, Invariant, PTL DEF Spec, LinesImplement, Source!LSSpec
=============================================================================
