--------------------------- MODULE FdOutBuf_proofs --------------------------
(***************************************************************************)
(* Proofs about the output buffer, for every buffer size, device size and  *)
(* set of characters: what is in the file and what is in the put area are  *)
(* together what the caller wrote.                                         *)
(***************************************************************************)
EXTENDS FdOutBuf, SequenceTheorems, TLAPS

-----------------------------------------------------------------------------
(* Overlay, the effect of a write on the content of a file. *)

(* Overlaying characters on a content gives a content. *)
LEMMA OverlayType ==
  ASSUME NEW f \in Content, NEW p \in Nat, NEW s \in Seq(Byte)
  PROVE  Overlay(f, p, s) \in Content
<1>1. \A i \in Positions : i \in p .. p + Len(s) - 1 => s[i - p + 1] \in Byte
  BY FdOutBufAssumption, ElementOfSeq, LenProperties DEF Positions
<1> QED
  BY <1>1 DEF Overlay, Content

(* Writing nothing changes nothing. *)
LEMMA OverlayEmpty ==
  ASSUME NEW f \in Content, NEW p \in Nat
  PROVE  Overlay(f, p, <<>>) = f
<1>1. \A i \in Positions : i \notin p .. p + Len(<<>>) - 1
  BY FdOutBufAssumption DEF Positions
<1> QED
  BY <1>1 DEF Overlay, Content

(* Two writes in a row are one write of both strings: it does not matter   *)
(* where the kernel, or the buffer, splits what the caller wrote.          *)
LEMMA OverlayConcat ==
  ASSUME NEW f \in Content, NEW p \in Nat, NEW a \in Seq(Byte), NEW b \in Seq(Byte)
  PROVE  Overlay(Overlay(f, p, a), p + Len(a), b) = Overlay(f, p, a \o b)
<1> DEFINE g == Overlay(f, p, a)
           lhs == Overlay(g, p + Len(a), b)
           rhs == Overlay(f, p, a \o b)
<1>1. g \in Content
  BY OverlayType
<1>2. Len(a) \in Nat /\ Len(b) \in Nat
  BY LenProperties
<1>3. lhs \in Content /\ rhs \in Content
  <2>1. p + Len(a) \in Nat
    BY <1>2
  <2>2. lhs \in Content
    BY <1>1, <2>1, OverlayType
  <2>3. a \o b \in Seq(Byte)
    BY ConcatProperties
  <2> QED
    BY <2>2, <2>3, OverlayType
<1>4. ASSUME NEW i \in Positions
      PROVE  lhs[i] = rhs[i]
  <2>1. i \in Int
    BY FdOutBufAssumption DEF Positions
  <2>2. /\ g[i] = IF i \in p .. p + Len(a) - 1 THEN a[i - p + 1] ELSE f[i]
        /\ lhs[i] = IF i \in p + Len(a) .. p + Len(a) + Len(b) - 1
                    THEN b[i - (p + Len(a)) + 1] ELSE g[i]
        /\ rhs[i] = IF i \in p .. p + Len(a \o b) - 1 THEN (a \o b)[i - p + 1] ELSE f[i]
    BY <1>1 DEF Overlay, Content
  <2>3. Len(a \o b) = Len(a) + Len(b)
    BY ConcatProperties
  <2>4. \A j \in 1 .. Len(a) + Len(b) :
          (a \o b)[j] = IF j <= Len(a) THEN a[j] ELSE b[j - Len(a)]
    BY ConcatProperties
  <2>5. CASE i \in p .. p + Len(a) - 1
    <3>1. i - p + 1 \in 1 .. Len(a)
      BY <1>2, <2>1, <2>5
    <3> QED
      BY <1>2, <2>1, <2>2, <2>3, <2>4, <2>5, <3>1
  <2>6. CASE i \in p + Len(a) .. p + Len(a) + Len(b) - 1
    <3>1. i - p + 1 \in Len(a) + 1 .. Len(a) + Len(b)
      BY <1>2, <2>1, <2>6
    <3>2. i - (p + Len(a)) + 1 = (i - p + 1) - Len(a)
      BY <1>2, <2>1
    <3> QED
      BY <1>2, <2>1, <2>2, <2>3, <2>4, <2>6, <3>1, <3>2
  <2>7. CASE i \notin p .. p + Len(a) - 1 /\ i \notin p + Len(a) .. p + Len(a) + Len(b) - 1
    BY <1>2, <2>1, <2>2, <2>3, <2>7
  <2> QED
    BY <1>2, <2>1, <2>5, <2>6, <2>7
<1> QED
  BY <1>3, <1>4 DEF Content

-----------------------------------------------------------------------------
(* What the parts of an operation do to the types. *)

(* A prefix and a suffix of a string are strings. *)
LEMMA SubSeqType ==
  ASSUME NEW s \in Seq(Byte), NEW m \in Nat, NEW n \in Nat, m >= 1, n <= Len(s)
  PROVE  /\ SubSeq(s, m, n) \in Seq(Byte)
         /\ Len(SubSeq(s, m, n)) = IF m <= n THEN n - m + 1 ELSE 0
<1>1. \A i \in m .. n : s[i] \in Byte
  BY ElementOfSeq, LenProperties
<1> QED
  BY <1>1, SubSeqProperties

(* write(2) leaves a content and a position on the device. *)
LEMMA WriteType ==
  ASSUME TypeOK, NEW s \in Seq(Byte), NEW m \in 0 .. Len(s), Write(s, m)
  PROVE  file' \in Content /\ pos' \in 0 .. FileMax /\ off' \in Nat
<1>1. m \in Nat /\ Len(s) \in Nat
  BY LenProperties
<1>2. SubSeq(s, 1, m) \in Seq(Byte)
  BY <1>1, SubSeqType
<1>3. pos \in Nat
  BY FdOutBufAssumption DEF TypeOK
<1>4. file' \in Content
  BY <1>2, <1>3, OverlayType DEF Write, TypeOK
<1>5. pos' \in 0 .. FileMax /\ off' \in Nat
  BY <1>1, <1>3, FdOutBufAssumption DEF Write, TypeOK
<1> QED
  BY <1>4, <1>5

(* A complete write puts all of s at the kernel's offset. *)
LEMMA WriteAll ==
  ASSUME TypeOK, NEW s \in Seq(Byte), Write(s, Len(s))
  PROVE  /\ file' = Overlay(file, pos, s)
         /\ pos' = pos + Len(s)
         /\ off' = off + Len(s)
BY SubSeqFull DEF Write

(* What the caller has written so far stays a content. *)
LEMMA AcceptType ==
  ASSUME TypeOK, NEW s \in Seq(Byte), Accept(s)
  PROVE  want' \in Content /\ wpos' \in Nat
BY OverlayType, LenProperties DEF Accept, TypeOK

(* save() leaves a put area no longer than it was. *)
LEMMA SaveType ==
  ASSUME TypeOK, NEW b \in Seq(Byte), NEW r \in Results, Save(b, r)
  PROVE  /\ file' \in Content /\ pos' \in 0 .. FileMax /\ off' \in Nat
         /\ buf' \in Seq(Byte) /\ Len(buf') <= Len(b)
         /\ torn' \in BOOLEAN
<1>1. Len(b) \in Nat /\ Len(b) \in 0 .. Len(b)
  BY LenProperties
<1>2. CASE r = "all"
  <2>1. Write(b, Len(b)) /\ buf' = <<>> /\ torn' = torn
    BY <1>2 DEF Save
  <2> QED
    BY <1>1, <2>1, WriteType, EmptySeq DEF TypeOK
<1>3. CASE r = "short"
  <2>1. PICK m \in 0 .. Len(b) - 1 : Write(b, m)
    BY <1>3 DEF Save
  <2>2. m \in 0 .. Len(b)
    BY <1>1
  <2> QED
    BY <1>1, <1>3, <2>1, <2>2, WriteType DEF Save
<1>4. CASE r = "error"
  BY <1>1, <1>4 DEF Save, kernel, TypeOK
<1> QED
  BY <1>2, <1>3, <1>4 DEF Results

(* A complete save() writes the put area out and empties it. *)
LEMMA SaveAll ==
  ASSUME TypeOK, NEW b \in Seq(Byte), Save(b, "all")
  PROVE  /\ file' = Overlay(file, pos, b)
         /\ pos' = pos + Len(b)
         /\ off' = off + Len(b)
         /\ buf' = <<>>
         /\ torn' = torn
BY WriteAll DEF Save

(* A short one is remembered as torn. *)
LEMMA SaveShort ==
  ASSUME NEW b, Save(b, "short")
  PROVE  torn'
BY DEF Save

-----------------------------------------------------------------------------
(* The inductive invariant.  Besides the properties themselves it needs    *)
(* that a failed seekp() was a torn save(), since the caller may clear     *)
(* failbit and go on, and that a closed stream is not open.                *)
Inv ==
  /\ TypeOK
  /\ BufferBound
  /\ Intact
  /\ CloseDurable
  /\ rdstate = "fail" => torn
  /\ closed => ~open

(* What the caller wrote is found in the file and the put area, when the   *)
(* stream is open and untorn.                                              *)
Consistent ==
  /\ Overlay(file, pos, buf) = want
  /\ off = pos
  /\ off + Len(buf) = wpos

(* A new stream satisfies the invariant. *)
LEMMA InvInit == Init => Inv
<1> SUFFICES ASSUME Init PROVE Inv
  OBVIOUS
<1>1. EmptyFile \in Content
  BY DEF EmptyFile, Content
<1>2. TypeOK
  <2>1. buf \in Seq(Byte)
    BY EmptySeq DEF Init
  <2>2. pos \in 0 .. FileMax /\ off \in Nat /\ wpos \in Nat
    BY FdOutBufAssumption DEF Init
  <2> QED
    BY <1>1, <2>1, <2>2 DEF Init, TypeOK
<1>3. Len(buf) = 0
  BY EmptySeq DEF Init
<1>4. Overlay(file, pos, buf) = want
  BY <1>1, OverlayEmpty DEF Init
<1> QED
  BY <1>2, <1>3, <1>4, FdOutBufAssumption DEF Init, Inv, BufferBound, Intact, CloseDurable

(* The position after a string of length b, or after the first d of a + b  *)
(* characters, whose remaining e are buffered.                             *)
LEMMA PositionSum ==
  ASSUME NEW o \in Nat, NEW w \in Nat, NEW a \in Nat, NEW b \in Nat,
         NEW d \in Nat, NEW e \in Nat, o + a = w, d + e = a + b
  PROVE  (o + d) + e = w + b
OBVIOUS

(* Accepting a string into the put area keeps the two views together. *)
LEMMA BufferAccept ==
  ASSUME TypeOK, Consistent, NEW s \in Seq(Byte),
         buf' = buf \o s, Accept(s), UNCHANGED <<off, kernel>>
  PROVE  Consistent'
<1>1. Len(buf) \in Nat /\ Len(s) \in Nat /\ Len(buf \o s) = Len(buf) + Len(s)
  BY LenProperties, ConcatProperties DEF TypeOK
<1>2. pos \in Nat
  BY FdOutBufAssumption DEF TypeOK
<1>3. want' = Overlay(file, pos, buf \o s)
  BY <1>1, <1>2, OverlayConcat DEF Accept, Consistent, TypeOK
<1>4. file' = file /\ pos' = pos /\ off' = off
  BY DEF kernel
<1>5. off' + Len(buf') = wpos'
  <2>1. off \in Nat /\ wpos \in Nat
    BY DEF TypeOK
  <2>2. off + Len(buf) = wpos
    BY DEF Consistent
  <2>3. (off + 0) + (Len(buf) + Len(s)) = wpos + Len(s)
    BY <1>1, <2>1, <2>2, PositionSum
  <2>4. off + 0 = off
    BY <2>1
  <2>5. Len(buf') = Len(buf) + Len(s) /\ wpos' = wpos + Len(s)
    BY <1>1 DEF Accept
  <2> QED
    BY <1>4, <2>3, <2>4, <2>5
<1> QED
  BY <1>3, <1>4, <1>5 DEF Consistent

(* So does accepting s while everything, b and then the rest of s, is      *)
(* written out except for a tail t that stays in the put area.             *)
LEMMA WriteAccept ==
  ASSUME TypeOK, Consistent,
         NEW s \in Seq(Byte), NEW b \in Seq(Byte), NEW t \in Seq(Byte),
         b \o t = buf \o s,
         file' = Overlay(file, pos, b), pos' = pos + Len(b), off' = off + Len(b),
         buf' = t, Accept(s)
  PROVE  Consistent'
<1>1. /\ Len(buf) \in Nat /\ Len(s) \in Nat /\ Len(buf \o s) = Len(buf) + Len(s)
      /\ Len(b) \in Nat /\ Len(t) \in Nat /\ Len(b \o t) = Len(b) + Len(t)
  BY LenProperties, ConcatProperties DEF TypeOK
<1>2. pos \in Nat
  BY FdOutBufAssumption DEF TypeOK
<1>3. want' = Overlay(file, pos, buf \o s)
  BY <1>1, <1>2, OverlayConcat DEF Accept, Consistent, TypeOK
<1>4. Overlay(file', pos', t) = Overlay(file, pos, b \o t)
  <2>1. file \in Content
    BY DEF TypeOK
  <2>2. Overlay(Overlay(file, pos, b), pos + Len(b), t) = Overlay(file, pos, b \o t)
    BY <1>2, <2>1, OverlayConcat, Zenon
  <2> QED
    BY <2>2, Zenon
<1>5. off' + Len(buf') = wpos'
  <2>1. off \in Nat /\ wpos \in Nat
    BY DEF TypeOK
  <2>2. off + Len(buf) = wpos
    BY DEF Consistent
  <2>3. Len(b) + Len(t) = Len(buf) + Len(s)
    BY <1>1, Zenon
  <2>4. Len(buf) \in Nat /\ Len(s) \in Nat /\ Len(b) \in Nat /\ Len(t) \in Nat
    BY <1>1, Zenon
  <2>5. (off + Len(b)) + Len(t) = wpos + Len(s)
    BY ONLY <2>1, <2>2, <2>3, <2>4, PositionSum
  <2> QED
    BY <2>5 DEF Accept
<1> QED
  BY <1>3, <1>4, <1>5 DEF Consistent

(* And so does writing the put area out. *)
LEMMA SaveConsistent ==
  ASSUME TypeOK, Consistent, Save(buf, "all"), UNCHANGED caller
  PROVE  Consistent'
<1>1. /\ file' = Overlay(file, pos, buf) /\ pos' = pos + Len(buf)
      /\ off' = off + Len(buf) /\ buf' = <<>>
  BY SaveAll DEF TypeOK
<1>2. Len(buf) \in Nat /\ Len(<<>>) = 0
  BY LenProperties, EmptySeq DEF TypeOK
<1>3. file' \in Content /\ pos' \in Nat
  BY <1>1, <1>2, OverlayType, FdOutBufAssumption DEF TypeOK
<1>4. Overlay(file', pos', buf') = file'
  BY <1>1, <1>3, OverlayEmpty
<1> QED
  BY <1>1, <1>2, <1>4, FdOutBufAssumption DEF Consistent, caller, TypeOK

-----------------------------------------------------------------------------
(* Steps several actions share. *)

(* A stream that ends up bad promises nothing but its types. *)
LEMMA BadStep ==
  ASSUME TypeOK', rdstate' = "bad", closed' => ~open'
  PROVE  Inv'
BY DEF Inv, BufferBound, Intact, CloseDurable

(* An operation that throws before it does anything keeps the invariant. *)
LEMMA BrokenInv ==
  ASSUME Inv, Broken
  PROVE  Inv'
<1>1. TypeOK'
  BY DEF Inv, Broken, TypeOK, kernel, caller
<1> QED
  BY <1>1, BadStep DEF Inv, Broken

(* So does a string that fits into the put area, whether the descriptor is *)
(* open or not.                                                            *)
LEMMA BufferInv ==
  ASSUME Inv, NEW s \in Seq(Byte), rdstate = "good", Len(s) <= Cap - Len(buf),
         buf' = buf \o s, IF open THEN Accept(s) ELSE Reject,
         UNCHANGED <<open, nonBlocking, rdstate, off, kernel, torn, closed>>
  PROVE  Inv'
<1>1. /\ Len(buf) \in Nat /\ Len(s) \in Nat
      /\ buf \o s \in Seq(Byte) /\ Len(buf \o s) = Len(buf) + Len(s)
  BY LenProperties, ConcatProperties DEF Inv, TypeOK
<1>2. TypeOK'
  <2>1. want' \in Content /\ wpos' \in Nat
    BY AcceptType DEF Reject, caller, Inv, TypeOK
  <2> QED
    BY <1>1, <2>1 DEF Inv, TypeOK, kernel
<1>3. BufferBound'
  BY <1>1, FdOutBufAssumption DEF BufferBound
<1>4. Intact'
  <2> SUFFICES ASSUME open, ~torn PROVE Consistent'
    BY DEF Intact, Consistent
  <2>1. Consistent
    BY DEF Inv, Intact, Consistent
  <2>2. UNCHANGED <<off, kernel>>
    OBVIOUS
  <2> QED
    BY <2>1, <2>2, BufferAccept DEF Inv
<1>5. CloseDurable'
  BY DEF Inv, CloseDurable, Reject, caller, kernel
<1> QED
  BY <1>2, <1>3, <1>4, <1>5 DEF Inv

(* What the caller wrote goes out and all or a tail t of it is buffered,   *)
(* by an operation that leaves a good, open stream.                        *)
LEMMA WriteInv ==
  ASSUME Inv, open, rdstate = "good",
         NEW s \in Seq(Byte), NEW b \in Seq(Byte), NEW t \in Seq(Byte),
         b \o t = buf \o s, Len(t) <= Cap,
         file' = Overlay(file, pos, b), pos' = pos + Len(b), off' = off + Len(b),
         pos' \in 0 .. FileMax,
         buf' = t, Accept(s),
         UNCHANGED <<open, nonBlocking, rdstate, torn, closed>>
  PROVE  Inv'
<1>1. TypeOK'
  <2>1. want' \in Content /\ wpos' \in Nat
    BY AcceptType DEF Inv
  <2>2. pos \in Nat /\ Len(b) \in Nat
    BY FdOutBufAssumption, LenProperties DEF Inv, TypeOK
  <2>3. file' \in Content /\ off' \in Nat
    BY <2>2, OverlayType DEF Inv, TypeOK
  <2> QED
    BY <2>1, <2>3 DEF Inv, TypeOK
<1>2. Intact'
  <2> SUFFICES ASSUME ~torn PROVE Consistent'
    BY DEF Intact, Consistent
  <2>1. Consistent
    BY DEF Inv, Intact, Consistent
  <2> QED
    BY <2>1, WriteAccept DEF Inv
<1>3. BufferBound' /\ CloseDurable'
  BY DEF Inv, BufferBound, CloseDurable
<1> QED
  BY <1>1, <1>2, <1>3 DEF Inv

(* After a save() of the put area that leaves the caller's view alone the  *)
(* types and the bound on the buffer are kept.                             *)
LEMMA SaveBound ==
  ASSUME Inv, NEW r \in Results, Save(buf, r), rdstate = "good",
         UNCHANGED <<nonBlocking, caller>>,
         open' \in BOOLEAN, closed' \in BOOLEAN, rdstate' \in {"good", "fail", "bad"}
  PROVE  TypeOK' /\ BufferBound'
<1>1. /\ file' \in Content /\ pos' \in 0 .. FileMax /\ off' \in Nat
      /\ buf' \in Seq(Byte) /\ Len(buf') <= Len(buf)
      /\ torn' \in BOOLEAN
  BY SaveType DEF Inv, TypeOK
<1>2. TypeOK'
  BY <1>1 DEF Inv, TypeOK, caller
<1>3. Len(buf) \in Nat /\ Len(buf') \in Nat /\ Len(buf) <= Cap
  BY <1>1, LenProperties DEF Inv, TypeOK, BufferBound
<1> QED
  BY <1>1, <1>2, <1>3, FdOutBufAssumption DEF BufferBound

-----------------------------------------------------------------------------
(* One lemma per action. *)

(* put() and overflow(). *)
LEMMA PutInv ==
  ASSUME Inv, NEW c \in Byte, Put(c)
  PROVE  Inv'
<1>1. /\ <<c>> \in Seq(Byte) /\ Len(<<c>>) = 1
      /\ Append(buf, c) = buf \o <<c>> /\ Append(buf, c) \in Seq(Byte)
      /\ Len(buf) \in Nat
  BY AppendIsConcat, AppendProperties, LenProperties DEF Inv, TypeOK
<1>2. CASE /\ Len(buf) < Cap
           /\ buf' = Append(buf, c)
           /\ IF open THEN Accept(<<c>>) ELSE Reject
           /\ UNCHANGED <<open, nonBlocking, rdstate, off, kernel, torn, closed>>
  <2>1. Len(<<c>>) <= Cap - Len(buf)
    BY <1>1, <1>2, FdOutBufAssumption
  <2>2. rdstate = "good" /\ buf' = buf \o <<c>>
    BY <1>1, <1>2 DEF Put
  <2> QED
    BY <1>1, <1>2, <2>1, <2>2, BufferInv
<1>3. CASE Overflow(c)
  <2>1. PICK r \in Results : /\ Save(Append(buf, c), r)
                             /\ BadUnless(r = "all")
                             /\ IF r = "all" THEN Accept(<<c>>) ELSE Reject
    BY <1>3 DEF Overflow
  <2>2. /\ open /\ ~closed /\ rdstate = "good"
        /\ UNCHANGED <<open, nonBlocking, closed>>
    BY <1>3 DEF Overflow, Put, Inv
  <2>3. CASE r = "all"
    <3>1. /\ file' = Overlay(file, pos, Append(buf, c))
          /\ pos' = pos + Len(Append(buf, c))
          /\ off' = off + Len(Append(buf, c))
          /\ buf' = <<>> /\ torn' = torn
      BY <1>1, <2>1, <2>3, SaveAll DEF Inv
    <3>2. /\ <<>> \in Seq(Byte) /\ Append(buf, c) \o <<>> = buf \o <<c>>
          /\ Len(<<>>) <= Cap
      BY <1>1, ConcatEmptySeq, EmptySeq, FdOutBufAssumption
    <3>3. pos' \in 0 .. FileMax
      BY <1>1, <2>1, SaveType DEF Inv
    <3>4. Accept(<<c>>) /\ rdstate' = rdstate
      BY <2>1, <2>3 DEF BadUnless
    <3> QED
      BY <1>1, <2>2, <3>1, <3>2, <3>3, <3>4, WriteInv
  <2>4. CASE r # "all"
    <3>1. /\ file' \in Content /\ pos' \in 0 .. FileMax /\ off' \in Nat
          /\ buf' \in Seq(Byte) /\ torn' \in BOOLEAN
      BY <1>1, <2>1, SaveType DEF Inv
    <3>2. rdstate' = "bad" /\ UNCHANGED caller
      BY <2>1, <2>4 DEF BadUnless, Reject
    <3>3. TypeOK'
      BY <2>2, <3>1, <3>2 DEF Inv, TypeOK, caller
    <3> QED
      BY <2>2, <3>2, <3>3, BadStep
  <2> QED
    BY <2>3, <2>4
<1>4. CASE Broken
  BY <1>4, BrokenInv
<1> QED
  BY <1>2, <1>3, <1>4 DEF Put

(* The POSIX xsputn(). *)
LEMMA WriteThroughInv ==
  ASSUME Inv, NEW s \in Seq(Byte), rdstate = "good", open,
         WriteThrough(s), UNCHANGED <<open, nonBlocking, torn, closed>>
  PROVE  Inv'
<1>1. /\ Len(buf) \in Nat /\ Len(s) \in Nat
      /\ buf \o s \in Seq(Byte) /\ Len(buf \o s) = Len(buf) + Len(s)
  BY LenProperties, ConcatProperties DEF Inv, TypeOK
<1>2. PICK m \in 0 .. Len(buf) + Len(s) :
         /\ Write(buf \o s, m)
         /\ BadUnless(m = Len(buf) + Len(s))
         /\ IF m < Len(buf)
            THEN buf' = SubSeq(buf, m + 1, Len(buf)) /\ Reject
            ELSE buf' = <<>> /\ Accept(SubSeq(s, 1, m - Len(buf)))
  BY DEF WriteThrough
<1>3. file' \in Content /\ pos' \in 0 .. FileMax /\ off' \in Nat
  <2>1. m \in 0 .. Len(buf \o s)
    BY <1>1
  <2> QED
    BY <1>1, <1>2, <2>1, WriteType DEF Inv
<1>4. CASE m = Len(buf) + Len(s)
  <2>1. Write(buf \o s, Len(buf \o s)) /\ rdstate' = rdstate
    BY <1>1, <1>2, <1>4 DEF BadUnless
  <2>2. /\ file' = Overlay(file, pos, buf \o s)
        /\ pos' = pos + Len(buf \o s)
        /\ off' = off + Len(buf \o s)
    BY <1>1, <2>1, WriteAll DEF Inv
  <2>3. ~(m < Len(buf)) /\ m - Len(buf) = Len(s)
    BY <1>1, <1>4
  <2>4. buf' = <<>> /\ Accept(s)
    BY <1>2, <2>3, SubSeqFull
  <2>5. <<>> \in Seq(Byte) /\ (buf \o s) \o <<>> = buf \o s /\ Len(<<>>) <= Cap
    BY <1>1, ConcatEmptySeq, EmptySeq, FdOutBufAssumption
  <2> QED
    BY <1>1, <1>3, <2>1, <2>2, <2>4, <2>5, WriteInv
<1>5. CASE m # Len(buf) + Len(s)
  <2>1. rdstate' = "bad"
    BY <1>2, <1>5 DEF BadUnless
  <2>2. buf' \in Seq(Byte) /\ want' \in Content /\ wpos' \in Nat
    <3>1. CASE m < Len(buf)
      <4>1. m + 1 \in Nat /\ Len(buf) \in Nat /\ m + 1 >= 1 /\ Len(buf) <= Len(buf)
        BY <1>1
      <4>2. SubSeq(buf, m + 1, Len(buf)) \in Seq(Byte)
        BY <4>1, SubSeqType DEF Inv, TypeOK
      <4> QED
        BY <1>2, <3>1, <4>2 DEF Reject, caller, Inv, TypeOK
    <3>2. CASE ~(m < Len(buf))
      <4>1. m - Len(buf) \in Nat /\ m - Len(buf) <= Len(s)
        BY <1>1, <3>2
      <4>2. SubSeq(s, 1, m - Len(buf)) \in Seq(Byte)
        BY <4>1, SubSeqType
      <4> QED
        BY <1>2, <3>2, <4>2, AcceptType, EmptySeq DEF Inv
    <3> QED
      BY <3>1, <3>2
  <2>3. TypeOK'
    BY <1>3, <2>1, <2>2 DEF Inv, TypeOK
  <2> QED
    BY <2>1, <2>3, BadStep DEF Inv
<1> QED
  BY <1>4, <1>5

(* The Windows xsputn(): the buffered string, the part of the new one that *)
(* fills the buffer and the tail are in order and complete.                *)
LEMMA FillAndFlushInv ==
  ASSUME Inv, NEW s \in Seq(Byte), rdstate = "good", open, Len(s) > Cap - Len(buf),
         FillAndFlush(s), UNCHANGED <<open, nonBlocking, torn, closed>>
  PROVE  Inv'
<1> DEFINE an   == IF Len(buf) + Len(s) > 2 * Cap THEN 0 ELSE Cap - Len(buf)
           hd   == SubSeq(s, 1, an)
           b    == buf \o hd
           tail == SubSeq(s, an + 1, Len(s))
<1>1. /\ buf \in Seq(Byte) /\ Len(buf) \in Nat /\ Len(s) \in Nat /\ Len(buf) <= Cap
      /\ Cap \in Nat
  BY LenProperties, FdOutBufAssumption DEF Inv, TypeOK, BufferBound
<1>2. an \in Nat /\ an <= Len(s)
  BY <1>1
<1> HIDE DEF an
<1>3. hd \in Seq(Byte) /\ Len(hd) = an
  BY <1>1, <1>2, SubSeqType
<1>4. tail \in Seq(Byte) /\ Len(tail) = Len(s) - an
  <2>1. an + 1 \in Nat /\ an + 1 >= 1 /\ Len(s) <= Len(s)
    BY <1>1, <1>2
  <2>2. tail \in Seq(Byte) /\ Len(tail) = IF an + 1 <= Len(s) THEN Len(s) - (an + 1) + 1 ELSE 0
    BY <1>1, <2>1, SubSeqType
  <2> QED
    BY <1>1, <1>2, <2>2
<1>5. b \in Seq(Byte) /\ Len(b) = Len(buf) + an
  BY <1>1, <1>3, ConcatProperties
<1>6. hd \o tail = s
  <2>1. 1 \in 1 .. Len(s) + 1 /\ an \in 1 - 1 .. Len(s) /\ Len(s) \in an .. Len(s)
    BY <1>1, <1>2
  <2>2. hd \o tail = SubSeq(s, 1, Len(s))
    BY <2>1, ConcatAdjacentSubSeq
  <2> QED
    BY <2>2, SubSeqFull
<1> HIDE DEF hd, tail
<1>7. b \o tail = buf \o s
  <2>1. buf \in Seq(Byte) /\ hd \in Seq(Byte) /\ tail \in Seq(Byte)
    BY <1>1, <1>3, <1>4
  <2>2. (buf \o hd) \o tail = buf \o (hd \o tail)
    BY ONLY <2>1, ConcatAssociative
  <2> QED
    BY <1>6, <2>2
<1> HIDE DEF b
<1>8. CASE \E m \in 0 .. Len(b) - 1 :
              /\ Write(b, m)
              /\ buf' = SubSeq(b, m + 1, Len(b))
              /\ IF m < Len(buf) THEN Reject ELSE Accept(SubSeq(s, 1, m - Len(buf)))
              /\ rdstate' = "bad"
  <2>1. PICK m \in 0 .. Len(b) - 1 :
              /\ Write(b, m)
              /\ buf' = SubSeq(b, m + 1, Len(b))
              /\ IF m < Len(buf) THEN Reject ELSE Accept(SubSeq(s, 1, m - Len(buf)))
              /\ rdstate' = "bad"
    BY <1>8
  <2>2. file' \in Content /\ pos' \in 0 .. FileMax /\ off' \in Nat
    <3>1. m \in 0 .. Len(b)
      BY <1>1, <1>2, <1>5
    <3> QED
      BY <1>5, <2>1, <3>1, WriteType DEF Inv
  <2>3. buf' \in Seq(Byte)
    <3>1. m + 1 \in Nat /\ m + 1 >= 1 /\ Len(b) \in Nat /\ Len(b) <= Len(b)
      BY <1>1, <1>2, <1>5
    <3> QED
      BY <1>5, <2>1, <3>1, SubSeqType
  <2>4. want' \in Content /\ wpos' \in Nat
    <3>1. CASE m < Len(buf)
      BY <2>1, <3>1 DEF Reject, caller, Inv, TypeOK
    <3>2. CASE ~(m < Len(buf))
      <4>1. m - Len(buf) \in Nat /\ m - Len(buf) <= Len(s)
        BY <1>1, <1>2, <1>5, <3>2
      <4>2. SubSeq(s, 1, m - Len(buf)) \in Seq(Byte)
        BY <4>1, SubSeqType
      <4> QED
        BY <2>1, <3>2, <4>2, AcceptType DEF Inv
    <3> QED
      BY <3>1, <3>2
  <2>5. TypeOK'
    BY <2>1, <2>2, <2>3, <2>4 DEF Inv, TypeOK
  <2> QED
    BY <2>1, <2>5, BadStep DEF Inv
<1>9. CASE /\ buf' = b /\ rdstate' = "bad" /\ Reject /\ UNCHANGED <<kernel, off>>
  <2>1. TypeOK'
    BY <1>5, <1>9 DEF Inv, TypeOK, Reject, caller, kernel
  <2> QED
    BY <1>9, <2>1, BadStep DEF Inv
<1>10. CASE /\ Len(tail) <= Cap /\ Write(b, Len(b)) /\ buf' = tail
            /\ Accept(s) /\ UNCHANGED rdstate
  <2>1. /\ file' = Overlay(file, pos, b)
        /\ pos' = pos + Len(b)
        /\ off' = off + Len(b)
    BY <1>5, <1>10, WriteAll DEF Inv
  <2>2. pos' \in 0 .. FileMax
    <3>1. Len(b) \in 0 .. Len(b)
      BY <1>1, <1>2, <1>5
    <3> QED
      BY <1>5, <1>10, <3>1, WriteType DEF Inv
  <2> QED
    BY <1>4, <1>5, <1>7, <1>10, <2>1, <2>2, WriteInv
<1>11. CASE /\ Len(tail) > Cap
            /\ \E m \in 0 .. Len(tail) :
                 /\ Write(b \o tail, Len(b) + m)
                 /\ buf' = <<>>
                 /\ Accept(SubSeq(s, 1, an + m))
                 /\ BadUnless(m = Len(tail))
  <2>1. PICK m \in 0 .. Len(tail) :
                 /\ Write(b \o tail, Len(b) + m)
                 /\ buf' = <<>>
                 /\ Accept(SubSeq(s, 1, an + m))
                 /\ BadUnless(m = Len(tail))
    BY <1>11
  <2>2. b \o tail \in Seq(Byte) /\ Len(b \o tail) = Len(b) + Len(tail)
    BY <1>4, <1>5, ConcatProperties
  <2>3. Len(b) + m \in 0 .. Len(b \o tail)
    BY <1>1, <1>2, <1>4, <1>5, <2>2
  <2>4. file' \in Content /\ pos' \in 0 .. FileMax /\ off' \in Nat
    BY <2>1, <2>2, <2>3, WriteType DEF Inv
  <2>5. an + m \in Nat /\ an + m <= Len(s)
    BY <1>1, <1>2, <1>4
  <2>6. SubSeq(s, 1, an + m) \in Seq(Byte)
    BY <2>5, SubSeqType
  <2>7. CASE m = Len(tail)
    <3>1. Write(b \o tail, Len(b \o tail)) /\ rdstate' = rdstate
      BY <2>1, <2>2, <2>7 DEF BadUnless
    <3>2. /\ file' = Overlay(file, pos, b \o tail)
          /\ pos' = pos + Len(b \o tail)
          /\ off' = off + Len(b \o tail)
      BY <2>2, <3>1, WriteAll DEF Inv
    <3>3. an + m = Len(s)
      BY <1>1, <1>2, <1>4, <2>7
    <3>4. Accept(s)
      BY <2>1, <3>3, SubSeqFull
    <3>5. <<>> \in Seq(Byte) /\ (b \o tail) \o <<>> = buf \o s /\ Len(<<>>) <= Cap
      BY <1>1, <1>7, <2>2, ConcatEmptySeq, EmptySeq
    <3> QED
      BY <2>1, <2>2, <2>4, <3>1, <3>2, <3>4, <3>5, WriteInv
  <2>8. CASE m # Len(tail)
    <3>1. rdstate' = "bad"
      BY <2>1, <2>8 DEF BadUnless
    <3>2. want' \in Content /\ wpos' \in Nat
      BY <2>1, <2>6, AcceptType DEF Inv
    <3>3. TypeOK'
      BY <2>1, <2>4, <3>1, <3>2, EmptySeq DEF Inv, TypeOK
    <3> QED
      BY <3>1, <3>3, BadStep DEF Inv
  <2> QED
    BY <2>7, <2>8
<1> QED
  <2> USE DEF an, hd, b, tail
  <2> QED
    BY <1>8, <1>9, <1>10, <1>11 DEF FillAndFlush

(* ostream::write(). *)
LEMMA PutStringInv ==
  ASSUME Inv, NEW s \in Seq(Byte), PutString(s)
  PROVE  Inv'
<1>1. rdstate = "good"
  BY DEF PutString
<1>2. CASE /\ ~nonBlocking /\ Len(s) <= Cap - Len(buf)
           /\ buf' = buf \o s
           /\ IF open THEN Accept(s) ELSE Reject
           /\ UNCHANGED <<open, nonBlocking, rdstate, off, kernel, torn, closed>>
  BY <1>1, <1>2, BufferInv
<1>3. CASE /\ ~nonBlocking /\ Len(s) > Cap - Len(buf) /\ open
           /\ \/ "posix" \in Builds /\ WriteThrough(s)
              \/ "win" \in Builds /\ FillAndFlush(s)
           /\ UNCHANGED <<open, nonBlocking, torn, closed>>
  BY <1>1, <1>3, WriteThroughInv, FillAndFlushInv
<1>4. CASE Broken
  BY <1>4, BrokenInv
<1> QED
  BY <1>2, <1>3, <1>4 DEF PutString

(* A save() that is neither complete nor torn leaves a bad stream; the     *)
(* complete one keeps the two views together and the torn one is           *)
(* remembered.  Common to flush(), tellp() and a failing seekp().          *)
LEMMA SaveInv ==
  ASSUME Inv, open, rdstate = "good", NEW r \in Results, Save(buf, r),
         UNCHANGED <<open, nonBlocking, caller, closed>>,
         rdstate' \in {"good", "fail", "bad"},
         r = "error" => rdstate' = "bad",
         rdstate' = "fail" => r = "short"
  PROVE  Inv'
<1>1. open' \in BOOLEAN /\ closed' \in BOOLEAN /\ ~closed'
  BY DEF Inv, TypeOK
<1>2. TypeOK' /\ BufferBound'
  BY <1>1, SaveBound
<1>3. r = "short" => torn'
  BY SaveShort
<1>4. Intact'
  <2> SUFFICES ASSUME rdstate' = "good", ~torn' PROVE Consistent'
    BY DEF Intact, Consistent
  <2>1. r = "all"
    BY <1>3 DEF Results
  <2>2. torn' = torn
    BY <2>1, SaveAll DEF Inv, TypeOK
  <2>3. Consistent
    BY <2>2 DEF Inv, Intact, Consistent
  <2> QED
    BY <2>1, <2>3, SaveConsistent DEF Inv
<1>5. CloseDurable' /\ (rdstate' = "fail" => torn') /\ (closed' => ~open')
  BY <1>1, <1>3 DEF CloseDurable
<1> QED
  BY <1>2, <1>4, <1>5 DEF Inv

(* sync() of a good stream writes the put area out, or leaves it torn. *)
LEMMA FlushInv == ASSUME Inv, Flush PROVE Inv'
<1>1. CASE /\ open /\ ~nonBlocking
           /\ \E r \in Results : Save(buf, r) /\ BadUnless(r = "all")
           /\ UNCHANGED <<open, nonBlocking, caller, closed>>
  <2>1. PICK r \in Results : Save(buf, r) /\ BadUnless(r = "all")
    BY <1>1
  <2>2. /\ rdstate = "good" /\ rdstate' \in {"good", "fail", "bad"}
        /\ (r = "error" => rdstate' = "bad") /\ (rdstate' = "fail" => r = "short")
    BY <2>1 DEF Flush, BadUnless
  <2> QED
    BY <1>1, <2>1, <2>2, SaveInv
<1>2. CASE Broken
  BY <1>2, BrokenInv
<1> QED
  BY <1>1, <1>2 DEF Flush

(* So does seekoff() before it answers the position. *)
LEMMA TellpInv == ASSUME Inv, Tellp PROVE Inv'
<1>1. CASE /\ open /\ ~nonBlocking
           /\ \E r \in Results, seekable \in BOOLEAN :
                /\ Save(buf, r)
                /\ BadUnless(r = "short" \/ (r = "all" /\ seekable))
           /\ UNCHANGED <<open, nonBlocking, caller, closed>>
  <2>1. PICK r \in Results, seekable \in BOOLEAN :
                /\ Save(buf, r)
                /\ BadUnless(r = "short" \/ (r = "all" /\ seekable))
    BY <1>1
  <2>2. /\ rdstate = "good" /\ rdstate' \in {"good", "fail", "bad"}
        /\ (r = "error" => rdstate' = "bad") /\ (rdstate' = "fail" => r = "short")
    BY <2>1 DEF Tellp, BadUnless
  <2> QED
    BY <1>1, <2>1, <2>2, SaveInv
<1>2. CASE Broken
  BY <1>2, BrokenInv
<1> QED
  BY <1>1, <1>2 DEF Tellp

(* A seek that could save the put area moves the position and nothing else. *)
LEMMA SeekpInv == ASSUME Inv, NEW p \in 0 .. FileMax, Seekp(p) PROVE Inv'
<1>1. CASE /\ open /\ ~nonBlocking
           /\ pos + Len(buf) <= FileMax
           /\ file' = Overlay(file, pos, buf)
           /\ pos' = p /\ off' = p /\ wpos' = p
           /\ buf' = <<>>
           /\ UNCHANGED <<open, nonBlocking, rdstate, want, torn, closed>>
  <2>1. pos \in Nat /\ p \in Nat /\ <<>> \in Seq(Byte) /\ Len(<<>>) = 0
    BY FdOutBufAssumption, EmptySeq DEF Inv, TypeOK
  <2>2. file' \in Content
    BY <1>1, <2>1, OverlayType DEF Inv, TypeOK
  <2>3. TypeOK'
    BY <1>1, <2>1, <2>2 DEF Inv, TypeOK
  <2>4. BufferBound' /\ CloseDurable'
    BY <1>1, <2>1, FdOutBufAssumption DEF Inv, BufferBound, CloseDurable
  <2>5. Overlay(file', p, <<>>) = file'
    BY <2>1, <2>2, OverlayEmpty
  <2>6. p + Len(<<>>) = p
    BY <2>1
  <2>7. Intact'
    BY <1>1, <2>5, <2>6 DEF Inv, Intact
  <2> QED
    BY <1>1, <2>3, <2>4, <2>7 DEF Inv
<1>2. CASE /\ open /\ ~nonBlocking
           /\ \E r \in Results :
                /\ Save(buf, r)
                /\ rdstate' = IF r = "short" THEN "fail" ELSE "bad"
           /\ UNCHANGED <<open, nonBlocking, caller, closed>>
  <2>1. PICK r \in Results : /\ Save(buf, r)
                             /\ rdstate' = IF r = "short" THEN "fail" ELSE "bad"
    BY <1>2
  <2>2. /\ rdstate = "good" /\ rdstate' \in {"good", "fail", "bad"}
        /\ (r = "error" => rdstate' = "bad") /\ (rdstate' = "fail" => r = "short")
    BY <2>1 DEF Seekp
  <2> QED
    BY <1>2, <2>1, <2>2, SaveInv
<1>3. CASE Broken
  BY <1>3, BrokenInv
<1> QED
  BY <1>1, <1>2, <1>3 DEF Seekp

(* The caller clears failbit: a torn stream stays torn. *)
LEMMA ClearInv == ASSUME Inv, Clear PROVE Inv'
<1>1. TypeOK' /\ torn'
  BY DEF Inv, TypeOK, Clear, kernel, caller
<1> QED
  BY <1>1 DEF Inv, BufferBound, Intact, CloseDurable, Clear

(* The mode matters to no part of the invariant. *)
LEMMA SetBlockingInv == ASSUME Inv, NEW m \in BOOLEAN, SetBlocking(m) PROVE Inv'
<1>1. TypeOK'
  BY DEF Inv, TypeOK, SetBlocking, kernel, caller
<1>2. Intact'
  BY DEF Inv, Intact, SetBlocking, kernel, caller
<1> QED
  BY <1>1, <1>2 DEF Inv, BufferBound, CloseDurable, SetBlocking, kernel, caller

(* close() returns normally with everything written, or with the failure   *)
(* the caller already knows of.                                            *)
LEMMA CloseInv == ASSUME Inv, Close PROVE Inv'
<1>1. open /\ ~closed /\ UNCHANGED <<nonBlocking, caller>>
  BY DEF Close, Inv
<1>2. \/ rdstate' = "bad" /\ UNCHANGED <<open, closed>>
      \/ (rdstate' = "bad" => rdstate = "bad") /\ open' = FALSE /\ closed' \in BOOLEAN
  BY DEF Close
<1>3. open' \in BOOLEAN /\ closed' \in BOOLEAN /\ (closed' => ~open')
  <2>1. open \in BOOLEAN /\ closed \in BOOLEAN
    BY DEF Inv, TypeOK
  <2>2. CASE UNCHANGED <<open, closed>>
    BY <1>1, <2>1, <2>2
  <2>3. CASE open' = FALSE /\ closed' \in BOOLEAN
    BY <2>3
  <2> QED
    BY <1>2, <2>2, <2>3
<1>4. CASE /\ rdstate = "good" /\ ~nonBlocking
           /\ \E r \in Results : Save(buf, r) /\ BadUnless(r = "all")
  <2>1. PICK r \in Results : Save(buf, r) /\ BadUnless(r = "all")
    BY <1>4
  <2>2. rdstate' \in {"good", "fail", "bad"} /\ rdstate' # "fail"
    BY <1>4, <2>1 DEF BadUnless
  <2>3. TypeOK' /\ BufferBound'
    BY <1>1, <1>3, <1>4, <2>1, <2>2, SaveBound
  <2>4. CASE r = "all"
    <3>1. ~open' /\ rdstate' = "good"
      BY <1>2, <1>4, <2>1, <2>4 DEF BadUnless
    <3>2. CloseDurable'
      <4> SUFFICES ASSUME ~torn' PROVE file' = want'
        BY DEF CloseDurable
      <4>1. torn' = torn /\ buf' = <<>>
        BY <2>1, <2>4, SaveAll DEF Inv, TypeOK
      <4>2. Consistent
        BY <1>1, <1>4, <4>1 DEF Inv, Intact, Consistent
      <4>3. Overlay(file', pos', buf') = want'
        BY <1>1, <2>1, <2>4, <4>2, SaveConsistent DEF Inv, Consistent
      <4>4. file' \in Content /\ pos' \in Nat
        BY <2>3, FdOutBufAssumption DEF TypeOK
      <4> QED
        BY <4>1, <4>3, <4>4, OverlayEmpty
    <3> QED
      BY <1>3, <2>2, <2>3, <3>1, <3>2 DEF Inv, Intact
  <2>5. CASE r # "all"
    <3>1. rdstate' = "bad"
      BY <2>1, <2>5 DEF BadUnless
    <3> QED
      BY <1>3, <2>3, <3>1, BadStep
  <2> QED
    BY <2>4, <2>5
<1>5. CASE /\ rdstate = "good" /\ nonBlocking
           /\ rdstate' = "bad"
           /\ UNCHANGED <<buf, off, kernel, torn>>
  <2>1. TypeOK'
    BY <1>1, <1>3, <1>5 DEF Inv, TypeOK, kernel, caller
  <2> QED
    BY <1>3, <1>5, <2>1, BadStep
<1>6. CASE /\ rdstate # "good"
           /\ UNCHANGED <<rdstate, buf, off, kernel, torn>>
  <2>1. TypeOK'
    BY <1>1, <1>3, <1>6 DEF Inv, TypeOK, kernel, caller
  <2> QED
    BY <1>3, <1>6, <2>1 DEF Inv, BufferBound, Intact, CloseDurable
<1> QED
  BY <1>4, <1>5, <1>6 DEF Close

(* open() begins with an empty file and an empty put area. *)
LEMMA OpenInv == ASSUME Inv, NEW m \in BOOLEAN, Open(m) PROVE Inv'
<1>1. EmptyFile \in Content
  BY DEF EmptyFile, Content
<1>2. <<>> \in Seq(Byte) /\ Len(<<>>) = 0
  BY EmptySeq
<1>3. TypeOK'
  <2>1. nonBlocking' \in BOOLEAN
    BY DEF Open
  <2>2. /\ off' \in Nat /\ pos' \in 0 .. FileMax /\ wpos' \in Nat
        /\ buf' \in Seq(Byte) /\ file' \in Content /\ want' \in Content
    BY <1>1, <1>2, FdOutBufAssumption DEF Open
  <2>3. open' \in BOOLEAN /\ torn' \in BOOLEAN /\ closed' \in BOOLEAN /\ rdstate' = "good"
    BY DEF Open
  <2> QED
    BY <2>1, <2>2, <2>3 DEF TypeOK
<1>4. Overlay(EmptyFile, 0, <<>>) = EmptyFile
  BY <1>1, OverlayEmpty
<1>5. Intact'
  BY <1>2, <1>4 DEF Open, Intact
<1> QED
  BY <1>2, <1>3, <1>5, FdOutBufAssumption DEF Open, Inv, BufferBound, CloseDurable

(* Every step keeps the invariant. *)
LEMMA InvNext == Inv /\ [Next]_vars => Inv'
<1> SUFFICES ASSUME Inv, [Next]_vars PROVE Inv'
  OBVIOUS
<1>1. ASSUME NEW c \in Byte, Put(c) PROVE Inv'
  BY <1>1, PutInv
<1>2. ASSUME NEW n \in 1 .. MaxChunk, NEW s \in [1 .. n -> Byte], PutString(s) PROVE Inv'
  <2>1. n \in Nat
    BY FdOutBufAssumption
  <2>2. s \in Seq(Byte)
    BY <2>1
  <2> QED
    BY <1>2, <2>2, PutStringInv
<1>3. CASE Flush
  BY <1>3, FlushInv
<1>4. CASE Tellp
  BY <1>4, TellpInv
<1>5. ASSUME NEW p \in 0 .. FileMax, Seekp(p) PROVE Inv'
  BY <1>5, SeekpInv
<1>6. CASE Clear
  BY <1>6, ClearInv
<1>7. ASSUME NEW m \in BOOLEAN, SetBlocking(m) PROVE Inv'
  BY <1>7, SetBlockingInv
<1>8. CASE Close
  BY <1>8, CloseInv
<1>9. ASSUME NEW m \in BOOLEAN, Open(m) PROVE Inv'
  BY <1>9, OpenInv
<1>10. CASE UNCHANGED vars
  BY <1>10 DEF vars, Inv, TypeOK, BufferBound, Intact, CloseDurable
<1> QED
  BY <1>1, <1>2, <1>3, <1>4, <1>5, <1>6, <1>7, <1>8, <1>9, <1>10 DEF Next

-----------------------------------------------------------------------------
(* In every behaviour the invariant holds in every state. *)
THEOREM Invariant == Spec => []Inv
  BY InvInit, InvNext, PTL DEF Spec

(* The variables keep their types, whatever is written, wherever it fails. *)
THEOREM TypeCorrect == Spec => []TypeOK
<1>1. Inv => TypeOK
  BY DEF Inv
<1> QED
  BY <1>1, Invariant, PTL

(* overflow()'s extra character never outlives the call on a stream that   *)
(* can still be used.                                                      *)
THEOREM BufferBounded == Spec => []BufferBound
<1>1. Inv => BufferBound
  BY DEF Inv
<1> QED
  BY <1>1, Invariant, PTL

(* An open, good and untorn stream has lost, repeated and misplaced        *)
(* nothing, and knows its position.                                        *)
THEOREM NothingLost == Spec => []Intact
<1>1. Inv => Intact
  BY DEF Inv
<1> QED
  BY <1>1, Invariant, PTL

(* A close() that leaves a good stream has put everything into the file.   *)
THEOREM ClosedIsWritten == Spec => []CloseDurable
<1>1. Inv => CloseDurable
  BY DEF Inv
<1> QED
  BY <1>1, Invariant, PTL

-----------------------------------------------------------------------------
(* The refinement of OutputFile: what the caller wrote, which Intact says  *)
(* is in the file and the put area, is what the unbuffered file holds.     *)

Failed == rdstate # "good" \/ torn
Good == open /\ ~Failed

(* After a failure the unbuffered file is broken, and holds whatever.      *)
LEMMA FailureBreaks ==
  ASSUME TypeOK', Failed'
  PROVE  Out!ABreak
<1>1. file' \in Content /\ pos' \in Nat /\ off' \in Nat /\ buf' \in Seq(Byte) /\ Len(buf') \in Nat
  BY FdOutBufAssumption, LenProperties DEF TypeOK
<1>2. Overlay(file', pos', buf') \in Content
  BY <1>1, OverlayType
<1> QED
  BY <1>1, <1>2 DEF Out!ABreak, Out!Content, Out!Positions, Content, Positions, Failed

(* What Intact says of the mapping.                                        *)
LEMMA GoodContent ==
  ASSUME Inv, Good
  PROVE  Overlay(file, pos, buf) = want /\ off + Len(buf) = wpos /\ rdstate = "good" /\ ~torn
BY DEF Inv, Intact, Good, Failed

LEMMA GoodContentNext ==
  ASSUME Inv', Good'
  PROVE  /\ Overlay(file', pos', buf') = want' /\ off' + Len(buf') = wpos'
         /\ rdstate' = "good" /\ ~torn'
BY DEF Inv, Intact, Good, Failed

(* Accepting a string is writing it.                                       *)
LEMMA AcceptWrites ==
  ASSUME Inv, Inv', Good, Good', NEW s \in Seq(Byte), Len(s) \in 1 .. MaxChunk + 1, Accept(s)
  PROVE  Out!AWrite
<1>1. s \in [1 .. Len(s) -> Byte]
  BY LenProperties
<1>2. want' = Out!Overlay(want, wpos, s) /\ wpos' = wpos + Len(s)
  BY DEF Accept, Out!Overlay, Overlay
<1> QED
  BY <1>1, <1>2, GoodContent, GoodContentNext DEF Out!AWrite, Good

(* Moving what is in the put area to the file changes nothing.             *)
LEMMA SaveStutters ==
  ASSUME Inv, Inv', Good, Good', UNCHANGED caller
  PROVE  UNCHANGED Out!avars
BY GoodContent, GoodContentNext DEF Out!avars, Good, caller

LEMMA PutRefines == ASSUME Inv, Inv', NEW c \in Byte, Put(c) PROVE [Out!ANext]_Out!avars
<1>1. <<c>> \in Seq(Byte) /\ Len(<<c>>) \in 1 .. MaxChunk + 1
  BY FdOutBufAssumption
<1>2. CASE Failed'
  BY <1>2, FailureBreaks DEF Inv, Out!ANext
<1>3. ASSUME ~Failed', open, UNCHANGED <<open, torn>>, Accept(<<c>>) PROVE Out!AWrite
  <2>1. Good /\ Good'
    BY <1>3 DEF Put, Good, Failed
  <2> QED
    BY <1>1, <1>3, <2>1, AcceptWrites
<1>4. CASE ~Failed' /\ Len(buf) < Cap
  <2>1. /\ IF open THEN Accept(<<c>>) ELSE Reject
        /\ UNCHANGED <<open, nonBlocking, rdstate, off, kernel, torn, closed>>
    <3>1. ~(Len(buf) >= Cap)
      BY <1>4, FdOutBufAssumption, LenProperties DEF Inv, TypeOK
    <3> QED
      BY <1>4, <3>1 DEF Put
  <2>2. CASE open
    BY <1>3, <1>4, <2>1, <2>2 DEF Out!ANext
  <2>3. CASE ~open
    BY <2>1, <2>3 DEF Out!avars, kernel
  <2> QED
    BY <2>2, <2>3
<1>5. CASE ~Failed' /\ ~(Len(buf) < Cap)
  <2>1. rdstate' = "good" /\ ~torn'
    BY <1>5 DEF Failed
  <2>2. Overflow(c)
    BY <1>5, <2>1 DEF Put, Broken
  <2>3. PICK r \in Results :
          /\ Save(Append(buf, c), r) /\ BadUnless(r = "all")
          /\ IF r = "all" THEN Accept(<<c>>) ELSE Reject
    BY <2>2 DEF Overflow
  <2>4. r = "all"
    BY <2>1, <2>3 DEF BadUnless
  <2>5. Accept(<<c>>) /\ open /\ UNCHANGED <<open, torn>>
    BY <2>2, <2>3, <2>4 DEF Overflow, Save
  <2> QED
    BY <1>3, <1>5, <2>5 DEF Out!ANext
<1> QED
  BY <1>2, <1>4, <1>5

(* A string that goes past the put area and leaves the stream good was     *)
(* written whole.                                                          *)
LEMMA WriteThroughAccepts ==
  ASSUME TypeOK, NEW s \in Seq(Byte), WriteThrough(s), rdstate' = "good"
  PROVE  Accept(s)
<1>1. /\ Len(buf) \in Nat /\ Len(s) \in Nat
      /\ SubSeq(s, 1, Len(s)) = s
  BY LenProperties, SubSeqFull DEF TypeOK
<1>2. PICK m \in 0 .. Len(buf) + Len(s) :
        /\ BadUnless(m = Len(buf) + Len(s))
        /\ IF m < Len(buf)
           THEN buf' = SubSeq(buf, m + 1, Len(buf)) /\ Reject
           ELSE buf' = <<>> /\ Accept(SubSeq(s, 1, m - Len(buf)))
  BY DEF WriteThrough
<1>3. m = Len(buf) + Len(s)
  BY <1>2 DEF BadUnless
<1>4. ~(m < Len(buf)) /\ m - Len(buf) = Len(s)
  BY <1>1, <1>3
<1> QED
  BY <1>1, <1>2, <1>4

LEMMA FillAndFlushAccepts ==
  ASSUME TypeOK, NEW s \in Seq(Byte), FillAndFlush(s), rdstate' = "good", Len(s) > Cap - Len(buf),
         BufferBound, rdstate = "good"
  PROVE  Accept(s)
<1> DEFINE an   == IF Len(buf) + Len(s) > 2 * Cap THEN 0 ELSE Cap - Len(buf)
           b    == buf \o SubSeq(s, 1, an)
           tail == SubSeq(s, an + 1, Len(s))
<1>1. /\ Len(buf) \in Nat /\ Len(s) \in Nat
      /\ SubSeq(s, 1, Len(s)) = s
  BY LenProperties, SubSeqFull DEF TypeOK
<1>2. an \in 0 .. Len(s)
  BY <1>1, FdOutBufAssumption DEF BufferBound
<1>3. Len(tail) = Len(s) - an
  BY <1>1, <1>2, SubSeqProperties
<1>4. \/ Accept(s)
      \/ \E m \in 0 .. Len(tail) : Accept(SubSeq(s, 1, an + m)) /\ BadUnless(m = Len(tail))
  BY DEF FillAndFlush
<1> HIDE DEF an, tail
<1>5. ASSUME NEW m \in 0 .. Len(tail), Accept(SubSeq(s, 1, an + m)), BadUnless(m = Len(tail))
      PROVE  Accept(s)
  <2>1. m = Len(tail)
    BY <1>5 DEF BadUnless
  <2>2. an + m = Len(s)
    BY <1>1, <1>2, <1>3, <2>1
  <2> QED
    BY <1>1, <1>5, <2>2
<1> QED
  BY <1>4, <1>5

LEMMA PutStringRefines ==
  ASSUME Inv, Inv', NEW n \in 1 .. MaxChunk, NEW s \in [1 .. n -> Byte], PutString(s)
  PROVE  [Out!ANext]_Out!avars
<1>1. s \in Seq(Byte) /\ Len(s) \in 1 .. MaxChunk + 1
  BY FdOutBufAssumption
<1>2. CASE Failed'
  BY <1>2, FailureBreaks DEF Inv, Out!ANext
<1>3. ASSUME ~Failed', open, UNCHANGED <<open, torn>>, Accept(s) PROVE Out!AWrite
  <2>1. Good /\ Good'
    BY <1>3 DEF PutString, Good, Failed
  <2> QED
    BY <1>1, <1>3, <2>1, AcceptWrites
<1>4. CASE ~Failed' /\ Len(s) <= Cap - Len(buf)
  <2>1. /\ IF open THEN Accept(s) ELSE Reject
        /\ UNCHANGED <<open, nonBlocking, rdstate, off, kernel, torn, closed>>
    <3>1. ~(Len(s) > Cap - Len(buf))
      BY <1>1, <1>4, FdOutBufAssumption, LenProperties DEF Inv, TypeOK
    <3> QED
      BY <1>4, <3>1 DEF PutString, Broken, Failed
  <2>2. CASE open
    BY <1>3, <1>4, <2>1, <2>2 DEF Out!ANext
  <2>3. CASE ~open
    BY <2>1, <2>3 DEF Out!avars, kernel
  <2> QED
    BY <2>2, <2>3
<1>5. CASE ~Failed' /\ ~(Len(s) <= Cap - Len(buf))
  <2>1. rdstate' = "good"
    BY <1>5 DEF Failed
  <2>2. /\ Len(s) > Cap - Len(buf) /\ open
        /\ WriteThrough(s) \/ FillAndFlush(s)
        /\ UNCHANGED <<open, torn>> /\ rdstate = "good"
    BY <1>5, <2>1 DEF PutString, Broken
  <2>3. Accept(s)
    BY <1>1, <2>1, <2>2, WriteThroughAccepts, FillAndFlushAccepts DEF Inv
  <2> QED
    BY <1>3, <1>5, <2>2, <2>3 DEF Out!ANext
<1> QED
  BY <1>2, <1>4, <1>5

(* flush() and tellp(), if they leave the stream good, have saved.         *)
LEMMA SaveRefines ==
  ASSUME Inv, Inv', Flush \/ Tellp
  PROVE  [Out!ANext]_Out!avars
<1>1. CASE Failed'
  BY <1>1, FailureBreaks DEF Inv, Out!ANext
<1>2. CASE ~Failed'
  <2>1. rdstate = "good" /\ open /\ UNCHANGED <<open, caller>> /\ \E r \in Results : Save(buf, r)
    BY <1>2 DEF Flush, Tellp, Broken, Failed
  <2>2. ~torn
    BY <1>2, <2>1 DEF Save, Failed
  <2> QED
    BY <1>2, <2>1, <2>2, SaveStutters DEF Good, Failed
<1> QED
  BY <1>1, <1>2

LEMMA SeekpRefines ==
  ASSUME Inv, Inv', NEW p \in 0 .. FileMax, Seekp(p)
  PROVE  [Out!ANext]_Out!avars
<1>1. CASE Failed'
  BY <1>1, FailureBreaks DEF Inv, Out!ANext
<1>2. CASE ~Failed'
  <2>1. /\ open /\ rdstate = "good" /\ wpos' = p
        /\ UNCHANGED <<open, rdstate, want, torn>>
    BY <1>2 DEF Seekp, Broken, Failed
  <2>2. Good /\ Good'
    BY <1>2, <2>1 DEF Good, Failed
  <2>3. Out!ASeek
    BY <2>1, <2>2, GoodContent, GoodContentNext DEF Out!ASeek, Good
  <2> QED
    BY <2>3 DEF Out!ANext
<1> QED
  BY <1>1, <1>2

(* close() of a good stream has put into the file what it was to hold.     *)
LEMMA CloseRefines == ASSUME Inv, Inv', Close PROVE [Out!ANext]_Out!avars
<1>1. CASE Failed'
  BY <1>1, FailureBreaks DEF Inv, Out!ANext
<1>2. CASE ~Failed'
  <2>1. rdstate' = "good" /\ ~torn'
    BY <1>2 DEF Failed
  <2>2. /\ rdstate = "good" /\ open /\ ~open'
        /\ \E r \in Results : Save(buf, r) /\ BadUnless(r = "all")
    BY <2>1 DEF Close
  <2>3. Save(buf, "all")
    BY <2>1, <2>2 DEF BadUnless
  <2>4. file' = Overlay(file, pos, buf) /\ off' = off + Len(buf)
    BY <2>3, SaveAll DEF Inv, TypeOK
  <2>5. ~torn
    BY <2>1, <2>3 DEF Save
  <2> QED
    BY <2>1, <2>2, <2>4, <2>5 DEF Out!avars
<1> QED
  BY <1>1, <1>2

LEMMA OpenRefines == ASSUME NEW m \in BOOLEAN, Open(m) PROVE [Out!ANext]_Out!avars
<1>1. EmptyFile \in Content
  BY DEF EmptyFile, Content
<1>2. Overlay(file', pos', buf') = EmptyFile /\ Len(buf') = 0
  BY <1>1, OverlayEmpty DEF Open
<1>3. Out!AOpen
  BY <1>2 DEF Open, Out!AOpen, Out!Positions, EmptyFile, Positions
<1> QED
  BY <1>3 DEF Out!ANext

(* Every step of the buffer is a step of the unbuffered file, or none.     *)
LEMMA NextRefines == Inv /\ Inv' /\ [Next]_vars => [Out!ANext]_Out!avars
<1> SUFFICES ASSUME Inv, Inv', [Next]_vars PROVE [Out!ANext]_Out!avars
  OBVIOUS
<1>1. ASSUME NEW c \in Byte, Put(c) PROVE [Out!ANext]_Out!avars
  BY <1>1, PutRefines
<1>2. ASSUME NEW n \in 1 .. MaxChunk, NEW s \in [1 .. n -> Byte], PutString(s)
      PROVE  [Out!ANext]_Out!avars
  BY <1>2, PutStringRefines
<1>3. CASE Flush \/ Tellp
  BY <1>3, SaveRefines
<1>4. ASSUME NEW p \in 0 .. FileMax, Seekp(p) PROVE [Out!ANext]_Out!avars
  BY <1>4, SeekpRefines
<1>5. CASE Clear
  <2>1. Failed'
    BY <1>5 DEF Inv, Clear, Failed
  <2> QED
    BY <2>1, FailureBreaks DEF Inv, Out!ANext
<1>6. CASE (\E m \in BOOLEAN : SetBlocking(m)) \/ UNCHANGED vars
  BY <1>6 DEF SetBlocking, vars, Out!avars, kernel
<1>7. CASE Close
  BY <1>7, CloseRefines
<1>8. ASSUME NEW m \in BOOLEAN, Open(m) PROVE [Out!ANext]_Out!avars
  BY <1>8, OpenRefines
<1> QED
  BY <1>1, <1>2, <1>3, <1>4, <1>5, <1>6, <1>7, <1>8 DEF Next

LEMMA InitRefines == Init => Out!AInit
<1> SUFFICES ASSUME Init PROVE Out!AInit
  OBVIOUS
<1>1. EmptyFile \in Content
  BY DEF EmptyFile, Content
<1>2. Overlay(file, pos, buf) = EmptyFile /\ Len(buf) = 0
  BY <1>1, OverlayEmpty DEF Init
<1> QED
  BY <1>2 DEF Init, Out!AInit, Out!Positions, EmptyFile, Positions

(* Seen by its caller the buffered stream is an unbuffered file, for every *)
(* size of the buffer and of the device: an accepted byte counts as        *)
(* written, and nothing but a reported failure takes it back.              *)
THEOREM Refinement == Spec => Implements
  BY Invariant, InitRefines, NextRefines, PTL DEF Spec, Implements, Out!ASpec
=============================================================================
