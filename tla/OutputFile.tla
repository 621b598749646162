----------------------------- MODULE OutputFile -----------------------------
(***************************************************************************)
(* What an output stream promises to its caller, without a buffer: a file  *)
(* every accepted write changes at once, and a write position.  When an    *)
(* operation reports a failure the stream is broken and promises nothing   *)
(* until it is opened again.                                               *)
(***************************************************************************)
EXTENDS Integers, Sequences

CONSTANTS
  Byte,      \* the byte values
  Hole,      \* what a position nobody wrote holds
  FileMax,   \* the size of the device: positions 0 .. FileMax - 1
  MaxWrite   \* bound: the most bytes one operation accepts

VARIABLES
  content,   \* the file as the caller sees it
  position,  \* the position of the next byte to be written
  broken     \* an operation has failed

avars == <<content, position, broken>>

Positions == 0 .. FileMax - 1
Content == [Positions -> Byte \cup {Hole}]

(* The file f after the bytes s were written at position p. *)
Overlay(f, p, s) ==
  [i \in DOMAIN f |-> IF i \in p .. p + Len(s) - 1 THEN s[i - p + 1] ELSE f[i]]

AInit ==
  /\ content = [i \in Positions |-> Hole]
  /\ position = 0
  /\ broken = FALSE

(* Some bytes are accepted and are at once part of the file. *)
AWrite ==
  /\ ~broken
  /\ \E n \in 1 .. MaxWrite : \E s \in [1 .. n -> Byte] :
       /\ content' = Overlay(content, position, s)
       /\ position' = position + n
  /\ UNCHANGED broken

ASeek ==
  /\ ~broken
  /\ position' \in 0 .. FileMax
  /\ UNCHANGED <<content, broken>>

(* A failure: what the file holds from here on is not promised. *)
ABreak ==
  /\ broken'
  /\ content' \in Content
  /\ position' \in Nat

(* The stream is opened on another, empty, file. *)
AOpen ==
  /\ content' = [i \in Positions |-> Hole]
  /\ position' = 0
  /\ broken' = FALSE

ANext == AWrite \/ ASeek \/ ABreak \/ AOpen

ASpec == AInit /\ [][ANext]_avars
=============================================================================
