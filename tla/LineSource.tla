----------------------------- MODULE LineSource -----------------------------
(***************************************************************************)
(* What reading streams line by line promises: of each stream, the lines   *)
(* of what has been written to its other end, every one whole, in order    *)
(* and once, when it is terminated or, for the last one, the other end is  *)
(* closed; and the end only when every line has been delivered.            *)
(***************************************************************************)
EXTENDS Integers, Sequences

CONSTANTS
  Stream,       \* the streams
  NL            \* the delimiter

VARIABLES
  text,         \* what has been written so far
  closed,       \* nothing more will be
  next,         \* where in the text the next line begins
  lines,        \* the lines delivered
  ended         \* the end has been reported

lsvars == <<text, closed, next, lines, ended>>

LSInit ==
  /\ text = [s \in Stream |-> <<>>] /\ closed = [s \in Stream |-> FALSE]
  /\ next = [s \in Stream |-> 1] /\ lines = [s \in Stream |-> <<>>]
  /\ ended = [s \in Stream |-> FALSE]

Same(s) == lines'[s] = lines[s] /\ next'[s] = next[s]

(* The other end is written to, or closed.                                 *)
Write(s) ==
  /\ SubSeq(text'[s], 1, Len(text[s])) = text[s]
  /\ closed[s] => closed'[s] /\ text'[s] = text[s]
  /\ Same(s) /\ ended'[s] = ended[s]

(* The next line ends at e: before a delimiter or, if nothing more will    *)
(* follow, at the end of the text.                                         *)
EndsAt(s, e) ==
  /\ \A i \in next[s]..e : text[s][i] # NL
  /\ IF e < Len(text[s]) THEN text[s][e + 1] = NL ELSE closed[s] /\ next[s] <= e

Deliver(s) ==
  /\ ~ended[s]
  /\ \E e \in next[s]-1..Len(text[s]) :
       /\ EndsAt(s, e)
       /\ lines'[s] = Append(lines[s], SubSeq(text[s], next[s], e))
       /\ next'[s] = e + 2
  /\ text'[s] = text[s] /\ closed'[s] = closed[s] /\ ended'[s] = ended[s]

End(s) ==
  /\ closed[s] /\ next[s] > Len(text[s])
  /\ ended'[s]
  /\ Same(s) /\ text'[s] = text[s] /\ closed'[s] = closed[s]

LSNext == \A s \in Stream : Write(s) \/ Deliver(s) \/ End(s)
LSSpec == LSInit /\ [][LSNext]_lsvars
=============================================================================
