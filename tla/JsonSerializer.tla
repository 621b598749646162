--------------------------- MODULE JsonSerializer ---------------------------
(***************************************************************************)
(* json/serializer.cxx: a buffer_serializer is given events, one at a time,*)
(* refuses those that do not make a JSON text, and writes the others to a  *)
(* buffer that is small: a fixed one, a string that grows, or one that is  *)
(* emptied into a stream.  A string is escaped and validated while it is   *)
(* cut into the pieces that fit.                                           *)
(*                                                                         *)
(* A byte is a one-character string, but for "L2" and "L3", the first      *)
(* bytes of a UTF-8 sequence of two and of three bytes, "C", any of their  *)
(* other bytes, and "^A", a control character.                             *)
(***************************************************************************)
EXTENDS Integers, FiniteSets, SequencesExt

CONSTANTS
  Names,        \* the names that are serialized
  Values,       \* the events of strings, numbers, booleans and nulls
  Setups,       \* how a serializer is made: mode, capacity, indent and mvSeparator
  MaxEvents,    \* bound: how many events are serialized
  MaxValues,    \* bound: how many of them are top-level values
  MaxDepth      \* bound: how deep they nest

ASSUME SerializerAssumption ==
  /\ \A s \in Setups : s.mode \in {"fixed", "string", "stream"} /\ s.capacity \in Nat /\ s.indent \in Nat
  /\ MaxEvents \in Nat /\ MaxValues \in Nat /\ MaxDepth \in Nat

VARIABLES
  setup,      \* how the serializer was made, never changed
  stack,      \* state_: the open objects and arrays and how many events each has had
  absent,     \* absent_: absent events in a row, between values
  values,     \* values_: how many top-level values are complete
  buf,        \* what is in the buffer
  capacity,   \* its size
  out,        \* what has left it, one piece for each overflow or flush
  log,        \* the events accepted so far
  refused     \* the event that next() threw for, if any

serializerVars ==
  <<setup, stack, absent, values, buf, capacity, out, log, refused>>

mode == setup.mode                 \* into a fixed buffer, a string or a stream
indent == setup.indent             \* none if 0
mvSeparator == setup.mvSeparator   \* of top-level values

NL == "\n"
Q == "\""
BS == "\\"

Event(e, v) == [e |-> e, v |-> v]
None == Event("none", <<>>)
IsBegin(e) == e \in {"begin_object", "begin_array"}
IsEnd(e) == e \in {"end_object", "end_array"}

Quoted(e) == e \in {"name", "string"}

(* The text of an event, quotes and escapes aside.                         *)
Bytes(ev) ==
  CASE ev.e = "begin_object" -> <<"{">>
    [] ev.e = "end_object" -> <<"}">>
    [] ev.e = "begin_array" -> <<"[">>
    [] ev.e = "end_array" -> <<"]">>
    [] ev.e = "null" -> <<"N">>
    [] OTHER -> ev.v

-----------------------------------------------------------------------------
(* write(): the separator, the quote, the value in pieces, the quote. The  *)
(* state w has the rest val of the value, size, how much is left to write, *)
(* and ok, FALSE once something was thrown. *)

Room(w) == w.cap - Len(w.buf)

Escaped(c) ==
  CASE c = Q -> <<BS, Q>>
    [] c = BS -> <<BS, BS>>
    [] c = NL -> <<BS, "n">>
    [] c = "^A" -> <<BS, "u", "0", "0", "0", "1">>
    [] OTHER -> <<c>>

NeedsEscape(c) == Len(Escaped(c)) > 1

(* Where the UTF-8 sequence that starts at i ends, and whether it is one.  *)
SeqEnd(s, i) == i + (CASE s[i] = "L2" -> 1 [] s[i] = "L3" -> 2 [] OTHER -> 0)
IsSequence(s, i) ==
  s[i] # "C" /\ SeqEnd(s, i) <= Len(s) /\ \A j \in i + 1..SeqEnd(s, i) : s[j] = "C"

(* overflow_(): a fixed buffer has none, a string grows by at least the      *)
(* hint, an unsigned number, and a stream takes what is in the buffer.     *)
Grow(w, min, more) ==
  LET extra == more + w.size - Room(w)
      hint == IF extra > min THEN extra ELSE min
  IN  CASE mode = "fixed" -> [w EXCEPT !.ok = FALSE]
        [] mode = "string" -> IF extra < 0 THEN [w EXCEPT !.ok = FALSE]
                              ELSE [w EXCEPT !.cap = w.cap + hint]
        [] mode = "stream" -> [w EXCEPT !.out = Append(w.out, w.buf), !.buf = <<>>, !.ok = w.cap >= min]

(* append()                                                                *)
Put(w, s) == [w EXCEPT !.buf = w.buf \o s, !.size = w.size - Len(s)]

(* Something that is not cut: a separator or a quote.                      *)
PutWhole(w, s) ==
  IF s = <<>> \/ ~w.ok THEN w
  ELSE LET g == IF Room(w) >= Len(s) THEN w ELSE Grow(w, Len(s), 0)
       IN  IF g.ok THEN Put(g, s) ELSE g

(* Fault: chunk() cuts where the buffer ends.                             *)
ChunkAnywhere(w) == IF Room(w) >= Len(w.val) THEN Len(w.val) ELSE Room(w)

(* chunk(): what fits, cut before the first byte of a UTF-8 sequence.      *)
Chunk(w) ==
  LET cuts == {i \in 1..Room(w) : i < Len(w.val) /\ w.val[i + 1] # "C"}
  IN  IF Room(w) >= Len(w.val) THEN Len(w.val)
      ELSE IF cuts = {} THEN 0
      ELSE CHOOSE i \in cuts : \A j \in cuts : j <= i

(* chunk_checked(), after the first byte: what fits and needs no escape,   *)
(* from the i-th byte on; -1 if what stops it is not UTF-8.                *)
RECURSIVE ChunkChecked(_, _)
ChunkChecked(w, i) ==
  IF i > Len(w.val) \/ i > Room(w) THEN i - 1
  ELSE IF NeedsEscape(w.val[i]) THEN i - 1
  ELSE IF w.val[i] = "C" \/ SeqEnd(w.val, i) > Len(w.val) THEN -1
  ELSE IF SeqEnd(w.val, i) > Room(w) THEN i - 1
  ELSE IF IsSequence(w.val, i) THEN ChunkChecked(w, SeqEnd(w.val, i) + 1) ELSE -1

(* The loop of write(): 6 bytes is the longest that is never cut.          *)
RECURSIVE PutValue(_, _)
PutValue(w, check) ==
  LET esc == Escaped(w.val[1])
      n == IF check THEN ChunkChecked(w, 1) ELSE Chunk(w)
  IN  IF w.val = <<>> \/ ~w.ok THEN w
      ELSE IF Room(w) = 0 THEN PutValue(Grow(w, 6, 0), check)
      ELSE IF check /\ NeedsEscape(w.val[1])
      THEN IF Len(esc) > Room(w) THEN PutValue(Grow(w, 6, Len(esc) - 1), check)
           ELSE PutValue(Put([w EXCEPT !.size = w.size + Len(esc) - 1, !.val = Tail(w.val)], esc), check)
      ELSE IF n = 0 THEN PutValue(Grow(w, 6, 0), check)
      ELSE IF n = -1 THEN [w EXCEPT !.ok = FALSE]
      ELSE PutValue(Put([w EXCEPT !.val = SubSeq(w.val, n + 1, Len(w.val))], SubSeq(w.val, 1, n)), check)

WriteEvent(ev, sep, check) ==
  LET quote == IF Quoted(ev.e) THEN <<Q>> ELSE <<>>
      w == [buf |-> buf, cap |-> capacity, out |-> out, val |-> Bytes(ev), ok |-> TRUE,
            size |-> Len(sep) + Len(Bytes(ev)) + 2 * Len(quote)]
  IN  PutWhole(PutValue(PutWhole(PutWhole(w, sep), quote), check), quote)

-----------------------------------------------------------------------------
(* next() *)

Top == stack[Len(stack)]
NameExpected == Top.type = "begin_object" /\ Top.count % 2 = 0

Newline(depth) == IF indent = 0 THEN <<>> ELSE <<NL>> \o [i \in 1..indent * depth |-> " "]

(* The separator before an event. The depth of sep_ is that of the stack.  *)
Separator(e) ==
  IF stack = <<>> THEN IF values = 0 THEN <<>> ELSE mvSeparator
  ELSE IF Top.type = "begin_object" /\ Top.count % 2 = 1
  THEN IF indent = 0 THEN <<":">> ELSE <<":", " ">>
  ELSE IF IsEnd(e) THEN IF Top.count = 0 THEN <<>> ELSE Newline(Len(stack) - 1)
  ELSE IF Top.count = 0 THEN Newline(Len(stack))
  ELSE <<",">> \o Newline(Len(stack))

Unexpected(e) ==
  CASE e = "end_array" -> stack = <<>> \/ Top.type # "begin_array"
    [] e = "end_object" -> stack = <<>> \/ ~NameExpected
    [] e = "name" -> stack = <<>> \/ ~NameExpected
    [] OTHER -> stack # <<>> /\ NameExpected

(* The stack after an event.                                               *)
Stacked(e) ==
  LET counted == IF stack = <<>> THEN <<>> ELSE [stack EXCEPT ![Len(stack)].count = Top.count + 1]
  IN  IF IsEnd(e) THEN Front(stack)
      ELSE IF IsBegin(e) THEN Append(counted, [type |-> e, count |-> 0])
      ELSE counted

(* flush_(), once a top-level value is complete.                           *)
Flushed(w) ==
  CASE mode = "fixed" -> w
    [] mode = "string" -> [w EXCEPT !.cap = Len(w.buf)]
    [] mode = "stream" -> [w EXCEPT !.out = Append(w.out, w.buf), !.buf = <<>>]

Refuse(ev) == refused' = ev /\ UNCHANGED <<stack, values, log>>

Serialize(ev, check) ==
  LET written == WriteEvent(ev, Separator(ev.e), check)
      done == Stacked(ev.e) = <<>>
      w == IF done /\ written.ok THEN Flushed(written) ELSE written
  IN  IF absent = 2 THEN Refuse(ev) /\ UNCHANGED <<absent, buf, capacity, out>>
      ELSE /\ absent' = 0
           /\ IF Unexpected(ev.e) THEN Refuse(ev) /\ UNCHANGED <<buf, capacity, out>>
              ELSE /\ buf' = w.buf /\ capacity' = w.cap /\ out' = w.out
                   /\ IF ~written.ok THEN Refuse(ev)
                      ELSE /\ stack' = Stacked(ev.e)
                           /\ values' = IF done THEN values + 1 ELSE values
                           /\ log' = Append(log, ev) /\ UNCHANGED refused

(* next (nullopt), twice at the end of the values.                         *)
Absent ==
  /\ UNCHANGED <<stack, values, buf, capacity, out, log>>
  /\ IF absent = 2 \/ stack # <<>> THEN refused' = Event("absent", <<>>) /\ UNCHANGED absent
     ELSE absent' = absent + 1 /\ UNCHANGED refused

(* What a string has to be to be serialized, and to be so unchecked.       *)
RECURSIVE Utf8(_)
Utf8(s) ==
  IF s = <<>> THEN TRUE ELSE IsSequence(s, 1) /\ Utf8(SubSeq(s, SeqEnd(s, 1) + 1, Len(s)))
Plain(s) == Utf8(s) /\ \A i \in 1..Len(s) : ~NeedsEscape(s[i])

Events ==
  {Event(e, <<>>) : e \in {"begin_object", "end_object", "begin_array", "end_array"}}
    \cup {Event("name", s) : s \in Names} \cup Values

SerializeNext ==
  /\ refused = None /\ Len(log) < MaxEvents /\ values < MaxValues
  /\ \/ \E ev \in Events :
          /\ IsBegin(ev.e) => Len(stack) < MaxDepth
          /\ \E check \in IF Quoted(ev.e) /\ Plain(ev.v) THEN BOOLEAN ELSE {TRUE} :
               Serialize(ev, check)
     \/ Absent
  /\ UNCHANGED setup

SerializerInit ==
  /\ setup \in Setups
  /\ stack = <<>> /\ absent = 0 /\ values = 0
  /\ buf = <<>> /\ capacity = setup.capacity /\ out = <<>>
  /\ log = <<>> /\ refused = None
=============================================================================
