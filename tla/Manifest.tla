------------------------------ MODULE Manifest ------------------------------
(***************************************************************************)
(* Manifests written, read and edited: a manifest_serializer is called     *)
(* with pairs, comments and ends in any order it accepts, or somebody      *)
(* writes a manifest by hand; a manifest_parser reads the text; and a      *)
(* hand-written manifest is edited in place with a manifest_rewriter, from *)
(* its end to its beginning, by the positions the parser recorded, and     *)
(* read again.                                                             *)
(***************************************************************************)
EXTENDS ManifestText, FiniteSets

CONSTANTS
  Names,        \* the names of pairs
  Values,       \* the values of the first pair written
  FewValues,    \* the values of the others
  NewValues,    \* the values of the edits
  Remarks,      \* the comments merged into values
  Comments,     \* the comments written between pairs
  HandWritten,  \* texts somebody wrote by hand
  MaxPairs,     \* bound: how many pairs are written
  MaxStarts,    \* bound: in how many manifests
  MaxComments,  \* bound: how many comments are written between them
  MaxEdits      \* bound: how many edits are made

ASSUME ManifestAssumption ==
  /\ MaxPairs \in Nat /\ MaxStarts \in Nat /\ MaxComments \in Nat /\ MaxEdits \in Nat
  /\ \A c \in Comments : ~SomeIn(c, {NL, CR})
  /\ <<>> \notin Names /\ \A n \in Names : n[1] # "#" /\ ~SomeIn(n, {" ", "\t", NL, CR, ":"})

VARIABLES
  text,      \* the file
  phase,     \* "write", "read", "edit" or "reread"
  ser,       \* the serializer: its state and the version it wrote last
  par,       \* the parser: its state, version and position
  count,   \* how many comments were written between pairs
  expected,  \* what the reader is to get: pairs, ends, and merged comments
  read,      \* the pairs the reader got, with their positions
  at         \* the pair the editor comes to next, from the last one down

vars == <<text, phase, ser, par, count, expected, read, at>>

Version == <<"1">>
Entry(n, v) == [name |-> n, value |-> v, comment |-> <<>>, merged |-> FALSE]
Merged(n, v, c) == [name |-> n, value |-> v, comment |-> c, merged |-> TRUE]
End == Entry(<<>>, <<>>)
StartPair == Entry(<<>>, Version)

(* The first pair has any of the values, the others a few plain ones.      *)
Pairs == {i \in 1..Len(expected) : expected[i].name # <<>>}
First == Pairs = {}

Parser0 == [state |-> "start", version |-> <<>>, p |-> 1]

Init ==
  /\ ser = [state |-> "start", version |-> <<>>]
  /\ par = Parser0 /\ count = 0 /\ expected = <<>> /\ read = <<>> /\ at = 0
  /\ \/ text = <<>> /\ phase = "write"
     \/ text \in HandWritten /\ phase = "read"

-----------------------------------------------------------------------------
(* manifest_serializer::next() *)

(* The start-of-manifest pair; in the body it ends the manifest before it. *)
WriteStart ==
  /\ phase = "write" /\ ser.state \in {"start", "body"}
  /\ Cardinality({i \in 1..Len(expected) : expected[i] = StartPair}) < MaxStarts
  /\ text' = text \o (IF ser.version = Version THEN <<":">> ELSE <<":", " ">> \o Version) \o <<NL>>
  /\ ser' = [state |-> "body", version |-> Version]
  /\ expected' = expected \o (IF ser.state = "body" THEN <<End>> ELSE <<>>) \o <<StartPair>>
  /\ UNCHANGED <<phase, par, count, read, at>>

Write(e, v) ==
  /\ text' = text \o WritePair(e.name, v, Len(e.name) + 1) \o <<NL>>
  /\ expected' = Append(expected, e)
  /\ UNCHANGED <<phase, ser, par, count, read, at>>

InBody == phase = "write" /\ ser.state = "body" /\ Cardinality(Pairs) < MaxPairs

(* A pair. The line separators of a value come back as newlines.           *)
WriteNext ==
  /\ InBody
  /\ \E n \in Names, v \in IF First THEN Values ELSE FewValues : Write(Entry(n, Join(Lines(v))), v)

(* A value with a comment, merged as merge_comment() says: on one line     *)
(* blanks between the two belong to neither.                               *)
WriteMerged ==
  /\ InBody /\ First
  /\ \E n \in Names, v \in Values, c \in Remarks :
       /\ ~SomeIn(v, {CR})
       /\ SomeIn(v \o c, {NL}) \/ (TrimRight(v) = v /\ TrimLeft(c) = c)
       /\ Write(Merged(n, v, c), MergeComment(v, c))

(* comment()                                                               *)
WriteComment ==
  /\ phase = "write" /\ count < MaxComments
  /\ \E c \in Comments :
       text' = text \o <<"#">> \o (IF c = <<>> THEN <<>> ELSE <<" ">> \o c) \o <<NL>>
  /\ count' = count + 1
  /\ UNCHANGED <<phase, ser, par, expected, read, at>>

(* The end-of-manifest and the end-of-stream pair.                         *)
WriteEnd ==
  /\ phase = "write" /\ ser.state \in {"body", "start"}
  /\ ser' = [ser EXCEPT !.state = IF ser.state = "body" THEN "start" ELSE "end"]
  /\ phase' = IF ser.state = "start" THEN "read" ELSE phase
  /\ expected' = Append(expected, End)
  /\ UNCHANGED <<text, par, count, read, at>>

-----------------------------------------------------------------------------
(* manifest_parser::parse_next() *)

Reading == phase \in {"read", "reread"} /\ par.state \notin {"eos", "failed"}

Positions(lp, colon, end) == [start |-> lp, colon |-> colon, end |-> end]
Got(n, v, pos) == [name |-> n, value |-> v, pos |-> pos]

Gets(nv, state, version, p) ==
  /\ read' = Append(read, nv)
  /\ par' = [state |-> state, version |-> version, p |-> p]

Fails == par' = [par EXCEPT !.state = "failed"] /\ read' = read

(* In the body an empty name, not read yet, or the end of the text ends    *)
(* the manifest; the end of the text once more is the end of the stream.   *)
ReadNext ==
  LET s == SkipSpaces(text, par.p, TRUE, par.p)
      e == NameEnd(text, s.p)
      n == SubSeq(text, s.p, e - 1)
      k == SkipSpaces(text, e, FALSE, e).p
      v == ParseValue(text, SkipSpaces(text, k + 1, FALSE, k + 1).p)
      next == IF At(text, v.end) = NL THEN v.end + 1 ELSE v.end
      pos == Positions(s.lp, k, v.end)
      none == Positions(s.lp, s.p, s.p)
  IN  /\ Reading
      /\ CASE par.state = "end" -> Gets(Got(<<>>, <<>>, none), "eos", par.version, par.p)
           [] par.state = "body" /\ At(text, s.p) = ":" ->
                Gets(Got(<<>>, <<>>, none), "start", par.version, s.p)
           [] par.state # "end" /\ At(text, s.p) = EOS ->
                Gets(Got(<<>>, <<>>, none), IF par.state = "start" THEN "eos" ELSE "end",
                     par.version, s.p)
           [] OTHER ->
                IF At(text, k) # ":" THEN Fails
                ELSE IF par.state = "body" THEN Gets(Got(n, v.value, pos), "body", par.version, next)
                ELSE IF n # <<>> THEN Fails
                ELSE LET ver == IF v.value = <<>> THEN par.version ELSE v.value
                     IN  IF ver # Version THEN Fails
                         ELSE Gets(Got(<<>>, ver, pos), "body", ver, next)
      /\ UNCHANGED <<text, phase, ser, count, expected, at>>

-----------------------------------------------------------------------------
(* manifest_rewriter, for a hand-written manifest, and the one after which *)
(* only the end-of-manifest and end-of-stream pairs follow.                *)

AsExpected(nv) == Entry(nv.name, nv.value)

StartEdit ==
  /\ phase = "read" /\ par.state = "eos" /\ expected = <<>>
  /\ expected' = [i \in 1..Len(read) |-> AsExpected(read[i])]
  /\ phase' = "edit" /\ at' = Len(read) - 2
  /\ UNCHANGED <<text, ser, par, count, read>>

Edit(t, es, n) ==
  /\ phase = "edit" /\ at > 0 /\ count + n <= MaxEdits
  /\ text' = t /\ count' = count + n
  /\ expected' = SubSeq(expected, 1, at - 1) \o es \o From(expected, at + 1)
  /\ at' = at - 1
  /\ UNCHANGED <<phase, ser, par, read>>

Keep == Edit(text, <<expected[at]>>, 0)

(* Fault: the newline that ends the pair goes with the value.              *)
ReplaceLine ==
  /\ phase = "edit" /\ at > 1
  /\ \E v \in NewValues :
       LET pos == read[at].pos
           value == IF v = <<>> THEN <<>> ELSE WriteValue(v, pos.colon - pos.start + 1)
       IN  Edit(SubSeq(text, 1, pos.colon) \o value \o From(text, pos.end + 1),
                <<Entry(expected[at].name, Join(Lines(v)))>>, 1)

(* replace(): the value between the colon and the end of the pair. The     *)
(* column counts from the start of the line the name is on.                *)
Replace ==
  /\ phase = "edit" /\ at > 1
  /\ \E v \in NewValues :
       LET pos == read[at].pos
           value == IF v = <<>> THEN <<>> ELSE WriteValue(v, pos.colon - pos.start + 1)
       IN  Edit(SubSeq(text, 1, pos.colon) \o value \o From(text, pos.end),
                <<Entry(expected[at].name, Join(Lines(v)))>>, 1)

(* insert(): a line after the pair. The column is computed from the        *)
(* positions of the new pair, which are all zero.                          *)
Insert ==
  /\ phase = "edit" /\ at > 0
  /\ \E n \in Names, v \in NewValues :
       LET pos == read[at].pos
       IN  Edit(SubSeq(text, 1, pos.end - 1) \o <<NL>> \o WritePair(n, v, 1) \o From(text, pos.end),
                <<expected[at], Entry(n, Join(Lines(v)))>>, 1)

Reread ==
  /\ phase = "edit" /\ at = 0
  /\ phase' = "reread" /\ par' = Parser0 /\ read' = <<>>
  /\ UNCHANGED <<text, ser, count, expected, at>>

Next ==
  \/ WriteStart \/ WriteNext \/ WriteMerged \/ WriteComment \/ WriteEnd
  \/ ReadNext
  \/ StartEdit \/ Keep \/ Replace \/ Insert \/ Reread

Spec == Init /\ [][Next]_vars

-----------------------------------------------------------------------------
(* What the reader has got so far is what it is to get.                    *)
Agrees ==
  /\ par.state # "failed"
  /\ Len(read) <= Len(expected)
  /\ par.state = "eos" => Len(read) = Len(expected)
  /\ \A i \in 1..Len(read) :
       /\ read[i].name = expected[i].name
       /\ ~expected[i].merged => read[i].value = expected[i].value

(* Whatever pairs, comments and ends the serializer accepts, the parser    *)
(* returns the same pairs in the same manifests, whatever lines the        *)
(* serializer broke and whatever it had to escape.                         *)
RoundTrip == phase = "read" /\ expected # <<>> => Agrees

(* split_comment() gives back the value and the comment that were merged,  *)
(* after the merged value went through the file.                           *)
CommentsKept ==
  phase = "read" /\ expected # <<>> =>
    \A i \in 1..Len(read) :
      expected[i].merged =>
        SplitComment(read[i].value) = [value |-> expected[i].value, comment |-> expected[i].comment]

(* After the edits the file has the new values, the new pairs after the    *)
(* ones they were to follow, and every other pair as it was.               *)
EditsKept == phase = "reread" => Agrees
=============================================================================
