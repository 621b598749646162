-------------------------------- MODULE Json --------------------------------
(***************************************************************************)
(* JSON written by a buffer_serializer and read back by a json::parser, in *)
(* the multi-value mode.  The parser wraps pdjson, which it calls for the  *)
(* next event and whose data is lost by the next call: when the caller     *)
(* peeks at an event, the parser first has to save what belongs to the one *)
(* before it.                                                              *)
(***************************************************************************)
EXTENDS JsonSerializer

CONSTANT ReadModes   \* bound: whose text is read, which WritesText says is the same for all

VARIABLES
  phase,      \* "write", "read", "thrown" by an expectation, "failed" by pdjson
  separators, \* what the parser requires between values: "null", "" or "\n"
  par,        \* the parser, see Parser0
  got         \* how many events the caller has got, skipped ones included

vars == <<serializerVars, phase, separators, par, got>>

Text == FlattenSeq(out) \o buf

(***************************************************************************)
(* What the text of the events is, told from their neighbours and nesting. *)
(***************************************************************************)
Depth(es, i) ==
  Cardinality({j \in 1..i - 1 : IsBegin(es[j].e)}) - Cardinality({j \in 1..i - 1 : IsEnd(es[j].e)})

(* The event that opened what the i-th is in, and how many precede it in   *)
(* there.                                                                  *)
Opener(es, i) ==
  CHOOSE j \in 1..i - 1 :
    /\ IsBegin(es[j].e) /\ Depth(es, j) = Depth(es, i) - 1
    /\ \A k \in j + 1..i - 1 : Depth(es, k) >= Depth(es, i)
Place(es, i) ==
  Cardinality({k \in Opener(es, i) + 1..i - 1 : Depth(es, k) = Depth(es, i) /\ ~IsEnd(es[k].e)})

IsName(es, i) == es[Opener(es, i)].e = "begin_object" /\ Place(es, i) % 2 = 0

MayFollow(es, i) ==
  LET e == es[i].e IN
    IF Depth(es, i) = 0 THEN ~IsEnd(e) /\ e # "name"
    ELSE IF e = "end_array" THEN es[Opener(es, i)].e = "begin_array"
    ELSE IF e \in {"end_object", "name"} THEN IsName(es, i)
    ELSE ~IsName(es, i)

(* A piece of the text: an event and what separates it from the one before.*)
Piece(es, i) ==
  LET d == Depth(es, i)
      quoted == <<Q>> \o FlattenSeq([k \in 1..Len(es[i].v) |-> Escaped(es[i].v[k])]) \o <<Q>>
      before == IF i = 1 THEN "none" ELSE es[i - 1].e
      sep == CASE d = 0 -> IF i = 1 THEN <<>> ELSE mvSeparator
               [] d > 0 /\ before = "name" -> IF indent = 0 THEN <<":">> ELSE <<":", " ">>
               [] d > 0 /\ before # "name" /\ IsEnd(es[i].e) ->
                    IF IsBegin(before) THEN <<>> ELSE Newline(d - 1)
               [] OTHER -> (IF IsBegin(before) THEN <<>> ELSE <<",">>) \o Newline(d)
  IN  sep \o (IF Quoted(es[i].e) THEN quoted ELSE Bytes(es[i]))

TextOf(es) == FlattenSeq([i \in 1..Len(es) |-> Piece(es, i)])

(* What the reader is to get: the events, and an end after every value and *)
(* after the last one; and where the parser is to say each is.             *)
Done == Event("done", <<>>)
EndsValue(i) == i = Len(log) \/ Depth(log, i + 1) = 0
ToGet == FlattenSeq([i \in 1..Len(log) |-> IF EndsValue(i) THEN <<log[i], Done>> ELSE <<log[i]>>]) \o <<Done>>

Reached(k) == Cardinality({j \in 1..k : ToGet[j].e # "done"})   \* how many are events
PositionOf(k) == Len(TextOf(SubSeq(log, 1, Reached(k))))

-----------------------------------------------------------------------------
(* pdjson, for the texts that the serializer writes. *)

Char(p) == IF p \in 1..Len(Text) THEN Text[p] ELSE "eof"
Space(c) == c \in {" ", NL}

RECURSIVE SkipSpace(_)
SkipSpace(p) == IF Space(Char(p)) THEN SkipSpace(p + 1) ELSE p

(* A string from after its quote, unescaped: its value and its end.        *)
RECURSIVE ReadString(_, _)
ReadString(p, v) ==
  CASE Char(p) = Q -> [v |-> v, p |-> p + 1]
    [] Char(p) = "eof" -> [v |-> v, p |-> 0]
    [] Char(p) = BS /\ Char(p + 1) = "u" -> ReadString(p + 6, Append(v, "^A"))
    [] Char(p) = BS /\ Char(p + 1) = "n" -> ReadString(p + 2, Append(v, NL))
    [] Char(p) = BS /\ Char(p + 1) \notin {"u", "n"} -> ReadString(p + 2, Append(v, Char(p + 1)))
    [] OTHER -> ReadString(p + 1, Append(v, Char(p)))

RECURSIVE NumberEnd(_)
NumberEnd(p) == IF Char(p) \in {"1", "2"} THEN NumberEnd(p + 1) ELSE p

PdGets(e, v, p, open) ==
  [ev |-> Event(e, v), s |-> [p |-> p, open |-> open, complete |-> open = <<>>]]
PdError(s) == [ev |-> Event("error", <<>>), s |-> s]

(* A name or the begin of a value at p, where the character is c.          *)
PdBegin(s, p, c, isName, counted) ==
  LET str == ReadString(p + 1, <<>>)
      Opened(type) == Append(counted, [type |-> type, count |-> 0])
  IN  CASE c = Q -> IF str.p = 0 THEN PdError(s) ELSE PdGets(IF isName THEN "name" ELSE "string", str.v, str.p, counted)
        [] c = "[" /\ ~isName -> PdGets("begin_array", <<>>, p + 1, Opened("begin_array"))
        [] c = "{" /\ ~isName -> PdGets("begin_object", <<>>, p + 1, Opened("begin_object"))
        [] c \in {"T", "F"} /\ ~isName -> PdGets("boolean", <<c>>, p + 1, counted)
        [] c = "N" /\ ~isName -> PdGets("null", <<c>>, p + 1, counted)
        [] c \in {"1", "2"} /\ ~isName -> PdGets("number", SubSeq(Text, p, NumberEnd(p) - 1), NumberEnd(p), counted)
        [] OTHER -> PdError(s)

(* At p, where the character is c, in an object or array.                  *)
PdInside(s, p, c) ==
  LET top == s.open[Len(s.open)]
      isName == top.type = "begin_object" /\ top.count % 2 = 0
      counted == [s.open EXCEPT ![Len(s.open)].count = top.count + 1]
      need == IF top.count = 0 THEN "" ELSE IF top.type = "begin_array" \/ isName THEN "," ELSE ":"
      q == IF need = "" THEN p ELSE SkipSpace(p + 1)
  IN  IF top.type = "begin_array" /\ c = "]" THEN PdGets("end_array", <<>>, p + 1, Front(s.open))
      ELSE IF isName /\ c = "}" THEN PdGets("end_object", <<>>, p + 1, Front(s.open))
      ELSE IF need # "" /\ c # need THEN PdError(s)
      ELSE PdBegin(s, q, Char(q), isName, counted)

(* json_next(): the event, and pdjson after it.                            *)
PdNext(s) ==
  LET p == SkipSpace(s.p)
  IN  IF s.complete \/ (s.open = <<>> /\ Char(p) = "eof") THEN [ev |-> Done, s |-> s]
      ELSE IF s.open = <<>> THEN PdBegin(s, p, Char(p), FALSE, <<>>)
      ELSE PdInside(s, p, Char(p))

-----------------------------------------------------------------------------
(* json/parser.cxx *)

Parser0 ==
  [pd |-> [p |-> 1, open |-> <<>>, complete |-> FALSE],
   parsed |-> "none", peeked |-> "none",        \* the events of next() and of peek()
   raw |-> <<>>,                                \* the data of the last of them
   name |-> <<>>, value |-> <<>>, location |-> 0,
   nameP |-> FALSE, valueP |-> FALSE, locationP |-> FALSE,   \* which of these are cached
   n |-> 0, ok |-> TRUE]                        \* how many next(), and whether none failed

IsValue(e) == e \in {"string", "number", "boolean", "null"}

(* skip_separators(): whether a required one was seen, and the first other *)
(* character.                                                              *)
RECURSIVE SkipSeparators(_, _)
SkipSeparators(p, seen) ==
  IF separators = NL /\ Char(p) = NL THEN SkipSeparators(p + 1, TRUE)
  ELSE IF Space(Char(p)) THEN SkipSeparators(p + 1, seen \/ separators = "")
  ELSE [p |-> p, seen |-> seen]

(* next_impl(): in the multi-value mode separators are skipped before the  *)
(* first value and, at its end, after each.                                *)
SkipAfter(P, r) ==
  LET sep == SkipSeparators(r.s.p, separators = "null")
      ends == r.ev.e = "done" /\ P.parsed \notin {"none", "done"}
  IN  [e   |-> r.ev.e,
       raw |-> r.ev.v,
       ok  |-> r.ev.e # "error" /\ (ends => sep.seen \/ Char(sep.p) = "eof"),
       pd  |-> IF ends THEN [r.s EXCEPT !.p = sep.p, !.complete = FALSE] ELSE r.s]

NextImpl(P) ==
  LET first == IF P.parsed = "none" THEN [P.pd EXCEPT !.p = SkipSeparators(P.pd.p, FALSE).p] ELSE P.pd
  IN  SkipAfter(P, PdNext(first))

(* cache_parsed_data(), cache_parsed_location()                            *)
CacheData(P) ==
  [P EXCEPT !.nameP = P.parsed = "name", !.valueP = IsValue(P.parsed),
            !.name = IF P.parsed = "name" THEN P.raw ELSE P.name,
            !.value = IF IsValue(P.parsed) THEN P.raw ELSE P.value]
CacheLocation(P) == [P EXCEPT !.location = P.pd.p - 1, !.locationP = TRUE]

(* next() and peek(), the event of pdjson being r                          *)
Moved(P, r) == [P EXCEPT !.raw = r.raw, !.pd = r.pd, !.ok = r.ok]
Parsed(P, r) == [Moved(P, r) EXCEPT !.parsed = r.e]
Ahead(P, r) == [Moved(P, r) EXCEPT !.peeked = r.e]

Nexted(P) ==
  LET fresh == [P EXCEPT !.nameP = FALSE, !.valueP = FALSE, !.locationP = FALSE, !.n = P.n + 1]
  IN  IF P.peeked # "none" THEN [fresh EXCEPT !.parsed = P.peeked, !.peeked = "none"]
      ELSE Parsed(fresh, NextImpl(P))

(* Fault: peek() does not save the data of the event before.              *)
PeekedOver(P) ==
  IF P.peeked # "none" THEN P ELSE Ahead(CacheLocation(P), NextImpl(P))

Peeked(P) ==
  IF P.peeked # "none" THEN P
  ELSE Ahead(IF P.parsed = "none" THEN P ELSE CacheLocation(CacheData(P)), NextImpl(P))

(* next_expect_value_skip(), P being the parser after next(): after the    *)
(* begin of an object or array, up to the matching end; only the like of   *)
(* them are counted.                                                       *)
RECURSIVE SkipTo(_, _, _, _)
SkipTo(P, begin, end, n) ==
  IF ~P.ok \/ (P.parsed = end /\ n = 0) THEN P
  ELSE SkipTo(Nexted(P), begin, end,
              IF P.parsed = end THEN n - 1 ELSE IF P.parsed = begin THEN n + 1 ELSE n)

BeginsValue(e) == IsBegin(e) \/ IsValue(e)
EndOf(e) == IF e = "begin_object" THEN "end_object" ELSE "end_array"

SkipValue(P) ==
  IF P.ok /\ IsBegin(P.parsed) THEN SkipTo(Nexted(P), P.parsed, EndOf(P.parsed), 0) ELSE P

(* next_expect_name (n, skip_unknown), P being the parser after next(), up  *)
(* to where it returns or throws; and after it has skipped a value.        *)
RECURSIVE ToName(_, _, _)
RECURSIVE ToNextName(_, _, _)
ToName(P, n, unknown) ==
  LET C == IF P.nameP THEN P ELSE CacheData(P)
  IN  IF ~P.ok \/ P.parsed # "name" THEN P
      ELSE IF C.name = n \/ ~unknown THEN C
      ELSE ToNextName(SkipValue(Nexted(C)), n, unknown)
ToNextName(P, n, unknown) == IF P.ok THEN ToName(Nexted(P), n, unknown) ELSE P

-----------------------------------------------------------------------------
(* How far a skip is to get: the end of the value that starts at k, and    *)
(* the name looked for or what stands in its way.                          *)
ValueEnd(k) ==
  IF ~IsBegin(ToGet[k].e) THEN k
  ELSE CHOOSE j \in k + 1..Len(ToGet) :
         /\ IsEnd(ToGet[j].e) /\ Depth(ToGet, j) = Depth(ToGet, k) + 1
         /\ \A i \in k + 1..j - 1 : ~(IsEnd(ToGet[i].e) /\ Depth(ToGet, i) = Depth(ToGet, k) + 1)

RECURSIVE NameAt(_, _, _)
NameAt(k, n, unknown) ==
  IF ToGet[k].e # "name" \/ ToGet[k].v = n \/ ~unknown THEN k
  ELSE NameAt(ValueEnd(k + 1) + 1, n, unknown)

(* Absent events write nothing: what follows them is not read again.      *)
StartRead ==
  /\ phase = "write" /\ refused = None /\ stack = <<>> /\ mode \in ReadModes /\ absent = 0
  /\ phase' = "read"
  /\ separators' \in CASE mvSeparator = <<>> -> {"null"}
                       [] mvSeparator = <<NL>> -> {"null", "", NL}
                       [] OTHER -> {"null", ""}
  /\ UNCHANGED <<serializerVars, par, got>>

Reads(P, n, expected) ==
  /\ par' = P /\ got' = n
  /\ phase' = IF ~P.ok THEN "failed" ELSE IF expected THEN phase ELSE "thrown"
  /\ UNCHANGED <<serializerVars, separators>>

CanRead == phase = "read" /\ got < Len(ToGet)

ReadNext == CanRead /\ Reads(Nexted(par), got + 1, TRUE)

Peek == CanRead /\ par.peeked = "none" /\ Reads(Peeked(par), got, TRUE)

(* name() and value()                                                      *)
Ask ==
  /\ phase = "read" /\ par.peeked = "none"
  /\ (par.parsed = "name" /\ ~par.nameP) \/ (IsValue(par.parsed) /\ ~par.valueP)
  /\ Reads(CacheData(par), got, TRUE)

ReadSkip ==
  /\ CanRead
  /\ Reads(SkipValue(Nexted(par)), ValueEnd(got + 1), BeginsValue(ToGet[got + 1].e))

ReadName ==
  /\ CanRead
  /\ \E n \in Names, unknown \in BOOLEAN :
       LET k == NameAt(got + 1, n, unknown)
       IN  Reads(ToName(Nexted(par), n, unknown), k, ToGet[k].e = "name" /\ ToGet[k].v = n)

Init ==
  /\ SerializerInit
  /\ phase = "write" /\ separators = "null" /\ par = Parser0 /\ got = 0

Next ==
  \/ phase = "write" /\ SerializeNext /\ UNCHANGED <<phase, separators, par, got>>
  \/ StartRead \/ ReadNext \/ Peek \/ Ask \/ ReadSkip \/ ReadName

Spec == Init /\ [][Next]_vars

-----------------------------------------------------------------------------
(* What is written is the text of the events accepted, whole and in order, *)
(* whatever the buffer; every piece ends where a UTF-8 sequence does; an   *)
(* event is refused for the order of events, for a string that is not      *)
(* UTF-8, for a fixed buffer it does not fit, and for nothing else.        *)
Acceptable(ev) ==
  LET es == Append(log, ev)
  IN  IF ev.e = "absent" THEN absent < 2 /\ Depth(es, Len(es)) = 0
      ELSE absent < 2 /\ MayFollow(es, Len(es)) /\ (Quoted(ev.e) => Utf8(ev.v))

WritesText ==
  IF refused = None
  THEN /\ Text = TextOf(log)
       /\ \A i \in 1..Len(log) : MayFollow(log, i) /\ (Quoted(log[i].e) => Utf8(log[i].v))
       /\ \A i \in 1..Len(out) : Utf8(out[i])
  ELSE Acceptable(refused) => mode = "fixed" /\ Len(TextOf(Append(log, refused))) > setup.capacity

(* Two numbers with nothing between them are one.                          *)
Ambiguous ==
  /\ mvSeparator = <<>>
  /\ \E i \in 2..Len(log) : Depth(log, i) = 0 /\ log[i].e = "number" /\ log[i - 1].e = "number"

(* The parser returns the events that were serialized, an end after each   *)
(* value, and skips whole values; and name(), value() and position() are   *)
(* those of the last event of next(), and data() of the last of all, also  *)
(* after a peek().                                                         *)
Name == IF par.nameP THEN par.name ELSE par.raw
Value == IF par.valueP THEN par.value ELSE par.raw
Position == IF par.locationP THEN par.location ELSE par.pd.p - 1

ReadsBack ==
  phase # "write" /\ ~Ambiguous =>
    /\ phase # "failed" /\ par.n = got
    /\ got > 0 =>
         LET ev == ToGet[got] IN
           /\ par.parsed = ev.e
           /\ par.nameP => ev.e = "name"
           /\ par.valueP => IsValue(ev.e)
           /\ ev.e = "name" => Name = ev.v
           /\ ev.e # "null" /\ IsValue(ev.e) => Value = ev.v
           /\ ev.e # "done" => Position = PositionOf(got)
    /\ par.peeked # "none" =>
         LET ev == ToGet[got + 1] IN par.peeked = ev.e /\ (Quoted(ev.e) => par.raw = ev.v)
=============================================================================
