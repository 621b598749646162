---------------------------- MODULE ManifestText ----------------------------
(* The text form of a manifest: manifest-serializer.cxx writes it,         *)
(* manifest-parser.cxx reads it back. A text is a sequence of characters   *)
(* (one-character strings), each of which stands for a code point; the     *)
(* UTF-8 validation is left out. Positions count from 1 and the end of the *)
(* text is the position after its last character.                          *)
(*                                                                         *)
(* The format leaves a lot to get wrong: a backslash at the end of a line  *)
(* joins lines, a backslash alone on a line opens and closes a multi-line  *)
(* value, long lines are broken where the writer sees fit, and a line of   *)
(* backslashes and a semicolon is escaped once more for comments.          *)
EXTENDS Integers, Sequences

CONSTANTS
  Width,      \* 77: where a line is broken
  NearEnd,    \* 57: a space past it is a good place to break
  MaxOffset   \* 39: a name that ends past it makes the value multi-line

(* A line is never broken before the first character of a value: it would  *)
(* be read as the introducer of a multi-line value.                        *)
ASSUME WidthAssumption ==
  Width \in Nat /\ NearEnd \in 0..Width - 1 /\ MaxOffset \in 0..NearEnd

NL == "\n"
CR == "\r"
BS == "\\"
EOS == "eos"                               \* what peek() returns at the end

At(t, p) == IF p \in 1..Len(t) THEN t[p] ELSE EOS
From(t, p) == SubSeq(t, p, Len(t))
Blank(c) == c \in {" ", "\t"}
EndsLine(c) == c \in {NL, EOS}
SomeIn(t, cs) == \E i \in 1..Len(t) : t[i] \in cs

(***************************************************************************)
(* manifest_serializer                                                     *)
(***************************************************************************)

(* The next blank of the line after position i, or its end.                *)
NextBlank(s, i) ==
  CHOOSE w \in i + 1..Len(s) + 1 :
    /\ w = Len(s) + 1 \/ Blank(s[w])
    /\ \A u \in i + 1..w - 1 : ~Blank(s[u])

(* Fault: a line may be broken after a backslash, which then escapes the   *)
(* one that is to join the lines.                                          *)
BreaksAnywhere(s, i, cl) == cl >= Width

(* Whether write_value() breaks the line before the i-th character when it *)
(* has written cl characters of the line: before a blank if the next blank *)
(* is too far, and anywhere at Width, but for the last character.          *)
Breaks(s, i, cl) ==
  LET limit(last) == IF last THEN Width + 1 ELSE Width
      w == NextBlank(s, i)
  IN  /\ i = 1 \/ s[i - 1] # BS
      /\ \/ Blank(s[i]) /\ cl + (w - i) > limit(w = Len(s) + 1) /\ cl > NearEnd
         \/ cl >= limit(i = Len(s))

(* write_value (s, n, cl): one line of a value, from column cl.            *)
WriteLine(s, cl) ==
  LET written[i \in 0..Len(s)] ==
        IF i = 0 THEN [out |-> <<>>, cl |-> cl]
        ELSE LET r == written[i - 1]
                 br == Breaks(s, i, r.cl)
             IN  [out |-> r.out \o (IF br THEN <<BS, NL>> ELSE <<>>) \o <<s[i]>>,
                  cl  |-> (IF br THEN 0 ELSE r.cl) + 1]
  IN  written[Len(s)].out \o (IF s # <<>> /\ s[Len(s)] = BS THEN <<BS>> ELSE <<>>)

(* The lines of a value, each ended by one of ends or by "\r\n".           *)
RECURSIVE LinesEnded(_, _)
LinesEnded(v, ends) ==
  IF ~SomeIn(v, ends) THEN <<v>>
  ELSE LET p == CHOOSE i \in 1..Len(v) : v[i] \in ends /\ ~SomeIn(SubSeq(v, 1, i - 1), ends)
           n == IF v[p] = CR /\ At(v, p + 1) = NL THEN p + 2 ELSE p + 1
       IN  <<SubSeq(v, 1, p - 1)>> \o LinesEnded(From(v, n), ends)

Lines(v) == LinesEnded(v, {NL, CR})

RECURSIVE Join(_)
Join(ls) == IF Len(ls) = 0 THEN <<>>
            ELSE IF Len(ls) = 1 THEN ls[1] ELSE ls[1] \o <<NL>> \o Join(Tail(ls))

NeedsMultiLine(v, cl) ==
  \/ cl + 1 > MaxOffset
  \/ SomeIn(v, {NL, CR})
  \/ Blank(v[1]) \/ Blank(v[Len(v)])

(* write_value (v, cl): a value after its name and colon, cl characters.   *)
WriteValue(v, cl) ==
  IF NeedsMultiLine(v, cl)
  THEN <<NL, BS, NL>>
       \o Join([i \in 1..Len(Lines(v)) |-> WriteLine(Lines(v)[i], 0)])
       \o <<NL, BS>>
  ELSE <<" ">> \o WriteLine(v, cl + 1)

(* The line write_next() and insert() write for a pair, without its end.   *)
WritePair(n, v, cl) == n \o <<":">> \o (IF v = <<>> THEN <<>> ELSE WriteValue(v, cl))

(* A line of backslashes and a final semicolon.                            *)
SemicolonLine(l) ==
  l # <<>> /\ l[Len(l)] = ";" /\ \A i \in 1..Len(l) - 1 : l[i] = BS

Backslashes(n) == [i \in 1..n |-> BS]

RECURSIVE Escape(_)
Escape(v) == IF v = <<>> THEN <<>>
             ELSE (IF v[1] \in {";", BS} THEN <<BS>> ELSE <<>>) \o <<v[1]>> \o Escape(Tail(v))

(* merge_comment()                                                         *)
MergeComment(v, c) ==
  IF ~SomeIn(v, {NL}) /\ ~SomeIn(c, {NL})
  THEN Escape(v) \o (IF c = <<>> THEN <<>> ELSE <<";", " ">> \o c)
  ELSE LET ls == LinesEnded(v, {NL})
           escaped(l) == IF ~SemicolonLine(l) THEN l
                         ELSE Backslashes(IF Len(l) = 1 THEN 1 ELSE Len(l) - 1) \o l
           r == Join([i \in 1..Len(ls) |-> escaped(ls[i])])
       IN  IF c = <<>> THEN r
           ELSE r \o (IF r = <<>> THEN <<>> ELSE <<NL>>) \o <<";", NL>> \o c

(***************************************************************************)
(* manifest_parser                                                         *)
(***************************************************************************)

(* split_comment() of a value of one line: the value up to an unescaped    *)
(* semicolon, without its trailing blanks, and what follows the blanks.    *)
RECURSIVE TrimRight(_), TrimLeft(_)
TrimRight(v) == IF v # <<>> /\ Blank(v[Len(v)]) THEN TrimRight(SubSeq(v, 1, Len(v) - 1)) ELSE v
TrimLeft(v) == IF v # <<>> /\ Blank(v[1]) THEN TrimLeft(Tail(v)) ELSE v

RECURSIVE Unescape(_, _, _)
Unescape(v, i, r) ==
  IF At(v, i) \in {EOS, ";"}
  THEN [value |-> TrimRight(r), comment |-> TrimLeft(From(v, i + 1))]
  ELSE IF v[i] = BS /\ At(v, i + 1) \in {";", BS}
  THEN Unescape(v, i + 2, Append(r, v[i + 1]))
  ELSE Unescape(v, i + 1, Append(r, v[i]))

(* Fault: the separator is looked for after the lines are unescaped.       *)
SplitCommentUnescaped(v) ==
  IF ~SomeIn(v, {NL}) THEN Unescape(v, 1, <<>>)
  ELSE LET ls == LinesEnded(v, {NL})
           plain(l) == IF SemicolonLine(l) THEN From(l, Len(l) \div 2 + 1) ELSE l
           seps == {i \in 1..Len(ls) : plain(ls[i]) = <<";">>}
           sep == IF seps = {} THEN Len(ls) + 1
                  ELSE CHOOSE i \in seps : \A j \in seps : i <= j
       IN  [value   |-> Join([i \in 1..sep - 1 |-> plain(ls[i])]),
            comment |-> Join(From(ls, sep + 1))]

SplitComment(v) ==
  IF ~SomeIn(v, {NL}) THEN Unescape(v, 1, <<>>)
  ELSE LET ls == LinesEnded(v, {NL})
           seps == {i \in 1..Len(ls) : ls[i] = <<";">>}
           sep == IF seps = {} THEN Len(ls) + 1
                  ELSE CHOOSE i \in seps : \A j \in seps : i <= j
           plain(l) == IF SemicolonLine(l) THEN From(l, Len(l) \div 2 + 1) ELSE l
       IN  [value   |-> Join([i \in 1..sep - 1 |-> plain(ls[i])]),
            comment |-> Join(From(ls, sep + 1))]

(* skip_spaces(): blanks, and from the start of a line empty lines and     *)
(* comments too; with it the start of the line the result is on.           *)
RECURSIVE SkipSpaces(_, _, _, _)
SkipSpaces(t, p, start, lp) ==
  LET c == At(t, p)
      eol == CHOOSE e \in p..Len(t) + 1 : EndsLine(At(t, e)) /\ ~SomeIn(SubSeq(t, p, e - 1), {NL})
  IN  IF Blank(c) THEN SkipSpaces(t, p + 1, start, lp)
      ELSE IF c = NL /\ start THEN SkipSpaces(t, p + 1, start, p + 1)
      ELSE IF c = "#" /\ start THEN SkipSpaces(t, eol, start, lp)
      ELSE [p |-> p, lp |-> lp]

(* parse_name(): up to a colon, a blank or the end of the line.            *)
NameEnd(t, p) ==
  CHOOSE e \in p..Len(t) + 1 :
    /\ EndsLine(At(t, e)) \/ Blank(At(t, e)) \/ At(t, e) = ":"
    /\ ~SomeIn(SubSeq(t, p, e - 1), {":", " ", "\t", NL})

(* The loop of parse_value() at position p: ml in the multi-line mode, nl  *)
(* after a newline of the introducer or of an escape sequence, v the value *)
(* and n its length without trailing blanks.                               *)
RECURSIVE ParseLoop(_, _, _, _, _, _)
ParseLoop(t, p, ml, nl, v, n) ==
  LET c  == At(t, p)
      c1 == At(t, p + 1)
      c2 == At(t, p + 2)
      past(q) == IF q > Len(t) + 1 THEN Len(t) + 1 ELSE q
      done(q) == [value |-> IF ml THEN v ELSE SubSeq(v, 1, n), end |-> q]
      add(x, q, m) == ParseLoop(t, past(q), ml, FALSE, Append(v, x), m)
      len == Len(v) + 1
  IN  CASE c = EOS -> done(p)
        [] nl /\ c = BS /\ EndsLine(c1) ->
             IF ml THEN done(past(p + 1)) ELSE add(NL, p + 2, len)
        [] c = NL /\ ml /\ c1 = BS ->
             IF EndsLine(c2) THEN done(past(p + 2)) ELSE add(NL, p + 1, n)
        [] c = NL /\ ~ml -> done(p)
        [] c = BS /\ ~nl /\ EndsLine(c1) ->
             ParseLoop(t, past(p + 2), ml, c1 = NL, v, n)
        [] c = BS /\ c1 = BS -> add(BS, IF c2 = NL THEN p + 2 ELSE p + 1, len)
        [] OTHER -> add(c, p + 1, IF ~ml /\ ~Blank(c) THEN len ELSE n)

(* parse_value(): a backslash alone on the line of the name, or on the     *)
(* next one, introduces a multi-line value.                                *)
ParseValue(t, p) ==
  LET intro(q) == At(t, q) = BS /\ EndsLine(At(t, q + 1))
      after(q) == IF q + 2 > Len(t) + 1 THEN Len(t) + 1 ELSE q + 2
  IN  IF intro(p) THEN ParseLoop(t, after(p), TRUE, TRUE, <<>>, 0)
      ELSE IF At(t, p) = NL /\ intro(p + 1) THEN ParseLoop(t, after(p + 1), TRUE, TRUE, <<>>, 0)
      ELSE ParseLoop(t, p, FALSE, FALSE, <<>>, 0)
=============================================================================
