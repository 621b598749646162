----------------------------- MODULE PathPattern -----------------------------
(***************************************************************************)
(* Wildcard patterns of path components: path_pattern_iterator and         *)
(* path_match() of libbutl/path-pattern.cxx, on POSIX, and a definition    *)
(* of what a pattern matches to compare them with.  Names and patterns are *)
(* sequences of characters.                                                *)
(***************************************************************************)
EXTENDS Integers, Sequences, FiniteSets

CONSTANT Order  \* the characters in the order of their codes

ASSUME PathPatternAssumption ==
  /\ {"*", "?", "[", "]", "!", "-"} \subseteq {Order[i] : i \in 1..Len(Order)}
  /\ \A i, j \in 1..Len(Order) : Order[i] = Order[j] => i = j

Code(c) == CHOOSE i \in 1..Len(Order) : Order[i] = c
Start(s, n) == SubSeq(s, 1, n)
After(s, n) == SubSeq(s, n + 1, Len(s))
Least(S) == CHOOSE i \in S : \A j \in S : i <= j

-----------------------------------------------------------------------------
(* path_pattern_iterator *)

(* The position of the bracket that closes the expression at the start of  *)
(* p, or 1 if there is none: the first character, after a `!', is literal. *)
BracketEnd(p) ==
  LET first == IF Len(p) > 1 /\ p[2] = "!" THEN 3 ELSE 2
      ends == {k \in first + 1..Len(p) : p[k] = "]"}
  IN  IF p[1] # "[" \/ ends = {} THEN 1 ELSE Least(ends)

TermType(p) ==
  CASE p[1] = "*" -> "star"
    [] p[1] = "?" -> "question"
    [] BracketEnd(p) > 1 -> "bracket"
    [] OTHER -> "literal"

RECURSIVE Terms(_)
Terms(p) ==
  IF p = <<>> THEN <<>>
  ELSE <<[type |-> TermType(p), text |-> Start(p, BracketEnd(p))]>> \o Terms(After(p, BracketEnd(p)))

PathPattern(p) == \E i \in 1..Len(Terms(p)) : Terms(p)[i].type # "literal"

(* path_pattern_recursive() and path_pattern_self_matching(): n stars in a row. *)
Stars(p, n) ==
  \E i \in 1..Len(Terms(p)) :
    /\ i + n - 1 <= Len(Terms(p))
    /\ \A j \in i..i + n - 1 : Terms(p)[j].type = "star"

Recursive(p) == Stars(p, 2)
SelfMatching(p) == Stars(p, 3)

-----------------------------------------------------------------------------
(* path_match() of two names, their trailing separators apart *)

(* match_bracket(): the loop, from the i-th character of the expression on. *)
RECURSIVE Brackets(_, _, _)
Brackets(c, s, i) ==
  IF i > Len(s) THEN FALSE
  ELSE IF s[i] = "-" /\ i > 1 /\ i < Len(s)
  THEN (Code(c) > Code(s[i - 1]) /\ Code(c) <= Code(s[i + 1])) \/ Brackets(c, s, i + 2)
  ELSE c = s[i] \/ Brackets(c, s, i + 1)

(* Fault: the exclamation mark is also a member of the expression.          *)
MatchBracketBang(c, text) ==
  LET inner == SubSeq(text, 2, Len(text) - 1)
  IN  Brackets(c, inner, 1) # (inner[1] = "!")

MatchBracket(c, text) ==
  LET inner == SubSeq(text, 2, Len(text) - 1)
      invert == inner[1] = "!"
  IN  Brackets(c, IF invert THEN Tail(inner) ELSE inner, 1) # invert

MatchTerm(c, t) ==
  CASE t.type \in {"star", "question"} -> TRUE
    [] t.type = "bracket" -> MatchBracket(c, t.text)
    [] t.type = "literal" -> c = t.text[1]

MatchChar(c, pc) == c = pc \/ pc = "?"

(* How many characters at the start and at the end of p are not stars.     *)
Prefix(p) == Least({i \in 0..Len(p) : i = Len(p) \/ p[i + 1] = "*"})
Suffix(p) == Least({i \in 0..Len(p) : i = Len(p) \/ p[Len(p) - i] = "*"})

Lesser(i, j) == IF i < j THEN i ELSE j

(* match_no_brackets(): the suffix after the last star, the prefix before   *)
(* the first one, and by backtracking what is between the two.             *)
RECURSIVE MatchNoBrackets(_, _)
MatchNoBrackets(p, n) ==
  LET s == Suffix(p)
      m == Lesser(s, Len(n))
      pp == Start(p, Len(p) - s)
      nn == Start(n, Len(n) - s)
      h == Prefix(pp)
      k == Lesser(h, Len(nn))
  IN  IF \E i \in 0..m - 1 : ~MatchChar(n[Len(n) - i], p[Len(p) - i]) THEN FALSE
      ELSE IF s = Len(p) THEN Len(n) = s
      ELSE IF m < s THEN FALSE
      ELSE IF \E i \in 1..k : ~MatchChar(nn[i], pp[i]) THEN FALSE
      ELSE IF k < h THEN FALSE
      ELSE IF h + 1 = Len(pp) THEN TRUE
      ELSE \E i \in h..Len(nn) : MatchNoBrackets(After(pp, h + 1), After(nn, i))

(* match(): the terms up to the first star, and by backtracking the rest.  *)
RECURSIVE Match(_, _)
Match(p, n) ==
  LET ts == Terms(p)
      h == Least({i \in 0..Len(ts) : i = Len(ts) \/ ts[i + 1].type = "star"})
      k == Lesser(h, Len(n))
      rest[i \in 0..Len(ts)] == IF i = 0 THEN p ELSE After(rest[i - 1], Len(ts[i].text))
  IN  IF \A i \in 1..Len(p) : p[i] # "[" THEN MatchNoBrackets(p, n)
      ELSE IF \E i \in 1..k : ~MatchTerm(n[i], ts[i]) THEN FALSE
      ELSE IF h = Len(ts) THEN Len(n) = h
      ELSE IF k < h THEN FALSE
      ELSE IF h + 1 = Len(ts) THEN TRUE
      ELSE \E i \in h..Len(n) : Match(rest[h + 1], After(n, i))

(* A directory matches the pattern of a directory, with its separator.     *)
PathMatch(n, dir, p, ofDir) == dir = ofDir /\ Match(p, n)

-----------------------------------------------------------------------------
(* What a pattern means: the comment in path-pattern.hxx and, for bracket  *)
(* expressions, POSIX, which leaves out ranges that share an endpoint or   *)
(* go backwards.                                                           *)
Letters == {Order[i] : i \in 1..Len(Order)}

RECURSIVE Expressed(_)
Expressed(s) ==
  IF s = <<>> THEN {}
  ELSE IF Len(s) > 2 /\ s[2] = "-"
  THEN {c \in Letters : Code(s[1]) <= Code(c) /\ Code(c) <= Code(s[3])} \cup Expressed(After(s, 3))
  ELSE {s[1]} \cup Expressed(Tail(s))

Means(t) ==
  CASE t.type = "question" -> Letters
    [] t.type = "literal" -> {t.text[1]}
    [] t.type = "bracket" ->
         LET inner == SubSeq(t.text, 2, Len(t.text) - 1)
         IN  IF inner[1] = "!" THEN Letters \ Expressed(Tail(inner)) ELSE Expressed(inner)

RECURSIVE Spells(_, _)
Spells(ts, n) ==
  IF ts = <<>> THEN n = <<>>
  ELSE IF ts[1].type = "star" THEN \E i \in 0..Len(n) : Spells(Tail(ts), After(n, i))
  ELSE n # <<>> /\ n[1] \in Means(ts[1]) /\ Spells(Tail(ts), Tail(n))

Matches(n, p) == Spells(Terms(p), n)
=============================================================================
