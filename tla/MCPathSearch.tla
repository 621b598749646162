---------------------------- MODULE MCPathSearch ----------------------------
(* Small instances of PathSearch. *)
EXTENDS PathSearch

A == <<"a">>
B == <<"a", "b">>
MCNames == {A, B}
MCOrder == <<"!", "*", "-", "?", "[", "]", "a", "b">>

(* The names that name patterns are tried on: up to three characters of    *)
(* all kinds, and four that are plain.  The patterns: all of up to four     *)
(* characters, and some with ranges.                                       *)
MCSamples == SeqOf({"a", "b", "]", "!"}, 3) \cup SeqOf({"a", "b"}, 4)
Ranges ==
  {<<"[", "]", "-", "a", "]">>, <<"[", "!", "a", "-", "b", "]">>, <<"[", "-", "a", "]">>,
   <<"[", "a", "-", "]">>, <<"*", "[", "a", "-", "b", "]", "*", "b">>,
   <<"a", "*", "[", "*", "]", "*", "a">>, <<"*", "a", "*", "b", "?", "*">>, <<"*", "a", "b", "*", "a">>}
NamePatterns == (SeqOf({"a", "b", "*", "?", "[", "]", "!"}, 4) \ {<<>>}) \cup Ranges

Simplest == {A, <<"*">>, <<"*", "*">>}
Comps == Simplest \cup {<<"a", "?">>, <<"*", "*", "b">>, <<"*", "*", "*">>, <<"a", "*", "*", "*">>}
Patterns(C) == {[comps |-> cs, dir |-> d] : cs \in SeqOf(C, 2) \ {<<>>}, d \in BOOLEAN}

(* Entries a, ab, and, below a if it is a directory or a link, a and ab.    *)
Tree(x, y, z) ==
  [q \in Paths |->
     CASE q = <<A>> -> x [] q = <<B>> -> y
       [] x \in {"dir", "link"} /\ q = <<A, A>> -> y
       [] x \in {"dir", "link"} /\ q = <<A, B>> -> z
       [] OTHER -> "none"]
Empty == [q \in Paths |-> "none"]
Entries == {Path(q, d) : q \in Paths, d \in BOOLEAN}
None == Path(<<>>, FALSE)

Job(on, p, t, e) ==
  [on |-> on, pattern |-> p, tree |-> t, entry |-> e, follow |-> TRUE, typed |-> TRUE, absent |-> FALSE,
   refuse |-> {}, enough |-> {}, dangling |-> "none", victim |-> <<>>]

Searches ==
  {[Job("real", p, Tree(x, y, z), None) EXCEPT !.absent = absent, !.refuse = refuse] :
     p \in Patterns(Comps), x, z \in {"none", "file", "dir"}, y \in {"file", "dir"}, absent \in BOOLEAN, refuse \in {{}, {<<A>>}}}
EntrySearches ==
  {[Job("entry", p, Empty, e) EXCEPT !.absent = absent, !.refuse = refuse] :
     p \in Patterns(Comps), e \in Entries, absent \in BOOLEAN, refuse \in {{}, {<<A>>}}}
LinkSearches ==
  {[Job("real", p, Tree("link", y, "dir"), None) EXCEPT !.follow = f[1], !.dangling = f[2], !.enough = enough] :
     p \in Patterns(Simplest), y \in {"link", "dangling"}, enough \in {{}, {<<A, B>>}},
     f \in {<<TRUE, "skip">>, <<TRUE, "stop">>, <<TRUE, "none">>, <<FALSE, "none">>}}
Races ==
  {[Job("real", p, Tree(x, "dir", "dir"), None) EXCEPT !.victim = victim, !.follow = f[1], !.typed = f[2]] :
     p \in Patterns(Simplest), x \in {"dir", "link"}, victim \in {<<A>>, <<A, B>>},
     f \in {<<TRUE, TRUE>>, <<FALSE, TRUE>>, <<FALSE, FALSE>>}}
Filters == {Job("names", [comps |-> <<p>>, dir |-> FALSE], Empty, None) : p \in NamePatterns}

MCJobs == Searches \cup EntrySearches \cup LinkSearches \cup Races \cup Filters
=============================================================================
