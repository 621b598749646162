----------------------------- MODULE MCManifest -----------------------------
(* Small alphabets and hand-written manifests for Manifest. *)
EXTENDS Manifest, TLC

Chars(s) == [i \in 1..Len(s) |-> SubSeq(s, i, i)]
Upto(S, n) == UNION {[1..k -> S] : k \in 0..n}

MCNames == {Chars("n"), Chars("nnn")}
MCValues ==
  Upto({"a", " ", BS, NL}, 3) \cup Upto({BS, CR, NL}, 3) \cup Upto({";", BS, NL}, 3)
    \cup [1..4 -> {"a", BS, NL}]
    \cup {Chars(" aaa") \o v : v \in [1..3 -> {"a", " ", BS}]}
MCFewValues == {Chars("\\")}
MCNewValues == {Chars(s) : s \in {"", " a", "\\", ":a\n", "#a", "aaaaa"}}
MCRemarks == {Chars(s) : s \in {"", ";a", "a\n"}}
MCComments == {Chars("a:")}

MCHandWritten ==
  {Chars(s) : s \in {
    ":1\n",
    ":1\n# c\n# c\n a : b \n# c\n\nc:d\n",
    " :1\n\n#c\n  nn :b\\\\\nc:",
    ":1\na:\\\nx\ny\n\\\nb: c",
    ":1\na: \n\\\nx\\\ny\n\n\\\nb: c\\\n\\\nd\n#e"}}
=============================================================================
