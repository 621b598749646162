----------------------------- MODULE PathSearch ------------------------------
(***************************************************************************)
(* path_search() of libbutl/filesystem.cxx: search() over the real file    *)
(* system (recursive_dir_iterator) and over the tree that consists of one  *)
(* entry (path_iterator), by frames, one for each call of search().  Each  *)
(* call of func is a step or a part of one, and so is each entry that is   *)
(* read from a directory; in between, another process can remove entries.  *)
(* Besides, the filtering of names by one pattern.                         *)
(*                                                                         *)
(* A path is a sequence of names and whether it ends with a separator, a   *)
(* pattern the same with name patterns (see PathPattern).  All paths are   *)
(* relative to the start directory.                                        *)
(***************************************************************************)
EXTENDS PathPattern, SequencesExt

CONSTANTS
  Names,      \* the names of entries
  Depth,      \* bound: of the tree
  StartLeaf,  \* the name of the start directory
  Jobs,       \* the searches, see Init
  Samples     \* the names that name patterns are tried on

VARIABLES
  job,      \* what is searched, where, with which flags and callbacks
  tree,     \* the entries
  stack,    \* the frames, the innermost one last
  calls,    \* history: the calls of func
  matched,  \* the names a single name pattern has matched
  result    \* "run", "ok" (true), "stopped" (false) or "threw"

vars == <<job, tree, stack, calls, matched, result>>

Paths == SeqOf(Names, Depth) \ {<<>>}
Path(names, dir) == [names |-> names, dir |-> dir]
AnyDir == <<"*">>

-----------------------------------------------------------------------------
(* The tree: "none", "file", "dir", "link" (to a directory, whose entries   *)
(* are below it) or "dangling".                                            *)

(* An entry seen with or without following symlinks.                       *)
Seen(type, follow) ==
  CASE follow /\ type = "link" -> "dir"
    [] follow /\ type = "dangling" -> "unknown"
    [] ~follow /\ type \in {"link", "dangling"} -> "symlink"
    [] OTHER -> type

Types == {"file", "dir", "symlink", "unknown"}

TypeAt(t, q, follow) == IF q = <<>> THEN "dir" ELSE Seen(t[q], follow)
Children(q) == [n \in Names |-> IF Len(q) < Depth THEN tree[Append(q, n)] ELSE "none"]

-----------------------------------------------------------------------------
(* Frames and calls *)

Top == Last(stack)
At(at) == result = "run" /\ stack # <<>> /\ Top.at = at
SetTop(f) == stack' = Append(Front(stack), f)

Frame(pattern, dir) ==
  [pattern |-> pattern, dir |-> dir, at |-> "begin", iters |-> <<>>, path |-> Path(<<>>, FALSE),
   i |-> 0, recursive |-> FALSE, self |-> FALSE, p |-> Path(<<>>, FALSE)]

Component == Head(Top.pattern.comps)
Simple == Len(Top.pattern.comps) = 1
ComponentIsDir == ~Simple \/ Top.pattern.dir
Follow == job.follow \/ ~Simple

Call(path, pattern, interm) == [path |-> path, pattern |-> pattern, interm |-> interm]
Accepts(c) == c.path.names \notin IF c.interm THEN job.refuse ELSE job.enough
Calling(c) == calls' = Append(calls, c)

(* The call of search() returns true, or false, which all the others do too. *)
Return ==
  /\ stack' = Front(stack)
  /\ result' = IF Len(stack) = 1 THEN "ok" ELSE result

Stop(why) == stack' = <<>> /\ result' = why

(* The pattern without its consecutive stars.                              *)
RECURSIVE Collapsed(_)
Collapsed(ts) ==
  IF ts = <<>> THEN <<>>
  ELSE IF Len(ts) > 1 /\ ts[1].type = "star" /\ ts[2].type = "star" THEN Collapsed(Tail(ts))
  ELSE ts[1].text \o Collapsed(Tail(ts))

Canonical == Collapsed(Terms(Component))

-----------------------------------------------------------------------------
(* search(): its beginning *)

(* path_entry() of the file system, real or of one entry.                  *)
Exists(path) ==
  IF job.on = "real"
  THEN /\ path.names \in Paths
       /\ TypeAt(tree, path.names, job.follow) \notin {"none", "unknown"}
       /\ (TypeAt(tree, path.names, job.follow) = "dir") = path.dir
  ELSE /\ IsPrefix(path.names, job.entry.names)
       /\ (path.names # job.entry.names \/ job.entry.dir) = path.dir

(* The leftmost components without wildcards become a part of the          *)
(* directory; if all are, the entry just has to exist.                     *)
Begin ==
  /\ At("begin") /\ job.on # "names"
  /\ LET pattern == Top.pattern
         comps == pattern.comps
         k == Least({i \in 0..Len(comps) : i = Len(comps) \/ PathPattern(comps[i + 1])})
         to == Top.dir \o Start(comps, k)
         path == Path(to, IF comps = <<>> THEN TRUE ELSE pattern.dir)
     IN  IF k = Len(comps)
         THEN LET c == Call(path, <<>>, FALSE)
              IN  /\ IF Exists(path) THEN Calling(c) ELSE UNCHANGED calls
                  /\ IF Exists(path) /\ ~Accepts(c) THEN Stop("stopped") ELSE Return
         ELSE /\ SetTop([Top EXCEPT !.pattern.comps = After(comps, k), !.dir = to, !.at = "open"])
              /\ UNCHANGED <<calls, result>>
  /\ UNCHANGED <<job, tree, matched>>

-----------------------------------------------------------------------------
(* recursive_dir_iterator *)

(* Fault: a directory that does not exist ends the iteration.               *)
OpeningEnds(f, rel, ask) ==
  LET q == f.dir \o rel
      exists == q = <<>> \/ (q \in Paths /\ TypeAt(tree, q, TRUE) = "dir")
  IN  /\ IF ask THEN Calling(Call(Path(q, TRUE), AnyDir, TRUE)) ELSE UNCHANGED calls
      /\ SetTop([f EXCEPT !.at = "next",
                   !.iters = IF exists THEN Append(@, [rel |-> rel, left |-> Children(q)]) ELSE <<>>])

(* open(): preopen() is asked before; if it refuses the directory counts   *)
(* as empty, and one that does not exist is skipped.                       *)
Opening(f, rel, ask) ==
  LET c == Call(Path(f.dir \o rel, TRUE), AnyDir, TRUE)
      q == f.dir \o rel
      entries == IF q = <<>> \/ (q \in Paths /\ TypeAt(tree, q, TRUE) = "dir")
                 THEN <<[rel |-> rel, left |-> Children(q)]>> ELSE <<>>
      refused == <<[rel |-> rel, left |-> [n \in Names |-> "none"]]>>
  IN  /\ IF ask THEN Calling(c) ELSE UNCHANGED calls
      /\ SetTop([f EXCEPT !.at = "next", !.iters = @ \o IF ask /\ ~Accepts(c) THEN refused ELSE entries])

OpenReal ==
  /\ At("open") /\ job.on = "real"
  /\ Opening([Top EXCEPT !.recursive = Recursive(Component), !.self = SelfMatching(Component)],
             <<>>, SelfMatching(Component))
  /\ UNCHANGED <<job, tree, matched, result>>

Dir == Last(Top.iters)
Advanced(n) == [Top EXCEPT !.iters = Append(Front(@), [Dir EXCEPT !.left[n] = "none"])]

(* What an iterator makes of an entry: the type the directory had for it,  *)
(* but a symlink that is gone when its target is looked for looks dangling. *)
Resolved(n) ==
  LET gone == tree[Top.dir \o Append(Dir.rel, n)] = "none"
  IN  {Seen(Dir.left[n], Follow)}
         \cup (IF gone /\ Follow /\ Dir.left[n] = "link" THEN {"unknown"} ELSE {})

(* Fault: a directory is returned when it is opened.                        *)
NextFirst ==
  /\ At("next") /\ job.on = "real" /\ Top.iters # <<>>
  /\ \E n \in {m \in Names : Dir.left[m] # "none"} :
       LET rel == Append(Dir.rel, n)
           dir == Seen(Dir.left[n], Follow) = "dir"
           below == <<[rel |-> rel, left |-> Children(Top.dir \o rel)]>>
       IN  SetTop([Advanced(n) EXCEPT !.at = "got", !.p = Path(rel, dir),
                     !.iters = @ \o IF dir /\ Top.recursive THEN below ELSE <<>>])
  /\ UNCHANGED <<job, tree, calls, matched, result>>

(* next(): an entry, in any order.  One that is gone by now may be missing, *)
(* or its type unavailable if the directory did not tell; a dangling        *)
(* symlink is skipped, or ends the search; a directory is opened first if   *)
(* recursive.                                                              *)
NextEntry ==
  /\ At("next") /\ job.on = "real" /\ Top.iters # <<>>
  /\ \E n \in {m \in Names : Dir.left[m] # "none"}, type \in Types :
       LET rel == Append(Dir.rel, n)
       IN  /\ type \in Resolved(n)
           /\ \/ /\ tree[Top.dir \o rel] = "none" /\ UNCHANGED calls
                 /\ \/ SetTop(Advanced(n)) /\ UNCHANGED result
                    \/ ~Follow /\ ~job.typed /\ Stop("threw")
              \/ /\ type = "unknown" /\ UNCHANGED calls
                 /\ CASE job.dangling = "skip" -> SetTop(Advanced(n)) /\ UNCHANGED result
                      [] job.dangling = "stop" -> Stop("stopped")
                      [] job.dangling = "none" -> Stop("threw")
              \/ /\ type = "dir" /\ Top.recursive
                 /\ Opening(Advanced(n), rel, TRUE) /\ UNCHANGED result
              \/ /\ type # "unknown" /\ ~(type = "dir" /\ Top.recursive)
                 /\ SetTop([Advanced(n) EXCEPT !.at = "got", !.p = Path(rel, type = "dir")])
                 /\ UNCHANGED <<calls, result>>
  /\ UNCHANGED <<job, tree, matched>>

(* The end of a directory: it is returned itself, the first one only if    *)
(* self-matching.                                                          *)
EndOfDir ==
  /\ At("next") /\ job.on = "real" /\ Top.iters # <<>>
  /\ \A n \in Names : Dir.left[n] = "none"
  /\ LET f == [Top EXCEPT !.iters = Front(@)]
     IN  SetTop(IF f.iters = <<>> /\ ~f.self
                THEN [f EXCEPT !.at = "end"]
                ELSE [f EXCEPT !.at = "got", !.p = Path(Dir.rel, Dir.rel # <<>>)])
  /\ UNCHANGED <<job, tree, calls, matched, result>>

NoMore ==
  /\ At("next") /\ job.on = "real" /\ Top.iters = <<>>
  /\ SetTop([Top EXCEPT !.at = "end"])
  /\ UNCHANGED <<job, tree, calls, matched, result>>

-----------------------------------------------------------------------------
(* path_iterator, over the rest of the entry's path *)

(* open(), in the constructor and in next().                               *)
Descend(f, rel, ask) ==
  LET c == Call(Path(f.dir \o rel, TRUE), AnyDir, TRUE)
      go == ~(ask /\ ~Accepts(c))
      i == IF go /\ f.i < Len(f.path.names) THEN f.i + 1 ELSE f.i
  IN  /\ IF ask THEN Calling(c) ELSE UNCHANGED calls
      /\ SetTop([f EXCEPT !.at = "next", !.i = i,
                   !.recursive = @ /\ go /\ i < Len(f.path.names)])

OpenEntry ==
  /\ At("open") /\ job.on = "entry"
  /\ LET self == SelfMatching(Component)
         f == [Top EXCEPT !.recursive = Recursive(Component), !.self = self,
                 !.path = Path(After(job.entry.names, Len(Top.dir)), job.entry.dir)]
     IN  IF IsPrefix(Top.dir, job.entry.names)
         THEN Descend(f, <<>>, self)
         ELSE /\ SetTop([Top EXCEPT !.at = "next"])
              /\ IF self THEN Calling(Call(Path(Top.dir, TRUE), AnyDir, TRUE)) ELSE UNCHANGED calls
  /\ UNCHANGED <<job, tree, matched, result>>

NextOfEntry ==
  /\ At("next") /\ job.on = "entry"
  /\ LET rel == Start(Top.path.names, Top.i)
         dir == Top.i < Len(Top.path.names) \/ Top.path.dir
     IN  CASE Top.i = 0 /\ Top.self -> SetTop([Top EXCEPT !.self = FALSE, !.at = "got", !.p = Path(<<>>, FALSE)]) /\ UNCHANGED calls
           [] Top.i = 0 /\ ~Top.self -> SetTop([Top EXCEPT !.at = "end"]) /\ UNCHANGED calls
           [] Top.i > 0 /\ Top.recursive /\ dir -> Descend(Top, rel, TRUE)
           [] OTHER -> SetTop([Top EXCEPT !.i = @ - 1, !.at = "got", !.p = Path(rel, dir)]) /\ UNCHANGED calls
  /\ UNCHANGED <<job, tree, matched, result>>

-----------------------------------------------------------------------------
(* search(): its loop and its end *)

(* The name that is matched is that of the directory itself if the         *)
(* iterator has returned the empty path.                                   *)
Matched ==
  LET leaf == IF Top.p.names # <<>> THEN Last(Top.p.names)
              ELSE IF Top.dir # <<>> THEN Last(Top.dir) ELSE StartLeaf
  IN  PathMatch(leaf, Top.p.dir \/ Top.p.names = <<>>, Canonical, ComponentIsDir)

Got ==
  /\ At("got")
  /\ LET to == Top.dir \o Top.p.names
         c == Call(Path(to, Top.p.dir \/ Top.p.names = <<>>), Canonical, ~Simple)
         f == [Top EXCEPT !.at = "next"]
         rest == [Top.pattern EXCEPT !.comps = Tail(@)]
     IN  IF ~Matched
         THEN SetTop(f) /\ UNCHANGED <<calls, result>>
         ELSE /\ Calling(c)
              /\ CASE Accepts(c) /\ ~Simple ->
                        stack' = Append(Front(stack), f) \o <<Frame(rest, to)>> /\ UNCHANGED result
                   [] ~Accepts(c) /\ Simple -> Stop("stopped")
                   [] OTHER -> SetTop(f) /\ UNCHANGED result
  /\ UNCHANGED <<job, tree, matched>>

(* Fault: an absent component also at the start of the only pattern.       *)
AbsentAnywhere ==
  job.absent /\ ComponentIsDir /\ \A i \in 1..Len(Component) : Component[i] = "*"

(* match_absent: the component may be missing if it is nothing but stars.   *)
Absent == AbsentAnywhere /\ (Top.dir # <<>> \/ ~Simple)

End ==
  /\ At("end")
  /\ IF Absent
     THEN stack' = Append(Front(stack), Frame([Top.pattern EXCEPT !.comps = Tail(@)], Top.dir)) /\ UNCHANGED result
     ELSE Return
  /\ UNCHANGED <<job, tree, calls, matched>>

-----------------------------------------------------------------------------
(* path_match() of names: the caller filters the samples.                   *)
FilterNames ==
  /\ At("begin") /\ job.on = "names"
  /\ matched' = {n \in Samples : PathMatch(n, FALSE, Component, FALSE)}
  /\ stack' = <<>> /\ result' = "ok"
  /\ UNCHANGED <<job, tree, calls>>

-----------------------------------------------------------------------------
(* Another process removes an entry and all below it.                      *)
RemoveEntry ==
  /\ result = "run" /\ job.victim # <<>> /\ tree[job.victim] # "none"
  /\ tree' = [q \in Paths |-> IF IsPrefix(job.victim, q) THEN "none" ELSE tree[q]]
  /\ UNCHANGED <<job, stack, calls, matched, result>>

Init ==
  /\ job \in Jobs
  /\ tree = job.tree
  /\ stack = <<Frame(job.pattern, <<>>)>>
  /\ calls = <<>> /\ matched = {} /\ result = "run"

Done == result # "run" /\ UNCHANGED vars

Search ==
  Begin \/ OpenReal \/ NextEntry \/ EndOfDir \/ NoMore \/ OpenEntry \/ NextOfEntry \/ Got \/ End \/ FilterNames

Next == Search \/ RemoveEntry \/ Done

Spec == Init /\ [][Next]_vars

-----------------------------------------------------------------------------
(* What a search finds: the comments on path_search() and path_match_flags. *)

IsDirAt(t, q) == TypeAt(t, q, TRUE) = "dir"

(* What the component c of a pattern, the last one or not, for directories  *)
(* or not, matches in and below the directory d of the tree t: a name, an  *)
(* entry of d, or of its subdirectories too, or d itself.  The callback    *)
(* may have refused to enter a directory.                                  *)
Reached(t, c, last, ofDir, d) ==
  LET follow == job.follow \/ ~last
      Fits(q) ==
        /\ TypeAt(t, q, follow) \notin {"none", "unknown"}
        /\ (TypeAt(t, q, follow) = "dir") = ofDir
        /\ ~last /\ PathPattern(c) => q \notin job.refuse
      Entered(u, w) ==
        /\ u # <<>> => TypeAt(t, d \o u, follow) = "dir"
        /\ u # <<>> \/ SelfMatching(c) => d \o u \notin job.refuse
      below == {w \in Paths :
                  /\ d \o w \in Paths
                  /\ Len(w) = 1 \/ Recursive(c)
                  /\ \A k \in 0..Len(w) - 1 : Entered(Start(w, k), w)
                  /\ Matches(Last(w), c)}
      itself == SelfMatching(c) /\ Matches(IF d = <<>> THEN StartLeaf ELSE Last(d), c)
  IN  IF ~IsDirAt(t, d) THEN {}
      ELSE IF ~PathPattern(c) THEN {q \in {Append(d, c)} \cap Paths : Fits(q)}
      ELSE {q \in {d \o w : w \in below} \cup (IF itself THEN {d} ELSE {}) : Fits(q)}

(* The ways to match the components comps one after the other, from d on:   *)
(* sequences of paths, one for each component.                             *)
RECURSIVE Ways(_, _, _)
Ways(t, comps, d) ==
  LET last == Len(comps) = 1
      ofDir == ~last \/ job.pattern.dir
      stars == \A i \in 1..Len(comps[1]) : comps[1][i] = "*"
      Via(q, absent) == {<<[at |-> q, absent |-> absent]>> \o w : w \in Ways(t, Tail(comps), q)}
      missing == /\ job.absent /\ ofDir /\ stars /\ ~(d = <<>> /\ last)
                 /\ last => TypeAt(t, d, job.follow) = "dir"
  IN  IF comps = <<>> THEN {<<>>}
      ELSE UNION {Via(q, FALSE) : q \in Reached(t, comps[1], last, ofDir, d)}
             \cup (IF missing THEN Via(d, TRUE) ELSE {})

Count(t, q) == Cardinality({w \in Ways(t, job.pattern.comps, <<>>) : Last(w).at = q})

Finals == SelectSeq(calls, LAMBDA c : ~c.interm)
Found(q) == Cardinality({i \in DOMAIN Finals : Finals[i].path.names = q})

(* The tree that has one entry only.                                       *)
EntryTree ==
  [q \in Paths |-> IF ~IsPrefix(q, job.entry.names) THEN "none"
                   ELSE IF q # job.entry.names \/ job.entry.dir THEN "dir" ELSE "file"]

Without(t, v) == [q \in Paths |-> IF IsPrefix(v, q) THEN "none" ELSE t[q]]

(* A directory pattern that the path of a file has matched.                *)
FileTaken(q) == job.on = "entry" /\ q = job.entry.names /\ ~job.entry.dir /\ job.pattern.dir

(* A missing directory that the callback refused to enter, which counts as *)
(* an empty one: a self-matching pattern matches it.                       *)
MissingTaken(q) == job.on = "real" /\ job.pattern.dir /\ q \in job.refuse /\ ~IsDirAt(job.tree, q)

Finds(q) == Found(q) = Count(IF job.on = "real" THEN job.tree ELSE EntryTree, q)

(* A search that is not stopped calls the function for every entry of the   *)
(* tree that matches the pattern, once for each way to match it, and for   *)
(* nothing else; and so does the search of an entry, for the tree that     *)
(* consists of it.                                                         *)
FindsAll ==
  result = "ok" /\ job.on # "names" /\ job.victim = <<>> =>
    \A q \in Paths \cup {<<>>} : FileTaken(q) \/ MissingTaken(q) \/ Finds(q)

(* Entries that are removed during a search are found or not ("we should   *)
(* consider a racing condition"), but all others still are, and the search *)
(* does not fail, unless a symlink is gone before its target is looked for *)
(* or a type is to be found out of an entry that is gone.                  *)
RaceTolerated ==
  LET before == job.tree
      after == Without(before, job.victim)
      link == \E q \in Paths : IsPrefix(job.victim, q) /\ before[q] = "link"
  IN  job.on = "real" /\ job.victim # <<>> =>
        /\ result = "ok" =>
             \A q \in Paths \cup {<<>>} :
               MissingTaken(q) \/ (Count(after, q) <= Found(q) /\ Found(q) <= Count(before, q))
        /\ result = "threw" => link \/ ~job.typed

(* "Recursive iterating goes depth-first, which makes sense for the        *)
(* cleanup use cases": a path is not reported before what is below it.     *)
(* With several recursive components, or a component left out, it can be:   *)
(* it is found again from another start.                                   *)
DepthFirst ==
  /\ ~job.absent
  /\ Cardinality({i \in DOMAIN job.pattern.comps : Recursive(job.pattern.comps[i])}) = 1
  => \A i, j \in DOMAIN Finals :
       i < j => ~IsStrictPrefix(Finals[i].path.names, Finals[j].path.names)

(* path_match() takes exactly the names that its pattern spells: its        *)
(* matching from both ends, its reduction of patterns without brackets and *)
(* its backtracking make no difference.  (What the terms of a pattern are  *)
(* is the same for both, see Terms.)                                       *)
MatchRight ==
  job.on = "names" /\ result = "ok" =>
    matched = {n \in Samples : Matches(n, job.pattern.comps[1])}
=============================================================================
