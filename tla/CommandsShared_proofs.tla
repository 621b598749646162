----------------------- MODULE CommandsShared_proofs ------------------------
(***************************************************************************)
(* Proofs about commands that work on the same tree at the same time: those*)
(* that create only add, those that make paths do not fail because of each *)
(* other, those that clean up leave nothing, and all of them tell the truth*)
(* about their success.  Each rests on an invariant of the calls of all    *)
(* processes.                                                              *)
(***************************************************************************)
EXTENDS Commands_proofs

(* Calls of a set are calls of a larger one. *)
LEMMA CallsGrow ==
  ASSUME NEW S, NEW T, S \subseteq T, NEW calls, NEW res, CallsOf(S, calls, res)
  PROVE  CallsOf(T, calls, res)
<1>1. Seq(S) \subseteq Seq(T)
  OBVIOUS
<1> QED BY <1>1 DEF CallsOf

-----------------------------------------------------------------------------
(* Every inode that is in use has a name, but for the root. *)
Used(f) == \A i \in Ids \ {Root} : f[i].type # "none" => Linked(f, i)

(* Adding an entry for a new inode only adds, ... *)
LEMMA AddsGrown ==
  ASSUME TreeOK(node), Used(node), NEW path, Last(path) \in Names, NEW i, NEW g, NEW what,
         Adds(g, path, i, what)
  PROVE  Grown(node, g) /\ Used(g)
<1> DEFINE d == Parent(path)
<1>1. node[i].type = "none"
  BY DEF Adds, Used
<1>2. \A n \in Names : node[d].sub[n] # Nil => g[d].sub[n] = node[d].sub[n]
  BY DEF Adds
<1>3. Grown(node, g)
  BY <1>1, <1>2 DEF Adds, Grown
<1>4. Nil \notin Ids
  BY CommandsAssumption
<1>5. ASSUME NEW j \in Ids, Linked(node, j) PROVE Linked(g, j)
  <2>1. PICK e \in Ids, n \in Names : node[e].type = "dir" /\ node[e].sub[n] = j
    BY <1>5 DEF Linked
  <2>2. g[e].type = "dir" /\ g[e].sub[n] = j
    BY <1>3, <1>4, <2>1 DEF Grown
  <2> QED BY <2>2 DEF Linked
<1>6. Linked(g, i)
  BY DEF Adds, Linked
<1>7. ASSUME NEW j \in Ids \ {Root}, g[j].type # "none" PROVE Linked(g, j)
  <2>1. j = i \/ node[j].type # "none"
    BY <1>7 DEF Adds
  <2> QED BY <1>5, <1>6, <2>1 DEF Used
<1> QED BY <1>3, <1>7 DEF Used

(* ... and so does another name. *)
LEMMA PutGrown ==
  ASSUME TreeOK(node), Used(node), NEW path \in Seq(Names), Vacant(path), NEW i \in Refs
  PROVE  Grown(node, Put(path, i)) /\ Used(Put(path, i))
<1> DEFINE d == Parent(path)
           g == Put(path, i)
<1>1. d \in Ids /\ node[d].type = "dir" /\ node[d].sub[Last(path)] = Nil /\ Last(path) \in Names
  BY VacantIs DEF TreeOK
<1>2. /\ g[d].type = "dir"
      /\ \A n \in Names : g[d].sub[n] = IF n = Last(path) THEN i ELSE node[d].sub[n]
      /\ \A j \in Ids \ {d} : g[j] = node[j]
      /\ \A j \in Ids : g[j].type = node[j].type
  BY <1>1, PutIs DEF TreeOK
<1> HIDE DEF g, d
<1>3. Grown(node, g)
  BY <1>1, <1>2 DEF Grown
<1>4. Nil \notin Ids
  BY CommandsAssumption
<1>5. ASSUME NEW j \in Ids, Linked(node, j) PROVE Linked(g, j)
  <2>1. PICK e \in Ids, n \in Names : node[e].type = "dir" /\ node[e].sub[n] = j
    BY <1>5 DEF Linked
  <2>2. g[e].type = "dir" /\ g[e].sub[n] = j
    BY <1>3, <1>4, <2>1 DEF Grown
  <2> QED BY <2>2 DEF Linked
<1>6. Used(g)
  BY <1>2, <1>5 DEF Used
<1> QED BY <1>3, <1>6 DEF g

(* The calls of commands that create, on the tree g: no error is ignored,   *)
(* what is copied file by file must not exist yet, and is a file, so that  *)
(* no copy is given up and removed.                                        *)
Plain ==
  {"mkdir_p", "try_mkdir_p", "mkdir", "exists", "touch", "utimes", "create", "target", "symlink", "link",
   "cpdir", "cp_open"}

Reading == {"cp_next", "cp_type", "cp_follow"}

(* The directory that is read is the one at the path it was opened at, and *)
(* its entries still are of the types that readdir() may tell.             *)
Reads(g, f) ==
  /\ DerefIn(g, LstatIn(g, f.from)) = f.dir /\ TypeIn(g, f.dir) = "dir"
  /\ \A n \in Names : f.had[n] # "none" => TypeIn(g, ChildIn(g, f.dir, n)) = f.had[n]

Creating(g) ==
  {f \in Good :
     /\ ~f.ignore
     /\ \/ f.at \in Plain
        \/ f.at \in Reading /\ Reads(g, f)
        \/ f.at = "cp_source" /\ f.new /\ TypeIn(g, DerefIn(g, LstatIn(g, f.from))) = "file"
        \/ f.at = "cp_file" /\ f.new /\ TypeIn(g, f.src) = "file"}

Creators == \A p \in Procs : Creates(cmd[p])

CreatorsInv == Creators => Used(node) /\ CallsOf(Creating(node), stack, result)

(* What others add does not disturb such calls. *)
LEMMA CreatingGrows ==
  ASSUME node \in [Ids -> Inodes], NEW g \in [Ids -> Inodes], Grown(node, g)
  PROVE  Creating(node) \subseteq Creating(g)
<1> SUFFICES ASSUME NEW f \in Creating(node) PROVE f \in Creating(g)
  OBVIOUS
<1>1. f.from \in Seq(Names) /\ f.src \in Refs
  BY DEF Creating, Good, Frames
<1>2. TypeIn(node, DerefIn(node, LstatIn(node, f.from))) = "file" =>
        TypeIn(g, DerefIn(g, LstatIn(g, f.from))) = "file"
  BY <1>1, GrownStat
<1>3. TypeIn(node, f.src) = "file" => TypeIn(g, f.src) = "file"
  BY <1>1, GrownChild
<1>4. ASSUME Reads(node, f) PROVE Reads(g, f)
  <2> DEFINE d == f.dir
  <2>1. d = DerefIn(node, LstatIn(node, f.from)) /\ TypeIn(node, d) = "dir"
        /\ \A n \in Names : f.had[n] # "none" => TypeIn(node, ChildIn(node, d, n)) = f.had[n]
    BY <1>4 DEF Reads
  <2>2. d = DerefIn(g, LstatIn(g, f.from)) /\ TypeIn(g, d) = "dir"
    BY <1>1, <2>1, GrownStat
  <2>3. d \in Refs
    BY <1>1, <2>1, LstatIs, DerefType
  <2>4. ASSUME NEW n \in Names, f.had[n] # "none" PROVE TypeIn(g, ChildIn(g, d, n)) = f.had[n]
    <3>1. TypeIn(node, ChildIn(node, d, n)) = f.had[n] /\ ChildIn(node, d, n) \in Refs
      BY <2>1, <2>3, <2>4, ChildType
    <3>2. ChildIn(node, d, n) # Nil
      BY <2>4, <3>1, NilLeadsNowhere
    <3>3. ChildIn(g, d, n) = ChildIn(node, d, n)
      BY <2>3, <3>2, GrownChild
    <3> QED BY <2>4, <3>1, <3>3, GrownChild
  <2> QED BY <2>2, <2>4 DEF Reads
<1> QED BY <1>2, <1>3, <1>4 DEF Creating

(* An error of a command that creates ends it. *)
LEMMA CreatorThrows ==
  ASSUME CallsOf(Creating(node), stack, result), NEW p \in Procs, result[p] = "run", Throw(p)
  PROVE  CallsOf(Creating(node), stack', result')
<1>1. Top(p) \in Creating(node)
  BY StackSteps
<1>2. ~Top(p).ignore
  BY <1>1 DEF Creating
<1> QED BY <1>2, ThrowSteps

(* The steps of mkdir and try_mkdir_p() only add, ... *)
LEMMA CreatorMakesDir ==
  ASSUME TypeOK, TypeOK', NEW p \in Procs, MakeDir(p),
         Used(node), CallsOf(Creating(node), stack, result)
  PROVE  Grown(node, node') /\ Used(node') /\ CallsOf(Creating(node), stack', result')
<1> DEFINE S == Creating(node)
<1>1. result[p] = "run"
  BY DEF MakeDir, MkdirP, TryMkdirP, TryMkdir, AlreadyExists, At
<1>2. /\ CallsOf(Good, stack, result) /\ Top(p) \in Frames /\ Top(p).path \in Seq(Names)
      /\ node \in [Ids -> Inodes] /\ TreeOK(node)
  BY <1>1, TopIs
<1>3. Top(p) \in S
  BY <1>1, StackSteps
<1>4. CallsOf(Good, stack', result')
  BY MakeDirTypes
<1>5. Return(p) => CallsOf(S, stack', result')
  BY <1>1, StackSteps
<1>6. Throw(p) => CallsOf(S, stack', result')
  BY <1>1, CreatorThrows
<1>7. Tree => Grown(node, node') /\ Used(node')
  BY <1>2, GrownRefl DEF Tree
<1>8. ASSUME NEW at \in Plain, SetTop(p, [Top(p) EXCEPT !.at = at]), Continue
      PROVE  CallsOf(S, stack', result')
  <2> DEFINE f == [Top(p) EXCEPT !.at = at]
  <2>1. f \in Good
    BY <1>1, <1>2, <1>4, <1>8, SetFrames
  <2>2. f.at = at /\ f.ignore = Top(p).ignore
    BY <1>2 DEF Frames
  <2> HIDE DEF f
  <2>3. f \in S
    BY <1>3, <2>1, <2>2 DEF Creating
  <2> QED BY <1>1, <1>8, <2>3, StackSteps DEF f
<1>9. ASSUME NEW at \in Plain, NEW path, CallFrom(p, "mkdir", Frame(at, path)), Continue
      PROVE  CallsOf(S, stack', result')
  <2> DEFINE f == [Top(p) EXCEPT !.at = "mkdir"]
             g == Frame(at, path)
  <2>1. f.at = "mkdir" /\ f.ignore = Top(p).ignore
    BY <1>2 DEF Frames
  <2>2. g.at = at /\ ~g.ignore
    BY DEF Frame
  <2>3. stack' = [stack EXCEPT ![p] = Append(Front(@), f) \o <<g>>]
    BY <1>9 DEF CallFrom
  <2> HIDE DEF f, g
  <2>4. f \in Good /\ g \in Good
    BY <1>1, <1>2, <1>4, <2>3, SetFrames
  <2>5. f \in S /\ g \in S
    BY <1>3, <2>1, <2>2, <2>4 DEF Creating, Plain
  <2> QED BY <1>1, <1>9, <2>3, <2>5, StackSteps
<1> HIDE DEF S
<1>10. CASE MkdirP(p)
  <2>1. Tree /\ (Return(p) \/ (CallFrom(p, "mkdir", Frame("mkdir_p", Front(Top(p).path))) /\ Continue))
    BY <1>10, Zenon DEF MkdirP
  <2> QED BY <1>5, <1>7, <1>9, <2>1 DEF Plain, S
<1>11. CASE TryMkdirP(p)
  <2>1. Tree /\ Continue
    BY <1>11 DEF TryMkdirP
  <2>2. \/ SetTop(p, [Top(p) EXCEPT !.at = "mkdir"])
        \/ CallFrom(p, "mkdir", Frame("try_mkdir_p", Front(Top(p).path)))
    BY <1>11 DEF TryMkdirP, GoTo
  <2> QED BY <1>7, <1>8, <1>9, <2>1, <2>2 DEF Plain, S
<1>12. CASE TryMkdir(p)
  <2>1. CASE Vacant(Top(p).path)
    <3>1. Make(Top(p).path, EmptyDir) /\ Return(p)
      BY <1>12, <2>1 DEF TryMkdir
    <3>2. Grown(node, node') /\ Used(node')
      BY <1>2, <2>1, <3>1, MakeAdds, AddsGrown, NewInodes, VacantIs
    <3> QED BY <1>5, <3>1, <3>2 DEF S
  <2>2. CASE ~Vacant(Top(p).path)
    <3>1. Tree /\ (Throw(p) \/ (SetTop(p, [Top(p) EXCEPT !.at = "exists"]) /\ Continue))
      BY <1>12, <2>2 DEF TryMkdir, GoTo
    <3> QED BY <1>6, <1>7, <1>8, <3>1 DEF Plain, S
  <2> QED BY <2>1, <2>2
<1>13. CASE AlreadyExists(p)
  <2>1. Tree /\ (Return(p) \/ Throw(p))
    BY <1>13 DEF AlreadyExists
  <2> QED BY <1>5, <1>6, <1>7, <2>1 DEF S
<1> QED BY <1>10, <1>11, <1>12, <1>13 DEF MakeDir

(* ... so do those of touch, ... *)
LEMMA CreatorTouches ==
  ASSUME TypeOK, NEW p \in Procs, TouchFile(p),
         Used(node), CallsOf(Creating(node), stack, result)
  PROVE  Grown(node, node') /\ Used(node') /\ CallsOf(Creating(node), stack', result')
<1> DEFINE S == Creating(node)
<1>1. result[p] = "run"
  BY DEF TouchFile, Touch, Utimes, CreateFile, At
<1>2. /\ CallsOf(Good, stack, result) /\ Top(p) \in Frames /\ Top(p).path \in Seq(Names)
      /\ node \in [Ids -> Inodes] /\ TreeOK(node)
  BY <1>1, TopIs
<1>3. Top(p) \in S
  BY <1>1, StackSteps
<1>4. CallsOf(Good, stack', result')
  BY TouchFileTypes
<1>5. Return(p) => CallsOf(S, stack', result')
  BY <1>1, StackSteps
<1>6. Throw(p) => CallsOf(S, stack', result')
  BY <1>1, CreatorThrows
<1>7. Tree => Grown(node, node') /\ Used(node')
  BY <1>2, GrownRefl DEF Tree
<1>8. ASSUME NEW at \in Plain, SetTop(p, [Top(p) EXCEPT !.at = at]), Continue
      PROVE  CallsOf(S, stack', result')
  <2> DEFINE f == [Top(p) EXCEPT !.at = at]
  <2>1. f \in Good
    BY <1>1, <1>2, <1>4, <1>8, SetFrames
  <2>2. f.at = at /\ f.ignore = Top(p).ignore
    BY <1>2 DEF Frames
  <2> HIDE DEF f
  <2>3. f \in S
    BY <1>3, <2>1, <2>2 DEF Creating
  <2> QED BY <1>1, <1>8, <2>3, StackSteps DEF f
<1> HIDE DEF S
<1>9. CASE Touch(p)
  <2>1. Tree /\ (Throw(p) \/ \E at \in {"utimes", "create"} : SetTop(p, [Top(p) EXCEPT !.at = at]) /\ Continue)
    BY <1>9 DEF Touch, GoTo
  <2> QED BY <1>6, <1>7, <1>8, <2>1 DEF Plain, S
<1>10. CASE Utimes(p)
  <2>1. Tree /\ (Return(p) \/ Throw(p))
    BY <1>10 DEF Utimes
  <2> QED BY <1>5, <1>6, <1>7, <2>1 DEF S
<1>11. CASE CreateFile(p)
  <2> DEFINE path == Target(Top(p).path)
  <2>1. path \in Seq(Names)
    BY <1>2, TargetIs
  <2>2. CASE Creatable(Top(p).path, path)
    <3>1. Make(path, File("")) /\ Return(p)
      BY <1>11, <2>2 DEF CreateFile
    <3>2. File("") \in Inodes
      BY NewInodes, CommandsAssumption
    <3> HIDE DEF path
    <3>3. Vacant(path)
      BY <2>2 DEF Creatable
    <3>4. Grown(node, node') /\ Used(node')
      BY <1>2, <2>1, <3>1, <3>2, <3>3, MakeAdds, AddsGrown, VacantIs
    <3> QED BY <1>5, <3>1, <3>4 DEF S
  <2>3. CASE ~Creatable(Top(p).path, path)
    <3>1. Tree /\ (Return(p) \/ Throw(p))
      BY <1>11, <2>3 DEF CreateFile
    <3> QED BY <1>5, <1>6, <1>7, <3>1 DEF S
  <2> QED BY <2>2, <2>3
<1> QED BY <1>9, <1>10, <1>11 DEF TouchFile

(* ... of ln, with its fallbacks, ... *)
LEMMA CreatorLinks ==
  ASSUME TypeOK, NEW p \in Procs, Ln(p),
         Used(node), CallsOf(Creating(node), stack, result)
  PROVE  Grown(node, node') /\ Used(node') /\ CallsOf(Creating(node), stack', result')
<1> DEFINE S == Creating(node)
<1>1. result[p] = "run"
  BY DEF Ln, LinkTarget, MkSymlink, MkHardlink, At
<1>2. /\ CallsOf(Good, stack, result) /\ Top(p) \in Frames
      /\ Top(p).path \in Seq(Names) /\ Top(p).from \in Seq(Names)
      /\ node \in [Ids -> Inodes] /\ TreeOK(node)
  BY <1>1, TopIs
<1>3. Top(p) \in S
  BY <1>1, StackSteps
<1>4. CallsOf(Good, stack', result')
  BY LnTypes
<1>5. Return(p) => CallsOf(S, stack', result')
  BY <1>1, StackSteps
<1>6. Throw(p) => CallsOf(S, stack', result')
  BY <1>1, CreatorThrows
<1>7. Tree => Grown(node, node') /\ Used(node')
  BY <1>2, GrownRefl DEF Tree
<1>8. ASSUME NEW at \in Plain, SetTop(p, [Top(p) EXCEPT !.at = at]), Continue
      PROVE  CallsOf(S, stack', result')
  <2> DEFINE f == [Top(p) EXCEPT !.at = at]
  <2>1. f \in Good
    BY <1>1, <1>2, <1>4, <1>8, SetFrames
  <2>2. f.at = at /\ f.ignore = Top(p).ignore
    BY <1>2 DEF Frames
  <2> HIDE DEF f
  <2>3. f \in S
    BY <1>3, <2>1, <2>2 DEF Creating
  <2> QED BY <1>1, <1>8, <2>3, StackSteps DEF f
<1> HIDE DEF S
<1>9. CASE LinkTarget(p)
  <2>1. Tree /\ (Throw(p) \/ \E at \in {"symlink", "link"} : SetTop(p, [Top(p) EXCEPT !.at = at]) /\ Continue)
    BY <1>9 DEF LinkTarget, GoTo
  <2> QED BY <1>6, <1>7, <1>8, <2>1 DEF Plain, S
<1>10. CASE MkSymlink(p)
  <2>1. \/ Tree /\ (Throw(p) \/ (SetTop(p, [Top(p) EXCEPT !.at = "link"]) /\ Continue))
        \/ Vacant(Top(p).path) /\ Make(Top(p).path, Link(Top(p).from)) /\ Return(p)
    BY <1>10 DEF MkSymlink, GoTo
  <2>2. CASE Tree /\ (Throw(p) \/ (SetTop(p, [Top(p) EXCEPT !.at = "link"]) /\ Continue))
    BY <1>6, <1>7, <1>8, <2>2 DEF Plain, S
  <2>3. CASE Vacant(Top(p).path) /\ Make(Top(p).path, Link(Top(p).from)) /\ Return(p)
    <3>1. Link(Top(p).from) \in Inodes
      BY <1>2, NewInodes
    <3>2. Grown(node, node') /\ Used(node')
      BY <1>2, <2>3, <3>1, MakeAdds, AddsGrown, VacantIs
    <3> QED BY <1>5, <2>3, <3>2 DEF S
  <2> QED BY <2>1, <2>2, <2>3
<1>11. CASE MkHardlink(p)
  <2> DEFINE i == Lstat(Top(p).from)
  <2>1. \/ Tree /\ (Throw(p) \/ (SetTop(p, [Top(p) EXCEPT !.at = "cpdir"]) /\ Continue))
        \/ Vacant(Top(p).path) /\ node' = Put(Top(p).path, i) /\ Return(p)
    BY <1>11 DEF MkHardlink, GoTo
  <2>2. CASE Tree /\ (Throw(p) \/ (SetTop(p, [Top(p) EXCEPT !.at = "cpdir"]) /\ Continue))
    BY <1>6, <1>7, <1>8, <2>2 DEF Plain, S
  <2>3. CASE Vacant(Top(p).path) /\ node' = Put(Top(p).path, i) /\ Return(p)
    <3>1. i \in Refs
      BY <1>2, LstatIs DEF Lstat
    <3>2. Grown(node, node') /\ Used(node')
      BY <1>2, <2>3, <3>1, PutGrown
    <3> QED BY <1>5, <2>3, <3>2 DEF S
  <2> QED BY <2>1, <2>2, <2>3
<1> QED BY <1>9, <1>10, <1>11 DEF Ln

(* ... of cp -r, when it goes on to an entry, ... *)
LEMMA CopyCreates ==
  ASSUME TypeOK, NEW p \in Procs, result[p] = "run", CallsOf(Creating(node), stack, result),
         CallsOf(Good, stack', result'), Top(p).at \in Reading,
         NEW n \in Names, NEW t \in {"file", "dir"}, t = "file" => TypeOf(Stat(Append(Top(p).from, n))) = "file",
         CopyEntry(p, n, t), Continue
  PROVE  CallsOf(Creating(node), stack', result')
<1> DEFINE S == Creating(node)
           from == Append(Top(p).from, n)
           to == Append(Top(p).path, n)
           at == IF t = "dir" THEN "cpdir" ELSE "cp_source"
           frame == [Top(p) EXCEPT !.at = "cp_next", !.entry = Nil, !.seen = @ \cup {n}]
           call == [Copying(at, from, to) EXCEPT !.new = TRUE]
<1>1. CallsOf(Good, stack, result) /\ Top(p) \in Frames /\ Top(p) \in S
  BY TopIs, StackSteps
<1>2. stack' = [stack EXCEPT ![p] = Append(Front(@), frame) \o <<call>>]
  BY Zenon DEF CopyEntry
<1>3. /\ frame.at = "cp_next" /\ frame.ignore = Top(p).ignore
      /\ frame.from = Top(p).from /\ frame.dir = Top(p).dir /\ frame.had = Top(p).had
  BY <1>1 DEF Frames
<1>4. call.at = at /\ ~call.ignore /\ call.new /\ call.from = from
  BY DEF Copying, Frame
<1> HIDE DEF frame, call
<1>5. frame \in Good /\ call \in Good
  BY <1>1, <1>2, SetFrames
<1>6. Reads(node, Top(p)) /\ ~Top(p).ignore
  BY <1>1 DEF Creating, Plain, Reading
<1>7. frame \in S
  <2>1. Reads(node, frame)
    BY <1>3, <1>6 DEF Reads
  <2> QED BY <1>3, <1>5, <1>6, <2>1 DEF Creating, Reading
<1>8. call \in S
  <2>1. CASE t = "dir"
    BY <1>4, <1>5, <2>1 DEF Creating, Plain
  <2>2. CASE t = "file"
    <3>1. TypeIn(node, DerefIn(node, LstatIn(node, call.from))) = "file"
      BY <1>4, <2>2 DEF TypeOf, Stat, Lstat
    <3> QED BY <1>4, <1>5, <2>2, <3>1 DEF Creating
  <2> QED BY <2>1, <2>2
<1> QED BY <1>2, <1>7, <1>8, StackSteps

(* ... and in all other steps. *)
LEMMA CreatorCopies ==
  ASSUME TypeOK, NEW p \in Procs, Cp(p),
         Used(node), CallsOf(Creating(node), stack, result)
  PROVE  Grown(node, node') /\ Used(node') /\ CallsOf(Creating(node), stack', result')
<1> DEFINE S == Creating(node)
<1>1. result[p] = "run"
  BY DEF Cp, CpDir, CpOpenDir, CpNext, CpEntry, CpEnd, CpSource, CpFile, CpUndo, At
<1>2. /\ CallsOf(Good, stack, result) /\ Top(p) \in Frames /\ FrameOK(Top(p))
      /\ Top(p).path \in Seq(Names) /\ Top(p).from \in Seq(Names) /\ Top(p).src \in Refs
      /\ node \in [Ids -> Inodes] /\ TreeOK(node)
  BY <1>1, TopIs
<1>3. Top(p) \in S
  BY <1>1, StackSteps
<1>4. CallsOf(Good, stack', result')
  BY CpTypes
<1>5. Return(p) => CallsOf(S, stack', result')
  BY <1>1, StackSteps
<1>6. Throw(p) => CallsOf(S, stack', result')
  BY <1>1, CreatorThrows
<1>7. Tree => Grown(node, node') /\ Used(node')
  BY <1>2, GrownRefl DEF Tree
<1>8. ASSUME NEW f, f.at \in Plain, f.ignore = Top(p).ignore, SetTop(p, f), Continue
      PROVE  CallsOf(S, stack', result')
  <2>1. f \in Good
    BY <1>1, <1>2, <1>4, <1>8, SetFrames
  <2>2. f \in S
    BY <1>3, <1>8, <2>1 DEF Creating
  <2> QED BY <1>1, <1>8, <2>2, StackSteps
<1>9. CASE CpDir(p)
  <2> DEFINE f == [Top(p) EXCEPT !.at = "cp_open"]
             g == [Frame("mkdir", Top(p).path) EXCEPT !.new = TRUE]
  <2>1. Tree /\ Continue /\ stack' = [stack EXCEPT ![p] = Append(Front(@), f) \o <<g>>]
    BY <1>9 DEF CpDir, CallFrom
  <2>2. f.at = "cp_open" /\ f.ignore = Top(p).ignore
    BY <1>2 DEF Frames
  <2>3. g.at = "mkdir" /\ ~g.ignore
    BY DEF Frame
  <2> HIDE DEF f, g
  <2>4. f \in Good /\ g \in Good
    BY <1>1, <1>2, <1>4, <2>1, SetFrames
  <2>5. f \in S /\ g \in S
    BY <1>3, <2>2, <2>3, <2>4 DEF Creating, Plain
  <2> QED BY <1>1, <1>7, <2>1, <2>5, StackSteps
<1>17. ASSUME NEW f, f.at \in Reading, f.ignore = Top(p).ignore, Reads(node, f), SetTop(p, f), Continue
       PROVE  CallsOf(S, stack', result')
  <2>1. f \in Good
    BY <1>1, <1>2, <1>4, <1>17, SetFrames
  <2>2. f \in S
    BY <1>3, <1>17, <2>1 DEF Creating
  <2> QED BY <1>1, <1>17, <2>2, StackSteps
<1>18. ASSUME Top(p).at \in Reading, NEW at \in Reading, NEW f \in Frames, f.at = at,
              f.from = Top(p).from /\ f.dir = Top(p).dir /\ f.had = Top(p).had /\ f.ignore = Top(p).ignore,
              SetTop(p, f), Continue
       PROVE  CallsOf(S, stack', result')
  <2>1. Reads(node, Top(p))
    BY <1>3, <1>18 DEF Creating, Plain, Reading
  <2>2. Reads(node, f)
    BY <1>18, <2>1 DEF Reads
  <2> QED BY <1>17, <1>18, <2>2
<1>10. CASE CpOpenDir(p)
  <2> DEFINE f == Opened(p, "cp_next", Top(p).from)
  <2>1. Tree /\ (Throw(p) \/ (DirExists(Top(p).from) /\ SetTop(p, f) /\ Continue))
    BY <1>10 DEF CpOpenDir
  <2>2. f.at = "cp_next" /\ f.ignore = Top(p).ignore
    BY <1>2, OpenedTypes DEF Steps
  <2>3. ASSUME DirExists(Top(p).from) PROVE Reads(node, f)
    <3>1. /\ f.from = Top(p).from /\ f.dir = Stat(Top(p).from)
          /\ f.had = [n \in Names |-> TypeOf(Child(Stat(Top(p).from), n))]
      BY <1>2 DEF Opened, Frames
    <3>2. TypeOf(Stat(Top(p).from)) = "dir"
      BY <2>3 DEF DirExists, IsDirIn, Stat, TypeOf, Lstat
    <3> HIDE DEF f
    <3> QED BY <3>1, <3>2 DEF Reads, Stat, Lstat, TypeOf, Child
  <2> HIDE DEF S, f
  <2> QED BY <1>6, <1>7, <1>17, <2>1, <2>2, <2>3 DEF Reading, S
<1>11. CASE CpNext(p)
  <2>1. Tree /\ Continue /\ Top(p).at = "cp_next"
    BY <1>11 DEF CpNext, At
  <2>2. PICK e \in Entries(Top(p)) :
          IF fs.types /\ e[2] # "link"
          THEN CopyEntry(p, e[1], e[2])
          ELSE SetTop(p, [Top(p) EXCEPT !.at = IF fs.types THEN "cp_follow" ELSE "cp_type", !.entry = e[1]])
    BY <1>11 DEF CpNext
  <2> DEFINE n == e[1]
  <2>3. /\ n \in Names /\ e[2] \in {"file", "dir", "link"}
        /\ e[2] = Top(p).had[n] \/ e[2] = TypeOf(Child(Top(p).dir, n))
    BY DEF Entries
  <2>4. CASE e[2] # "link" /\ CopyEntry(p, n, e[2])
    <3>1. Reads(node, Top(p))
      BY <1>3, <2>1 DEF Creating, Plain, Reading
    <3>2. TypeIn(node, ChildIn(node, Top(p).dir, n)) = e[2]
      BY <2>3, <3>1 DEF Reads, TypeOf, Child
    <3>3. LstatIn(node, Append(Top(p).from, n)) = ChildIn(node, Top(p).dir, n)
      BY <1>2, <2>3, <3>1, LstatIs DEF Reads
    <3>4. e[2] = "file" => TypeOf(Stat(Append(Top(p).from, n))) = "file"
      BY <3>2, <3>3 DEF Stat, Lstat, TypeOf, DerefIn
    <3> QED BY <1>1, <1>4, <1>7, <2>1, <2>3, <2>4, <3>4, CopyCreates DEF Reading
  <2>5. CASE \E at \in {"cp_type", "cp_follow"} : SetTop(p, [Top(p) EXCEPT !.at = at, !.entry = n])
    <3>1. PICK at \in {"cp_type", "cp_follow"} : SetTop(p, [Top(p) EXCEPT !.at = at, !.entry = n])
      BY <2>5
    <3> DEFINE f == [Top(p) EXCEPT !.at = at, !.entry = n]
    <3>2. f \in Frames
      BY <1>2, <2>3, FrameEntry DEF Steps
    <3>3. /\ f.at = at /\ f.ignore = Top(p).ignore
          /\ f.from = Top(p).from /\ f.dir = Top(p).dir /\ f.had = Top(p).had
      BY <1>2 DEF Frames
    <3>4. SetTop(p, f)
      BY <3>1
    <3> HIDE DEF S, f
    <3> QED BY <1>7, <1>18, <2>1, <3>2, <3>3, <3>4 DEF Reading, S
  <2> QED BY <2>2, <2>4, <2>5
<1>12. CASE CpEntry(p)
  <2> DEFINE n == Top(p).entry
             from == Append(Top(p).from, n)
             t == TypeOf(IF Top(p).at = "cp_type" THEN Lstat(from) ELSE Stat(from))
  <2>1. Tree /\ Top(p).at \in {"cp_type", "cp_follow"}
    BY <1>12 DEF CpEntry, At
  <2>2. \/ Throw(p)
        \/ GoTo(p, "cp_follow") /\ Continue
        \/ t \notin {"none", "link"} /\ CopyEntry(p, n, t) /\ Continue
    BY <1>12 DEF CpEntry
  <2>3. n \in Names
    BY <1>2, <2>1 DEF FrameOK
  <2>4. from \in Seq(Names)
    BY <1>2, <2>3, AppendParts
  <2>5. Lstat(from) \in Refs /\ Stat(from) \in Refs
    BY <1>2, <2>4, LstatIs, DerefType DEF Lstat, Stat
  <2>6. t \in Kinds
    BY <1>2, <2>5, InodeKinds DEF TypeOf
  <2>7. t = "file" => TypeOf(Stat(from)) = "file"
    BY DEF Stat, TypeOf, DerefIn
  <2>8. CASE Throw(p)
    BY <1>6, <1>7, <2>1, <2>8
  <2>9. CASE GoTo(p, "cp_follow") /\ Continue
    <3> DEFINE f == [Top(p) EXCEPT !.at = "cp_follow"]
    <3>1. f \in Frames
      BY <1>2, FrameAt DEF Steps
    <3>2. /\ f.at = "cp_follow" /\ f.ignore = Top(p).ignore
          /\ f.from = Top(p).from /\ f.dir = Top(p).dir /\ f.had = Top(p).had
      BY <1>2 DEF Frames
    <3>3. SetTop(p, f)
      BY <2>9 DEF GoTo
    <3> HIDE DEF S, f
    <3> QED BY <1>7, <1>18, <2>1, <2>9, <3>1, <3>2, <3>3 DEF Reading, S
  <2>10. CASE t \notin {"none", "link"} /\ CopyEntry(p, n, t) /\ Continue
    <3>1. t \in {"file", "dir"}
      BY <2>6, <2>10 DEF Kinds
    <3> HIDE DEF t
    <3> QED BY <1>1, <1>4, <1>7, <2>1, <2>3, <2>7, <2>10, <3>1, CopyCreates DEF Reading
  <2> QED BY <2>2, <2>8, <2>9, <2>10
<1>13. CASE CpEnd(p)
  <2>1. Tree /\ Return(p)
    BY <1>13 DEF CpEnd
  <2> QED BY <1>5, <1>7, <2>1
<1>14. CASE CpSource(p)
  <2> DEFINE f == [Top(p) EXCEPT !.at = "cp_file", !.src = Stat(Top(p).from)]
  <2>1. Tree /\ (Throw(p) \/ (SetTop(p, f) /\ Continue)) /\ Top(p).at = "cp_source"
    BY <1>14 DEF CpSource, At
  <2>2. f.at = "cp_file" /\ f.ignore = Top(p).ignore /\ f.new = Top(p).new /\ f.src = Stat(Top(p).from)
    BY <1>2 DEF Frames
  <2>3. Top(p).new /\ TypeIn(node, Stat(Top(p).from)) = "file" /\ ~Top(p).ignore
    BY <1>3, <2>1 DEF Creating, Plain, Reading, Stat, Lstat
  <2>4. CASE SetTop(p, f) /\ Continue
    <3> HIDE DEF f
    <3>1. f \in Good
      BY <1>1, <1>2, <1>4, <2>4, SetFrames
    <3>2. f \in S
      BY <2>2, <2>3, <3>1 DEF Creating
    <3> QED BY <1>1, <1>7, <2>1, <2>4, <3>2, StackSteps
  <2>5. CASE Throw(p)
    BY <1>6, <1>7, <2>1, <2>5
  <2> QED BY <2>1, <2>4, <2>5
<1>15. CASE CpFile(p)
  <2> DEFINE to == Top(p).path
             text == IF TypeOf(Top(p).src) = "file" /\ Top(p).src # Stat(to) THEN node[Top(p).src].text ELSE ""
  <2>1. Top(p).new /\ TypeOf(Top(p).src) = "file"
    BY <1>3, <1>15 DEF CpFile, At, Creating, Plain, Reading, TypeOf
  <2>2. \/ Vacant(to) /\ Make(to, File(text)) /\ Return(p)
        \/ Throw(p) /\ Tree
    BY <1>15, <2>1 DEF CpFile, Creatable
  <2>3. CASE Vacant(to) /\ Make(to, File(text)) /\ Return(p)
    <3>1. text \in Texts
      <4>1. "" \in Texts
        BY CommandsAssumption
      <4>2. node[Top(p).src].text \in Texts
        BY <1>2, <2>1, InodeKinds DEF TypeOf
      <4> QED BY <4>1, <4>2
    <3>2. File(text) \in Inodes
      BY <3>1, NewInodes
    <3> HIDE DEF text
    <3>3. Grown(node, node') /\ Used(node')
      BY <1>2, <2>3, <3>2, MakeAdds, AddsGrown, VacantIs
    <3> QED BY <1>5, <2>3, <3>3
  <2>4. CASE Throw(p) /\ Tree
    BY <1>6, <1>7, <2>4
  <2> QED BY <2>2, <2>3, <2>4
<1>16. CASE CpUndo(p)
  BY <1>3, <1>16 DEF CpUndo, At, Creating, Plain, Reading
<1> QED BY <1>9, <1>10, <1>11, <1>12, <1>13, <1>14, <1>15, <1>16 DEF Cp

(* Every step of the commands that create. *)
LEMMA CreatorStep ==
  ASSUME TypeOK, TypeOK', CreatorsInv, Creators, NEW p \in Procs, Step(p)
  PROVE  Grown(node, node') /\ Used(node') /\ CallsOf(Creating(node), stack', result')
<1>1. Used(node) /\ CallsOf(Creating(node), stack, result)
  BY DEF CreatorsInv
<1>2. result[p] = "run" => Top(p) \in Creating(node)
  BY <1>1, StackSteps
<1>3. ~RemoveEntry(p)
  BY <1>2 DEF RemoveEntry, TryRmdir, Rm, RmFile, TryRmdirR, OpenDir, NextEntry, EntryType, EndOfDir,
              UnlinkEntry, At, Creating, Plain, Reading
<1>4. ~Mv(p) /\ ~Rename(p)
  BY <1>2 DEF Mv, Rename, At, Creating, Plain, Reading
<1> QED BY <1>1, <1>3, <1>4, CreatorMakesDir, CreatorTouches, CreatorLinks, CreatorCopies DEF Step

(* CreatorsInv holds at first. *)
LEMMA InitCreators ==
  ASSUME Init PROVE CreatorsInv
<1> SUFFICES ASSUME Creators PROVE Used(node) /\ CallsOf(Creating(node), stack, result)
  BY DEF CreatorsInv
<1>1. TypeOK
  BY InitTypes
<1>2. Used(node)
  BY SceneIs DEF Used
<1>3. CallsOf(Good, stack, result)
  BY <1>1, TypedCalls DEF Typed
<1>4. stack = [p \in Procs |-> IF Idle(p) THEN <<>> ELSE <<First(cmd[p])>>]
  BY DEF Init
<1>5. ASSUME NEW p \in Procs PROVE stack[p] \in Seq(Creating(node))
  <2>1. CASE Idle(p)
    BY <1>4, <2>1
  <2>2. CASE ~Idle(p)
    <3>1. First(cmd[p]).at \in Plain /\ ~First(cmd[p]).ignore
      <4>1. cmd[p].op \in {"mkdir", "mkdir_p", "try_mkdir_p", "touch", "ln", "ln_s", "cp_r"}
        BY <2>2 DEF Creators, Creates, Idle
      <4> QED BY <4>1 DEF First, Plain, Frame, Copying
    <3>2. stack[p] = <<First(cmd[p])>> /\ stack[p] \in Seq(Good)
      BY <1>3, <1>4, <2>2 DEF CallsOf
    <3>3. First(cmd[p]) \in Good
      <4>1. \A s \in Seq(Good) : s # <<>> => s[1] \in Good
        OBVIOUS
      <4> QED BY <3>2, <4>1
    <3>4. First(cmd[p]) \in Creating(node)
      BY <3>1, <3>3 DEF Creating
    <3> QED BY <3>2, <3>4
  <2> QED BY <2>1, <2>2
<1>6. stack \in [Procs -> Seq(Creating(node))]
  BY <1>4, <1>5
<1> QED BY <1>2, <1>3, <1>6 DEF CallsOf

(* As long as only commands run that create, no error of theirs is         *)
(* ignored, no copy is asked to overwrite, and the source of a copy stays  *)
(* the file it was found to be: cpfile() has nothing incomplete to         *)
(* remove.                                                                 *)
THEOREM CreatorsInvariant == Spec => [](TypeOK /\ CreatorsInv)
<1>1. Init => TypeOK /\ CreatorsInv
  BY InitTypes, InitCreators
<1>2. TypeOK /\ TypeOK' /\ CreatorsInv /\ [Next]_vars => CreatorsInv'
  <2> SUFFICES ASSUME TypeOK, TypeOK', CreatorsInv, [Next]_vars, Creators' PROVE (Used(node) /\ CallsOf(Creating(node), stack, result))'
    BY DEF CreatorsInv
  <2>1. CASE UNCHANGED vars
    <3>1. Creators
      BY <2>1 DEF Creators, vars
    <3>2. Used(node)' /\ CallsOf(Creating(node'), stack', result')
      BY <2>1, <3>1 DEF CreatorsInv, vars, Used, Linked
    <3> QED BY <3>2 DEF CallsOf
  <2>2. ASSUME NEW p \in Procs, Step(p) PROVE (Used(node) /\ CallsOf(Creating(node), stack, result))'
    <3>1. Given
      BY <2>2, StepTypes
    <3>2. Creators
      BY <3>1 DEF Given, Creators
    <3>3. Grown(node, node') /\ Used(node') /\ CallsOf(Creating(node), stack', result')
      BY <2>2, <3>2, CreatorStep
    <3>4. node \in [Ids -> Inodes] /\ node' \in [Ids -> Inodes]
      BY DEF TypeOK, TreeOK
    <3>5. CallsOf(Creating(node'), stack', result')
      BY <3>3, <3>4, CreatingGrows, CallsGrow
    <3> QED BY <3>3, <3>5
  <2> QED BY <2>1, <2>2 DEF Next, AllDone
<1> QED BY <1>1, <1>2, TypeCorrect, PTL DEF Spec

(* Commands that create neither remove nor change what is there, whatever  *)
(* they find and whichever of them was first: EEXIST from mkdir(),         *)
(* open(O_EXCL), link() and symlink() is never overruled.                  *)
THEOREM CreatorsOnlyAdd == Spec => OnlyAdds
<1>1. TypeOK /\ TypeOK' /\ CreatorsInv /\ [Next]_vars => [Creators => Grown(node, node')]_vars
  <2> SUFFICES ASSUME TypeOK, TypeOK', CreatorsInv, Next, Creators PROVE Grown(node, node') \/ UNCHANGED vars
    OBVIOUS
  <2>1. CASE \E p \in Procs : Step(p)
    BY <2>1, CreatorStep
  <2> QED BY <2>1 DEF Next, AllDone
<1> QED BY <1>1, CreatorsInvariant, TypeCorrect, PTL DEF Spec, OnlyAdds, Creators

-----------------------------------------------------------------------------
(* Making paths: what is new in the tree. *)

(* Everything in g that is not in f is a new directory. *)
NewDirs(f, g) ==
  /\ Grown(f, g)
  /\ \A i \in Ids : f[i].type = "none" => g[i].type \in {"none", "dir"}
  /\ \A i \in Refs, n \in Names :
       ChildIn(g, i, n) = ChildIn(f, i, n) \/ TypeIn(f, ChildIn(g, i, n)) = "none"

(* What is new is an empty directory, or holds new directories, ... *)
LEMMA NewKinds ==
  ASSUME NEW f \in [Ids -> Inodes], NEW g \in [Ids -> Inodes], NewDirs(f, g), NEW i \in Refs
  PROVE  /\ TypeIn(f, i) # "none" => TypeIn(g, i) = TypeIn(f, i)
         /\ TypeIn(f, i) = "none" => TypeIn(g, i) \in {"none", "dir"}
         /\ TypeIn(f, i) = "none" => \A n \in Names : TypeIn(f, ChildIn(g, i, n)) = "none"
<1>1. TypeIn(f, i) # "none" => TypeIn(g, i) = TypeIn(f, i)
  BY GrownChild DEF NewDirs
<1>2. TypeIn(f, i) = "none" => TypeIn(g, i) \in {"none", "dir"}
  BY DEF NewDirs, TypeIn, Refs
<1>3. ASSUME TypeIn(f, i) = "none", NEW n \in Names PROVE TypeIn(f, ChildIn(g, i, n)) = "none"
  <2>1. ChildIn(f, i, n) = Nil
    BY <1>3 DEF ChildIn
  <2> QED BY <2>1, NilLeadsNowhere DEF NewDirs
<1> QED BY <1>1, <1>2, <1>3

(* ... a path leads where it led or to something new, ... *)
LEMMA NewDown ==
  ASSUME NEW f \in [Ids -> Inodes], NEW g \in [Ids -> Inodes], NewDirs(f, g)
  PROVE  \A q \in Seq(Names) : Down(g, q) = Down(f, q) \/ TypeIn(f, Down(g, q)) = "none"
<1> DEFINE T == {q \in Seq(Names) : Down(g, q) = Down(f, q) \/ TypeIn(f, Down(g, q)) = "none"}
<1>1. <<>> \in T
  BY DownIs
<1>2. ASSUME NEW q \in Seq(Names), NEW n \in Names, q \in T PROVE Append(q, n) \in T
  <2>1. Append(q, n) \in Seq(Names)
    BY AppendParts
  <2>2. /\ Down(f, Append(q, n)) = ChildIn(f, Down(f, q), n) /\ Down(f, q) \in Refs
        /\ Down(g, Append(q, n)) = ChildIn(g, Down(g, q), n) /\ Down(g, q) \in Refs
    BY DownIs
  <2>3. CASE Down(g, q) = Down(f, q)
    BY <2>1, <2>2, <2>3 DEF NewDirs
  <2>4. CASE TypeIn(f, Down(g, q)) = "none"
    BY <2>1, <2>2, <2>4, NewKinds
  <2> QED BY <1>2, <2>3, <2>4
<1> HIDE DEF T
<1>3. \A q \in Seq(Names) : q \in T
  BY <1>1, <1>2, PathInduction
<1> QED BY <1>3 DEF T

(* ... and so does a symlink, ... *)
LEMMA NewDeref ==
  ASSUME NEW f \in [Ids -> Inodes], NEW g \in [Ids -> Inodes], NewDirs(f, g), NEW i \in Refs
  PROVE  DerefIn(g, i) = DerefIn(f, i) \/ TypeIn(f, DerefIn(g, i)) = "none"
<1>1. CASE TypeIn(f, i) # "link"
  <2>1. TypeIn(g, i) # "link"
    BY <1>1, NewKinds
  <2> QED BY <1>1, <2>1, DerefIs
<1>2. CASE TypeIn(f, i) = "link"
  <2>1. TypeIn(g, i) = "link" /\ g[i] = f[i] /\ f[i].to \in Seq(Names)
    BY <1>2, GrownChild, InodeKinds DEF NewDirs
  <2> DEFINE j == Down(f, f[i].to)
             k == Down(g, f[i].to)
  <2>2. j \in Refs /\ k \in Refs
    BY <2>1, DownIs
  <2>3. DerefIn(f, i) = IF TypeIn(f, j) = "link" THEN Nil ELSE j
    BY <1>2 DEF DerefIn
  <2>4. DerefIn(g, i) = IF TypeIn(g, k) = "link" THEN Nil ELSE k
    BY <2>1 DEF DerefIn
  <2>5. k = j \/ TypeIn(f, k) = "none"
    BY <2>1, NewDown
  <2> HIDE DEF j, k
  <2>6. CASE k = j
    <3>1. TypeIn(g, k) = "link" <=> TypeIn(f, j) = "link"
      BY <2>2, <2>6, NewKinds
    <3> QED BY <2>3, <2>4, <2>6, <3>1
  <2>7. CASE TypeIn(f, k) = "none"
    BY <2>4, <2>7, NilLeadsNowhere
  <2> QED BY <2>5, <2>6, <2>7
<1> QED BY <1>1, <1>2

(* ... and what lstat() finds. *)
LEMMA NewLstat ==
  ASSUME NEW f \in [Ids -> Inodes], NEW g \in [Ids -> Inodes], NewDirs(f, g)
  PROVE  \A q \in Seq(Names) : LstatIn(g, q) = LstatIn(f, q) \/ TypeIn(f, LstatIn(g, q)) = "none"
<1> DEFINE T == {q \in Seq(Names) : LstatIn(g, q) = LstatIn(f, q) \/ TypeIn(f, LstatIn(g, q)) = "none"}
<1>1. <<>> \in T
  BY LstatIs
<1>2. ASSUME NEW q \in Seq(Names), NEW n \in Names, q \in T PROVE Append(q, n) \in T
  <2> DEFINE i == LstatIn(g, q)
             d == DerefIn(g, i)
  <2>1. Append(q, n) \in Seq(Names)
    BY AppendParts
  <2>2. /\ LstatIn(f, Append(q, n)) = ChildIn(f, DerefIn(f, LstatIn(f, q)), n) /\ LstatIn(f, q) \in Refs
        /\ LstatIn(g, Append(q, n)) = ChildIn(g, d, n) /\ i \in Refs
    BY LstatIs
  <2>3. d \in Refs
    BY <2>2, DerefIs
  <2>4. CASE TypeIn(f, d) = "none"
    BY <2>1, <2>2, <2>3, <2>4, NewKinds
  <2>5. CASE TypeIn(f, d) # "none"
    <3>1. TypeIn(f, i) # "none"
      <4>1. ASSUME TypeIn(f, i) = "none" PROVE FALSE
        <5>1. TypeIn(g, i) \in {"none", "dir"}
          BY <2>2, <4>1, NewKinds
        <5>2. d = i
          BY <2>2, <5>1, DerefIs
        <5> QED BY <2>5, <4>1, <5>2
      <4> QED BY <4>1
    <3>2. i = LstatIn(f, q)
      BY <1>2, <3>1
    <3>3. d = DerefIn(f, i)
      BY <2>2, <2>5, NewDeref
    <3> QED BY <2>1, <2>2, <2>3, <3>2, <3>3 DEF NewDirs
  <2> QED BY <2>4, <2>5
<1> HIDE DEF T
<1>3. \A q \in Seq(Names) : q \in T
  BY <1>1, <1>2, PathInduction
<1> QED BY <1>3 DEF T

(* What was not there is still missing, or is a directory now. *)
LEMMA NewAreDirs ==
  ASSUME NEW f \in [Ids -> Inodes], NEW g, TreeOK(g), NewDirs(f, g),
         NEW q \in Seq(Names), LstatIn(f, q) = Nil, LstatIn(g, q) # Nil
  PROVE  IsDirIn(g, q)
<1> DEFINE i == LstatIn(g, q)
<1>1. g \in [Ids -> Inodes] /\ i \in Refs
  BY LstatIs DEF TreeOK
<1>2. TypeIn(f, i) = "none"
  BY <1>1, NewLstat
<1>3. TypeIn(g, i) \in {"none", "dir"}
  BY <1>1, <1>2, NewKinds
<1>4. TypeIn(g, i) # "none"
  <2>1. i = Root \/ Linked(g, i)
    BY <1>1, FoundLinked
  <2>2. i \in Ids
    BY <1>1 DEF Refs
  <2> QED BY <1>1, <2>1, <2>2, InodeKinds DEF TreeOK
<1>5. DerefIn(g, i) = i
  BY <1>1, <1>3, DerefIs
<1> QED BY <1>3, <1>4, <1>5 DEF IsDirIn

(* Making a directory keeps it so. *)
LEMMA AddsNewDir ==
  ASSUME TreeOK(node), Used(node), NEW f \in [Ids -> Inodes], NewDirs(f, node),
         NEW path, Last(path) \in Names, NEW i, NEW g, Adds(g, path, i, EmptyDir)
  PROVE  NewDirs(f, g)
<1> DEFINE d == Parent(path)
<1>1. node \in [Ids -> Inodes] /\ g \in [Ids -> Inodes] /\ i \in Ids /\ d \in Ids /\ i # d
  BY DEF Adds, TreeOK
<1>2. node[i].type = "none"
  BY DEF Adds, Used
<1>3. i \in Refs /\ TypeIn(f, i) = "none"
  <2>1. i \in Refs /\ TypeIn(node, i) = "none"
    BY <1>1, <1>2, InodeKinds DEF Refs
  <2> QED BY <1>1, <2>1, NewKinds
<1>4. Grown(f, g)
  BY <1>1, AddsGrown, GrownTrans DEF NewDirs
<1>5. ASSUME NEW j \in Ids, f[j].type = "none" PROVE g[j].type \in {"none", "dir"}
  BY <1>5, NewInodes DEF NewDirs, Adds
<1>6. ASSUME NEW j \in Refs, NEW n \in Names
      PROVE  ChildIn(g, j, n) = ChildIn(f, j, n) \/ TypeIn(f, ChildIn(g, j, n)) = "none"
  <2>1. ChildIn(node, j, n) = ChildIn(f, j, n) \/ TypeIn(f, ChildIn(node, j, n)) = "none"
    BY DEF NewDirs
  <2>2. CASE j = i
    <3>1. g[i] = EmptyDir /\ i # Nil
      BY <1>1, CommandsAssumption DEF Adds
    <3>2. ChildIn(g, j, n) = Nil
      BY <2>2, <3>1, NewInodes DEF ChildIn
    <3> QED BY <3>2, NilLeadsNowhere
  <2>3. CASE j = d
    <3>1. g[d].type = "dir" /\ g[d].sub[n] = (IF n = Last(path) THEN i ELSE node[d].sub[n])
          /\ node[d].type = "dir"
      BY DEF Adds
    <3>2. ChildIn(g, j, n) = g[d].sub[n] /\ ChildIn(node, j, n) = node[d].sub[n]
      BY <1>1, <2>3, <3>1, CommandsAssumption DEF ChildIn, TypeIn
    <3> QED BY <1>3, <2>1, <3>1, <3>2
  <2>4. CASE j # i /\ j # d
    <3>1. TypeIn(g, j) = TypeIn(node, j) /\ (j # Nil => g[j] = node[j])
      BY <2>4 DEF Adds, TypeIn, Refs
    <3>2. ChildIn(g, j, n) = ChildIn(node, j, n)
      BY <3>1, NilLeadsNowhere DEF ChildIn
    <3> QED BY <2>1, <3>2
  <2> QED BY <2>2, <2>3, <2>4
<1> QED BY <1>4, <1>5, <1>6 DEF NewDirs

(* At first nothing is new. *)
LEMMA NewDirsRefl ==
  ASSUME NEW f \in [Ids -> Inodes] PROVE NewDirs(f, f)
BY GrownRefl DEF NewDirs

(* An entry that was just made is there. *)
LEMMA AddedIsThere ==
  ASSUME TreeOK(node), Used(node), NEW path \in Seq(Names), path # <<>>, NEW i, NEW g,
         Adds(g, path, i, EmptyDir)
  PROVE  IsDirIn(g, path)
<1> DEFINE d == Parent(path)
<1>1. node \in [Ids -> Inodes] /\ g \in [Ids -> Inodes] /\ Front(path) \in Seq(Names) /\ Last(path) \in Names
  BY FrontLast DEF TreeOK, Adds
<1>2. Grown(node, g)
  BY <1>1, AddsGrown
<1>3. d = DerefIn(node, LstatIn(node, Front(path)))
  BY DEF Parent, Stat, Lstat
<1>4. d \in Ids /\ TypeIn(node, d) = "dir" /\ i \in Ids
  BY CommandsAssumption DEF Adds, TypeIn
<1>5. DerefIn(g, LstatIn(g, Front(path))) = d
  BY <1>1, <1>2, <1>3, <1>4, GrownStat
<1>6. LstatIn(g, path) = ChildIn(g, d, Last(path))
  BY <1>1, <1>5, EntryIs
<1>7. ChildIn(g, d, Last(path)) = i
  BY <1>1, <1>4, CommandsAssumption DEF Adds, ChildIn, TypeIn
<1>8. i \in Refs /\ TypeIn(g, i) = "dir"
  BY <1>4, CommandsAssumption, NewInodes DEF Adds, TypeIn, Refs
<1>9. DerefIn(g, i) = i
  BY <1>1, <1>8, DerefIs
<1> QED BY <1>6, <1>7, <1>8, <1>9 DEF IsDirIn

-----------------------------------------------------------------------------
(* Making paths: the calls. *)

(* The parents of a path are its prefixes. *)
LEMMA FrontPrefix ==
  ASSUME NEW N, NEW s \in Seq(N), NEW q \in Prefixes(s), q # <<>>
  PROVE  /\ q \in Seq(N) /\ Front(q) \in Prefixes(s)
         /\ \E k \in 1 .. Len(s) : q = SubSeq(s, 1, k)
<1>1. PICK k \in 0 .. Len(s) : q = SubSeq(s, 1, k)
  BY DEF Prefixes
<1>2. k # 0
  BY <1>1
<1>3. q \in Seq(N) /\ Len(q) = k /\ \A j \in 1 .. k : q[j] = s[j]
  BY <1>1, <1>2
<1>4. Front(q) = SubSeq(s, 1, k - 1)
  BY <1>1, <1>2, <1>3 DEF Front
<1> QED BY <1>1, <1>2, <1>3, <1>4 DEF Prefixes

(* The calls of a process after the innermost one has changed, ... *)
LEMMA SetParts ==
  ASSUME NEW S, NEW s \in Seq(S), s # <<>>, NEW f \in S
  PROVE  /\ Len(s) \in Nat \ {0} /\ Last(s) = s[Len(s)]
         /\ Append(Front(s), f) \in Seq(S)
         /\ Len(Append(Front(s), f)) = Len(s) /\ Append(Front(s), f)[Len(s)] = f
         /\ \A k \in 1 .. Len(s) - 1 : Append(Front(s), f)[k] = s[k]
<1>1. Len(s) \in Nat \ {0} /\ Last(s) = s[Len(s)]
  BY DEF Last
<1>2. \A k \in 1 .. Len(s) - 1 : Front(s)[k] = s[k]
  BY <1>1 DEF Front
<1> DEFINE r == Front(s)
<1>3. r \in Seq(S) /\ Len(r) = Len(s) - 1 /\ \A k \in 1 .. Len(s) - 1 : r[k] = s[k]
  BY <1>2, FrontLast
<1> HIDE DEF r
<1>4. /\ Append(r, f) \in Seq(S) /\ Len(Append(r, f)) = Len(s) /\ Append(r, f)[Len(s)] = f
      /\ \A k \in 1 .. Len(s) - 1 : Append(r, f)[k] = s[k]
  BY <1>1, <1>3
<1> QED BY <1>1, <1>4 DEF r

(* ... and after it has called another one. *)
LEMMA CallParts ==
  ASSUME NEW S, NEW s \in Seq(S), s # <<>>, NEW f \in S, NEW h \in S
  PROVE  LET b == Append(Front(s), f) \o <<h>>
         IN  /\ Len(b) = Len(s) + 1 /\ b[Len(s)] = f /\ b[Len(s) + 1] = h
             /\ \A k \in 1 .. Len(s) - 1 : b[k] = s[k]
<1> DEFINE a == Append(Front(s), f)
<1>1. /\ Len(s) \in Nat \ {0}
      /\ a \in Seq(S) /\ Len(a) = Len(s) /\ a[Len(s)] = f /\ \A k \in 1 .. Len(s) - 1 : a[k] = s[k]
  BY SetParts
<1> HIDE DEF a
<1>2. /\ Len(a \o <<h>>) = Len(s) + 1 /\ (a \o <<h>>)[Len(s)] = f /\ (a \o <<h>>)[Len(s) + 1] = h
      /\ \A k \in 1 .. Len(s) - 1 : (a \o <<h>>)[k] = s[k]
  BY <1>1
<1> QED BY <1>2 DEF a

(* The calls s of the command c that makes a path, in the tree g: each is   *)
(* about the parent of the path before it, the parent of what mkdir() is   *)
(* asked to make is there, and so is what is said to exist.                *)
Maker(g, c, f) ==
  /\ f.at \in {"mkdir_p", "try_mkdir_p", "mkdir", "exists"} /\ ~f.new /\ ~f.ignore
  /\ f.path \in Prefixes(c.path)
  /\ f.at \in {"try_mkdir_p", "mkdir"} => f.path # <<>>
  /\ f.at = "exists" => LstatIn(g, f.path) # Nil

MakerStack(g, c, s) ==
  \A k \in 1 .. Len(s) :
    /\ Maker(g, c, s[k])
    /\ k < Len(s) => s[k].at = "mkdir" /\ s[k + 1].path = Front(s[k].path)
    /\ k = Len(s) => (s[k].at = "mkdir" => IsDirIn(g, Front(s[k].path)))

Makers == \A p \in Procs : Makes(cmd[p])

MakersInv ==
  Makers =>
    /\ Used(node) /\ NewDirs(before, node)
    /\ \A p \in Procs : MakerStack(node, cmd[p], stack[p]) /\ (result[p] = "fail" => Blocked(cmd[p]))

(* The innermost call goes on, ... *)
LEMMA MakerSet ==
  ASSUME NEW s \in Seq(Good), s # <<>>, NEW g, NEW c, MakerStack(g, c, s),
         NEW f \in Good, f.path = Last(s).path, Maker(g, c, f), f.at = "mkdir" => IsDirIn(g, Front(f.path))
  PROVE  MakerStack(g, c, Append(Front(s), f))
<1> DEFINE a == Append(Front(s), f)
<1>1. /\ Len(s) \in Nat \ {0} /\ Last(s) = s[Len(s)]
      /\ Len(a) = Len(s) /\ a[Len(s)] = f /\ \A k \in 1 .. Len(s) - 1 : a[k] = s[k]
  BY SetParts
<1> HIDE DEF a
<1>2. ASSUME NEW k \in 1 .. Len(a)
      PROVE  /\ Maker(g, c, a[k])
             /\ k < Len(a) => a[k].at = "mkdir" /\ a[k + 1].path = Front(a[k].path)
             /\ k = Len(a) => (a[k].at = "mkdir" => IsDirIn(g, Front(a[k].path)))
  <2>1. CASE k = Len(s)
    BY <1>1, <2>1
  <2>2. CASE k # Len(s)
    <3>1. k \in 1 .. Len(s) - 1 /\ k + 1 \in 1 .. Len(s) /\ k < Len(s)
      BY <1>1, <2>2
    <3>2. a[k] = s[k] /\ a[k + 1].path = s[k + 1].path
      BY <1>1, <3>1
    <3>3. Maker(g, c, s[k]) /\ s[k].at = "mkdir" /\ s[k + 1].path = Front(s[k].path)
      BY <3>1 DEF MakerStack
    <3> QED BY <1>1, <3>1, <3>2, <3>3
  <2> QED BY <2>1, <2>2
<1> QED BY <1>2 DEF MakerStack, a

(* ... calls another one for its parent, ... *)
LEMMA MakerCall ==
  ASSUME NEW s \in Seq(Good), s # <<>>, NEW g, NEW c, MakerStack(g, c, s),
         NEW f \in Good, f.path = Last(s).path, Maker(g, c, f), f.at = "mkdir",
         NEW h \in Good, Maker(g, c, h), h.at # "mkdir", h.path = Front(f.path)
  PROVE  MakerStack(g, c, Append(Front(s), f) \o <<h>>)
<1> DEFINE b == Append(Front(s), f) \o <<h>>
<1>1. /\ Len(s) \in Nat \ {0} /\ Last(s) = s[Len(s)]
      /\ Len(b) = Len(s) + 1 /\ b[Len(s)] = f /\ b[Len(s) + 1] = h
      /\ \A k \in 1 .. Len(s) - 1 : b[k] = s[k]
  BY SetParts, CallParts
<1> HIDE DEF b
<1>2. ASSUME NEW k \in 1 .. Len(b)
      PROVE  /\ Maker(g, c, b[k])
             /\ k < Len(b) => b[k].at = "mkdir" /\ b[k + 1].path = Front(b[k].path)
             /\ k = Len(b) => (b[k].at = "mkdir" => IsDirIn(g, Front(b[k].path)))
  <2>1. CASE k = Len(s) + 1
    BY <1>1, <2>1
  <2>2. CASE k = Len(s)
    BY <1>1, <2>2
  <2>3. CASE k # Len(s) /\ k # Len(s) + 1
    <3>1. k \in 1 .. Len(s) - 1 /\ k + 1 \in 1 .. Len(s) /\ k < Len(s) /\ k # Len(b)
      BY <1>1, <2>3
    <3>2. b[k] = s[k] /\ b[k + 1].path = s[k + 1].path
      BY <1>1, <3>1
    <3>3. Maker(g, c, s[k]) /\ s[k].at = "mkdir" /\ s[k + 1].path = Front(s[k].path)
      BY <3>1 DEF MakerStack
    <3> QED BY <3>1, <3>2, <3>3
  <2> QED BY <2>1, <2>2, <2>3
<1> QED BY <1>2 DEF MakerStack, b

(* ... or returns, with its directory there. *)
LEMMA MakerReturn ==
  ASSUME NEW s \in Seq(Good), s # <<>>, NEW g, NEW c, MakerStack(g, c, s), IsDirIn(g, Last(s).path)
  PROVE  MakerStack(g, c, Front(s))
<1> DEFINE r == Front(s)
<1>1. /\ Len(s) \in Nat \ {0} /\ Last(s) = s[Len(s)]
      /\ Len(r) = Len(s) - 1 /\ \A k \in 1 .. Len(s) - 1 : r[k] = s[k]
  BY FrontLast DEF Last, Front
<1> HIDE DEF r
<1>2. ASSUME NEW k \in 1 .. Len(r)
      PROVE  /\ Maker(g, c, r[k])
             /\ k < Len(r) => r[k].at = "mkdir" /\ r[k + 1].path = Front(r[k].path)
             /\ k = Len(r) => (r[k].at = "mkdir" => IsDirIn(g, Front(r[k].path)))
  <2>1. k \in 1 .. Len(s) - 1 /\ k \in 1 .. Len(s) /\ k < Len(s)
    BY <1>1
  <2>2. Maker(g, c, s[k]) /\ s[k].at = "mkdir" /\ s[k + 1].path = Front(s[k].path) /\ r[k] = s[k]
    BY <1>1, <2>1 DEF MakerStack
  <2>3. k < Len(r) => r[k + 1] = s[k + 1]
    BY <1>1
  <2>4. k = Len(r) => s[k + 1] = Last(s)
    BY <1>1
  <2> QED BY <2>2, <2>3, <2>4
<1> QED BY <1>2 DEF MakerStack, r

(* What others make does not disturb the calls. *)
LEMMA MakerGrows ==
  ASSUME NEW f \in [Ids -> Inodes], NEW g \in [Ids -> Inodes], Grown(f, g),
         NEW c, c.path \in Seq(Names), NEW s \in Seq(Good), MakerStack(f, c, s)
  PROVE  MakerStack(g, c, s)
<1> SUFFICES ASSUME NEW k \in 1 .. Len(s)
             PROVE  /\ Maker(g, c, s[k])
                    /\ k < Len(s) => s[k].at = "mkdir" /\ s[k + 1].path = Front(s[k].path)
                    /\ k = Len(s) => (s[k].at = "mkdir" => IsDirIn(g, Front(s[k].path)))
  BY DEF MakerStack
<1>1. /\ Maker(f, c, s[k])
      /\ k < Len(s) => s[k].at = "mkdir" /\ s[k + 1].path = Front(s[k].path)
      /\ k = Len(s) => (s[k].at = "mkdir" => IsDirIn(f, Front(s[k].path)))
  BY DEF MakerStack
<1>2. s[k] \in Good
  OBVIOUS
<1>3. s[k].path \in Seq(Names)
  BY <1>2 DEF Good, Frames
<1>4. Maker(g, c, s[k])
  BY <1>1, <1>3, GrownLstat DEF Maker
<1>5. ASSUME s[k].at = "mkdir", IsDirIn(f, Front(s[k].path)) PROVE IsDirIn(g, Front(s[k].path))
  <2>1. Front(s[k].path) \in Seq(Names)
    BY <1>1, <1>3, <1>5, FrontLast DEF Maker
  <2> QED BY <1>5, <2>1, GrownStat DEF IsDirIn
<1> QED BY <1>1, <1>4, <1>5

(* One step of a command that makes a path: the tree grows by a directory   *)
(* at most, its calls stay as they should be, and it fails only because of *)
(* what was there from the beginning.                                      *)
LEMMA MakerStep ==
  ASSUME TypeOK, TypeOK', Makers, Used(node), NewDirs(before, node), NEW p \in Procs,
         \A q \in Procs : MakerStack(node, cmd[q], stack[q]) /\ (result[q] = "fail" => Blocked(cmd[q])),
         MakeDir(p)
  PROVE  /\ Grown(node, node') /\ Used(node') /\ NewDirs(before, node')
         /\ MakerStack(node', cmd[p], stack'[p]) /\ (result'[p] = "fail" => Blocked(cmd[p]))
         /\ \A q \in Procs \ {p} : stack'[q] = stack[q] /\ result'[q] = result[q]
<1> DEFINE c == cmd[p]
           s == stack[p]
           f == Top(p)
<1>1. result[p] = "run"
  BY DEF MakeDir, MkdirP, TryMkdirP, TryMkdir, AlreadyExists, At
<1>2. /\ CallsOf(Good, stack, result) /\ CallsOf(Good, stack', result')
      /\ f \in Good /\ f \in Frames /\ f.path \in Seq(Names)
      /\ node \in [Ids -> Inodes] /\ TreeOK(node) /\ before \in [Ids -> Inodes]
  BY <1>1, TopIs, MakeDirTypes DEF TypeOK, TreeOK
<1>3. c.path \in Seq(Names)
  BY DEF TypeOK, Commands
<1>4. /\ stack \in [Procs -> Seq(Good)] /\ s \in Seq(Good) /\ s # <<>> /\ f = Last(s)
      /\ result \in [Procs -> {"run", "ok", "fail"}]
  BY <1>1, <1>2 DEF CallsOf, Top
<1>5. MakerStack(node, c, s)
  OBVIOUS
<1>6. /\ Maker(node, c, f) /\ (f.at = "mkdir" => IsDirIn(node, Front(f.path)))
  BY <1>4, <1>5 DEF MakerStack, Last
<1>7. Tree => /\ node' = node /\ Grown(node, node') /\ Used(node') /\ NewDirs(before, node')
  BY <1>2, GrownRefl DEF Tree
<1> HIDE DEF s, c, f
<1>8. ASSUME NEW h, SetTop(p, h), Continue, Tree, h.path = f.path, Maker(node, c, h),
             h.at = "mkdir" => IsDirIn(node, Front(h.path))
      PROVE  /\ MakerStack(node', c, stack'[p]) /\ (result'[p] = "fail" => Blocked(c))
             /\ \A q \in Procs \ {p} : stack'[q] = stack[q] /\ result'[q] = result[q]
  <2>1. h \in Good
    BY <1>1, <1>2, <1>8, SetFrames
  <2>2. stack'[p] = Append(Front(s), h) /\ \A q \in Procs \ {p} : stack'[q] = stack[q]
    BY <1>4, <1>8 DEF SetTop, s
  <2>3. MakerStack(node, c, Append(Front(s), h))
    BY <1>4, <1>5, <1>8, <2>1, MakerSet
  <2> QED BY <1>1, <1>7, <1>8, <2>2, <2>3 DEF Continue
<1>9. ASSUME Return(p), IsDirIn(node', f.path), MakerStack(node', c, s)
      PROVE  /\ MakerStack(node', c, stack'[p]) /\ (result'[p] = "fail" => Blocked(c))
             /\ \A q \in Procs \ {p} : stack'[q] = stack[q] /\ result'[q] = result[q]
  <2>1. stack'[p] = Front(s) /\ \A q \in Procs \ {p} : stack'[q] = stack[q]
    BY <1>4, <1>9 DEF Return, s
  <2>2. MakerStack(node', c, Front(s))
    BY <1>4, <1>9, MakerReturn
  <2>3. result'[p] # "fail" /\ \A q \in Procs \ {p} : result'[q] = result[q]
    BY <1>1, <1>4, <1>9 DEF Return
  <2> QED BY <2>1, <2>2, <2>3
<1>10. ASSUME NEW at \in {"mkdir_p", "try_mkdir_p"},
              CallFrom(p, "mkdir", Frame(at, Front(f.path))), Continue, Tree,
              f.path # <<>>, at = "try_mkdir_p" => Front(f.path) # <<>>
       PROVE  /\ MakerStack(node', c, stack'[p]) /\ (result'[p] = "fail" => Blocked(c))
              /\ \A q \in Procs \ {p} : stack'[q] = stack[q] /\ result'[q] = result[q]
  <2> DEFINE a == [f EXCEPT !.at = "mkdir"]
             h == Frame(at, Front(f.path))
  <2>1. a.at = "mkdir" /\ a.path = f.path /\ a.new = f.new /\ a.ignore = f.ignore
    BY <1>2 DEF Frames
  <2>2. h.at = at /\ h.path = Front(f.path) /\ ~h.new /\ ~h.ignore
    BY DEF Frame
  <2>3. stack' = [stack EXCEPT ![p] = Append(Front(@), a) \o <<h>>]
    BY <1>10 DEF CallFrom, f
  <2> HIDE DEF a, h
  <2>4. a \in Good /\ h \in Good
    BY <1>1, <1>2, <2>3, SetFrames
  <2>5. Maker(node, c, a)
    BY <1>6, <1>10, <2>1 DEF Maker
  <2>6. Front(f.path) \in Prefixes(c.path)
    BY <1>3, <1>6, <1>10, FrontPrefix DEF Maker
  <2>7. Maker(node, c, h)
    BY <1>10, <2>2, <2>6 DEF Maker
  <2>8. stack'[p] = Append(Front(s), a) \o <<h>> /\ \A q \in Procs \ {p} : stack'[q] = stack[q]
    BY <1>4, <2>3 DEF s
  <2>9. MakerStack(node, c, Append(Front(s), a) \o <<h>>)
    BY <1>4, <1>5, <1>10, <2>1, <2>2, <2>4, <2>5, <2>7, MakerCall
  <2> QED BY <1>1, <1>7, <1>10, <2>8, <2>9 DEF Continue
<1>11. CASE MkdirP(p)
  <2>1. Tree
    BY <1>11 DEF MkdirP
  <2>2. CASE IsDirIn(node, f.path)
    <3>1. Return(p)
      BY <1>11, <2>2 DEF MkdirP, DirExists, f
    <3> QED BY <1>5, <1>7, <1>9, <2>1, <2>2, <3>1 DEF c
  <2>3. CASE ~IsDirIn(node, f.path)
    <3>1. CallFrom(p, "mkdir", Frame("mkdir_p", Front(f.path))) /\ Continue
      BY <1>11, <2>3 DEF MkdirP, DirExists, f
    <3>2. f.path # <<>>
      <4>1. IsDirIn(node, <<>>)
        BY <1>2, LstatIs, RootIs, DerefIs DEF IsDirIn, TreeOK, TypeIn
      <4> QED BY <2>3, <4>1
    <3> QED BY <1>7, <1>10, <2>1, <3>1, <3>2 DEF c
  <2> QED BY <2>2, <2>3
<1>12. CASE TryMkdirP(p)
  <2>1. Tree /\ Continue /\ f.at = "try_mkdir_p"
    BY <1>12 DEF TryMkdirP, At, f
  <2>2. f.path # <<>>
    BY <1>6, <2>1 DEF Maker
  <2>3. CASE IsDirIn(node, Front(f.path))
    <3> DEFINE h == [f EXCEPT !.at = "mkdir"]
    <3>1. SetTop(p, h)
      BY <1>12, <2>3 DEF TryMkdirP, DirExists, f, GoTo
    <3>2. h.at = "mkdir" /\ h.path = f.path /\ h.new = f.new /\ h.ignore = f.ignore
      BY <1>2 DEF Frames
    <3> HIDE DEF h
    <3>3. Maker(node, c, h)
      BY <1>6, <2>2, <3>2 DEF Maker
    <3> QED BY <1>7, <1>8, <2>1, <2>3, <3>1, <3>2, <3>3 DEF c
  <2>4. CASE ~IsDirIn(node, Front(f.path))
    <3>1. CallFrom(p, "mkdir", Frame("try_mkdir_p", Front(f.path)))
      BY <1>12, <2>4 DEF TryMkdirP, DirExists, f
    <3>2. Front(f.path) # <<>>
      <4>1. IsDirIn(node, <<>>)
        BY <1>2, LstatIs, RootIs, DerefIs DEF IsDirIn, TreeOK, TypeIn
      <4> QED BY <2>4, <4>1
    <3> QED BY <1>7, <1>10, <2>1, <2>2, <3>1, <3>2 DEF c
  <2> QED BY <2>3, <2>4
<1>13. CASE TryMkdir(p)
  <2>1. f.at = "mkdir" /\ f.path # <<>> /\ IsDirIn(node, Front(f.path))
    BY <1>6, <1>13 DEF TryMkdir, At, f, Maker
  <2>2. CASE Vacant(f.path)
    <3>1. Make(f.path, EmptyDir) /\ Return(p)
      BY <1>13, <2>2 DEF TryMkdir, f
    <3>2. PICK i \in Ids : Adds(node', f.path, i, EmptyDir)
      BY <1>2, <2>2, <3>1, MakeAdds, NewInodes
    <3>3. Last(f.path) \in Names
      BY <1>2, <2>1, FrontLast
    <3>4. Grown(node, node') /\ Used(node') /\ NewDirs(before, node')
      BY <1>2, <3>2, <3>3, AddsGrown, AddsNewDir
    <3>5. IsDirIn(node', f.path)
      BY <1>2, <2>1, <3>2, AddedIsThere
    <3>6. MakerStack(node', c, s)
      <4>1. node' \in [Ids -> Inodes]
        BY DEF TypeOK, TreeOK
      <4> QED BY <1>2, <1>3, <1>4, <1>5, <3>4, <4>1, MakerGrows
    <3> QED BY <1>9, <3>1, <3>4, <3>5, <3>6 DEF c
  <2>3. CASE ~Vacant(f.path)
    <3> DEFINE h == [f EXCEPT !.at = "exists"]
    <3>1. Lstat(f.path) # Nil
      BY <2>1, <2>3 DEF Vacant, Parent, Stat, TypeOf, IsDirIn, Lstat
    <3>2. SetTop(p, h) /\ Continue /\ Tree
      BY <1>13, <2>3, <3>1 DEF TryMkdir, GoTo, f
    <3>3. h.at = "exists" /\ h.path = f.path /\ h.new = f.new /\ h.ignore = f.ignore
      BY <1>2 DEF Frames
    <3> HIDE DEF h
    <3>4. Maker(node, c, h)
      BY <1>6, <3>1, <3>3 DEF Maker, Lstat
    <3> QED BY <1>7, <1>8, <3>2, <3>3, <3>4 DEF c
  <2> QED BY <2>2, <2>3
<1>14. CASE AlreadyExists(p)
  <2>1. Tree /\ f.at = "exists"
    BY <1>14 DEF AlreadyExists, At, f
  <2>2. LstatIn(node, f.path) # Nil /\ ~f.new /\ ~f.ignore /\ f.path \in Prefixes(c.path)
    BY <1>6, <2>1 DEF Maker
  <2>3. CASE IsDirIn(node, f.path)
    <3>1. Return(p)
      BY <1>14, <2>2, <2>3 DEF AlreadyExists, DirExists, f
    <3> QED BY <1>5, <1>7, <1>9, <2>1, <2>3, <3>1 DEF c
  <2>4. CASE ~IsDirIn(node, f.path)
    <3>1. Fail(p)
      BY <1>14, <2>2, <2>4 DEF AlreadyExists, DirExists, f, Throw
    <3>2. LstatIn(before, f.path) # Nil
      BY <1>2, <2>2, <2>4, NewAreDirs
    <3>3. ~IsDirIn(before, f.path)
      BY <1>2, <2>4, GrownStat DEF IsDirIn, NewDirs
    <3>4. f.path # <<>>
      <4>1. IsDirIn(node, <<>>)
        BY <1>2, LstatIs, RootIs, DerefIs DEF IsDirIn, TreeOK, TypeIn
      <4> QED BY <2>4, <4>1
    <3>5. Blocked(c)
      <4>1. \E k \in 1 .. Len(c.path) : f.path = SubSeq(c.path, 1, k)
        BY <1>3, <2>2, <3>4, FrontPrefix
      <4> QED BY <3>2, <3>3, <4>1 DEF Blocked
    <3>6. stack'[p] = <<>> /\ \A q \in Procs \ {p} : stack'[q] = stack[q] /\ result'[q] = result[q]
      BY <1>4, <3>1 DEF Fail
    <3>7. MakerStack(node', c, <<>>)
      BY DEF MakerStack
    <3> QED BY <1>7, <2>1, <3>5, <3>6, <3>7 DEF c
  <2> QED BY <2>3, <2>4
<1> QED BY <1>11, <1>12, <1>13, <1>14 DEF MakeDir

(* MakersInv holds at first. *)
LEMMA InitMakers ==
  ASSUME Init PROVE MakersInv
<1> SUFFICES ASSUME Makers
             PROVE  /\ Used(node) /\ NewDirs(before, node)
                    /\ \A p \in Procs : MakerStack(node, cmd[p], stack[p]) /\ (result[p] = "fail" => Blocked(cmd[p]))
  BY DEF MakersInv
<1>1. Used(node) /\ before = node /\ node \in [Ids -> Inodes] /\ cmd \in [Procs -> Commands]
  BY SceneIs DEF Used, TreeOK
<1>2. NewDirs(before, node)
  BY <1>1, NewDirsRefl
<1>3. /\ stack = [p \in Procs |-> IF Idle(p) THEN <<>> ELSE <<First(cmd[p])>>]
      /\ result = [p \in Procs |-> IF Idle(p) THEN "ok" ELSE "run"]
  BY DEF Init
<1>4. ASSUME NEW p \in Procs PROVE MakerStack(node, cmd[p], stack[p]) /\ result[p] # "fail"
  <2>1. CASE Idle(p)
    <3>1. stack[p] = <<>> /\ result[p] = "ok"
      BY <1>3, <2>1
    <3> QED BY <3>1 DEF MakerStack
  <2>2. CASE ~Idle(p)
    <3>1. stack[p] = <<First(cmd[p])>> /\ result[p] = "run"
      BY <1>3, <2>2
    <3>2. cmd[p].op \in {"mkdir_p", "try_mkdir_p"}
      BY <2>2 DEF Makers, Makes, Idle
    <3>3. First(cmd[p]) = Frame(cmd[p].op, cmd[p].path)
      BY <3>2 DEF First
    <3>4. cmd[p].path # <<>> /\ cmd[p].path \in Seq(Names)
      BY <1>1, <2>2, SceneIs DEF Commands
    <3>5. cmd[p].path \in Prefixes(cmd[p].path)
      <4>1. SubSeq(cmd[p].path, 1, Len(cmd[p].path)) = cmd[p].path
        BY <3>4, SubSeqFull
      <4>2. Len(cmd[p].path) \in 0 .. Len(cmd[p].path)
        BY <3>4
      <4> QED BY <4>1, <4>2 DEF Prefixes
    <3>6. /\ First(cmd[p]).at = cmd[p].op /\ First(cmd[p]).path = cmd[p].path
          /\ ~First(cmd[p]).new /\ ~First(cmd[p]).ignore
      BY <3>3 DEF Frame
    <3>7. Maker(node, cmd[p], First(cmd[p])) /\ First(cmd[p]).at # "mkdir"
      BY <3>2, <3>4, <3>5, <3>6 DEF Maker
    <3> QED BY <3>1, <3>7 DEF MakerStack
  <2> QED BY <2>1, <2>2
<1> QED BY <1>1, <1>2, <1>4

(* As long as only mkdir -p and try_mkdir_p() run, only directories come   *)
(* to the tree, the parent of what mkdir() is asked to make is there,      *)
(* what it says to exist is there, and a command that failed was blocked   *)
(* from the beginning.                                                     *)
THEOREM MakersInvariant == Spec => [](TypeOK /\ MakersInv)
<1>1. Init => TypeOK /\ MakersInv
  BY InitTypes, InitMakers
<1>2. TypeOK /\ TypeOK' /\ MakersInv /\ [Next]_vars => MakersInv'
  <2> SUFFICES ASSUME TypeOK, TypeOK', MakersInv, [Next]_vars, Makers'
               PROVE  (/\ Used(node) /\ NewDirs(before, node)
                       /\ \A p \in Procs : MakerStack(node, cmd[p], stack[p])
                                            /\ (result[p] = "fail" => Blocked(cmd[p])))'
    BY DEF MakersInv
  <2>1. CASE UNCHANGED vars
    <3>1. Makers
      BY <2>1 DEF Makers, vars
    <3>2. /\ Used(node) /\ NewDirs(before, node)
          /\ \A p \in Procs : MakerStack(node, cmd[p], stack[p]) /\ (result[p] = "fail" => Blocked(cmd[p]))
      BY <3>1 DEF MakersInv
    <3>3. /\ node' = node /\ before' = before /\ cmd' = cmd /\ stack' = stack /\ result' = result
      BY <2>1 DEF vars
    <3> QED BY <3>2, <3>3 DEF Used, Linked, NewDirs, Grown, Blocked
  <2>2. ASSUME NEW p \in Procs, Step(p)
        PROVE  (/\ Used(node) /\ NewDirs(before, node)
                /\ \A q \in Procs : MakerStack(node, cmd[q], stack[q]) /\ (result[q] = "fail" => Blocked(cmd[q])))'
    <3>1. Given
      BY <2>2, StepTypes
    <3>2. Makers /\ before' = before /\ cmd' = cmd
      BY <3>1 DEF Given, Makers
    <3>3. /\ Used(node) /\ NewDirs(before, node)
          /\ \A q \in Procs : MakerStack(node, cmd[q], stack[q]) /\ (result[q] = "fail" => Blocked(cmd[q]))
      BY <3>2 DEF MakersInv
    <3>4. result[p] = "run" => Top(p).at \in {"mkdir_p", "try_mkdir_p", "mkdir", "exists"}
      <4>1. result[p] = "run" => stack[p] \in Seq(Frames) /\ stack[p] # <<>>
        BY DEF TypeOK
      <4> QED BY <3>3, <4>1 DEF MakerStack, Maker, Top, Last
    <3>5. MakeDir(p)
      <4>1. ~RemoveEntry(p)
        BY <3>4 DEF RemoveEntry, TryRmdir, Rm, RmFile, TryRmdirR, OpenDir, NextEntry, EntryType, EndOfDir,
                    UnlinkEntry, At
      <4>2. ~TouchFile(p) /\ ~Ln(p)
        BY <3>4 DEF TouchFile, Touch, Utimes, CreateFile, Ln, LinkTarget, MkSymlink, MkHardlink, At
      <4>3. ~Cp(p)
        BY <3>4 DEF Cp, CpDir, CpOpenDir, CpNext, CpEntry, CpEnd, CpSource, CpFile, CpUndo, At
      <4>4. ~Mv(p) /\ ~Rename(p)
        BY <3>4 DEF Mv, Rename, At
      <4> QED BY <2>2, <4>1, <4>2, <4>3, <4>4 DEF Step
    <3>6. /\ Grown(node, node') /\ Used(node') /\ NewDirs(before, node')
          /\ MakerStack(node', cmd[p], stack'[p]) /\ (result'[p] = "fail" => Blocked(cmd[p]))
          /\ \A q \in Procs \ {p} : stack'[q] = stack[q] /\ result'[q] = result[q]
      BY <3>2, <3>3, <3>5, MakerStep
    <3>7. ASSUME NEW q \in Procs
          PROVE  MakerStack(node', cmd[q], stack'[q]) /\ (result'[q] = "fail" => Blocked(cmd[q]))
      <4>1. CASE q = p
        BY <3>6, <4>1
      <4>2. CASE q # p
        <5>1. node \in [Ids -> Inodes] /\ node' \in [Ids -> Inodes] /\ cmd[q].path \in Seq(Names)
          BY DEF TypeOK, TreeOK, Commands
        <5>2. stack[q] \in Seq(Good)
          BY TypedCalls DEF Typed, CallsOf
        <5>3. MakerStack(node', cmd[q], stack[q])
          BY <3>3, <3>6, <5>1, <5>2, MakerGrows
        <5> QED BY <3>3, <3>6, <4>2, <5>3
      <4> QED BY <4>1, <4>2
    <3>8. \A q \in Procs : Blocked(cmd[q])' <=> Blocked(cmd[q])
      BY <3>2 DEF Blocked
    <3> QED BY <3>2, <3>6, <3>7, <3>8
  <2> QED BY <2>1, <2>2 DEF Next, AllDone
<1> QED BY <1>1, <1>2, TypeCorrect, PTL DEF Spec

(* Any number of processes make overlapping paths at the same time         *)
(* without failing because of each other: the check for a directory and    *)
(* the mkdir() after it are two steps, and EEXIST is looked into.          *)
THEOREM PathsAreShared == Spec => []PathsShared
<1>1. MakersInv => PathsShared
  BY DEF MakersInv, PathsShared, Makers
<1> QED BY <1>1, MakersInvariant, PTL

-----------------------------------------------------------------------------
(* Cleaning up: what is gone from the tree. *)

(* Nothing is in g that is not in f. *)
Shrunk(f, g) ==
  \A i \in Ids :
    \/ g[i] = f[i]
    \/ g[i] = NoInode
    \/ f[i].type = "dir" /\ g[i].type = "dir" /\ \A n \in Names : g[i].sub[n] \in {f[i].sub[n], Nil}

LEMMA ShrunkTrans ==
  ASSUME NEW f \in [Ids -> Inodes], NEW g \in [Ids -> Inodes], NEW h \in [Ids -> Inodes],
         Shrunk(f, g), Shrunk(g, h)
  PROVE  Shrunk(f, h)
<1> SUFFICES ASSUME NEW i \in Ids
             PROVE  \/ h[i] = f[i]
                    \/ h[i] = NoInode
                    \/ f[i].type = "dir" /\ h[i].type = "dir"
                         /\ \A n \in Names : h[i].sub[n] \in {f[i].sub[n], Nil}
  BY DEF Shrunk
<1>1. NoInode.type = "none"
  BY DEF NoInode
<1> QED BY <1>1 DEF Shrunk

(* Taking entries away leaves what is there as it was, ... *)
LEMMA ShrunkChild ==
  ASSUME NEW f \in [Ids -> Inodes], NEW g \in [Ids -> Inodes], Shrunk(f, g), NEW i \in Refs
  PROVE  /\ TypeIn(g, i) \in {TypeIn(f, i), "none"}
         /\ \A n \in Names : ChildIn(g, i, n) \in {ChildIn(f, i, n), Nil}
<1>1. CASE i = Nil
  BY <1>1, NilLeadsNowhere
<1>2. CASE i \in Ids
  <2>1. i # Nil /\ TypeIn(g, i) = g[i].type /\ TypeIn(f, i) = f[i].type
    BY <1>2, CommandsAssumption DEF TypeIn
  <2>2. NoInode.type = "none"
    BY DEF NoInode
  <2> QED BY <1>2, <2>1, <2>2 DEF Shrunk, ChildIn
<1> QED BY <1>1, <1>2 DEF Refs

(* ... and every path leads where it led or nowhere. *)
LEMMA ShrunkDown ==
  ASSUME NEW f \in [Ids -> Inodes], NEW g \in [Ids -> Inodes], Shrunk(f, g)
  PROVE  \A q \in Seq(Names) : Down(g, q) \in {Down(f, q), Nil}
<1> DEFINE T == {q \in Seq(Names) : Down(g, q) \in {Down(f, q), Nil}}
<1>1. <<>> \in T
  BY DownIs
<1>2. ASSUME NEW q \in Seq(Names), NEW n \in Names, q \in T PROVE Append(q, n) \in T
  <2>1. Append(q, n) \in Seq(Names)
    BY AppendParts
  <2>2. /\ Down(f, Append(q, n)) = ChildIn(f, Down(f, q), n) /\ Down(f, q) \in Refs
        /\ Down(g, Append(q, n)) = ChildIn(g, Down(g, q), n)
    BY DownIs
  <2>3. CASE Down(g, q) = Nil
    BY <2>1, <2>2, <2>3, NilLeadsNowhere
  <2>4. CASE Down(g, q) = Down(f, q)
    BY <2>1, <2>2, <2>4, ShrunkChild
  <2> QED BY <1>2, <2>3, <2>4
<1> HIDE DEF T
<1>3. \A q \in Seq(Names) : q \in T
  BY <1>1, <1>2, PathInduction
<1> QED BY <1>3 DEF T

(* Nothing that is found has been released. *)
LEMMA DownInUse ==
  ASSUME NEW g, TreeOK(g), NEW q \in Seq(Names), Down(g, q) # Nil
  PROVE  TypeIn(g, Down(g, q)) # "none" /\ Down(g, q) \in Ids
<1>1. g \in [Ids -> Inodes]
  BY DEF TreeOK
<1>2. Down(g, q) = Root \/ Linked(g, Down(g, q))
  BY <1>1, FoundLinked
<1>3. Down(g, q) \in Refs /\ Down(g, q) \in Ids
  BY <1>1, DownIs DEF Refs
<1> QED BY <1>1, <1>2, <1>3, InodeKinds DEF TreeOK

(* The path q leads from directory to directory in f. *)
RealDir(f, q) == TypeIn(f, Down(f, q)) = "dir"

(* The directory of an entry. *)
LEMMA RealFront ==
  ASSUME NEW f \in [Ids -> Inodes], NEW q \in Seq(Names), NEW n \in Names, Down(f, Append(q, n)) # Nil
  PROVE  RealDir(f, q)
BY DownIs DEF RealDir, ChildIn

(* On such a path there are no symlinks to follow, whatever was removed. *)
LEMMA RealStraight ==
  ASSUME NEW f \in [Ids -> Inodes], NEW g, TreeOK(g), Shrunk(f, g)
  PROVE  \A q \in Seq(Names) :
           RealDir(f, q) =>
             /\ LstatIn(g, q) = Down(g, q) /\ DerefIn(g, LstatIn(g, q)) = Down(g, q)
             /\ IsDirIn(g, q) <=> Down(g, q) # Nil
             /\ Down(g, q) # Nil => Down(g, q) = Down(f, q) /\ TypeIn(g, Down(g, q)) = "dir"
             /\ \A n \in Names : LstatIn(g, Append(q, n)) = Down(g, Append(q, n))
<1> DEFINE T == {q \in Seq(Names) : RealDir(f, q) => LstatIn(g, q) = Down(g, q)}
<1>1. g \in [Ids -> Inodes]
  BY DEF TreeOK
<1>2. ASSUME NEW q \in Seq(Names), RealDir(f, q)
      PROVE  /\ DerefIn(g, Down(g, q)) = Down(g, q)
             /\ Down(g, q) # Nil => Down(g, q) = Down(f, q) /\ TypeIn(g, Down(g, q)) = "dir"
  <2>1. Down(g, q) \in {Down(f, q), Nil} /\ Down(f, q) \in Refs
    BY <1>1, DownIs, ShrunkDown
  <2>2. ASSUME Down(g, q) # Nil PROVE Down(g, q) = Down(f, q) /\ TypeIn(g, Down(g, q)) = "dir"
    <3>1. TypeIn(g, Down(g, q)) # "none"
      BY <2>2, DownInUse
    <3> QED BY <1>1, <1>2, <2>1, <2>2, <3>1, ShrunkChild DEF RealDir
  <2>3. CASE Down(g, q) = Nil
    BY <2>3, NilLeadsNowhere
  <2>4. CASE Down(g, q) # Nil
    BY <1>1, <2>1, <2>2, <2>4, DerefIs
  <2> QED BY <2>2, <2>3, <2>4
<1>3. <<>> \in T
  BY <1>1, DownIs, LstatIs
<1>4. ASSUME NEW q \in Seq(Names), NEW n \in Names, q \in T PROVE Append(q, n) \in T
  <2>1. Append(q, n) \in Seq(Names)
    BY AppendParts
  <2> SUFFICES ASSUME RealDir(f, Append(q, n)) PROVE LstatIn(g, Append(q, n)) = Down(g, Append(q, n))
    BY <2>1
  <2>2. RealDir(f, q)
    BY RealFront, NilLeadsNowhere DEF RealDir
  <2>3. LstatIn(g, q) = Down(g, q)
    BY <1>4, <2>2
  <2> QED BY <1>1, <1>2, <2>2, <2>3, DownIs, LstatIs
<1>5. \A q \in Seq(Names) : q \in T
  <2> HIDE DEF T
  <2> QED BY <1>3, <1>4, PathInduction
<1>6. ASSUME NEW q \in Seq(Names), RealDir(f, q)
      PROVE  /\ LstatIn(g, q) = Down(g, q) /\ DerefIn(g, LstatIn(g, q)) = Down(g, q)
             /\ IsDirIn(g, q) <=> Down(g, q) # Nil
             /\ Down(g, q) # Nil => Down(g, q) = Down(f, q) /\ TypeIn(g, Down(g, q)) = "dir"
             /\ \A n \in Names : LstatIn(g, Append(q, n)) = Down(g, Append(q, n))
  <2>1. LstatIn(g, q) = Down(g, q)
    BY <1>5, <1>6
  <2>2. DerefIn(g, LstatIn(g, q)) = Down(g, q)
    BY <1>2, <1>6, <2>1
  <2>3. Down(g, q) # Nil => Down(g, q) = Down(f, q) /\ TypeIn(g, Down(g, q)) = "dir"
    BY <1>2, <1>6
  <2>4. IsDirIn(g, q) <=> Down(g, q) # Nil
    BY <2>2, <2>3, NilLeadsNowhere DEF IsDirIn
  <2>5. \A n \in Names : LstatIn(g, Append(q, n)) = Down(g, Append(q, n))
    BY <1>1, <2>2, DownIs, LstatIs
  <2> QED BY <2>1, <2>2, <2>3, <2>4, <2>5
<1> QED BY <1>6

(* Taking an entry away shrinks the tree, ... *)
LEMMA RemovesShrinks ==
  ASSUME TreeOK(node), NEW path, Last(path) \in Names, NEW g, Removes(g, path)
  PROVE  Shrunk(node, g)
<1> DEFINE d == Parent(path)
           x == Lstat(path)
<1>1. \A n \in Names : g[d].sub[n] \in {node[d].sub[n], Nil}
  BY DEF Removes
<1>2. d \in Ids /\ node[d].type = "dir" /\ g[d].type = "dir"
      /\ (g[x] = node[x] \/ g[x] = NoInode) /\ \A j \in Ids \ {d, x} : g[j] = node[j]
  BY DEF Removes
<1> HIDE DEF d, x
<1> QED BY <1>1, <1>2 DEF Shrunk

(* ... and the entry is gone. *)
LEMMA RemovedIsGone ==
  ASSUME TreeOK(node), NEW path \in Seq(Names), path # <<>>, NEW g, Removes(g, path),
         DerefIn(node, LstatIn(node, Front(path))) = Down(node, Front(path))
  PROVE  Down(g, path) = Nil
<1> DEFINE d == Parent(path)
<1>1. Front(path) \in Seq(Names) /\ Last(path) \in Names /\ Append(Front(path), Last(path)) = path
  BY FrontLast
<1>2. node \in [Ids -> Inodes] /\ g \in [Ids -> Inodes] /\ Shrunk(node, g)
  BY <1>1, RemovesShrinks DEF TreeOK, Removes
<1>3. d = Down(node, Front(path))
  BY DEF Parent, Stat, Lstat
<1>4. Down(g, Front(path)) \in {d, Nil}
  BY <1>1, <1>2, <1>3, ShrunkDown
<1>5. Down(g, path) = ChildIn(g, Down(g, Front(path)), Last(path))
  BY <1>1, <1>2, DownIs
<1>6. ChildIn(g, d, Last(path)) = Nil
  BY <1>1 DEF Removes, ChildIn
<1> QED BY <1>4, <1>5, <1>6, NilLeadsNowhere

-----------------------------------------------------------------------------
(* Cleaning up: the calls. *)

(* The calls of an auto_rmdir where readdir() tells the types of entries. *)
Cleaning == {f \in Good : f.ignore /\ f.at \in {"try_rmdir_r", "open", "next", "rmdir", "unlink"}}

(* Where the call f of a cleanup is, in the tree g of what was b: its      *)
(* directory is one that was there, and what is missing from what the      *)
(* stream has to tell, or the rmdir() to come relies on, is gone.          *)
ClearFrame(b, g, f) ==
  /\ f.at # "unlink" => RealDir(b, f.path)
  /\ f.at = "unlink" => RealDir(b, Front(f.path)) /\ TypeIn(b, Down(b, f.path)) \in {"file", "link"}
  /\ f.at \in {"try_rmdir_r", "open"} => f.seen = {}
  /\ f.at = "next" =>
       /\ f.dir = Down(b, f.path)
       /\ \A n \in Names :
            /\ f.had[n] \in {"none", TypeIn(b, Down(b, Append(f.path, n)))}
            /\ f.had[n] = "none" => Down(g, Append(f.path, n)) = Nil
  /\ f.at = "rmdir" => \A n \in Names : Down(g, Append(f.path, n)) = Nil

(* The calls s of the command c: each is about an entry of the directory   *)
(* that the one before it iterates over, and the other entries which that  *)
(* one has seen are gone.                                                  *)
ClearStack(b, g, c, s) ==
  \A k \in 1 .. Len(s) :
    /\ ClearFrame(b, g, s[k])
    /\ k = 1 => s[k].path = c.path
    /\ k < Len(s) => s[k].at = "next"
    /\ s[k].at = "next" =>
         \A n \in s[k].seen :
           \/ Down(g, Append(s[k].path, n)) = Nil
           \/ k < Len(s) /\ s[k + 1].path = Append(s[k].path, n)

Cleaners == fs.types /\ \A p \in Procs : cmd[p].op \in {"none", "auto_rm"}

CleanersInv ==
  Cleaners =>
    /\ Shrunk(before, node)
    /\ CallsOf(Cleaning, stack, result)
    /\ \A p \in Procs :
         ~Idle(p) /\ RealDir(before, cmd[p].path) =>
           /\ ClearStack(before, node, cmd[p], stack[p])
           /\ result[p] # "run" => Down(node, cmd[p].path) = Nil

(* The innermost call goes on, ... *)
LEMMA ClearSet ==
  ASSUME NEW s \in Seq(Cleaning), s # <<>>, NEW b, NEW g, NEW c, ClearStack(b, g, c, s),
         NEW h \in Cleaning, h.path = Last(s).path, ClearFrame(b, g, h),
         h.at = "next" => \A n \in h.seen : Down(g, Append(h.path, n)) = Nil
  PROVE  ClearStack(b, g, c, Append(Front(s), h))
<1> DEFINE a == Append(Front(s), h)
<1>1. /\ Len(s) \in Nat \ {0} /\ Last(s) = s[Len(s)]
      /\ Len(a) = Len(s) /\ a[Len(s)] = h /\ \A k \in 1 .. Len(s) - 1 : a[k] = s[k]
  BY SetParts
<1> HIDE DEF a
<1>2. ASSUME NEW k \in 1 .. Len(a)
      PROVE  /\ ClearFrame(b, g, a[k])
             /\ k = 1 => a[k].path = c.path
             /\ k < Len(a) => a[k].at = "next"
             /\ a[k].at = "next" =>
                  \A n \in a[k].seen :
                    \/ Down(g, Append(a[k].path, n)) = Nil
                    \/ k < Len(a) /\ a[k + 1].path = Append(a[k].path, n)
  <2>1. CASE k = Len(s)
    <3>1. k = 1 => s[k].path = c.path
      BY <1>1, <2>1 DEF ClearStack
    <3> QED BY <1>1, <2>1, <3>1
  <2>2. CASE k # Len(s)
    <3>1. k \in 1 .. Len(s) - 1 /\ k \in 1 .. Len(s) /\ k + 1 \in 1 .. Len(s) /\ k < Len(s)
      BY <1>1, <2>2
    <3>2. a[k] = s[k] /\ a[k + 1].path = s[k + 1].path
      BY <1>1, <3>1
    <3>3. /\ ClearFrame(b, g, s[k])
          /\ k = 1 => s[k].path = c.path
          /\ s[k].at = "next"
          /\ \A n \in s[k].seen :
               \/ Down(g, Append(s[k].path, n)) = Nil
               \/ k < Len(s) /\ s[k + 1].path = Append(s[k].path, n)
      BY <3>1 DEF ClearStack
    <3> QED BY <1>1, <3>1, <3>2, <3>3
  <2> QED BY <2>1, <2>2
<1> QED BY <1>2 DEF ClearStack, a

(* ... calls another one for an entry, ... *)
LEMMA ClearCall ==
  ASSUME NEW s \in Seq(Cleaning), s # <<>>, NEW b, NEW g, NEW c, ClearStack(b, g, c, s),
         NEW f \in Cleaning, f.path = Last(s).path, f.at = "next", ClearFrame(b, g, f),
         NEW m \in Names, \A n \in f.seen : n = m \/ Down(g, Append(f.path, n)) = Nil,
         NEW h \in Cleaning, h.path = Append(f.path, m), h.at # "next", ClearFrame(b, g, h)
  PROVE  ClearStack(b, g, c, Append(Front(s), f) \o <<h>>)
<1> DEFINE a == Append(Front(s), f) \o <<h>>
<1>1. /\ Len(s) \in Nat \ {0} /\ Last(s) = s[Len(s)]
      /\ Len(a) = Len(s) + 1 /\ a[Len(s)] = f /\ a[Len(s) + 1] = h
      /\ \A k \in 1 .. Len(s) - 1 : a[k] = s[k]
  BY SetParts, CallParts
<1> HIDE DEF a
<1>2. ASSUME NEW k \in 1 .. Len(a)
      PROVE  /\ ClearFrame(b, g, a[k])
             /\ k = 1 => a[k].path = c.path
             /\ k < Len(a) => a[k].at = "next"
             /\ a[k].at = "next" =>
                  \A n \in a[k].seen :
                    \/ Down(g, Append(a[k].path, n)) = Nil
                    \/ k < Len(a) /\ a[k + 1].path = Append(a[k].path, n)
  <2>1. CASE k = Len(s) + 1
    BY <1>1, <2>1
  <2>2. CASE k = Len(s)
    <3>1. k = 1 => s[k].path = c.path
      BY <1>1, <2>2 DEF ClearStack
    <3>2. k < Len(a) /\ a[k] = f /\ a[k + 1] = h
      BY <1>1, <2>2
    <3> QED BY <1>1, <2>2, <3>1, <3>2
  <2>3. CASE k # Len(s) /\ k # Len(s) + 1
    <3>1. k \in 1 .. Len(s) - 1 /\ k \in 1 .. Len(s) /\ k + 1 \in 1 .. Len(s) /\ k < Len(s) /\ k < Len(a)
      BY <1>1, <2>3
    <3>2. a[k] = s[k] /\ a[k + 1].path = s[k + 1].path
      BY <1>1, <3>1
    <3>3. /\ ClearFrame(b, g, s[k])
          /\ k = 1 => s[k].path = c.path
          /\ s[k].at = "next"
          /\ \A n \in s[k].seen :
               \/ Down(g, Append(s[k].path, n)) = Nil
               \/ k < Len(s) /\ s[k + 1].path = Append(s[k].path, n)
      BY <3>1 DEF ClearStack
    <3> QED BY <3>1, <3>2, <3>3
  <2> QED BY <2>1, <2>2, <2>3
<1> QED BY <1>2 DEF ClearStack, a

(* ... or returns, with its entry gone. *)
LEMMA ClearReturn ==
  ASSUME NEW s \in Seq(Cleaning), s # <<>>, NEW b, NEW g, NEW c, ClearStack(b, g, c, s),
         Down(g, Last(s).path) = Nil
  PROVE  ClearStack(b, g, c, Front(s)) /\ (Len(s) = 1 => Down(g, c.path) = Nil)
<1> DEFINE r == Front(s)
<1>1. /\ Len(s) \in Nat \ {0} /\ Last(s) = s[Len(s)]
      /\ Len(r) = Len(s) - 1 /\ \A k \in 1 .. Len(s) - 1 : r[k] = s[k]
  BY FrontLast DEF Last, Front
<1> HIDE DEF r
<1>2. ASSUME NEW k \in 1 .. Len(r)
      PROVE  /\ ClearFrame(b, g, r[k])
             /\ k = 1 => r[k].path = c.path
             /\ k < Len(r) => r[k].at = "next"
             /\ r[k].at = "next" =>
                  \A n \in r[k].seen :
                    \/ Down(g, Append(r[k].path, n)) = Nil
                    \/ k < Len(r) /\ r[k + 1].path = Append(r[k].path, n)
  <2>1. k \in 1 .. Len(s) - 1 /\ k \in 1 .. Len(s) /\ k < Len(s)
    BY <1>1
  <2>2. /\ ClearFrame(b, g, s[k])
        /\ k = 1 => s[k].path = c.path
        /\ s[k].at = "next"
        /\ \A n \in s[k].seen :
             \/ Down(g, Append(s[k].path, n)) = Nil
             \/ s[k + 1].path = Append(s[k].path, n)
    BY <2>1 DEF ClearStack
  <2>3. r[k] = s[k]
    BY <1>1, <2>1
  <2>4. CASE k < Len(r)
    <3>1. r[k + 1] = s[k + 1]
      BY <1>1, <2>4
    <3> QED BY <2>2, <2>3, <2>4, <3>1
  <2>5. CASE ~(k < Len(r))
    <3>1. s[k + 1] = Last(s)
      BY <1>1, <2>5
    <3> QED BY <2>2, <2>3, <2>5, <3>1
  <2> QED BY <2>4, <2>5
<1>3. Len(s) = 1 => Last(s).path = c.path
  BY <1>1 DEF ClearStack
<1> QED BY <1>2, <1>3 DEF ClearStack, r

(* What others remove does not disturb the calls. *)
LEMMA ClearShrinks ==
  ASSUME NEW b, NEW f \in [Ids -> Inodes], NEW g \in [Ids -> Inodes], Shrunk(f, g),
         NEW c, NEW s \in Seq(Cleaning), ClearStack(b, f, c, s)
  PROVE  ClearStack(b, g, c, s)
<1> SUFFICES ASSUME NEW k \in 1 .. Len(s)
             PROVE  /\ ClearFrame(b, g, s[k])
                    /\ k = 1 => s[k].path = c.path
                    /\ k < Len(s) => s[k].at = "next"
                    /\ s[k].at = "next" =>
                         \A n \in s[k].seen :
                           \/ Down(g, Append(s[k].path, n)) = Nil
                           \/ k < Len(s) /\ s[k + 1].path = Append(s[k].path, n)
  BY DEF ClearStack
<1>1. /\ ClearFrame(b, f, s[k])
      /\ k = 1 => s[k].path = c.path
      /\ k < Len(s) => s[k].at = "next"
      /\ s[k].at = "next" =>
           \A n \in s[k].seen :
             \/ Down(f, Append(s[k].path, n)) = Nil
             \/ k < Len(s) /\ s[k + 1].path = Append(s[k].path, n)
  BY DEF ClearStack
<1>2. s[k].path \in Seq(Names) /\ s[k].seen \subseteq Names
  <2>1. s[k] \in Cleaning
    OBVIOUS
  <2> QED BY <2>1 DEF Cleaning, Good, Frames
<1>3. \A n \in Names : Down(f, Append(s[k].path, n)) = Nil => Down(g, Append(s[k].path, n)) = Nil
  <2>1. \A n \in Names : Append(s[k].path, n) \in Seq(Names)
    BY <1>2, AppendParts
  <2> QED BY <2>1, ShrunkDown
<1>4. ClearFrame(b, g, s[k])
  BY <1>1, <1>3 DEF ClearFrame
<1> QED BY <1>1, <1>2, <1>3, <1>4

(* What is known of the calls of a cleanup. *)
LEMMA CleaningFrames ==
  /\ Cleaning \subseteq Good
  /\ \A f \in Cleaning : f \in Frames /\ FrameOK(f) /\ f.ignore /\ f.path \in Seq(Names) /\ f.path # <<>>
                           /\ f.seen \subseteq Names
BY DEF Cleaning, Good, Frames, FrameOK

(* Nothing has been taken away at first. *)
LEMMA ShrunkRefl ==
  ASSUME NEW f PROVE Shrunk(f, f)
BY DEF Shrunk

(* Frames that a cleanup goes on with. *)
LEMMA CleaningNext ==
  ASSUME NEW f \in Cleaning
  PROVE  /\ f.at = "try_rmdir_r" => [f EXCEPT !.at = "open"] \in Cleaning
         /\ Closed(f) \in Cleaning /\ Closed(f).at = "rmdir" /\ Closed(f).path = f.path
         /\ [f EXCEPT !.at = "open"].path = f.path /\ [f EXCEPT !.at = "open"].at = "open"
         /\ [f EXCEPT !.at = "open"].seen = f.seen
<1>1. f \in Frames /\ FrameOK(f) /\ f.ignore /\ f \in Good /\ f.path # <<>>
  BY CleaningFrames
<1>2. f.at = "try_rmdir_r" => [f EXCEPT !.at = "open"] \in Good
  BY <1>1, GoToTypes DEF Steps
<1>3. /\ [f EXCEPT !.at = "open"].path = f.path /\ [f EXCEPT !.at = "open"].at = "open"
      /\ [f EXCEPT !.at = "open"].seen = f.seen /\ [f EXCEPT !.at = "open"].ignore = f.ignore
  BY <1>1 DEF Frames
<1>4. Closed(f) \in Frames /\ Closed(f).at = "rmdir" /\ Closed(f).path = f.path /\ Closed(f).ignore = f.ignore
  BY <1>1, FrameClosed DEF Closed, Frames
<1>5. Closed(f) \in Good
  BY <1>1, <1>4 DEF Good, FrameOK
<1> QED BY <1>1, <1>2, <1>3, <1>4, <1>5 DEF Cleaning

(* The calls a and h that Dispose leaves. *)
Disposed(p, n, t, a, h) ==
  /\ stack' = [stack EXCEPT ![p] = Append(Front(@), a) \o <<h>>]
  /\ a.at = "next" /\ a.path = Top(p).path /\ a.dir = Top(p).dir /\ a.had = Top(p).had
  /\ a.seen = Top(p).seen \cup {n}
  /\ h.at = IF t = "dir" THEN "open" ELSE "unlink"
  /\ h.path = Append(Top(p).path, n) /\ h.seen = {}

(* They are the calls of a cleanup. *)
LEMMA CleaningDispose ==
  ASSUME NEW p \in Procs, Top(p) \in Cleaning, Top(p).at = "next", NEW n \in Names, NEW t, Dispose(p, n, t)
  PROVE  \E a \in Cleaning, h \in Cleaning : Disposed(p, n, t, a, h)
<1> DEFINE a == [Top(p) EXCEPT !.seen = @ \cup {n}, !.entry = Nil, !.at = "next"]
           at == IF t = "dir" THEN "open" ELSE "unlink"
           h == [Frame(at, Entry(Top(p), n)) EXCEPT !.ignore = Top(p).ignore]
<1>1. Top(p) \in Frames /\ FrameOK(Top(p)) /\ Top(p).ignore /\ Top(p).path \in Seq(Names)
  BY CleaningFrames
<1>2. /\ a \in Frames
      /\ a.at = "next" /\ a.path = Top(p).path /\ a.dir = Top(p).dir /\ a.had = Top(p).had
      /\ a.seen = Top(p).seen \cup {n} /\ a.ignore
  <2>1. a \in Frames
    BY <1>1, FrameEntry DEF Steps
  <2> QED BY <1>1, <2>1 DEF Frames
<1>3. a \in Cleaning
  <2>1. Top(p).dir # Nil /\ Top(p).path # <<>>
    BY <1>1 DEF FrameOK
  <2> HIDE DEF a
  <2> QED BY <1>2, <2>1 DEF Cleaning, Good, FrameOK
<1>4. Entry(Top(p), n) \in Seq(Names) /\ Entry(Top(p), n) # <<>> /\ Entry(Top(p), n) = Append(Top(p).path, n)
  BY <1>1, AppendParts DEF Entry
<1>5. h \in Good
  <2>1. Top(p).ignore \in BOOLEAN /\ at \in Steps
    BY <1>1 DEF Frames, Steps
  <2>2. \A b \in BOOLEAN : [Frame(at, Entry(Top(p), n)) EXCEPT !.ignore = b] \in Good
    BY <1>4, <2>1, NewFrameTypes
  <2> QED BY <2>1, <2>2
<1>6. h.at = at /\ h.path = Append(Top(p).path, n) /\ h.seen = {} /\ h.ignore
  BY <1>1, <1>4 DEF Frame
<1>7. stack' = [stack EXCEPT ![p] = Append(Front(@), a) \o <<h>>]
  BY Zenon DEF Dispose
<1> HIDE DEF a, h
<1>8. h \in Cleaning
  BY <1>5, <1>6 DEF Cleaning
<1> QED BY <1>2, <1>3, <1>6, <1>7, <1>8 DEF Disposed

(* A stream that is opened has what is there. *)
LEMMA CleaningOpened ==
  ASSUME TypeOK, NEW p \in Procs, Top(p) \in Cleaning, DirExists(Top(p).path)
  PROVE  LET f == Opened(p, "next", Top(p).path)
         IN  /\ f \in Cleaning /\ f.at = "next" /\ f.path = Top(p).path /\ f.seen = Top(p).seen
             /\ f.dir = Stat(Top(p).path)
             /\ \A n \in Names : f.had[n] = TypeOf(Child(f.dir, n))
<1> DEFINE f == Opened(p, "next", Top(p).path)
<1>1. /\ Top(p) \in Frames /\ Top(p).ignore /\ Top(p).path \in Seq(Names) /\ Top(p).path # <<>>
      /\ node \in [Ids -> Inodes]
  BY CleaningFrames DEF TypeOK, TreeOK
<1>2. f \in Frames /\ f.at = "next" /\ f.dir = Stat(Top(p).path) /\ f.path = Top(p).path
      /\ f.ignore = Top(p).ignore
  <2>1. "next" \in Steps
    BY DEF Steps
  <2> HIDE DEF f
  <2>2. /\ Opened(p, "next", Top(p).path) \in Frames
        /\ Opened(p, "next", Top(p).path).at = "next"
        /\ Opened(p, "next", Top(p).path).dir = Stat(Top(p).path)
        /\ Opened(p, "next", Top(p).path).path = Top(p).path
        /\ Opened(p, "next", Top(p).path).ignore = Top(p).ignore
    BY <1>1, <2>1, OpenedTypes
  <2> QED BY <2>2 DEF f
<1>3. f.seen = Top(p).seen /\ f.had = [n \in Names |-> TypeOf(Child(Stat(Top(p).path), n))]
  BY <1>1 DEF Opened, Frames
<1> HIDE DEF f
<1>4. f.dir # Nil
  BY <1>2, IsDirStat
<1>5. f \in Cleaning
  BY <1>1, <1>2, <1>4 DEF Cleaning, Good, FrameOK
<1> QED BY <1>1, <1>2, <1>3, <1>5 DEF f

(* One step of a cleanup takes entries away at most, and goes on with calls *)
(* of the same kind.                                                       *)
LEMMA CleanerStep ==
  ASSUME TypeOK, fs.types, CallsOf(Cleaning, stack, result), NEW p \in Procs, Step(p)
  PROVE  /\ Shrunk(node, node') /\ CallsOf(Cleaning, stack', result')
         /\ result[p] = "run" /\ Top(p) \in Cleaning
         /\ \A q \in Procs \ {p} : stack'[q] = stack[q] /\ result'[q] = result[q]
         /\ TryRmdir(p) \/ TryRmdirR(p) \/ OpenDir(p) \/ NextEntry(p) \/ EndOfDir(p) \/ UnlinkEntry(p)
<1>1. result[p] = "run"
  BY DEF Step, MakeDir, MkdirP, TryMkdirP, TryMkdir, AlreadyExists,
         RemoveEntry, TryRmdir, Rm, RmFile, TryRmdirR, OpenDir, NextEntry, EntryType, EndOfDir, UnlinkEntry,
         TouchFile, Touch, Utimes, CreateFile, Ln, LinkTarget, MkSymlink, MkHardlink,
         Cp, CpDir, CpOpenDir, CpNext, CpEntry, CpEnd, CpSource, CpFile, CpUndo, Mv, Rename, At
<1>2. Top(p) \in Cleaning
  BY <1>1, StackSteps
<1>3. Top(p).at \in {"try_rmdir_r", "open", "next", "rmdir", "unlink"} /\ Top(p).ignore
  BY <1>2 DEF Cleaning
<1>4. TryRmdir(p) \/ TryRmdirR(p) \/ OpenDir(p) \/ NextEntry(p) \/ EndOfDir(p) \/ UnlinkEntry(p)
  <2>1. ~MakeDir(p)
    BY <1>3 DEF MakeDir, MkdirP, TryMkdirP, TryMkdir, AlreadyExists, At
  <2>2. ~TouchFile(p) /\ ~Ln(p)
    BY <1>3 DEF TouchFile, Touch, Utimes, CreateFile, Ln, LinkTarget, MkSymlink, MkHardlink, At
  <2>3. ~Cp(p)
    BY <1>3 DEF Cp, CpDir, CpOpenDir, CpNext, CpEntry, CpEnd, CpSource, CpFile, CpUndo, At
  <2>4. ~Mv(p) /\ ~Rename(p)
    BY <1>3 DEF Mv, Rename, At
  <2>5. ~Rm(p) /\ ~RmFile(p) /\ ~EntryType(p)
    BY <1>3 DEF Rm, RmFile, EntryType, At
  <2> QED BY <2>1, <2>2, <2>3, <2>4, <2>5 DEF Step, RemoveEntry
<1>5. /\ Top(p) \in Frames /\ Top(p).path \in Seq(Names) /\ Top(p).path # <<>>
      /\ node \in [Ids -> Inodes] /\ TreeOK(node)
      /\ stack \in [Procs -> Seq(Cleaning)] /\ result \in [Procs -> {"run", "ok", "fail"}]
  BY <1>2, CleaningFrames DEF TypeOK, TreeOK, CallsOf
<1>6. ASSUME Return(p)
      PROVE  CallsOf(Cleaning, stack', result')
             /\ \A q \in Procs \ {p} : stack'[q] = stack[q] /\ result'[q] = result[q]
  BY <1>1, <1>5, <1>6, StackSteps DEF Return
<1>7. ASSUME NEW f \in Cleaning, SetTop(p, f), Continue
      PROVE  CallsOf(Cleaning, stack', result')
             /\ \A q \in Procs \ {p} : stack'[q] = stack[q] /\ result'[q] = result[q]
  BY <1>1, <1>5, <1>7, StackSteps DEF SetTop, Continue
<1>8. Tree => Shrunk(node, node')
  BY ShrunkRefl DEF Tree
<1>9. ASSUME Removable(Top(p).path), node' = Unlink(Top(p).path) PROVE Shrunk(node, node')
  BY <1>5, <1>9, UnlinkRemoves, RemovesShrinks
<1>10. CASE TryRmdir(p)
  <2>1. CASE TypeOf(Lstat(Top(p).path)) = "dir" /\ Empty(Lstat(Top(p).path))
    <3>1. node' = Unlink(Top(p).path) /\ Return(p)
      BY <1>10, <2>1 DEF TryRmdir
    <3>2. Removable(Top(p).path)
      BY <2>1 DEF Removable
    <3> QED BY <1>1, <1>2, <1>4, <1>6, <1>9, <3>1, <3>2
  <2>2. CASE ~(TypeOf(Lstat(Top(p).path)) = "dir" /\ Empty(Lstat(Top(p).path)))
    <3>1. Tree /\ Return(p)
      BY <1>3, <1>10, <2>2 DEF TryRmdir
    <3> QED BY <1>1, <1>2, <1>4, <1>6, <1>8, <3>1
  <2> QED BY <2>1, <2>2
<1>11. CASE TryRmdirR(p)
  <2>1. Tree /\ Top(p).at = "try_rmdir_r"
    BY <1>11 DEF TryRmdirR, At
  <2>2. Return(p) \/ (SetTop(p, [Top(p) EXCEPT !.at = "open"]) /\ Continue)
    BY <1>11 DEF TryRmdirR, GoTo
  <2>3. [Top(p) EXCEPT !.at = "open"] \in Cleaning
    BY <1>2, <2>1, CleaningNext
  <2> QED BY <1>1, <1>2, <1>4, <1>6, <1>7, <1>8, <2>1, <2>2, <2>3
<1>12. CASE OpenDir(p)
  <2>1. Tree /\ Top(p).at = "open"
    BY <1>12 DEF OpenDir, At
  <2>2. CASE DirExists(Top(p).path)
    <3>1. SetTop(p, Opened(p, "next", Top(p).path)) /\ Continue
      BY <1>12, <2>2 DEF OpenDir
    <3>2. Opened(p, "next", Top(p).path) \in Cleaning
      BY <1>2, <2>2, CleaningOpened
    <3> QED BY <1>1, <1>2, <1>4, <1>7, <1>8, <2>1, <3>1, <3>2
  <2>3. CASE ~DirExists(Top(p).path)
    <3>1. SetTop(p, Closed(Top(p))) /\ Continue
      BY <1>3, <1>12, <2>1, <2>3 DEF OpenDir, Throw, CloseDir, Closed, Iterating
    <3> QED BY <1>1, <1>2, <1>4, <1>7, <1>8, <2>1, <3>1, CleaningNext
  <2> QED BY <2>2, <2>3
<1>13. CASE NextEntry(p)
  <2>1. Tree /\ Continue /\ Top(p).at = "next"
    BY <1>13 DEF NextEntry, At
  <2>2. PICK e \in Entries(Top(p)) : Dispose(p, e[1], e[2])
    BY <1>13 DEF NextEntry
  <2>3. e[1] \in Names
    BY DEF Entries
  <2>4. PICK a \in Cleaning, h \in Cleaning : Disposed(p, e[1], e[2], a, h)
    BY <1>2, <2>1, <2>2, <2>3, CleaningDispose
  <2>5. CallsOf(Cleaning, stack', result')
    BY <1>1, <2>1, <2>4, StackSteps DEF Disposed
  <2>6. \A q \in Procs \ {p} : stack'[q] = stack[q] /\ result'[q] = result[q]
    BY <1>5, <2>1, <2>4 DEF Continue, Disposed
  <2> QED BY <1>1, <1>2, <1>4, <1>8, <2>1, <2>5, <2>6
<1>14. CASE EndOfDir(p)
  <2>1. Tree /\ SetTop(p, Closed(Top(p))) /\ Continue
    BY <1>14 DEF EndOfDir, CloseDir, Closed
  <2> QED BY <1>1, <1>2, <1>4, <1>7, <1>8, <2>1, CleaningNext
<1>15. CASE UnlinkEntry(p)
  <2>1. CASE TypeOf(Lstat(Top(p).path)) \in {"file", "link"}
    <3>1. node' = Unlink(Top(p).path) /\ Return(p)
      BY <1>15, <2>1 DEF UnlinkEntry
    <3>2. Removable(Top(p).path)
      BY <2>1 DEF Removable
    <3> QED BY <1>1, <1>2, <1>4, <1>6, <1>9, <3>1, <3>2
  <2>2. CASE ~(TypeOf(Lstat(Top(p).path)) \in {"file", "link"})
    <3>1. Tree /\ Return(p)
      BY <1>3, <1>15, <2>2 DEF UnlinkEntry
    <3> QED BY <1>1, <1>2, <1>4, <1>6, <1>8, <3>1
  <2> QED BY <2>1, <2>2
<1> QED BY <1>4, <1>10, <1>11, <1>12, <1>13, <1>14, <1>15

(* One step of a cleanup that began at a directory: what it leaves, its     *)
(* calls see to; and when it ends, the directory is gone.                  *)
LEMMA ClearStep ==
  ASSUME TypeOK, TypeOK', fs.types, CallsOf(Cleaning, stack, result), Shrunk(before, node),
         NEW p \in Procs, NEW c, ClearStack(before, node, c, stack[p]), Step(p)
  PROVE  /\ ClearStack(before, node', c, stack'[p])
         /\ result'[p] # "run" => Down(node', c.path) = Nil
<1> DEFINE f == Top(p)
           s == stack[p]
           b == before
<1>1. /\ Shrunk(node, node') /\ CallsOf(Cleaning, stack', result')
      /\ result[p] = "run" /\ f \in Cleaning
      /\ TryRmdir(p) \/ TryRmdirR(p) \/ OpenDir(p) \/ NextEntry(p) \/ EndOfDir(p) \/ UnlinkEntry(p)
  BY CleanerStep
<1>2. /\ node \in [Ids -> Inodes] /\ TreeOK(node) /\ b \in [Ids -> Inodes] /\ TreeOK(b)
      /\ node' \in [Ids -> Inodes]
  BY DEF TypeOK, TreeOK
<1>3. /\ stack \in [Procs -> Seq(Cleaning)] /\ s \in Seq(Cleaning) /\ s # <<>> /\ f = Last(s)
      /\ result \in [Procs -> {"run", "ok", "fail"}]
  BY <1>1 DEF CallsOf, Top
<1>4. /\ f.path \in Seq(Names) /\ f.path # <<>> /\ f.ignore /\ f.seen \subseteq Names
      /\ \A n \in Names : Append(f.path, n) \in Seq(Names)
  BY <1>1, CleaningFrames, AppendParts
<1>5. /\ ClearFrame(b, node, f)
      /\ f.at = "next" => \A n \in f.seen : Down(node, Append(f.path, n)) = Nil
  BY <1>3 DEF ClearStack, Last
<1>6. /\ Down(node, f.path) \in {Down(b, f.path), Nil} /\ Down(b, f.path) \in Refs
      /\ \A n \in Names : /\ Down(node, Append(f.path, n)) = ChildIn(node, Down(node, f.path), n)
                          /\ Down(b, Append(f.path, n)) = ChildIn(b, Down(b, f.path), n)
                          /\ Down(b, Append(f.path, n)) \in Refs
  BY <1>2, <1>4, DownIs, ShrunkDown
<1>7. RealDir(b, f.path) =>
        /\ LstatIn(node, f.path) = Down(node, f.path)
        /\ DerefIn(node, LstatIn(node, f.path)) = Down(node, f.path)
        /\ IsDirIn(node, f.path) <=> Down(node, f.path) # Nil
        /\ Down(node, f.path) # Nil => Down(node, f.path) = Down(b, f.path)
                                       /\ TypeIn(node, Down(node, f.path)) = "dir"
  BY <1>2, <1>4, RealStraight
<1>8. ClearStack(b, node, c, s) /\ ClearStack(b, node', c, s)
  BY <1>1, <1>2, <1>3, ClearShrinks
<1> HIDE DEF f, s, b
<1>9. ASSUME NEW h \in Cleaning, SetTop(p, h), Continue, Tree, h.path = f.path, ClearFrame(b, node, h),
             h.at = "next" => \A n \in h.seen : Down(node, Append(h.path, n)) = Nil
      PROVE  ClearStack(b, node', c, stack'[p]) /\ (result'[p] # "run" => Down(node', c.path) = Nil)
  <2>1. stack'[p] = Append(Front(s), h)
    BY <1>3, <1>9 DEF SetTop, s
  <2>2. ClearStack(b, node, c, Append(Front(s), h))
    BY <1>3, <1>8, <1>9, ClearSet
  <2> QED BY <1>1, <1>9, <2>1, <2>2 DEF Continue, Tree
<1>10. ASSUME Return(p), Down(node', f.path) = Nil
       PROVE  ClearStack(b, node', c, stack'[p]) /\ (result'[p] # "run" => Down(node', c.path) = Nil)
  <2>1. stack'[p] = Front(s) /\ (result'[p] # "run" => Len(s) = 1)
    BY <1>1, <1>3, <1>10 DEF Return, s
  <2>2. ClearStack(b, node', c, Front(s)) /\ (Len(s) = 1 => Down(node', c.path) = Nil)
    BY <1>3, <1>8, <1>10, ClearReturn
  <2> QED BY <2>1, <2>2
<1>11. ASSUME Down(node, f.path) = Nil, f.at \in {"open", "next"}
       PROVE  ClearFrame(b, node, Closed(f))
  <2>1. Closed(f).at = "rmdir" /\ Closed(f).path = f.path
    BY <1>1, CleaningNext DEF f
  <2>2. \A n \in Names : Down(node, Append(f.path, n)) = Nil
    BY <1>6, <1>11, NilLeadsNowhere
  <2>3. RealDir(b, f.path)
    BY <1>5, <1>11 DEF ClearFrame
  <2> QED BY <2>1, <2>2, <2>3 DEF ClearFrame
<1>12. CASE TryRmdir(p)
  <2>1. f.at = "rmdir"
    BY <1>12 DEF TryRmdir, At, f
  <2>2. RealDir(b, f.path) /\ \A n \in Names : Down(node, Append(f.path, n)) = Nil
    BY <1>5, <2>1 DEF ClearFrame
  <2> DEFINE i == Lstat(f.path)
  <2>3. i = Down(node, f.path)
    BY <1>7, <2>2 DEF Lstat
  <2>4. CASE i = Nil
    <3>1. ~(TypeOf(i) = "dir" /\ Empty(i))
      BY <2>4, NilLeadsNowhere DEF TypeOf
    <3>2. Tree /\ Return(p)
      BY <1>4, <1>12, <3>1 DEF TryRmdir, f
    <3> QED BY <1>10, <2>3, <2>4, <3>2 DEF Tree, b
  <2>5. CASE i # Nil
    <3>1. TypeIn(node, i) = "dir" /\ i = Down(node, f.path)
      BY <1>7, <2>2, <2>3, <2>5
    <3>2. i \in Ids /\ node[i].type = "dir"
      BY <1>6, <2>5, <3>1 DEF TypeIn, Refs
    <3>3. node[i].sub \in [Names -> Refs]
      <4>1. i \in Refs /\ TypeIn(node, i) = "dir"
        BY <3>1, <3>2 DEF Refs
      <4> QED BY <1>2, <4>1, InodeKinds
    <3>4. \A n \in Names : node[i].sub[n] = Nil
      BY <1>6, <2>2, <3>1, <3>2 DEF ChildIn
    <3>5. Empty(i)
      BY <3>3, <3>4 DEF Empty, EmptyDir, Dir
    <3>6. TypeOf(i) = "dir"
      BY <3>1 DEF TypeOf
    <3>7. node' = Unlink(f.path) /\ Return(p)
      BY <1>12, <3>5, <3>6 DEF TryRmdir, f
    <3>8. Removable(f.path)
      BY <3>5, <3>6 DEF Removable
    <3>9. Removes(node', f.path)
      BY <1>2, <1>4, <3>7, <3>8, UnlinkRemoves
    <3>10. DerefIn(node, LstatIn(node, Front(f.path))) = Down(node, Front(f.path))
      <4>1. Front(f.path) \in Seq(Names) /\ Last(f.path) \in Names /\ Append(Front(f.path), Last(f.path)) = f.path
        BY <1>4, FrontLast
      <4>2. Down(b, f.path) # Nil
        BY <2>2, NilLeadsNowhere DEF RealDir
      <4>3. RealDir(b, Front(f.path))
        BY <1>2, <4>1, <4>2, RealFront
      <4> QED BY <1>2, <4>1, <4>3, RealStraight DEF b
    <3>11. Down(node', f.path) = Nil
      BY <1>2, <1>4, <3>9, <3>10, RemovedIsGone
    <3> QED BY <1>10, <3>7, <3>11 DEF b
  <2> QED BY <2>4, <2>5
<1>13. CASE TryRmdirR(p)
  <2>1. f.at = "try_rmdir_r" /\ Tree
    BY <1>13 DEF TryRmdirR, At, f
  <2>2. RealDir(b, f.path) /\ f.seen = {}
    BY <1>5, <2>1 DEF ClearFrame
  <2>3. CASE IsDirIn(node, f.path)
    <3> DEFINE h == [f EXCEPT !.at = "open"]
    <3>1. SetTop(p, h) /\ Continue
      BY <1>13, <2>3 DEF TryRmdirR, DirExists, GoTo, f
    <3>2. h \in Cleaning /\ h.path = f.path /\ h.at = "open" /\ h.seen = f.seen
      BY <1>1, <2>1, CleaningNext DEF f
    <3> HIDE DEF h
    <3>3. ClearFrame(b, node, h)
      BY <2>2, <3>2 DEF ClearFrame
    <3> QED BY <1>9, <2>1, <3>1, <3>2, <3>3 DEF b
  <2>4. CASE ~IsDirIn(node, f.path)
    <3>1. Return(p)
      BY <1>13, <2>4 DEF TryRmdirR, DirExists, f
    <3>2. Down(node, f.path) = Nil
      BY <1>7, <2>2, <2>4
    <3> QED BY <1>10, <2>1, <3>1, <3>2 DEF Tree, b
  <2> QED BY <2>3, <2>4
<1>14. CASE OpenDir(p)
  <2>1. f.at = "open" /\ Tree
    BY <1>14 DEF OpenDir, At, f
  <2>2. RealDir(b, f.path) /\ f.seen = {}
    BY <1>5, <2>1 DEF ClearFrame
  <2>3. CASE IsDirIn(node, f.path)
    <3> DEFINE h == Opened(p, "next", f.path)
    <3>1. SetTop(p, h) /\ Continue
      BY <1>14, <2>3 DEF OpenDir, DirExists, f
    <3>2. /\ h \in Cleaning /\ h.at = "next" /\ h.path = f.path /\ h.seen = f.seen
          /\ h.dir = Stat(f.path)
          /\ \A n \in Names : h.had[n] = TypeOf(Child(h.dir, n))
      BY <1>1, <2>3, CleaningOpened DEF DirExists, f
    <3> HIDE DEF h
    <3>3. h.dir = Down(node, f.path) /\ h.dir = Down(b, f.path)
      BY <1>7, <2>2, <2>3, <3>2 DEF Stat, Lstat
    <3>4. ASSUME NEW n \in Names
          PROVE  /\ h.had[n] \in {"none", TypeIn(b, Down(b, Append(h.path, n)))}
                 /\ h.had[n] = "none" => Down(node, Append(h.path, n)) = Nil
      <4>1. h.had[n] = TypeIn(node, Down(node, Append(f.path, n)))
        BY <1>6, <3>2, <3>3 DEF TypeOf, Child
      <4>2. Down(node, Append(f.path, n)) \in {Down(b, Append(f.path, n)), Nil}
        BY <1>2, <1>4, ShrunkDown DEF b
      <4>3. TypeIn(node, Down(b, Append(f.path, n))) \in {TypeIn(b, Down(b, Append(f.path, n))), "none"}
        BY <1>2, <1>6, ShrunkChild DEF b
      <4>4. TypeIn(node, Nil) = "none"
        BY NilLeadsNowhere
      <4>5. Down(node, Append(f.path, n)) # Nil => TypeIn(node, Down(node, Append(f.path, n))) # "none"
        BY <1>2, <1>4, DownInUse
      <4> QED BY <3>2, <4>1, <4>2, <4>3, <4>4, <4>5
    <3>5. ClearFrame(b, node, h)
      BY <2>2, <3>2, <3>3, <3>4 DEF ClearFrame
    <3> QED BY <1>9, <2>1, <2>2, <3>1, <3>2, <3>5 DEF b
  <2>4. CASE ~IsDirIn(node, f.path)
    <3>1. SetTop(p, Closed(f)) /\ Continue
      BY <1>4, <1>14, <2>1, <2>4 DEF OpenDir, DirExists, Throw, CloseDir, Closed, Iterating, f
    <3>2. Down(node, f.path) = Nil
      BY <1>7, <2>2, <2>4
    <3>3. ClearFrame(b, node, Closed(f))
      BY <1>11, <2>1, <3>2
    <3>4. Closed(f) \in Cleaning /\ Closed(f).at = "rmdir" /\ Closed(f).path = f.path
      BY <1>1, CleaningNext DEF f
    <3> QED BY <1>9, <2>1, <3>1, <3>3, <3>4 DEF b
  <2> QED BY <2>3, <2>4
<1>15. CASE NextEntry(p)
  <2>1. Tree /\ Continue /\ f.at = "next"
    BY <1>15 DEF NextEntry, At, f
  <2>2. /\ RealDir(b, f.path) /\ f.dir = Down(b, f.path)
        /\ \A n \in Names : f.had[n] \in {"none", TypeIn(b, Down(b, Append(f.path, n)))}
    BY <1>5, <2>1 DEF ClearFrame
  <2>3. PICK e \in Entries(f) : Dispose(p, e[1], e[2])
    BY <1>15 DEF NextEntry, f
  <2> DEFINE n == e[1]
             t == e[2]
  <2>4. n \in Names /\ t \in {"file", "dir", "link"} /\ t \in {f.had[n], TypeOf(Child(f.dir, n))}
    BY DEF Entries
  <2> HIDE DEF n, t
  <2>5. t = TypeIn(b, Down(b, Append(f.path, n)))
    <3>1. TypeOf(Child(f.dir, n)) \in {TypeIn(b, Down(b, Append(f.path, n))), "none"}
      <4> DEFINE j == Child(f.dir, n)
      <4>1. j \in {Down(b, Append(f.path, n)), Nil}
        BY <1>2, <1>6, <2>2, <2>4, ShrunkChild DEF Child, b
      <4>2. TypeIn(node, Down(b, Append(f.path, n))) \in {TypeIn(b, Down(b, Append(f.path, n))), "none"}
        BY <1>2, <1>6, <2>4, ShrunkChild DEF b
      <4>3. TypeIn(node, Nil) = "none"
        BY NilLeadsNowhere
      <4> HIDE DEF j
      <4>4. TypeOf(j) \in {TypeIn(b, Down(b, Append(f.path, n))), "none"}
        BY <4>1, <4>2, <4>3 DEF TypeOf
      <4> QED BY <4>4 DEF j
    <3> QED BY <2>2, <2>4, <3>1
  <2>6. PICK a \in Cleaning, h \in Cleaning : Disposed(p, n, t, a, h)
    BY <1>1, <2>1, <2>3, <2>4, CleaningDispose DEF f, n, t
  <2>7. /\ stack'[p] = Append(Front(s), a) \o <<h>>
        /\ a.at = "next" /\ a.path = f.path /\ a.dir = f.dir /\ a.had = f.had
        /\ a.seen = f.seen \cup {n}
        /\ h.at = (IF t = "dir" THEN "open" ELSE "unlink")
        /\ h.path = Append(f.path, n) /\ h.seen = {}
    BY <1>3, <2>6 DEF Disposed, f, s
  <2>8. ClearFrame(b, node, a)
    BY <1>5, <2>1, <2>7 DEF ClearFrame
  <2>9. ClearFrame(b, node, h)
    <3>1. CASE t = "dir"
      BY <2>5, <2>7, <3>1 DEF ClearFrame, RealDir
    <3>2. CASE t # "dir"
      <4>1. Front(Append(f.path, n)) = f.path
        BY <1>4, <2>4, AppendParts
      <4> QED BY <2>2, <2>4, <2>5, <2>7, <3>2, <4>1 DEF ClearFrame
    <3> QED BY <3>1, <3>2
  <2>10. \A m \in a.seen : m = n \/ Down(node, Append(a.path, m)) = Nil
    BY <1>5, <2>1, <2>7
  <2>11. a.path = Last(s).path /\ h.at # "next" /\ h.path = Append(a.path, n)
    BY <1>3, <2>7
  <2>12. ClearStack(b, node, c, Append(Front(s), a) \o <<h>>)
    BY <1>3, <1>8, <2>4, <2>7, <2>8, <2>9, <2>10, <2>11, ClearCall
  <2> QED BY <1>1, <2>1, <2>7, <2>12 DEF Continue, Tree, b
<1>16. CASE EndOfDir(p)
  <2>1. f.at = "next" /\ Tree /\ Continue /\ SetTop(p, Closed(f)) /\ AllRead(f)
    BY <1>16 DEF EndOfDir, At, CloseDir, Closed, f
  <2>2. /\ RealDir(b, f.path) /\ f.dir = Down(b, f.path)
        /\ \A n \in Names : f.had[n] = "none" => Down(node, Append(f.path, n)) = Nil
    BY <1>5, <2>1 DEF ClearFrame
  <2>3. ASSUME NEW n \in Names PROVE Down(node, Append(f.path, n)) = Nil
    <3>1. n \in f.seen \/ f.had[n] = "none" \/ ChildIn(node, f.dir, n) = Nil
      BY <2>1 DEF AllRead, Child
    <3> QED BY <1>5, <1>6, <2>1, <2>2, <3>1, NilLeadsNowhere
  <2>4. Closed(f) \in Cleaning /\ Closed(f).at = "rmdir" /\ Closed(f).path = f.path
    BY <1>1, CleaningNext DEF f
  <2>5. ClearFrame(b, node, Closed(f))
    BY <2>2, <2>3, <2>4 DEF ClearFrame
  <2> QED BY <1>9, <2>1, <2>4, <2>5 DEF b
<1>17. CASE UnlinkEntry(p)
  <2>1. f.at = "unlink"
    BY <1>17 DEF UnlinkEntry, At, f
  <2> DEFINE q == Front(f.path)
             i == Lstat(f.path)
  <2>2. q \in Seq(Names) /\ Last(f.path) \in Names /\ Append(q, Last(f.path)) = f.path
    BY <1>4, FrontLast
  <2>3. RealDir(b, q) /\ TypeIn(b, Down(b, f.path)) \in {"file", "link"}
    BY <1>5, <2>1 DEF ClearFrame
  <2>4. DerefIn(node, LstatIn(node, q)) = Down(node, q)
        /\ \A n \in Names : LstatIn(node, Append(q, n)) = Down(node, Append(q, n))
    BY <1>2, <2>2, <2>3, RealStraight DEF b
  <2>5. i = Down(node, f.path)
    BY <2>2, <2>4 DEF Lstat
  <2> HIDE DEF q, i
  <2>6. CASE TypeOf(i) \in {"file", "link"}
    <3>1. node' = Unlink(f.path) /\ Return(p)
      BY <1>17, <2>6 DEF UnlinkEntry, f, i
    <3>2. Removable(f.path)
      BY <2>6 DEF Removable, i
    <3>3. Removes(node', f.path)
      BY <1>2, <1>4, <3>1, <3>2, UnlinkRemoves
    <3>4. Down(node', f.path) = Nil
      BY <1>2, <1>4, <2>4, <3>3, RemovedIsGone DEF q
    <3> QED BY <1>10, <3>1, <3>4 DEF b
  <2>7. CASE TypeOf(i) \notin {"file", "link"}
    <3>1. Tree /\ Return(p)
      BY <1>4, <1>17, <2>7 DEF UnlinkEntry, f, i
    <3>2. Down(node, f.path) = Nil
      <4>1. TypeIn(node, Down(b, f.path)) \in {TypeIn(b, Down(b, f.path)), "none"}
        BY <1>2, <1>6, ShrunkChild DEF b
      <4>2. Down(node, f.path) # Nil => TypeIn(node, Down(node, f.path)) # "none"
        BY <1>2, <1>4, DownInUse
      <4> QED BY <1>6, <2>3, <2>5, <2>7, <4>1, <4>2 DEF TypeOf
    <3> QED BY <1>10, <3>1, <3>2 DEF Tree, b
  <2> QED BY <2>6, <2>7
<1> QED BY <1>1, <1>12, <1>13, <1>14, <1>15, <1>16, <1>17 DEF b
(* CleanersInv holds at first. *)
LEMMA InitCleaners ==
  ASSUME Init PROVE CleanersInv
<1> SUFFICES ASSUME Cleaners
             PROVE  /\ Shrunk(before, node)
                    /\ CallsOf(Cleaning, stack, result)
                    /\ \A p \in Procs :
                         ~Idle(p) /\ RealDir(before, cmd[p].path) =>
                           /\ ClearStack(before, node, cmd[p], stack[p])
                           /\ result[p] # "run" => Down(node, cmd[p].path) = Nil
  BY DEF CleanersInv
<1>1. before = node /\ cmd \in [Procs -> Commands]
  BY SceneIs
<1>2. /\ stack = [p \in Procs |-> IF Idle(p) THEN <<>> ELSE <<First(cmd[p])>>]
      /\ result = [p \in Procs |-> IF Idle(p) THEN "ok" ELSE "run"]
  BY DEF Init
<1>3. ASSUME NEW p \in Procs, ~Idle(p)
      PROVE  /\ First(cmd[p]) \in Cleaning /\ First(cmd[p]).at = "try_rmdir_r"
             /\ First(cmd[p]).path = cmd[p].path /\ First(cmd[p]).seen = {}
  <2> DEFINE path == cmd[p].path
             f == [Frame("try_rmdir_r", path) EXCEPT !.ignore = TRUE]
  <2>1. cmd[p].op = "auto_rm"
    BY <1>3 DEF Cleaners, Idle
  <2>2. First(cmd[p]) = f
    BY <2>1 DEF First
  <2>3. path # <<>> /\ path \in Seq(Names)
    BY <1>1, <1>3, SceneIs DEF Commands
  <2>4. "try_rmdir_r" \in Steps /\ <<>> \in Seq(Names)
    BY DEF Steps
  <2>5. \A b \in BOOLEAN : [Frame("try_rmdir_r", path) EXCEPT !.ignore = b] \in Good
    BY <2>3, <2>4, NewFrameTypes
  <2>6. f.at = "try_rmdir_r" /\ f.path = path /\ f.seen = {} /\ f.ignore
    BY DEF Frame
  <2> QED BY <2>2, <2>5, <2>6 DEF Cleaning
<1>4. CallsOf(Cleaning, stack, result)
  <2>1. ASSUME NEW p \in Procs
        PROVE  stack[p] \in Seq(Cleaning) /\ (result[p] = "run" <=> stack[p] # <<>>)
    <3>1. CASE Idle(p)
      BY <1>2, <3>1
    <3>2. CASE ~Idle(p)
      <4> DEFINE f == First(cmd[p])
      <4>1. f \in Cleaning
        BY <1>3, <3>2
      <4> HIDE DEF f
      <4>2. <<f>> \in Seq(Cleaning) /\ <<f>> # <<>>
        BY <4>1
      <4> QED BY <1>2, <3>2, <4>2 DEF f
    <3> QED BY <3>1, <3>2
  <2>2. stack \in [Procs -> Seq(Cleaning)] /\ result \in [Procs -> {"run", "ok", "fail"}]
    <3>1. DOMAIN stack = Procs /\ stack = [p \in DOMAIN stack |-> stack[p]]
      BY <1>2
    <3> QED BY <1>2, <2>1, <3>1
  <2> QED BY <2>1, <2>2 DEF CallsOf
<1>5. ASSUME NEW p \in Procs, ~Idle(p), RealDir(before, cmd[p].path)
      PROVE  ClearStack(before, node, cmd[p], stack[p]) /\ result[p] = "run"
  <2>1. stack[p] = <<First(cmd[p])>> /\ result[p] = "run"
    BY <1>2, <1>5
  <2>2. ClearFrame(before, node, First(cmd[p]))
    BY <1>3, <1>5 DEF ClearFrame
  <2> QED BY <1>3, <1>5, <2>1, <2>2 DEF ClearStack
<1> QED BY <1>1, <1>4, <1>5, ShrunkRefl

(* Where readdir() tells the types of entries, the calls of several        *)
(* auto_rmdir only take entries away, each is about what was there, and    *)
(* what one of them has seen or will not see is gone or still in the hands *)
(* of its next call.                                                       *)
THEOREM CleanersInvariant == Spec => [](TypeOK /\ CleanersInv)
<1>1. Init => TypeOK /\ CleanersInv
  BY InitTypes, InitCleaners
<1>2. TypeOK /\ TypeOK' /\ CleanersInv /\ [Next]_vars => CleanersInv'
  <2> SUFFICES ASSUME TypeOK, TypeOK', CleanersInv, [Next]_vars, Cleaners'
               PROVE  (/\ Shrunk(before, node)
                       /\ CallsOf(Cleaning, stack, result)
                       /\ \A p \in Procs :
                            ~Idle(p) /\ RealDir(before, cmd[p].path) =>
                              /\ ClearStack(before, node, cmd[p], stack[p])
                              /\ result[p] # "run" => Down(node, cmd[p].path) = Nil)'
    BY DEF CleanersInv
  <2>1. CASE UNCHANGED vars
    <3>1. fs' = fs /\ node' = node /\ before' = before /\ cmd' = cmd /\ stack' = stack /\ result' = result
      BY <2>1 DEF vars
    <3>2. Cleaners
      BY <3>1 DEF Cleaners
    <3> QED BY <3>1, <3>2 DEF CleanersInv, Idle
  <2>2. ASSUME NEW p \in Procs, Step(p)
        PROVE  (/\ Shrunk(before, node)
                /\ CallsOf(Cleaning, stack, result)
                /\ \A q \in Procs :
                     ~Idle(q) /\ RealDir(before, cmd[q].path) =>
                       /\ ClearStack(before, node, cmd[q], stack[q])
                       /\ result[q] # "run" => Down(node, cmd[q].path) = Nil)'
    <3>1. Given
      BY <2>2, StepTypes
    <3>2. before' = before /\ cmd' = cmd /\ fs' = fs /\ Cleaners /\ fs.types
      BY <3>1 DEF Given, Cleaners
    <3>3. /\ Shrunk(before, node) /\ CallsOf(Cleaning, stack, result)
          /\ \A q \in Procs :
               ~Idle(q) /\ RealDir(before, cmd[q].path) =>
                 /\ ClearStack(before, node, cmd[q], stack[q])
                 /\ result[q] # "run" => Down(node, cmd[q].path) = Nil
      BY <3>2 DEF CleanersInv
    <3>4. /\ Shrunk(node, node') /\ CallsOf(Cleaning, stack', result')
          /\ \A q \in Procs \ {p} : stack'[q] = stack[q] /\ result'[q] = result[q]
      BY <2>2, <3>2, <3>3, CleanerStep
    <3>5. before \in [Ids -> Inodes] /\ node \in [Ids -> Inodes] /\ node' \in [Ids -> Inodes]
          /\ \A q \in Procs : cmd[q].path \in Seq(Names) /\ stack[q] \in Seq(Cleaning)
      BY <3>3 DEF TypeOK, TreeOK, Commands, CallsOf
    <3>6. Shrunk(before, node')
      BY <3>3, <3>4, <3>5, ShrunkTrans
    <3>7. ASSUME NEW q \in Procs, ~Idle(q), RealDir(before, cmd[q].path)
          PROVE  /\ ClearStack(before, node', cmd[q], stack'[q])
                 /\ result'[q] # "run" => Down(node', cmd[q].path) = Nil
      <4>1. /\ ClearStack(before, node, cmd[q], stack[q])
            /\ result[q] # "run" => Down(node, cmd[q].path) = Nil
        BY <3>3, <3>7
      <4>2. CASE q = p
        BY <2>2, <3>2, <3>3, <4>1, <4>2, ClearStep
      <4>3. CASE q # p
        <5>1. ClearStack(before, node', cmd[q], stack[q])
          BY <3>4, <3>5, <4>1, ClearShrinks
        <5>2. Down(node, cmd[q].path) = Nil => Down(node', cmd[q].path) = Nil
          BY <3>4, <3>5, ShrunkDown
        <5> QED BY <3>4, <4>1, <4>3, <5>1, <5>2
      <4> QED BY <4>2, <4>3
    <3>8. \A q \in Procs : Idle(q)' <=> Idle(q)
      BY <3>2 DEF Idle
    <3> QED BY <3>2, <3>4, <3>6, <3>7, <3>8
  <2> QED BY <2>1, <2>2 DEF Next, AllDone
<1> QED BY <1>1, <1>2, TypeCorrect, PTL DEF Spec

(* The destructors of several auto_rmdir leave nothing of a directory that *)
(* was there, however they get into each other's way.                      *)
THEOREM CleanedUpTogether == Spec => []CleanedUp
<1>1. TypeOK /\ CleanersInv => CleanedUp
  <2> SUFFICES ASSUME TypeOK, CleanersInv, Cleaners,
                      NEW p \in Procs, ~Idle(p), result[p] # "run", RealDir(before, cmd[p].path)
               PROVE  Lstat(cmd[p].path) = Nil
    BY DEF CleanedUp, Cleaners, RealDir
  <2>1. Shrunk(before, node) /\ Down(node, cmd[p].path) = Nil
    BY DEF CleanersInv
  <2>2. before \in [Ids -> Inodes] /\ TreeOK(node) /\ cmd[p].path \in Seq(Names)
    BY DEF TypeOK, TreeOK, Commands
  <2>3. LstatIn(node, cmd[p].path) = Down(node, cmd[p].path)
    BY <2>1, <2>2, RealStraight
  <2> QED BY <2>1, <2>3 DEF Lstat
<1> QED BY <1>1, CleanersInvariant, PTL

-----------------------------------------------------------------------------
(* Success: the outermost call of a command and what it has seen. *)

(* Where the outermost call of a command can be. *)
Phases(op) ==
  CASE op = "mkdir" -> {"mkdir", "exists"}
    [] op \in {"mkdir_p", "try_mkdir_p"} -> {op, "mkdir", "exists"}
    [] op \in {"rmdir", "rmdir_f"} -> {"rmdir"}
    [] op \in {"rm", "rm_f"} -> {"rm", "rmfile"}
    [] op = "rm_r" -> {"rm", "rmfile", "try_rmdir_r", "open", "next", "type", "rmdir"}
    [] op = "touch" -> {"touch", "utimes", "create"}
    [] op \in {"ln", "ln_s"} -> {"target", "symlink", "link", "cpdir", "cp_open", "cp_next", "cp_type", "cp_follow"}
    [] op = "cp" -> {"cp_source", "cp_file", "cp_undo"}
    [] op = "cp_r" -> {"cpdir", "cp_open", "cp_next", "cp_type", "cp_follow"}

(* The commands that succeed with their effect, not with what they do last. *)
Lasting ==
  {"mkdir", "mkdir_p", "try_mkdir_p", "rmdir", "rmdir_f", "rm", "rm_f", "rm_r", "touch", "ln", "ln_s", "cp", "cp_r"}

(* The calls s of the command c, the effect of which was seen if h: the     *)
(* outermost one is about the path of c and ignores no error; a file that  *)
(* gets a new time was seen, a directory that is filled was made, or is    *)
(* just being made.                                                        *)
Outer(c, s, h) ==
  s # <<>> =>
    /\ s[1].path = c.path /\ ~s[1].ignore /\ s[1].at \in Phases(c.op)
    /\ s[1].at \in {"utimes", "cp_next", "cp_type", "cp_follow"} => h
    /\ s[1].at = "cp_open" =>
         h \/ (Len(s) = 2 /\ s[2].at \in {"mkdir", "exists"} /\ s[2].path = c.path /\ s[2].new)

(* And the result r in the tree f; where nothing is moved, what rm -r has   *)
(* found to be a directory is one, or is gone.                             *)
Succeeds(c, s, r, h, f, quiet) ==
  /\ c.op \in {"none", "auto_rm"} => h
  /\ c.op \in Lasting => Outer(c, s, h)
  /\ quiet /\ c.op = "rm_r" /\ s # <<>> => (s[1].at = "try_rmdir_r" => h \/ TypeIn(f, LstatIn(f, c.path)) = "dir")
  /\ r = "ok" /\ c.op # "mv" /\ (c.op = "rm_r" => quiet) => h

NoMoves == \A p \in Procs : cmd[p].op # "mv"

Unmoved == {f \in Good : f.at \notin Moving}

SuccessInv ==
  /\ NoMoves => CallsOf(Unmoved, stack, result)
  /\ \A p \in Procs : Succeeds(cmd[p], stack[p], result[p], held[p], node, NoMoves)

(* What the outermost call is after a step. *)
Push(p, f, g) == stack' = [stack EXCEPT ![p] = Append(Front(@), f) \o <<g>>]

(* The outermost call, the number of calls and the innermost one after     *)
(* each kind of step.                                                      *)
LEMMA CallsSteps ==
  ASSUME TypeOK, NEW p \in Procs, result[p] = "run"
  PROVE  LET s == stack[p]
         IN  /\ s \in Seq(Good) /\ s # <<>> /\ Len(s) \in Nat \ {0} /\ Top(p) = s[Len(s)]
             /\ \A f \in Good : SetTop(p, f) =>
                  /\ stack'[p] # <<>> /\ Len(stack'[p]) = Len(s) /\ stack'[p][Len(s)] = f
                  /\ Len(s) > 1 => stack'[p][1] = s[1]
             /\ \A f, g \in Good : Push(p, f, g) =>
                  /\ stack'[p] # <<>> /\ Len(stack'[p]) = Len(s) + 1
                  /\ stack'[p][Len(s)] = f /\ stack'[p][Len(s) + 1] = g
                  /\ Len(s) > 1 => stack'[p][1] = s[1]
             /\ Return(p) =>
                  IF Len(s) = 1 THEN stack'[p] = <<>> /\ result'[p] = "ok"
                  ELSE stack'[p][1] = s[1] /\ Len(stack'[p]) = Len(s) - 1 /\ result'[p] = "run"
             /\ Fail(p) => stack'[p] = <<>> /\ result'[p] = "fail"
<1> DEFINE s == stack[p]
<1>1. /\ stack \in [Procs -> Seq(Good)] /\ result \in [Procs -> {"run", "ok", "fail"}]
      /\ s \in Seq(Good) /\ s # <<>>
  BY TypedCalls DEF Typed, CallsOf
<1>2. Len(s) \in Nat \ {0} /\ Top(p) = s[Len(s)]
  BY <1>1 DEF Top, Last
<1>3. /\ Front(s) \in Seq(Good) /\ Len(Front(s)) = Len(s) - 1
      /\ \A k \in 1 .. Len(s) - 1 : Front(s)[k] = s[k]
  BY <1>1, <1>2, FrontLast DEF Front
<1>4. ASSUME NEW f \in Good, SetTop(p, f)
      PROVE  /\ stack'[p] # <<>> /\ Len(stack'[p]) = Len(s) /\ stack'[p][Len(s)] = f
             /\ Len(s) > 1 => stack'[p][1] = s[1]
  <2> DEFINE a == Append(Front(s), f)
  <2>1. a = stack'[p]
    BY <1>1, <1>4 DEF SetTop
  <2>2. a \in Seq(Good) /\ Len(a) = Len(s) /\ a[Len(s)] = f /\ \A k \in 1 .. Len(s) - 1 : a[k] = s[k]
    BY <1>1, SetParts
  <2> HIDE DEF a
  <2> QED BY <1>2, <2>1, <2>2
<1>5. ASSUME NEW f \in Good, NEW g \in Good, Push(p, f, g)
      PROVE  /\ stack'[p] # <<>> /\ Len(stack'[p]) = Len(s) + 1
             /\ stack'[p][Len(s)] = f /\ stack'[p][Len(s) + 1] = g
             /\ Len(s) > 1 => stack'[p][1] = s[1]
  <2> DEFINE b == Append(Front(s), f) \o <<g>>
  <2>1. b = stack'[p]
    BY <1>1, <1>5 DEF Push
  <2>2. Len(b) = Len(s) + 1 /\ b[Len(s)] = f /\ b[Len(s) + 1] = g /\ \A k \in 1 .. Len(s) - 1 : b[k] = s[k]
    BY <1>1, CallParts
  <2> HIDE DEF b
  <2>3. b # <<>>
    <3>1. Len(<<>>) = 0
      OBVIOUS
    <3> QED BY <1>2, <2>2, <3>1
  <2> QED BY <1>2, <2>1, <2>2, <2>3
<1>6. ASSUME Return(p)
      PROVE  IF Len(s) = 1 THEN stack'[p] = <<>> /\ result'[p] = "ok"
             ELSE stack'[p][1] = s[1] /\ Len(stack'[p]) = Len(s) - 1 /\ result'[p] = "run"
  <2>1. stack'[p] = Front(s) /\ result'[p] = IF Len(s) = 1 THEN "ok" ELSE "run"
    BY <1>1, <1>6 DEF Return
  <2> DEFINE t == Front(s)
  <2>2. t \in Seq(Good) /\ Len(t) = Len(s) - 1 /\ \A k \in 1 .. Len(s) - 1 : t[k] = s[k]
    BY <1>3
  <2>3. t = stack'[p]
    BY <2>1
  <2> HIDE DEF t
  <2>4. ASSUME Len(s) # 1 PROVE 1 \in 1 .. Len(s) - 1
    <3>1. \A k \in Nat \ {0} : k # 1 => 1 \in 1 .. k - 1
      OBVIOUS
    <3> QED BY <1>2, <2>4, <3>1
  <2> HIDE DEF s
  <2>5. CASE Len(s) = 1
    <3>1. t = <<>>
      BY <2>2, <2>5
    <3>2. stack'[p] = <<>>
      BY <2>3, <3>1, Zenon
    <3>3. result'[p] = "ok"
      BY <2>1, <2>5
    <3> QED BY <2>5, <3>2, <3>3, Zenon
  <2>6. CASE Len(s) # 1
    BY <2>4, <2>1, <2>2, <2>3, <2>6
  <2> QED BY <2>5, <2>6
<1>7. Fail(p) => stack'[p] = <<>> /\ result'[p] = "fail"
  BY <1>1 DEF Fail
<1> QED BY <1>1, <1>2, <1>4, <1>5, <1>6, <1>7

(* What a command is for, in the tree f. *)
EffectIn(c, f) ==
  CASE c.op \in {"mkdir", "mkdir_p", "try_mkdir_p"} -> IsDirIn(f, c.path)
    [] c.op \in {"rmdir", "rmdir_f", "rm", "rm_f", "rm_r"} -> LstatIn(f, c.path) = Nil
    [] c.op = "touch" -> TypeIn(f, DerefIn(f, LstatIn(f, c.path))) = "file"
    [] c.op \in {"ln", "ln_s", "cp", "cp_r"} -> LstatIn(f, c.path) # Nil
    [] c.op = "mv" -> LstatIn(f, c.path) # Nil \/ IsStrictPrefix(c.from, c.path)
    [] OTHER -> TRUE

(* What was the case stays in held, and what is the case now is noted. *)
LEMMA Holds ==
  ASSUME TypeOK, Given, NEW p \in Procs
  PROVE  /\ held'[p] \in BOOLEAN
         /\ held[p] => held'[p]
         /\ result[p] = "run" /\ EffectIn(cmd[p], node') => held'[p]
<1>1. held'[p] = (held[p] \/ (result[p] = "run" /\ Effect(cmd[p])'))
  BY DEF Given, Observe
<1>2. cmd' = cmd
  BY DEF Given
<1>3. Effect(cmd[p])' = EffectIn(cmd[p], node')
  <2>1. Effect(cmd[p])' = EffectIn(cmd'[p], node')
    BY Zenon DEF Effect, EffectIn, DirExists, IsDirIn, Stat, Lstat, TypeOf
  <2> QED BY <1>2, <2>1
<1> QED BY <1>1, <1>3 DEF TypeOK

(* A directory stays one or is gone where nothing is moved. *)
LEMMA DirLasts ==
  ASSUME TypeOK, TypeOK', Stable(node, node'), NEW path \in Seq(Names), TypeIn(node, LstatIn(node, path)) = "dir"
  PROVE  LstatIn(node', path) = Nil \/ TypeIn(node', LstatIn(node', path)) = "dir"
<1> DEFINE i == LstatIn(node, path)
<1>1. node \in [Ids -> Inodes] /\ node' \in [Ids -> Inodes]
  BY DEF TypeOK, TreeOK
<1>2. \A j \in Ids : Linked(node', j) \/ j = Root => node'[j].type # "none"
  BY DEF TypeOK, TreeOK, Linked
<1>3. SUFFICES ASSUME LstatIn(node', path) # Nil PROVE TypeIn(node', LstatIn(node', path)) = "dir"
  OBVIOUS
<1>4. i # Nil /\ i \in Refs
  BY <1>1, NilLeadsNowhere, LstatIs
<1>5. LstatIn(node', path) = i
  BY <1>1, <1>3, <1>4, StableLstat
<1>6. Live(node, i) /\ (i = Root \/ Linked(node', i))
  BY <1>1, <1>4, <1>5, FoundLinked DEF Live
<1>7. TypeIn(node', i) \in {"dir", "none"}
  BY <1>1, <1>4, <1>6, StableChild
<1>8. i \in Ids
  BY <1>4 DEF Refs
<1>9. TypeIn(node', i) = node'[i].type
  BY <1>4 DEF TypeIn
<1> QED BY <1>2, <1>5, <1>6, <1>7, <1>8, <1>9

(* The process p runs a command that is to have its effect, ... *)
Runner(p) == result[p] = "run" /\ cmd[p].op \in Lasting /\ Outer(cmd[p], stack[p], held[p])

(* ... only its outermost call, ... *)
Single(p) == Runner(p) /\ Len(stack[p]) = 1

(* ... and does so after the step, too. *)
Goes(p) == Succeeds(cmd[p], stack'[p], result'[p], held'[p], node', NoMoves)

(* What is known of the only call. *)
LEMMA SingleIs ==
  ASSUME TypeOK, NEW p \in Procs, Single(p)
  PROVE  /\ result[p] = "run" /\ cmd[p].op \in Lasting /\ cmd[p].op \notin {"none", "auto_rm", "mv"}
         /\ Top(p) = stack[p][1] /\ Len(stack[p]) = 1
         /\ Top(p) \in Frames /\ FrameOK(Top(p)) /\ Top(p).path = cmd[p].path /\ cmd[p].path \in Seq(Names)
         /\ ~Top(p).ignore /\ Top(p).at \in Phases(cmd[p].op)
         /\ Top(p).at \in {"utimes", "cp_next", "cp_type", "cp_follow", "cp_open"} => held[p]
<1>1. stack[p] # <<>> /\ Top(p) = stack[p][Len(stack[p])] /\ Len(stack[p]) = 1
  BY CallsSteps DEF Single, Runner
<1>2. Top(p) = stack[p][1]
  BY <1>1
<1>3. Top(p) \in Frames /\ FrameOK(Top(p)) /\ Top(p).path \in Seq(Names)
  BY TopIs DEF Single, Runner
<1>4. Outer(cmd[p], stack[p], held[p]) /\ result[p] = "run" /\ cmd[p].op \in Lasting
  BY DEF Single, Runner
<1>5. cmd[p].op \notin {"none", "auto_rm", "mv"}
  BY <1>4 DEF Lasting
<1> QED BY <1>1, <1>2, <1>3, <1>4, <1>5 DEF Outer

(* The only call returns, ... *)
LEMMA SingleReturn ==
  ASSUME TypeOK, NEW p \in Procs, Single(p), Return(p), held'[p] \/ (cmd[p].op = "rm_r" /\ ~NoMoves)
  PROVE  Goes(p)
<1>1. stack'[p] = <<>>
  BY CallsSteps, SingleIs
<1>2. cmd[p].op \notin {"none", "auto_rm", "mv"}
  BY SingleIs
<1> QED BY <1>1, <1>2 DEF Goes, Succeeds, Outer

(* ... fails, ... *)
LEMMA SingleThrow ==
  ASSUME TypeOK, NEW p \in Procs, Single(p), Throw(p) \/ Fail(p)
  PROVE  Goes(p)
<1>1. Fail(p)
  BY SingleIs, Zenon DEF Throw
<1>2. stack'[p] = <<>> /\ result'[p] = "fail"
  BY <1>1, CallsSteps, SingleIs
<1>3. cmd[p].op \notin {"none", "auto_rm", "mv"}
  BY SingleIs
<1> QED BY <1>2, <1>3 DEF Goes, Succeeds, Outer

(* ... goes on, ... *)
LEMMA SingleSet ==
  ASSUME TypeOK, TypeOK', NEW p \in Procs, Single(p), NEW f, SetTop(p, f), Continue,
         f.path = Top(p).path, f.ignore = Top(p).ignore, f.at \in Phases(cmd[p].op), f.at # "cp_open",
         f.at \in {"utimes", "cp_next", "cp_type", "cp_follow"} => held'[p],
         f.at = "try_rmdir_r" => TypeIn(node', LstatIn(node', cmd[p].path)) = "dir"
  PROVE  Goes(p)
<1>1. CallsOf(Good, stack, result) /\ CallsOf(Good, stack, result)'
  BY TypedCalls, PTL DEF Typed
<1>2. CallsOf(Good, stack', result')
  BY <1>1 DEF CallsOf
<1>3. f \in Good
  BY <1>1, <1>2, SingleIs, SetFrames
<1>4. Len(stack'[p]) = Len(stack[p]) /\ stack'[p][Len(stack[p])] = f
  BY <1>3, SingleIs, CallsSteps
<1>5. stack'[p][1] = f /\ result'[p] = "run"
  BY <1>4, SingleIs DEF Continue
<1>6. /\ cmd[p].op \notin {"none", "auto_rm", "mv"}
      /\ f.path = cmd[p].path /\ ~f.ignore
  BY SingleIs
<1> QED BY <1>5, <1>6 DEF Goes, Succeeds, Outer

LEMMA SingleGoTo ==
  ASSUME TypeOK, TypeOK', NEW p \in Procs, Single(p), NEW at, GoTo(p, at), Continue,
         at \in Phases(cmd[p].op), at # "cp_open",
         at \in {"utimes", "cp_next", "cp_type", "cp_follow"} => held'[p],
         at = "try_rmdir_r" => TypeIn(node', LstatIn(node', cmd[p].path)) = "dir"
  PROVE  Goes(p)
<1> DEFINE f == [Top(p) EXCEPT !.at = at]
<1>1. Top(p) \in Frames
  BY SingleIs
<1>2. f.at = at /\ f.path = Top(p).path /\ f.ignore = Top(p).ignore /\ SetTop(p, f)
  BY <1>1 DEF Frames, GoTo
<1> HIDE DEF f
<1> QED BY <1>2, SingleSet

(* ... or calls another one. *)
LEMMA SingleCall ==
  ASSUME TypeOK, TypeOK', NEW p \in Procs, Single(p), NEW f, NEW g,
         stack' = [stack EXCEPT ![p] = Append(Front(@), f) \o <<g>>], Continue,
         f.path = Top(p).path, f.ignore = Top(p).ignore, f.at \in Phases(cmd[p].op), f.at # "try_rmdir_r",
         f.at \in {"utimes", "cp_next", "cp_type", "cp_follow"} => held'[p],
         f.at = "cp_open" => g.at \in {"mkdir", "exists"} /\ g.path = cmd[p].path /\ g.new
  PROVE  Goes(p)
<1>1. CallsOf(Good, stack, result) /\ CallsOf(Good, stack, result)'
  BY TypedCalls, PTL DEF Typed
<1>2. CallsOf(Good, stack', result')
  BY <1>1 DEF CallsOf
<1>3. f \in Good /\ g \in Good
  BY <1>1, <1>2, SingleIs, SetFrames
<1>4. result[p] = "run" /\ Len(stack[p]) = 1 /\ Push(p, f, g)
  BY SingleIs DEF Push
<1>5. stack'[p][1] = f /\ Len(stack'[p]) = 2 /\ stack'[p][2] = g /\ result'[p] = "run"
  <2>1. /\ Len(stack'[p]) = Len(stack[p]) + 1 /\ stack'[p][Len(stack[p])] = f
        /\ stack'[p][Len(stack[p]) + 1] = g
    BY <1>3, <1>4, CallsSteps
  <2>2. Len(stack[p]) + 1 = 2
    BY <1>4
  <2> QED BY <1>4, <2>1, <2>2, Zenon DEF Continue
<1>6. /\ cmd[p].op \notin {"none", "auto_rm", "mv"}
      /\ f.path = cmd[p].path /\ ~f.ignore
  BY SingleIs
<1> QED BY <1>5, <1>6 DEF Goes, Succeeds, Outer

-----------------------------------------------------------------------------
(* Success: the steps of the only call, one group of actions after the other. *)

(* Which commands have a call at each place, and where it can go. *)
LEMMA PhaseOps ==
  ASSUME NEW op \in Lasting, NEW at \in Phases(op)
  PROVE  /\ at = "mkdir_p" => op = "mkdir_p" /\ "mkdir" \in Phases(op)
         /\ at = "try_mkdir_p" => op = "try_mkdir_p" /\ "mkdir" \in Phases(op)
         /\ at \in {"mkdir", "exists"} => op \in {"mkdir", "mkdir_p", "try_mkdir_p"} /\ "exists" \in Phases(op)
         /\ at \in {"rm", "rmfile", "try_rmdir_r", "open", "next", "type", "rmdir"} =>
              op \in {"rmdir", "rmdir_f", "rm", "rm_f", "rm_r"}
         /\ at = "rm" => "rmfile" \in Phases(op)
         /\ op = "rm_r" \/ at \in {"try_rmdir_r", "open", "next", "type"} =>
              /\ op = "rm_r"
              /\ \A to \in {"rmfile", "try_rmdir_r", "open", "next", "type", "rmdir"} : to \in Phases(op)
         /\ at \in {"touch", "utimes", "create"} =>
              op = "touch" /\ "utimes" \in Phases(op) /\ "create" \in Phases(op)
         /\ at \in {"target", "symlink", "link"} =>
              op \in {"ln", "ln_s"} /\ \A to \in {"symlink", "link", "cpdir"} : to \in Phases(op)
         /\ at \in {"cpdir", "cp_open", "cp_next", "cp_type", "cp_follow"} =>
              \A to \in {"cp_open", "cp_next", "cp_type", "cp_follow"} : to \in Phases(op)
         /\ at \in {"cp_source", "cp_file", "cp_undo"} =>
              op = "cp" /\ "cp_file" \in Phases(op) /\ "cp_undo" \in Phases(op)
         /\ at \notin {"unlink", "mv", "rename"}
<1>1. CASE op = "mkdir"
  BY <1>1 DEF Phases
<1>2. CASE op \in {"mkdir_p", "try_mkdir_p"}
  BY <1>2 DEF Phases
<1>3. CASE op \in {"rmdir", "rmdir_f"}
  BY <1>3 DEF Phases
<1>4. CASE op \in {"rm", "rm_f"} \/ op = "rm_r"
  BY <1>4 DEF Phases
<1>5. CASE op = "touch"
  BY <1>5 DEF Phases
<1>6. CASE op \in {"ln", "ln_s"}
  BY <1>6 DEF Phases
<1>7. CASE op = "cp"
  BY <1>7 DEF Phases
<1>8. CASE op = "cp_r"
  BY <1>8 DEF Phases
<1> QED BY <1>1, <1>2, <1>3, <1>4, <1>5, <1>6, <1>7, <1>8 DEF Lasting

(* The steps of mkdir, ... *)
LEMMA MakeDirGoes ==
  ASSUME TypeOK, TypeOK', NEW p \in Procs, Single(p), MakeDir(p), Given
  PROVE  Goes(p)
<1> DEFINE c == cmd[p]
<1>1. /\ Top(p) \in Frames /\ Top(p).path = c.path /\ c.path \in Seq(Names)
      /\ c.op \in Lasting /\ Top(p).at \in Phases(c.op) /\ result[p] = "run"
  BY SingleIs
<1>2. Throw(p) => Goes(p)
  BY SingleThrow
<1>3. Return(p) /\ IsDirIn(node', c.path) /\ c.op \in {"mkdir", "mkdir_p", "try_mkdir_p"} => Goes(p)
  <2>1. SUFFICES ASSUME Return(p), IsDirIn(node', c.path), c.op \in {"mkdir", "mkdir_p", "try_mkdir_p"} PROVE Goes(p)
    OBVIOUS
  <2>2. EffectIn(c, node')
    BY <2>1, Zenon DEF EffectIn
  <2>3. held'[p]
    BY <1>1, <2>2, Holds
  <2> QED BY <2>1, <2>3, SingleReturn
<1>4. ASSUME NEW at, NEW path, CallFrom(p, "mkdir", Frame(at, path)), Continue, "mkdir" \in Phases(c.op)
      PROVE  Goes(p)
  <2> DEFINE f == [Top(p) EXCEPT !.at = "mkdir"]
             g == Frame(at, path)
  <2>1. f.at = "mkdir" /\ f.path = Top(p).path /\ f.ignore = Top(p).ignore
    BY <1>1 DEF Frames
  <2>2. stack' = [stack EXCEPT ![p] = Append(Front(@), f) \o <<g>>]
    BY <1>4 DEF CallFrom
  <2> HIDE DEF f, g
  <2> QED BY <1>4, <2>1, <2>2, SingleCall
<1>5. ASSUME NEW at \in {"mkdir", "exists"}, GoTo(p, at), Continue, at \in Phases(c.op)
      PROVE  Goes(p)
  BY <1>5, SingleGoTo
<1>6. CASE MkdirP(p)
  <2>1. Top(p).at = "mkdir_p" /\ node' = node
    BY <1>6 DEF MkdirP, At, Tree
  <2>2. c.op = "mkdir_p" /\ "mkdir" \in Phases(c.op)
    BY <1>1, <2>1, PhaseOps
  <2>3. CASE DirExists(Top(p).path)
    <3>1. Return(p) /\ IsDirIn(node', c.path)
      BY <1>1, <1>6, <2>1, <2>3 DEF MkdirP, DirExists
    <3> QED BY <1>3, <2>2, <3>1
  <2>4. CASE ~DirExists(Top(p).path)
    <3>1. CallFrom(p, "mkdir", Frame("mkdir_p", Front(Top(p).path))) /\ Continue
      BY <1>6, <2>4 DEF MkdirP
    <3> QED BY <1>4, <2>2, <3>1
  <2> QED BY <2>3, <2>4
<1>7. CASE TryMkdirP(p)
  <2>1. Top(p).at = "try_mkdir_p" /\ Continue
    BY <1>7 DEF TryMkdirP, At
  <2>2. "mkdir" \in Phases(c.op)
    BY <1>1, <2>1, PhaseOps
  <2>3. GoTo(p, "mkdir") \/ CallFrom(p, "mkdir", Frame("try_mkdir_p", Front(Top(p).path)))
    BY <1>7 DEF TryMkdirP
  <2> QED BY <1>4, <1>5, <2>1, <2>2, <2>3
<1>8. CASE TryMkdir(p)
  <2>1. Top(p).at = "mkdir"
    BY <1>8 DEF TryMkdir, At
  <2>2. c.op \in {"mkdir", "mkdir_p", "try_mkdir_p"} /\ "exists" \in Phases(c.op)
    BY <1>1, <2>1, PhaseOps
  <2>3. CASE Vacant(Top(p).path)
    <3>1. Make(c.path, EmptyDir) /\ Return(p) /\ Vacant(c.path)
      BY <1>1, <1>8, <2>3 DEF TryMkdir
    <3>2. IsDirIn(node', c.path)
      BY <1>1, <3>1, MakeStable, NewInodes DEF IsDirIn
    <3> QED BY <1>3, <2>2, <3>1, <3>2
  <2>4. CASE ~Vacant(Top(p).path)
    <3>1. Throw(p) \/ (GoTo(p, "exists") /\ Continue)
      BY <1>8, <2>4 DEF TryMkdir
    <3> QED BY <1>2, <1>5, <2>2, <3>1
  <2> QED BY <2>3, <2>4
<1>9. CASE AlreadyExists(p)
  <2>1. Top(p).at = "exists" /\ node' = node
    BY <1>9 DEF AlreadyExists, At, Tree
  <2>2. c.op \in {"mkdir", "mkdir_p", "try_mkdir_p"}
    BY <1>1, <2>1, PhaseOps
  <2>3. (DirExists(Top(p).path) /\ Return(p)) \/ Throw(p)
    BY <1>9 DEF AlreadyExists
  <2> QED BY <1>1, <1>2, <1>3, <2>1, <2>2, <2>3 DEF DirExists
<1> QED BY <1>6, <1>7, <1>8, <1>9 DEF MakeDir

(* ... of touch, ... *)
LEMMA TouchFileGoes ==
  ASSUME TypeOK, TypeOK', NEW p \in Procs, Single(p), TouchFile(p), Given
  PROVE  Goes(p)
<1> DEFINE c == cmd[p]
<1>1. /\ Top(p) \in Frames /\ Top(p).path = c.path /\ c.path \in Seq(Names)
      /\ c.op \in Lasting /\ Top(p).at \in Phases(c.op) /\ result[p] = "run"
      /\ node \in [Ids -> Inodes]
  BY SingleIs DEF TypeOK, TreeOK
<1>2. Throw(p) => Goes(p)
  BY SingleThrow
<1>3. c.op = "touch" /\ "utimes" \in Phases(c.op) /\ "create" \in Phases(c.op)
  <2>1. Top(p).at \in {"touch", "utimes", "create"}
    BY DEF TouchFile, Touch, Utimes, CreateFile, At
  <2> QED BY <1>1, <2>1, PhaseOps
<1>4. TypeIn(node', DerefIn(node', LstatIn(node', c.path))) = "file" => held'[p]
  <2>1. SUFFICES ASSUME TypeIn(node', DerefIn(node', LstatIn(node', c.path))) = "file" PROVE held'[p]
    OBVIOUS
  <2>2. EffectIn(c, node')
    BY <1>3, <2>1, Zenon DEF EffectIn
  <2> QED BY <1>1, <2>2, Holds
<1>5. node' = node /\ TypeOf(Stat(c.path)) = "file" => held'[p]
  BY <1>4 DEF TypeOf, Stat, Lstat
<1>6. CASE Touch(p)
  <2>1. node' = node
    BY <1>6 DEF Touch, Tree
  <2>2. \/ TypeOf(Stat(c.path)) = "file" /\ GoTo(p, "utimes") /\ Continue
        \/ GoTo(p, "create") /\ Continue
        \/ Throw(p)
    BY <1>1, <1>6 DEF Touch
  <2> QED BY <1>2, <1>3, <1>5, <2>1, <2>2, SingleGoTo
<1>7. CASE Utimes(p)
  <2>1. Top(p).at = "utimes" /\ (Return(p) \/ Throw(p))
    BY <1>7 DEF Utimes, At
  <2>2. held'[p]
    BY <2>1, SingleIs, Holds
  <2> QED BY <1>2, <2>1, <2>2, SingleReturn
<1>8. CASE CreateFile(p)
  <2> DEFINE to == Target(c.path)
  <2>1. CASE Creatable(c.path, to)
    <3>1. Make(to, File("")) /\ Return(p) /\ Vacant(to)
      BY <1>1, <1>8, <2>1 DEF CreateFile, Creatable
    <3>2. "" \in Texts
      BY CommandsAssumption
    <3>3. File("") \in Inodes /\ to \in Seq(Names)
      BY <1>1, <3>2, NewInodes, TargetIs
    <3>4. PICK i \in Ids : Adds(node', to, i, File(""))
      BY <1>1, <3>1, <3>3, MakeAdds
    <3>5. node' \in [Ids -> Inodes]
      BY <3>4 DEF Adds
    <3>6. TypeIn(node', DerefIn(node', LstatIn(node', c.path))) = "file"
      BY <1>1, <2>1, <3>2, <3>4, <3>5, FileIsFound
    <3> QED BY <1>4, <3>1, <3>6, SingleReturn
  <2>2. CASE ~Creatable(c.path, to)
    <3>1. node' = node /\ ((TypeOf(Stat(c.path)) = "file" /\ Return(p)) \/ Throw(p))
      BY <1>1, <1>8, <2>2 DEF CreateFile, Tree
    <3> QED BY <1>2, <1>5, <3>1, SingleReturn
  <2> QED BY <2>1, <2>2
<1> QED BY <1>6, <1>7, <1>8 DEF TouchFile

(* ... of the removal of an entry, ... *)
LEMMA DisposeGoes ==
  ASSUME TypeOK, TypeOK', NEW p \in Procs, Single(p), NEW n \in Names, NEW t, Dispose(p, n, t), Continue,
         "next" \in Phases(cmd[p].op)
  PROVE  Goes(p)
<1> DEFINE seen == [Top(p) EXCEPT !.seen = @ \cup {n}, !.entry = Nil, !.at = "next"]
           at == IF t = "dir" THEN "open" ELSE "unlink"
           call == [Frame(at, Entry(Top(p), n)) EXCEPT !.ignore = Top(p).ignore]
<1>1. Top(p) \in Frames
  BY SingleIs
<1>2. seen.at = "next" /\ seen.path = Top(p).path /\ seen.ignore = Top(p).ignore
  BY <1>1 DEF Frames
<1>3. stack' = [stack EXCEPT ![p] = Append(Front(@), seen) \o <<call>>]
  BY Zenon DEF Dispose
<1> HIDE DEF seen, call
<1> QED BY <1>2, <1>3, SingleCall

(* ... of rmdir and rm, where rm -r must not be told of a directory that   *)
(* was moved away, ...                                                     *)
LEMMA RemoveEntryGoes ==
  ASSUME TypeOK, TypeOK', NEW p \in Procs, Single(p), RemoveEntry(p), Given,
         NoMoves /\ cmd[p].op = "rm_r" /\ Top(p).at = "try_rmdir_r" =>
           held[p] \/ TypeIn(node, LstatIn(node, cmd[p].path)) = "dir"
  PROVE  Goes(p)
<1> DEFINE c == cmd[p]
<1>1. /\ Top(p) \in Frames /\ Top(p).path = c.path /\ c.path \in Seq(Names) /\ FrameOK(Top(p))
      /\ c.op \in Lasting /\ Top(p).at \in Phases(c.op) /\ result[p] = "run" /\ ~Top(p).ignore
  BY SingleIs
<1>2. Throw(p) => Goes(p)
  BY SingleThrow
<1>3. /\ Top(p).at \in {"rm", "rmfile", "try_rmdir_r", "open", "next", "type", "rmdir"}
      /\ c.op \in {"rmdir", "rmdir_f", "rm", "rm_f", "rm_r"} /\ c.path # <<>>
  <2>1. Top(p).at # "unlink"
    BY <1>1, PhaseOps
  <2>2. Top(p).at \in {"rm", "rmfile", "try_rmdir_r", "open", "next", "type", "rmdir"}
    BY <2>1 DEF RemoveEntry, TryRmdir, Rm, RmFile, TryRmdirR, OpenDir, NextEntry, EntryType, EndOfDir,
                UnlinkEntry, At
  <2> QED BY <1>1, <2>2, PhaseOps DEF FrameOK
<1>4. /\ held[p] => held'[p]
      /\ LstatIn(node', c.path) = Nil => held'[p]
  <2>1. SUFFICES ASSUME LstatIn(node', c.path) = Nil PROVE held'[p]
    BY Holds
  <2>2. EffectIn(c, node')
    BY <1>3, <2>1, Zenon DEF EffectIn
  <2> QED BY <1>1, <2>2, Holds
<1>5. Return(p) /\ held'[p] => Goes(p)
  BY SingleReturn
<1>6. c.op = "rm_r" \/ Top(p).at \in {"try_rmdir_r", "open", "next", "type"} =>
        /\ c.op = "rm_r"
        /\ \A to \in {"rmfile", "try_rmdir_r", "open", "next", "type", "rmdir"} : to \in Phases(c.op)
  BY <1>1, PhaseOps
<1>7. ASSUME node' = Unlink(c.path), Removable(c.path), Return(p) PROVE Goes(p)
  <2>1. LstatIn(node', c.path) = Nil
    BY <1>1, <1>3, <1>7, UnlinkStable
  <2> QED BY <1>4, <1>5, <1>7, <2>1
<1>8. ASSUME node' = node, Lstat(c.path) = Nil, Return(p) PROVE Goes(p)
  BY <1>4, <1>5, <1>8 DEF Lstat
<1>9. CASE TryRmdir(p)
  <2>1. CASE TypeOf(Lstat(c.path)) = "dir" /\ Empty(Lstat(c.path))
    <3>1. node' = Unlink(c.path) /\ Return(p)
      BY <1>1, <1>9, <2>1 DEF TryRmdir
    <3>2. Removable(c.path)
      BY <2>1 DEF Removable
    <3> QED BY <1>7, <3>1, <3>2
  <2>2. CASE ~(TypeOf(Lstat(c.path)) = "dir" /\ Empty(Lstat(c.path)))
    <3>1. node' = node /\ ((Lstat(c.path) = Nil /\ Return(p)) \/ Throw(p))
      BY <1>1, <1>9, <2>2 DEF TryRmdir, Tree
    <3> QED BY <1>2, <1>8, <3>1
  <2> QED BY <2>1, <2>2
<1>10. CASE Rm(p)
  <2>1. Top(p).at = "rm" /\ node' = node
    BY <1>10 DEF Rm, At, Tree
  <2>2. \/ c.op = "rm_r" /\ TypeOf(Lstat(c.path)) = "dir" /\ GoTo(p, "try_rmdir_r") /\ Continue
        \/ GoTo(p, "rmfile") /\ Continue
        \/ Throw(p)
    BY <1>1, <1>10 DEF Rm
  <2>3. "rmfile" \in Phases(c.op) /\ (c.op = "rm_r" => "try_rmdir_r" \in Phases(c.op))
    BY <1>1, <1>6, <2>1, PhaseOps
  <2> QED BY <1>2, <2>1, <2>2, <2>3, SingleGoTo DEF TypeOf, Lstat
<1>11. CASE RmFile(p)
  <2>1. CASE TypeOf(Lstat(c.path)) \in {"file", "link"}
    <3>1. node' = Unlink(c.path) /\ Return(p)
      BY <1>1, <1>11, <2>1 DEF RmFile
    <3>2. Removable(c.path)
      BY <2>1 DEF Removable
    <3> QED BY <1>7, <3>1, <3>2
  <2>2. CASE ~(TypeOf(Lstat(c.path)) \in {"file", "link"})
    <3>1. node' = node /\ ((Lstat(c.path) = Nil /\ Return(p)) \/ Throw(p))
      BY <1>1, <1>11, <2>2 DEF RmFile, Tree
    <3> QED BY <1>2, <1>8, <3>1
  <2> QED BY <2>1, <2>2
<1>12. CASE TryRmdirR(p)
  <2>1. Top(p).at = "try_rmdir_r"
    BY <1>12 DEF TryRmdirR, At
  <2>2. CASE DirExists(c.path)
    <3>1. GoTo(p, "open") /\ Continue
      BY <1>1, <1>12, <2>2 DEF TryRmdirR
    <3>2. "open" \in Phases(c.op)
      BY <1>6, <2>1
    <3> QED BY <3>1, <3>2, SingleGoTo
  <2>3. CASE ~DirExists(c.path)
    <3>1. Return(p)
      BY <1>1, <1>12, <2>3 DEF TryRmdirR
    <3>2. TypeIn(node, LstatIn(node, c.path)) # "dir"
      BY <2>3 DEF DirExists, IsDirIn, DerefIn
    <3>3. NoMoves => held[p]
      BY <1>6, <2>1, <3>2
    <3> QED BY <1>4, <1>6, <2>1, <3>1, <3>3, SingleReturn
  <2> QED BY <2>2, <2>3
<1>13. CASE OpenDir(p)
  <2>1. Top(p).at = "open"
    BY <1>13 DEF OpenDir, At
  <2>2. "next" \in Phases(c.op)
    BY <1>6, <2>1
  <2>3. CASE DirExists(Top(p).path)
    <3> DEFINE f == Opened(p, "next", Top(p).path)
    <3>1. SetTop(p, f) /\ Continue
      BY <1>13, <2>3 DEF OpenDir
    <3>2. f.at = "next" /\ f.path = Top(p).path /\ f.ignore = Top(p).ignore
      BY <1>1, OpenedTypes DEF Steps, TypeOK, TreeOK
    <3> HIDE DEF f
    <3> QED BY <2>2, <3>1, <3>2, SingleSet
  <2>4. CASE ~DirExists(Top(p).path)
    BY <1>2, <1>13, <2>4 DEF OpenDir
  <2> QED BY <2>3, <2>4
<1>14. CASE NextEntry(p)
  <2>1. Top(p).at = "next" /\ Continue
    BY <1>14 DEF NextEntry, At
  <2>2. "next" \in Phases(c.op) /\ "type" \in Phases(c.op)
    BY <1>6, <2>1
  <2>3. PICK e \in Entries(Top(p)) :
          IF fs.types THEN Dispose(p, e[1], e[2])
                      ELSE SetTop(p, [Top(p) EXCEPT !.at = "type", !.entry = e[1]])
    BY <1>14 DEF NextEntry
  <2>4. e[1] \in Names
    BY DEF Entries
  <2>5. CASE fs.types
    BY <2>1, <2>2, <2>3, <2>4, <2>5, DisposeGoes
  <2>6. CASE ~fs.types
    <3> DEFINE f == [Top(p) EXCEPT !.at = "type", !.entry = e[1]]
    <3>1. f.at = "type" /\ f.path = Top(p).path /\ f.ignore = Top(p).ignore
      BY <1>1 DEF Frames
    <3>2. SetTop(p, f)
      BY <2>3, <2>6
    <3> HIDE DEF f
    <3> QED BY <2>1, <2>2, <3>1, <3>2, SingleSet
  <2> QED BY <2>5, <2>6
<1>15. CASE EntryType(p)
  <2>1. Top(p).at = "type"
    BY <1>15 DEF EntryType, At
  <2>2. "next" \in Phases(c.op) /\ Top(p).entry \in Names
    BY <1>1, <1>6, <2>1 DEF FrameOK
  <2>3. Throw(p) \/ \E t : Dispose(p, Top(p).entry, t) /\ Continue
    BY <1>15 DEF EntryType
  <2> QED BY <1>2, <2>2, <2>3, DisposeGoes
<1>16. CASE EndOfDir(p)
  <2>1. Top(p).at = "next" /\ Continue /\ SetTop(p, Closed(Top(p)))
    BY <1>16 DEF EndOfDir, At, CloseDir, Closed
  <2>2. /\ Closed(Top(p)).at = "rmdir" /\ Closed(Top(p)).path = Top(p).path
        /\ Closed(Top(p)).ignore = Top(p).ignore
    BY <1>1 DEF Closed, Frames
  <2>3. "rmdir" \in Phases(c.op)
    BY <1>6, <2>1
  <2> QED BY <2>1, <2>2, <2>3, SingleSet
<1>17. ~UnlinkEntry(p)
  BY <1>3 DEF UnlinkEntry, At
<1> QED BY <1>9, <1>10, <1>11, <1>12, <1>13, <1>14, <1>15, <1>16, <1>17 DEF RemoveEntry

(* ... of ln, ... *)
LEMMA LnGoes ==
  ASSUME TypeOK, TypeOK', NEW p \in Procs, Single(p), Ln(p), Given
  PROVE  Goes(p)
<1> DEFINE c == cmd[p]
<1>1. /\ Top(p) \in Frames /\ Top(p).path = c.path /\ c.path \in Seq(Names) /\ Top(p).from \in Seq(Names)
      /\ c.op \in Lasting /\ Top(p).at \in Phases(c.op) /\ result[p] = "run"
      /\ node \in [Ids -> Inodes]
  BY SingleIs DEF TypeOK, TreeOK, Frames
<1>2. Throw(p) => Goes(p)
  BY SingleThrow
<1>3. Top(p).at \in {"target", "symlink", "link"}
  BY DEF Ln, LinkTarget, MkSymlink, MkHardlink, At
<1>4. c.op \in {"ln", "ln_s"} /\ \A to \in {"symlink", "link", "cpdir"} : to \in Phases(c.op)
  BY <1>1, <1>3, PhaseOps
<1>5. LstatIn(node', c.path) # Nil /\ Return(p) => Goes(p)
  <2>1. SUFFICES ASSUME LstatIn(node', c.path) # Nil, Return(p) PROVE Goes(p)
    OBVIOUS
  <2>2. EffectIn(c, node')
    BY <1>4, <2>1, Zenon DEF EffectIn
  <2>3. held'[p]
    BY <1>1, <2>2, Holds
  <2> QED BY <2>1, <2>3, SingleReturn
<1>6. \A at \in {"symlink", "link", "cpdir"} : GoTo(p, at) /\ Continue => Goes(p)
  BY <1>4, SingleGoTo
<1>7. CASE LinkTarget(p)
  <2>1. Throw(p) \/ \E at \in {"symlink", "link", "cpdir"} : GoTo(p, at) /\ Continue
    BY <1>7 DEF LinkTarget
  <2> QED BY <1>2, <1>6, <2>1
<1>8. CASE MkSymlink(p)
  <2>1. CASE ~Vacant(c.path)
    BY <1>1, <1>2, <1>8, <2>1 DEF MkSymlink
  <2>2. CASE Vacant(c.path) /\ ~fs.symlinks
    BY <1>1, <1>6, <1>8, <2>2 DEF MkSymlink
  <2>3. CASE Vacant(c.path) /\ ~(~fs.symlinks)
    <3>1. Make(c.path, Link(Top(p).from)) /\ Return(p)
      BY <1>1, <1>8, <2>3 DEF MkSymlink
    <3>2. Link(Top(p).from) \in Inodes
      BY <1>1, NewInodes
    <3>3. LstatIn(node', c.path) # Nil
      BY <1>1, <2>3, <3>1, <3>2, MakeStable
    <3> QED BY <1>5, <3>1, <3>3
  <2> QED BY <2>1, <2>2, <2>3
<1>9. CASE MkHardlink(p)
  <2> DEFINE i == Lstat(Top(p).from)
             path == c.path
  <2>1. CASE i = Nil \/ ~Vacant(path)
    BY <1>1, <1>2, <1>9, <2>1 DEF MkHardlink
  <2>2. CASE i # Nil /\ Vacant(path) /\ (TypeOf(i) = "dir" \/ ~fs.hardlinks)
    BY <1>1, <1>6, <1>9, <2>2 DEF MkHardlink
  <2>3. CASE ~(i = Nil \/ ~Vacant(path)) /\ ~(i # Nil /\ Vacant(path) /\ (TypeOf(i) = "dir" \/ ~fs.hardlinks))
    <3>1. node' = Put(path, i) /\ Return(p)
      BY <1>1, <1>9, <2>3 DEF MkHardlink
    <3>2. Vacant(path) /\ i \in Refs /\ i # Nil
      BY <1>1, <2>3, LstatIs DEF Lstat
    <3> HIDE DEF i
    <3>3. LstatIn(node', path) # Nil
      BY <1>1, <3>1, <3>2, PutIsFound
    <3> QED BY <1>5, <3>1, <3>3
  <2> QED BY <2>1, <2>2, <2>3
<1> QED BY <1>7, <1>8, <1>9 DEF Ln

(* ... of cp, when it goes on to an entry, ... *)
LEMMA CopyGoes ==
  ASSUME TypeOK, TypeOK', NEW p \in Procs, Single(p), NEW n, NEW t, CopyEntry(p, n, t), Continue,
         "cp_next" \in Phases(cmd[p].op), held'[p]
  PROVE  Goes(p)
<1> DEFINE f == [Top(p) EXCEPT !.at = "cp_next", !.entry = Nil, !.seen = @ \cup {n}]
           at == IF t = "dir" THEN "cpdir" ELSE "cp_source"
           g == [Copying(at, Append(Top(p).from, n), Append(Top(p).path, n)) EXCEPT !.new = TRUE]
<1>1. Top(p) \in Frames
  BY SingleIs
<1>2. stack' = [stack EXCEPT ![p] = Append(Front(@), f) \o <<g>>]
  BY Zenon DEF CopyEntry
<1>3. f.at = "cp_next" /\ f.path = Top(p).path /\ f.ignore = Top(p).ignore
  BY <1>1 DEF Frames
<1> HIDE DEF f, g
<1> QED BY <1>2, <1>3, SingleCall

(* ... and in all other steps. *)
LEMMA CpGoes ==
  ASSUME TypeOK, TypeOK', NEW p \in Procs, Single(p), Cp(p), Given
  PROVE  Goes(p)
<1> DEFINE c == cmd[p]
<1>1. /\ Top(p) \in Frames /\ Top(p).path = c.path /\ c.path \in Seq(Names) /\ Top(p).from \in Seq(Names)
      /\ c.op \in Lasting /\ Top(p).at \in Phases(c.op) /\ result[p] = "run"
      /\ node \in [Ids -> Inodes]
      /\ Top(p).at \in {"cp_next", "cp_type", "cp_follow", "cp_open"} => held'[p]
  BY SingleIs, Holds DEF TypeOK, TreeOK, Frames
<1>2. Throw(p) => Goes(p)
  BY SingleThrow
<1>3. /\ Top(p).at \in {"cpdir", "cp_open", "cp_next", "cp_type", "cp_follow"} =>
           \A to \in {"cp_open", "cp_next", "cp_type", "cp_follow"} : to \in Phases(c.op)
      /\ Top(p).at \in {"cp_source", "cp_file", "cp_undo"} =>
           c.op = "cp" /\ "cp_file" \in Phases(c.op) /\ "cp_undo" \in Phases(c.op)
  BY <1>1, PhaseOps
<1>4. CASE CpDir(p)
  <2> DEFINE f == [Top(p) EXCEPT !.at = "cp_open"]
             g == [Frame("mkdir", Top(p).path) EXCEPT !.new = TRUE]
  <2>1. Top(p).at = "cpdir" /\ Continue /\ CallFrom(p, "cp_open", g)
    BY <1>4 DEF CpDir, At
  <2>2. stack' = [stack EXCEPT ![p] = Append(Front(@), f) \o <<g>>]
    BY <2>1 DEF CallFrom
  <2>3. f.at = "cp_open" /\ f.path = Top(p).path /\ f.ignore = Top(p).ignore
    BY <1>1 DEF Frames
  <2>4. g.at = "mkdir" /\ g.path = c.path /\ g.new
    BY <1>1 DEF Frame
  <2>5. "cp_open" \in Phases(c.op)
    BY <1>3, <2>1
  <2> HIDE DEF f, g
  <2> QED BY <2>1, <2>2, <2>3, <2>4, <2>5, SingleCall
<1>5. CASE CpOpenDir(p)
  <2>1. Top(p).at = "cp_open"
    BY <1>5 DEF CpOpenDir, At
  <2>2. "cp_next" \in Phases(c.op) /\ held'[p]
    BY <1>1, <1>3, <2>1
  <2>3. CASE DirExists(Top(p).from)
    <3> DEFINE f == Opened(p, "cp_next", Top(p).from)
    <3>1. SetTop(p, f) /\ Continue
      BY <1>5, <2>3 DEF CpOpenDir
    <3>2. f.at = "cp_next" /\ f.path = Top(p).path /\ f.ignore = Top(p).ignore
      BY <1>1, OpenedTypes DEF Steps
    <3> HIDE DEF f
    <3> QED BY <2>2, <3>1, <3>2, SingleSet
  <2>4. CASE ~DirExists(Top(p).from)
    BY <1>2, <1>5, <2>4 DEF CpOpenDir
  <2> QED BY <2>3, <2>4
<1>6. CASE CpNext(p)
  <2>1. Top(p).at = "cp_next" /\ Continue
    BY <1>6 DEF CpNext, At
  <2>2. PICK e \in Entries(Top(p)) :
          IF fs.types /\ e[2] # "link"
          THEN CopyEntry(p, e[1], e[2])
          ELSE SetTop(p, [Top(p) EXCEPT !.at = IF fs.types THEN "cp_follow" ELSE "cp_type", !.entry = e[1]])
    BY <1>6 DEF CpNext
  <2>3. held'[p] /\ \A at \in {"cp_next", "cp_type", "cp_follow"} : at \in Phases(c.op)
    BY <1>1, <1>3, <2>1
  <2>4. CASE CopyEntry(p, e[1], e[2])
    BY <2>1, <2>3, <2>4, CopyGoes
  <2>5. CASE \E at \in {"cp_type", "cp_follow"} : SetTop(p, [Top(p) EXCEPT !.at = at, !.entry = e[1]])
    <3>1. PICK at \in {"cp_type", "cp_follow"} : SetTop(p, [Top(p) EXCEPT !.at = at, !.entry = e[1]])
      BY <2>5
    <3> DEFINE f == [Top(p) EXCEPT !.at = at, !.entry = e[1]]
    <3>2. f.at = at /\ f.path = Top(p).path /\ f.ignore = Top(p).ignore /\ SetTop(p, f)
      BY <1>1, <3>1 DEF Frames
    <3> HIDE DEF f
    <3> QED BY <2>1, <2>3, <3>2, SingleSet
  <2> QED BY <2>2, <2>4, <2>5
<1>7. CASE CpEntry(p)
  <2>1. Top(p).at \in {"cp_type", "cp_follow"}
    BY <1>7 DEF CpEntry, At
  <2>2. \/ Throw(p)
        \/ GoTo(p, "cp_follow") /\ Continue
        \/ \E t : CopyEntry(p, Top(p).entry, t) /\ Continue
    BY <1>7, Zenon DEF CpEntry
  <2>3. held'[p] /\ \A at \in {"cp_next", "cp_follow"} : at \in Phases(c.op)
    BY <1>1, <1>3, <2>1
  <2>4. CASE GoTo(p, "cp_follow") /\ Continue
    <3> DEFINE f == [Top(p) EXCEPT !.at = "cp_follow"]
    <3>1. f.at = "cp_follow" /\ f.path = Top(p).path /\ f.ignore = Top(p).ignore /\ SetTop(p, f)
      BY <1>1, <2>4 DEF Frames, GoTo
    <3> HIDE DEF f
    <3> QED BY <2>3, <2>4, <3>1, SingleSet
  <2> QED BY <1>2, <2>2, <2>3, <2>4, CopyGoes
<1>8. CASE CpEnd(p)
  BY <1>1, <1>8, SingleReturn DEF CpEnd, At
<1>9. CASE CpSource(p)
  <2> DEFINE i == Stat(Top(p).from)
             f == [Top(p) EXCEPT !.at = "cp_file", !.src = i]
  <2>1. Top(p).at = "cp_source" /\ (Throw(p) \/ (SetTop(p, f) /\ Continue))
    BY <1>9 DEF CpSource, At
  <2>2. f.at = "cp_file" /\ f.path = Top(p).path /\ f.ignore = Top(p).ignore
    BY <1>1 DEF Frames
  <2>3. "cp_file" \in Phases(c.op)
    BY <1>3, <2>1
  <2> HIDE DEF f
  <2> QED BY <1>2, <2>1, <2>2, <2>3, SingleSet
<1>10. CASE CpFile(p)
  <2>1. Top(p).at = "cp_file"
    BY <1>10 DEF CpFile, At
  <2>2. c.op = "cp" /\ "cp_undo" \in Phases(c.op)
    BY <1>3, <2>1
  <2>3. \/ LstatIn(node', c.path) # Nil /\ (Return(p) \/ (GoTo(p, "cp_undo") /\ Continue))
        \/ Throw(p)
    BY <1>1, <1>10, CpFileIs
  <2>4. LstatIn(node', c.path) # Nil => held'[p]
    <3>1. SUFFICES ASSUME LstatIn(node', c.path) # Nil PROVE held'[p]
      OBVIOUS
    <3>2. EffectIn(c, node')
      BY <2>2, <3>1, Zenon DEF EffectIn
    <3> QED BY <1>1, <3>2, Holds
  <2> QED BY <1>2, <2>2, <2>3, <2>4, SingleReturn, SingleGoTo
<1>11. CASE CpUndo(p)
  <2>1. Fail(p)
    BY <1>11 DEF CpUndo
  <2> QED BY <2>1, SingleThrow
<1> QED BY <1>4, <1>5, <1>6, <1>7, <1>8, <1>9, <1>10, <1>11 DEF Cp

(* All together. *)
LEMMA SingleGoes ==
  ASSUME TypeOK, TypeOK', NEW p \in Procs, Single(p), Step(p), Given,
         NoMoves /\ cmd[p].op = "rm_r" /\ Top(p).at = "try_rmdir_r" =>
           held[p] \/ TypeIn(node, LstatIn(node, cmd[p].path)) = "dir"
  PROVE  Goes(p)
<1>1. Top(p).at \notin {"mv", "rename"}
  BY SingleIs, PhaseOps
<1>2. ~Mv(p) /\ ~Rename(p)
  BY <1>1 DEF Mv, Rename, At
<1> QED BY <1>2, MakeDirGoes, RemoveEntryGoes, TouchFileGoes, LnGoes, CpGoes DEF Step

-----------------------------------------------------------------------------
(* Success: the steps of the calls it has made. *)

(* What any step does to the calls of its process. *)
CallForm(p) ==
  \/ \E f \in Good : SetTop(p, f) /\ Continue
  \/ \E f, g \in Good : Push(p, f, g) /\ Continue
  \/ Return(p)
  \/ Fail(p)

(* Only a process that runs takes a step. *)
LEMMA StepRuns ==
  ASSUME NEW p \in Procs, Step(p) PROVE result[p] = "run" /\ Given
BY DEF Step, MakeDir, MkdirP, TryMkdirP, TryMkdir, AlreadyExists,
       RemoveEntry, TryRmdir, Rm, RmFile, TryRmdirR, OpenDir, NextEntry, EntryType, EndOfDir, UnlinkEntry,
       TouchFile, Touch, Utimes, CreateFile, Ln, LinkTarget, MkSymlink, MkHardlink,
       Cp, CpDir, CpOpenDir, CpNext, CpEntry, CpEnd, CpSource, CpFile, CpUndo, Mv, Rename, At

(* Every step, those of mv included. *)
LEMMA CallForms ==
  ASSUME TypeOK, TypeOK', NEW p \in Procs, Step(p)
  PROVE  CallForm(p)
<1>1. result[p] = "run"
  BY StepRuns
<1>2. StepForm(p) => CallForm(p)
  BY Zenon DEF StepForm, CallForm, Push
<1>3. Throw(p) => CallForm(p)
  BY <1>1, <1>2, FormThrow
<1>4. Return(p) => CallForm(p)
  BY Zenon DEF CallForm
<1>5. CASE Mv(p)
  <2>1. CASE Throw(p)
    BY <1>3, <2>1
  <2>2. CASE ~Throw(p)
    <3>1. GoTo(p, "rename") /\ Continue
      BY <1>5, <2>2 DEF Mv
    <3>2. CallsOf(Good, stack, result) /\ CallsOf(Good, stack, result)'
      BY TypedCalls, PTL DEF Typed
    <3>3. CallsOf(Good, stack', result')
      BY <3>2 DEF CallsOf
    <3> DEFINE f == [Top(p) EXCEPT !.at = "rename"]
    <3>4. SetTop(p, f)
      BY <3>1 DEF GoTo
    <3> HIDE DEF f
    <3>5. f \in Good
      BY <1>1, <3>2, <3>3, <3>4, SetFrames
    <3> QED BY <3>1, <3>4, <3>5, Zenon DEF CallForm
  <2> QED BY <2>1, <2>2
<1>6. CASE Rename(p)
  <2>1. Return(p) \/ Throw(p)
    BY <1>6, Zenon DEF Rename
  <2> QED BY <1>3, <1>4, <2>1
<1> QED BY <1>2, <1>5, <1>6, StepForms

(* The outermost call stays where it is while another one runs. *)
LEMMA InnerStays ==
  ASSUME TypeOK, TypeOK', NEW p \in Procs, Step(p), Len(stack[p]) > 1
  PROVE  \/ stack'[p] = <<>> /\ result'[p] = "fail"
         \/ stack'[p] # <<>> /\ result'[p] = "run" /\ stack'[p][1] = stack[p][1]
<1>1. result[p] = "run" /\ CallForm(p)
  BY StepRuns, CallForms
<1>2. /\ Len(stack[p]) # 1
      /\ \A f \in Good : SetTop(p, f) => stack'[p] # <<>> /\ stack'[p][1] = stack[p][1]
      /\ \A f, g \in Good : Push(p, f, g) => stack'[p] # <<>> /\ stack'[p][1] = stack[p][1]
      /\ Return(p) => stack'[p][1] = stack[p][1] /\ result'[p] = "run"
      /\ Fail(p) => stack'[p] = <<>> /\ result'[p] = "fail"
  BY <1>1, CallsSteps
<1>3. result'[p] = "run" <=> stack'[p] # <<>>
  BY DEF TypeOK
<1>4. Continue => result'[p] = "run"
  BY <1>1 DEF Continue
<1> QED BY <1>1, <1>2, <1>3, <1>4 DEF CallForm

(* The new directory that is to be filled. *)
LEMMA NewDirGoes ==
  ASSUME TypeOK, TypeOK', NEW p \in Procs, Runner(p), Step(p), Len(stack[p]) = 2,
         stack[p][1].at = "cp_open", stack[p][2].at \in {"mkdir", "exists"}, stack[p][2].path = cmd[p].path,
         stack[p][2].new
  PROVE  \/ Fail(p)
         \/ held'[p]
         \/ Len(stack'[p]) = 2 /\ stack'[p][2].at \in {"mkdir", "exists"} /\ stack'[p][2].path = cmd[p].path
              /\ stack'[p][2].new
<1> DEFINE c == cmd[p]
<1>1. result[p] = "run" /\ Given
  BY StepRuns
<1>2. Top(p) = stack[p][2] /\ stack[p] # <<>>
  <2>1. Top(p) = stack[p][Len(stack[p])] /\ stack[p] # <<>>
    BY <1>1, CallsSteps
  <2> QED BY <2>1
<1>3. Top(p) \in Frames /\ Top(p).at \in {"mkdir", "exists"} /\ Top(p).path = c.path /\ Top(p).new /\ c.path \in Seq(Names)
  BY <1>1, <1>2, TopIs
<1>4. c.op \in {"ln", "ln_s", "cp_r"}
  <2>1. c.op \in Lasting /\ "cp_open" \in Phases(c.op)
    BY <1>2 DEF Runner, Outer
  <2> QED BY <2>1 DEF Lasting, Phases
<1>5. Throw(p) => Fail(p)
  <2>1. Top(p).at \notin Iterating
    BY <1>3 DEF Iterating
  <2> QED BY <2>1, Zenon DEF Throw
<1>6. TryMkdir(p) \/ AlreadyExists(p)
  <2>1. ~MkdirP(p) /\ ~TryMkdirP(p)
    BY <1>3 DEF MkdirP, TryMkdirP, At
  <2>2. ~TouchFile(p) /\ ~Ln(p)
    BY <1>3 DEF TouchFile, Touch, Utimes, CreateFile, Ln, LinkTarget, MkSymlink, MkHardlink, At
  <2>3. ~Cp(p)
    BY <1>3 DEF Cp, CpDir, CpOpenDir, CpNext, CpEntry, CpEnd, CpSource, CpFile, CpUndo, At
  <2>4. ~Mv(p) /\ ~Rename(p)
    BY <1>3 DEF Mv, Rename, At
  <2>5. ~RemoveEntry(p)
    BY <1>3 DEF RemoveEntry, TryRmdir, Rm, RmFile, TryRmdirR, OpenDir, NextEntry, EntryType, EndOfDir, UnlinkEntry, At
  <2> QED BY <2>1, <2>2, <2>3, <2>4, <2>5 DEF Step, MakeDir
<1>7. CASE TryMkdir(p)
  <2>1. CASE Vacant(Top(p).path)
    <3>1. Make(c.path, EmptyDir) /\ Vacant(c.path)
      BY <1>3, <1>7, <2>1 DEF TryMkdir
    <3>2. LstatIn(node', c.path) # Nil
      BY <1>3, <3>1, MakeStable, NewInodes
    <3>3. EffectIn(c, node')
      BY <1>4, <3>2, Zenon DEF EffectIn
    <3> QED BY <1>1, <3>3, Holds
  <2>2. CASE ~Vacant(Top(p).path)
    <3>1. Throw(p) \/ (GoTo(p, "exists") /\ Continue)
      BY <1>7, <2>2 DEF TryMkdir
    <3>2. ASSUME GoTo(p, "exists"), Continue
          PROVE  Len(stack'[p]) = 2 /\ stack'[p][2].at = "exists" /\ stack'[p][2].path = c.path /\ stack'[p][2].new
      <4> DEFINE f == [Top(p) EXCEPT !.at = "exists"]
      <4>1. f.at = "exists" /\ f.path = c.path /\ f.new /\ SetTop(p, f)
        BY <1>3, <3>2 DEF Frames, GoTo
      <4>2. CallsOf(Good, stack, result) /\ CallsOf(Good, stack, result)'
        BY TypedCalls, PTL DEF Typed
      <4>3. CallsOf(Good, stack', result')
        BY <4>2 DEF CallsOf
      <4> HIDE DEF f
      <4>4. f \in Good
        BY <1>1, <4>1, <4>2, <4>3, SetFrames
      <4>5. Len(stack'[p]) = Len(stack[p]) /\ stack'[p][Len(stack[p])] = f
        BY <1>1, <4>1, <4>4, CallsSteps
      <4> QED BY <4>1, <4>5
    <3> QED BY <1>5, <3>1, <3>2
  <2> QED BY <2>1, <2>2
<1>8. CASE AlreadyExists(p)
  BY <1>3, <1>5, <1>8 DEF AlreadyExists
<1> QED BY <1>6, <1>7, <1>8

(* A step of a call that another one has made. *)
LEMMA InnerGoes ==
  ASSUME TypeOK, TypeOK', NEW p \in Procs, Runner(p), Len(stack[p]) > 1, Step(p),
         NoMoves => Stable(node, node'),
         NoMoves /\ cmd[p].op = "rm_r" /\ stack[p][1].at = "try_rmdir_r" =>
           held[p] \/ TypeIn(node, LstatIn(node, cmd[p].path)) = "dir"
  PROVE  Goes(p)
<1> DEFINE c == cmd[p]
           s == stack[p]
<1>1. result[p] = "run" /\ Given /\ c.op \in Lasting /\ Outer(c, s, held[p]) /\ s # <<>> /\ c.path \in Seq(Names)
  BY StepRuns DEF Runner, TypeOK, Commands
<1>2. c.op \notin {"none", "auto_rm", "mv"}
  BY <1>1 DEF Lasting
<1>3. held[p] => held'[p]
  BY <1>1, Holds
<1>4. CASE stack'[p] = <<>> /\ result'[p] = "fail"
  BY <1>2, <1>4 DEF Goes, Succeeds, Outer
<1>5. CASE stack'[p] # <<>> /\ result'[p] = "run" /\ stack'[p][1] = s[1]
  <2>1. ~Fail(p)
    BY <1>1, <1>5, CallsSteps
  <2>2. s[1].at = "cp_open" =>
          held'[p] \/ (Len(stack'[p]) = 2 /\ stack'[p][2].at \in {"mkdir", "exists"}
                         /\ stack'[p][2].path = c.path /\ stack'[p][2].new)
    BY <1>1, <1>3, <2>1, NewDirGoes DEF Outer
  <2>3. Outer(c, stack'[p], held'[p])
    BY <1>1, <1>3, <1>5, <2>2 DEF Outer
  <2>4. ASSUME NoMoves, c.op = "rm_r", s[1].at = "try_rmdir_r"
        PROVE  held'[p] \/ TypeIn(node', LstatIn(node', c.path)) = "dir"
    <3>1. CASE held[p]
      BY <1>3, <3>1
    <3>2. CASE TypeIn(node, LstatIn(node, c.path)) = "dir"
      <4>1. LstatIn(node', c.path) = Nil \/ TypeIn(node', LstatIn(node', c.path)) = "dir"
        BY <1>1, <2>4, <3>2, DirLasts
      <4>2. ASSUME LstatIn(node', c.path) = Nil PROVE held'[p]
        <5>1. EffectIn(c, node')
          BY <2>4, <4>2, Zenon DEF EffectIn
        <5> QED BY <1>1, <5>1, Holds
      <4> QED BY <4>1, <4>2
    <3> QED BY <2>4, <3>1, <3>2
  <2> QED BY <1>2, <1>5, <2>3, <2>4 DEF Goes, Succeeds
<1> QED BY <1>4, <1>5, InnerStays

(* A step of one process leaves the calls of the others alone. *)
LEMMA OthersStay ==
  ASSUME TypeOK, TypeOK', NEW p \in Procs, Step(p), NEW q \in Procs, q # p
  PROVE  stack'[q] = stack[q] /\ result'[q] = result[q]
<1>1. stack \in [Procs -> Seq(Frames)] /\ result \in [Procs -> {"run", "ok", "fail"}]
  BY DEF TypeOK
<1>2. \/ \E s : stack' = [stack EXCEPT ![p] = s] /\ Continue
      \/ Return(p) \/ Fail(p)
  <2>1. \A f : SetTop(p, f) => \E s : stack' = [stack EXCEPT ![p] = s]
    BY DEF SetTop
  <2>2. \A f, g : Push(p, f, g) => \E s : stack' = [stack EXCEPT ![p] = s]
    BY DEF Push
  <2> QED BY <2>1, <2>2, CallForms DEF CallForm
<1> QED BY <1>1, <1>2 DEF Return, Fail, Continue

(* A step of the process p itself ... *)
LEMMA OwnStepSucceeds ==
  ASSUME TypeOK, TypeOK', NEW p \in Procs, Step(p),
         Succeeds(cmd[p], stack[p], result[p], held[p], node, NoMoves),
         NoMoves => Stable(node, node')
  PROVE  Succeeds(cmd[p], stack'[p], result'[p], held'[p], node', NoMoves)
<1>1. result[p] = "run" /\ Given /\ cmd[p].op \in Ops
  BY StepRuns DEF TypeOK, Commands
<1>2. /\ held[p] => held'[p]
      /\ stack[p] \in Seq(Good) /\ stack[p] # <<>> /\ Len(stack[p]) \in Nat \ {0} /\ Top(p) = stack[p][Len(stack[p])]
  BY <1>1, Holds, CallsSteps
<1>3. CASE cmd[p].op \in Lasting
  <2>1. Runner(p)
    BY <1>1, <1>3 DEF Runner, Succeeds
  <2>2. NoMoves /\ cmd[p].op = "rm_r" /\ stack[p][1].at = "try_rmdir_r" =>
          held[p] \/ TypeIn(node, LstatIn(node, cmd[p].path)) = "dir"
    BY <1>2 DEF Succeeds
  <2>3. CASE Len(stack[p]) = 1
    <3>1. Single(p)
      BY <2>1, <2>3 DEF Single
    <3>2. NoMoves /\ cmd[p].op = "rm_r" /\ Top(p).at = "try_rmdir_r" =>
            held[p] \/ TypeIn(node, LstatIn(node, cmd[p].path)) = "dir"
      BY <1>2, <2>2, <2>3
    <3> QED BY <1>1, <3>1, <3>2, SingleGoes DEF Goes
  <2>4. CASE Len(stack[p]) # 1
    <3>1. Len(stack[p]) > 1
      <4>1. \A k \in Nat \ {0} : k # 1 => k > 1
        OBVIOUS
      <4> QED BY <1>2, <2>4, <4>1, Zenon
    <3> QED BY <2>1, <2>2, <3>1, InnerGoes DEF Goes
  <2> QED BY <2>3, <2>4
<1>4. CASE cmd[p].op \in {"none", "auto_rm"}
  <2>1. held'[p]
    BY <1>2, <1>4 DEF Succeeds
  <2> QED BY <1>4, <2>1 DEF Succeeds, Lasting
<1>5. CASE cmd[p].op = "mv"
  BY <1>5 DEF Succeeds, Lasting
<1> QED BY <1>1, <1>3, <1>4, <1>5 DEF Ops, Lasting

(* ... and one of another process. *)
LEMMA OtherStepSucceeds ==
  ASSUME TypeOK, TypeOK', Given, NEW q \in Procs, stack'[q] = stack[q], result'[q] = result[q],
         Succeeds(cmd[q], stack[q], result[q], held[q], node, NoMoves),
         NoMoves => Stable(node, node')
  PROVE  Succeeds(cmd[q], stack'[q], result'[q], held'[q], node', NoMoves)
<1> DEFINE c == cmd[q]
           s == stack[q]
<1>1. /\ held[q] => held'[q]
      /\ c.path \in Seq(Names) /\ (s # <<>> => result[q] = "run")
  BY Holds DEF TypeOK, Commands
<1>2. Outer(c, s, held[q]) => Outer(c, s, held'[q])
  BY <1>1 DEF Outer
<1>3. ASSUME NoMoves, c.op = "rm_r", s # <<>>, TypeIn(node, LstatIn(node, c.path)) = "dir"
      PROVE  held'[q] \/ TypeIn(node', LstatIn(node', c.path)) = "dir"
  <2>1. LstatIn(node', c.path) = Nil \/ TypeIn(node', LstatIn(node', c.path)) = "dir"
    BY <1>1, <1>3, DirLasts
  <2>2. ASSUME LstatIn(node', c.path) = Nil PROVE held'[q]
    <3>1. EffectIn(c, node')
      BY <1>3, <2>2, Zenon DEF EffectIn
    <3> QED BY <1>1, <1>3, <3>1, Holds
  <2> QED BY <2>1, <2>2
<1> QED BY <1>1, <1>2, <1>3 DEF Succeeds

(* Where nothing is moved, the tree is stable. *)
LEMMA UnmovedStep ==
  ASSUME TypeOK, TypeOK', NEW p \in Procs, Step(p), CallsOf(Unmoved, stack, result)
  PROVE  Stable(node, node') /\ CallsOf(Unmoved, stack', result')
<1>1. result[p] = "run"
  BY StepRuns
<1>2. Top(p) \in Unmoved
  BY <1>1, StackSteps
<1>3. ~Mv(p) /\ ~Rename(p)
  BY <1>2 DEF Unmoved, Moving, Mv, Rename, At
<1>4. StepForm(p) /\ Stable(node, node')
  BY <1>3, StepForms
<1>5. \A f \in Good : f.at \notin Moving => f \in Unmoved
  BY DEF Unmoved
<1> QED BY <1>1, <1>4, <1>5, StackSteps DEF StepForm

(* SuccessInv holds at first. *)
LEMMA InitSuccess ==
  ASSUME Init PROVE SuccessInv
<1>1. TypeOK /\ cmd \in [Procs -> Commands]
  BY InitTypes, SceneIs
<1>2. CallsOf(Good, stack, result)
  BY <1>1, TypedCalls DEF Typed
<1>3. /\ stack = [p \in Procs |-> IF Idle(p) THEN <<>> ELSE <<First(cmd[p])>>]
      /\ result = [p \in Procs |-> IF Idle(p) THEN "ok" ELSE "run"]
      /\ held = [p \in Procs |-> Effect(cmd[p])]
  BY DEF Init
<1>4. ASSUME NEW p \in Procs, ~Idle(p)
      PROVE  First(cmd[p]) \in Good
  <2>1. cmd[p] \in Commands /\ cmd[p].path # <<>> /\ cmd[p].op # "none"
    BY <1>1, <1>4, SceneIs DEF Idle
  <2> QED BY <2>1, FirstTypes
<1>5. ASSUME NoMoves PROVE CallsOf(Unmoved, stack, result)
  <2>1. ASSUME NEW p \in Procs PROVE stack[p] \in Seq(Unmoved)
    <3>1. CASE Idle(p)
      BY <1>3, <3>1
    <3>2. CASE ~Idle(p)
      <4> DEFINE f == First(cmd[p])
      <4>1. cmd[p].op \in Ops /\ cmd[p].op # "mv" /\ cmd[p].op # "none"
        BY <1>1, <1>5, <3>2 DEF NoMoves, Commands, Idle
      <4>2. f.at \notin Moving
        BY <4>1 DEF First, Moving, Frame, Copying, Ops
      <4>3. f \in Unmoved
        BY <1>4, <3>2, <4>2 DEF Unmoved
      <4> HIDE DEF f
      <4>4. <<f>> \in Seq(Unmoved)
        BY <4>3
      <4> QED BY <1>3, <3>2, <4>4 DEF f
    <3> QED BY <3>1, <3>2
  <2>2. stack \in [Procs -> Seq(Unmoved)]
    BY <1>3, <2>1
  <2> QED BY <1>2, <2>2 DEF CallsOf
<1>6. ASSUME NEW p \in Procs
      PROVE  Succeeds(cmd[p], stack[p], result[p], held[p], node, NoMoves)
  <2> DEFINE c == cmd[p]
             f == First(c)
  <2>1. c.op \in {"none", "auto_rm"} => held[p]
    BY <1>3 DEF Effect
  <2>2. ASSUME c.op \in Lasting
        PROVE  /\ stack[p] = <<f>> /\ result[p] = "run" /\ f.path = c.path /\ ~f.ignore /\ f.at \in Phases(c.op)
               /\ f.at \notin {"utimes", "cp_next", "cp_type", "cp_follow", "cp_open", "try_rmdir_r"}
    <3>1. ~Idle(p)
      BY <2>2 DEF Idle, Lasting
    <3>2. stack[p] = <<f>> /\ result[p] = "run"
      BY <1>3, <3>1
    <3>3. /\ f.path = c.path /\ ~f.ignore /\ f.at \in Phases(c.op)
          /\ f.at \notin {"utimes", "cp_next", "cp_type", "cp_follow", "cp_open", "try_rmdir_r"}
      BY <2>2 DEF First, Phases, Frame, Copying, Lasting
    <3> QED BY <3>2, <3>3
  <2>3. Outer(c, <<f>>, held[p]) \/ c.op \notin Lasting
    <3> HIDE DEF f
    <3> QED BY <2>2 DEF Outer
  <2>4. \A g : <<g>>[1] = g
    OBVIOUS
  <2>5. c.op \in Ops /\ c.op \notin Lasting => c.op \in {"none", "auto_rm", "mv"}
    BY DEF Ops, Lasting
  <2>6. c.op \in Ops
    BY <1>1 DEF Commands
  <2>7. "rm_r" \in Lasting
    BY DEF Lasting
  <2> HIDE DEF f
  <2> QED BY <2>1, <2>2, <2>3, <2>4, <2>5, <2>6, <2>7 DEF Succeeds
<1> QED BY <1>5, <1>6 DEF SuccessInv

(* The effect of a command was seen when its outermost call is where it    *)
(* can only return, a directory that is filled by a copy is the one it     *)
(* has made, and what rm -r takes for a directory is one until it is       *)
(* gone, where nothing is moved.                                           *)
THEOREM SuccessInvariant == Spec => [](TypeOK /\ SuccessInv)
<1>1. Init => TypeOK /\ SuccessInv
  BY InitTypes, InitSuccess
<1>2. TypeOK /\ TypeOK' /\ SuccessInv /\ [Next]_vars => SuccessInv'
  <2> SUFFICES ASSUME TypeOK, TypeOK', SuccessInv, [Next]_vars
               PROVE  SuccessInv'
    OBVIOUS
  <2>1. CASE UNCHANGED vars
    <3>1. node' = node /\ cmd' = cmd /\ stack' = stack /\ result' = result /\ held' = held
      BY <2>1 DEF vars
    <3>2. NoMoves' <=> NoMoves
      BY <3>1 DEF NoMoves
    <3>3. NoMoves => CallsOf(Unmoved, stack', result')
      BY <3>1 DEF SuccessInv
    <3>4. \A p \in Procs : Succeeds(cmd'[p], stack'[p], result'[p], held'[p], node', NoMoves')
      BY <3>1, <3>2 DEF SuccessInv, Succeeds
    <3> QED BY <3>2, <3>3, <3>4 DEF SuccessInv, CallsOf, Succeeds
  <2>2. ASSUME NEW p \in Procs, Step(p) PROVE SuccessInv'
    <3>1. Given /\ cmd' = cmd
      BY <2>2, StepTypes DEF Given
    <3>2. NoMoves' <=> NoMoves
      BY <3>1 DEF NoMoves
    <3>3. NoMoves => Stable(node, node') /\ CallsOf(Unmoved, stack', result')
      BY <2>2, UnmovedStep DEF SuccessInv
    <3>4. ASSUME NEW q \in Procs
          PROVE  Succeeds(cmd[q], stack'[q], result'[q], held'[q], node', NoMoves)
      <4>1. Succeeds(cmd[q], stack[q], result[q], held[q], node, NoMoves)
        BY DEF SuccessInv
      <4>2. CASE q = p
        BY <2>2, <3>3, <4>1, <4>2, OwnStepSucceeds
      <4>3. CASE q # p
        <5>1. stack'[q] = stack[q] /\ result'[q] = result[q]
          BY <2>2, <4>3, OthersStay
        <5> QED BY <3>1, <3>3, <4>1, <5>1, OtherStepSucceeds
      <4> QED BY <4>2, <4>3
    <3>5. \A q \in Procs : Succeeds(cmd'[q], stack'[q], result'[q], held'[q], node', NoMoves')
      BY <3>1, <3>2, <3>4 DEF Succeeds
    <3> QED BY <3>2, <3>3, <3>5 DEF SuccessInv, CallsOf, Succeeds
  <2> QED BY <2>1, <2>2 DEF Next, AllDone
<1> QED BY <1>1, <1>2, TypeCorrect, PTL DEF Spec

(* A command other than mv that returns success has had its effect at a    *)
(* moment between its start and its end, whatever any number of other      *)
(* processes do to the tree between two of its system calls; for rm -r,    *)
(* which looks at the path twice, as long as none of them moves anything.  *)
THEOREM SuccessIsTrue ==
  Spec => [](\A p \in Procs :
               result[p] = "ok" /\ cmd[p].op # "mv" /\ (cmd[p].op = "rm_r" => NoMoves) => held[p])
<1>1. SuccessInv => \A p \in Procs :
        result[p] = "ok" /\ cmd[p].op # "mv" /\ (cmd[p].op = "rm_r" => NoMoves) => held[p]
  BY DEF SuccessInv, Succeeds
<1> QED BY <1>1, SuccessInvariant, PTL

(* Where no mv runs, every success is true. *)
THEOREM SuccessUnmoved == Spec => [](NoMoves => SuccessHeld)
<1>1. SuccessInv => (NoMoves => SuccessHeld)
  BY DEF SuccessInv, Succeeds, SuccessHeld, NoMoves
<1> QED BY <1>1, SuccessInvariant, PTL
=============================================================================
