------------------------------ MODULE Commands ------------------------------
(***************************************************************************)
(* The builtins that change the file system, mkdir, rmdir, rm, touch, ln,  *)
(* cp and mv (libbutl/builtin.cxx), and the functions they and the library *)
(* interface call: try_mkdir_p(), try_rmdir_r(), rmdir_r(), dir_iterator   *)
(* and auto_rmdir (libbutl/filesystem.cxx, POSIX).                         *)
(*                                                                         *)
(* Several processes run a command each on the same tree.  A step is one   *)
(* system call; between two of them the others do theirs.  The calls of a  *)
(* command are frames on a stack, since most are recursive.  The data of a *)
(* copied file and the EXDEV fallback of a move are in FileCopy.           *)
(***************************************************************************)
EXTENDS Integers, FiniteSets, SequencesExt

CONSTANTS
  Procs,
  Names,     \* the names of directory entries
  Texts,     \* what files can hold
  Depth,     \* of the paths the properties look at
  Ids,       \* the inodes there is room for
  Nil,       \* no inode
  Root,
  Scenes     \* where the commands may run: records of what the file system supports
             \* (symlinks, hardlinks and whether readdir() tells the types of
             \* entries), of the tree, and of the command of each process

Ops ==
  {"none", "mkdir", "mkdir_p", "try_mkdir_p", "rmdir", "rmdir_f", "rm", "rm_f", "rm_r", "auto_rm",
   "touch", "ln", "ln_s", "cp", "cp_r", "mv"}
Commands == [op : Ops, path : Seq(Names), from : Seq(Names)]
Support == [symlinks : BOOLEAN, hardlinks : BOOLEAN, types : BOOLEAN]

Refs == Ids \cup {Nil}

NoInode == [type |-> "none"]
Inodes ==
  {NoInode} \cup [type : {"dir"}, sub : [Names -> Refs]] \cup [type : {"file"}, text : Texts]
    \cup [type : {"link"}, to : Seq(Names)]

(* Whether the inode i has a name in f. *)
Linked(f, i) == \E d \in Ids : f[d].type = "dir" /\ \E n \in Names : f[d].sub[n] = i

(* Every name leads to an inode that is in use, and no name to the root.   *)
TreeOK(f) ==
  /\ f \in [Ids -> Inodes]
  /\ f[Root].type = "dir" /\ ~Linked(f, Root)
  /\ \A i \in Ids : Linked(f, i) => f[i].type # "none"

ASSUME CommandsAssumption ==
  /\ Root \in Ids /\ Nil \notin Ids /\ Nil \notin Names
  /\ Depth \in Nat /\ "" \in Texts
  /\ \A s \in Scenes :
       /\ s.fs \in Support /\ s.cmd \in [Procs -> Commands] /\ TreeOK(s.tree)
       /\ \A p \in Procs : s.cmd[p].op # "none" => s.cmd[p].path # <<>>
       /\ \A i \in Ids \ {Root} : s.tree[i].type # "none" => Linked(s.tree, i)

VARIABLES
  fs,        \* what the file system supports
  cmd,       \* the command of each process
  node,      \* the inodes
  stack,     \* the calls of each process, the innermost one last
  result,    \* of each process: "run", "ok" or "fail"
  before,    \* history: the tree as the commands found it
  held       \* history: what each command is for was the case since it began

vars == <<fs, cmd, node, stack, result, before, held>>

-----------------------------------------------------------------------------
(* Inodes and paths.  A lookup is one in the inodes f, those of the moment  *)
(* or of the beginning.                                                    *)

Dir(sub) == [type |-> "dir", sub |-> sub]
File(text) == [type |-> "file", text |-> text]
Link(to) == [type |-> "link", to |-> to]
EmptyDir == Dir([n \in Names |-> Nil])

TypeIn(f, i) == IF i = Nil THEN "none" ELSE f[i].type

ChildIn(f, i, n) == IF TypeIn(f, i) = "dir" THEN f[i].sub[n] ELSE Nil

(* The entry at a path that crosses no symlink. *)
Down(f, path) ==
  LET at[k \in 0..Len(path)] == IF k = 0 THEN Root ELSE ChildIn(f, at[k - 1], path[k])
  IN  at[Len(path)]

(* Bound: a symlink that leads to or through another one, or past a file,  *)
(* leads nowhere.                                                          *)
DerefIn(f, i) ==
  IF TypeIn(f, i) # "link" THEN i
  ELSE IF TypeIn(f, Down(f, f[i].to)) = "link" THEN Nil ELSE Down(f, f[i].to)

(* The entry at a path, without following a symlink there. *)
LstatIn(f, path) ==
  LET at[k \in 0..Len(path)] == IF k = 0 THEN Root ELSE ChildIn(f, DerefIn(f, at[k - 1]), path[k])
  IN  at[Len(path)]

IsDirIn(f, path) == TypeIn(f, DerefIn(f, LstatIn(f, path))) = "dir"

TypeOf(i) == TypeIn(node, i)
Child(i, n) == ChildIn(node, i, n)
Lstat(path) == LstatIn(node, path)
Stat(path) == DerefIn(node, Lstat(path))

DirExists(path) == IsDirIn(node, path)
Parent(path) == Stat(Front(path))

(* Whether an entry can be made at path. *)
Vacant(path) == TypeOf(Parent(path)) = "dir" /\ Lstat(path) = Nil

Put(path, i) == [node EXCEPT ![Parent(path)].sub[Last(path)] = i]

(* Whether a process has the inode open. *)
Open(i) == \E p \in Procs : \E k \in DOMAIN stack[p] : i \in {stack[p][k].dir, stack[p][k].src}

(* An inode to take; those without a name are kept while they are open. *)
Free(i) == i # Root /\ ~Linked(node, i) /\ ~Open(i)
Fresh == CHOOSE i \in Ids : Free(i)

(* Bound: there is room in Ids. *)
Make(path, what) ==
  /\ {i \in Ids : Free(i)} # {}
  /\ node' = [Put(path, Fresh) EXCEPT ![Fresh] = what]

Release(f, i) == IF i = Nil \/ Linked(f, i) \/ Open(i) THEN f ELSE [f EXCEPT ![i] = NoInode]

(* Take the entry at path away, and its inode with the last name of it. *)
Unlink(path) == Release(Put(path, Nil), Lstat(path))

Empty(i) == node[i].sub = EmptyDir.sub

-----------------------------------------------------------------------------
(* The calls of a process. *)

(* A frame: where the call is, its path, the source of a copy or a link,   *)
(* whether the directory it makes must be new, ignore_error, and the open  *)
(* DIR stream: its inode, the types of its entries when it was opened, the *)
(* names it has returned, the last one; src is an open source file.        *)
Nothing == [n \in Names |-> "none"]

Kinds == {"none", "file", "dir", "link"}

Steps ==
  {"mkdir_p", "try_mkdir_p", "mkdir", "exists", "rmdir", "rm", "rmfile", "try_rmdir_r", "open", "next",
   "type", "unlink", "touch", "utimes", "create", "target", "symlink", "link", "cpdir", "cp_open",
   "cp_next", "cp_type", "cp_follow", "cp_source", "cp_file", "cp_undo", "mv", "rename"}

Frames ==
  [at : Steps, path : Seq(Names), from : Seq(Names), new : BOOLEAN, ignore : BOOLEAN, dir : Refs,
   had : [Names -> Kinds], seen : SUBSET Names, entry : Names \cup {Nil}, src : Refs]

Frame(at, path) ==
  [at |-> at, path |-> path, from |-> <<>>, new |-> FALSE, ignore |-> FALSE,
   dir |-> Nil, had |-> Nothing, seen |-> {}, entry |-> Nil, src |-> Nil]

Top(p) == Last(stack[p])
At(p, at) == result[p] = "run" /\ stack[p] # <<>> /\ Top(p).at = at

SetTop(p, frame) == stack' = [stack EXCEPT ![p] = Append(Front(@), frame)]
GoTo(p, at) == SetTop(p, [Top(p) EXCEPT !.at = at])

(* The innermost call goes on at `at' once the new one has returned. *)
CallFrom(p, at, frame) ==
  stack' = [stack EXCEPT ![p] = Append(Front(@), [Top(p) EXCEPT !.at = at]) \o <<frame>>]

Continue == UNCHANGED result

Return(p) ==
  /\ stack' = [stack EXCEPT ![p] = Front(@)]
  /\ result' = [result EXCEPT ![p] = IF Len(stack[p]) = 1 THEN "ok" ELSE @]

Fail(p) ==
  /\ stack' = [stack EXCEPT ![p] = <<>>]
  /\ result' = [result EXCEPT ![p] = "fail"]

(* system_error: the loop of an rmdir_r() that ignores errors is left, and *)
(* the directory itself removed; otherwise the command fails.              *)
Iterating == {"open", "next", "type"}

CloseDir(p, at) ==
  SetTop(p, [Top(p) EXCEPT !.at = at, !.dir = Nil, !.had = Nothing, !.seen = {}, !.entry = Nil])

Throw(p) ==
  IF Top(p).ignore /\ Top(p).at \in Iterating
  THEN CloseDir(p, "rmdir") /\ Continue
  ELSE Fail(p)

(* What the command c is for.  (A path through what is moved leads nowhere *)
(* once it is.)                                                            *)
Effect(c) ==
  CASE c.op \in {"mkdir", "mkdir_p", "try_mkdir_p"} -> DirExists(c.path)
    [] c.op \in {"rmdir", "rmdir_f", "rm", "rm_f", "rm_r"} -> Lstat(c.path) = Nil
    [] c.op = "touch" -> TypeOf(Stat(c.path)) = "file"
    [] c.op \in {"ln", "ln_s", "cp", "cp_r"} -> Lstat(c.path) # Nil
    [] c.op = "mv" -> Lstat(c.path) # Nil \/ IsStrictPrefix(c.from, c.path)
    [] OTHER -> TRUE

Observe == held' = [p \in Procs |-> held[p] \/ (result[p] = "run" /\ Effect(cmd[p])')]
Given == UNCHANGED <<fs, cmd, before>> /\ Observe
Tree == UNCHANGED node

-----------------------------------------------------------------------------
(* mkdir *)

(* mkdir_p() of the builtin: nothing to do if it is a directory. *)
MkdirP(p) ==
  /\ At(p, "mkdir_p")
  /\ IF DirExists(Top(p).path)
     THEN Return(p)
     ELSE /\ CallFrom(p, "mkdir", Frame("mkdir_p", Front(Top(p).path)))
          /\ Continue
  /\ Tree /\ Given

(* try_mkdir_p(): look for the parent, and make it first if there is none. *)
TryMkdirP(p) ==
  /\ At(p, "try_mkdir_p")
  /\ IF DirExists(Front(Top(p).path))
     THEN GoTo(p, "mkdir")
     ELSE CallFrom(p, "mkdir", Frame("try_mkdir_p", Front(Top(p).path)))
  /\ Continue /\ Tree /\ Given

(* Fault: EEXIST is an error, also for a directory. *)
TryMkdirOnce(p) ==
  /\ At(p, "mkdir")
  /\ IF Vacant(Top(p).path)
     THEN Make(Top(p).path, EmptyDir) /\ Return(p)
     ELSE Throw(p) /\ Tree
  /\ Given

(* Fault: EEXIST is success, whatever exists. *)
TryMkdirTrusts(p) ==
  /\ At(p, "mkdir")
  /\ IF Vacant(Top(p).path)
     THEN Make(Top(p).path, EmptyDir) /\ Return(p)
     ELSE (IF Lstat(Top(p).path) # Nil THEN Return(p) ELSE Throw(p)) /\ Tree
  /\ Given

(* try_mkdir(): in case of EEXIST look whether it is a directory. *)
TryMkdir(p) ==
  /\ At(p, "mkdir")
  /\ IF Vacant(Top(p).path)
     THEN Make(Top(p).path, EmptyDir) /\ Return(p)
     ELSE /\ IF Lstat(Top(p).path) # Nil THEN GoTo(p, "exists") /\ Continue ELSE Throw(p)
          /\ Tree
  /\ Given

(* already_exists is an error for mkdir without -p and for cp -r. *)
AlreadyExists(p) ==
  /\ At(p, "exists")
  /\ IF DirExists(Top(p).path) /\ ~Top(p).new THEN Return(p) ELSE Throw(p)
  /\ Tree /\ Given

-----------------------------------------------------------------------------
(* rmdir, rm and auto_rmdir *)

Forced(p) == cmd[p].op \in {"rmdir_f", "rm_f"}

(* A file where the path has a directory: ENOTDIR, and not ENOENT. *)
FileOnWay(path) == \E k \in 1..(Len(path) - 1) : TypeOf(Stat(SubSeq(path, 1, k))) = "file"

(* Fault: ENOTDIR is taken for not_exist, as try_rmfile() takes it. *)
TryRmdirLenient(p) ==
  /\ At(p, "rmdir")
  /\ LET i == Lstat(Top(p).path)
     IN  IF TypeOf(i) = "dir" /\ Empty(i)
         THEN node' = Unlink(Top(p).path) /\ Return(p)
         ELSE /\ IF Top(p).ignore \/ (i = Nil /\ Forced(p)) THEN Return(p) ELSE Throw(p)
              /\ Tree
  /\ Given

(* rmdir(2): ENOENT is not_exist, ENOTEMPTY is not_empty, and any other    *)
(* error is thrown: ENOTDIR too, for a file or symlink at the path or a    *)
(* file on the way there.  Without ignore_error rmdir_r() throws not_empty *)
(* and not_exist; the builtin rmdir does too, unless -f allows not_exist.  *)
TryRmdir(p) ==
  /\ At(p, "rmdir")
  /\ LET i == Lstat(Top(p).path)
     IN  IF TypeOf(i) = "dir" /\ Empty(i)
         THEN node' = Unlink(Top(p).path) /\ Return(p)
         ELSE /\ IF Top(p).ignore \/ (i = Nil /\ ~FileOnWay(Top(p).path) /\ Forced(p))
                 THEN Return(p)
                 ELSE Throw(p)
              /\ Tree
  /\ Given

(* rm: what is at the path decides how it is removed. *)
Rm(p) ==
  /\ At(p, "rm")
  /\ IF TypeOf(Lstat(Top(p).path)) = "dir"
     THEN IF cmd[p].op = "rm_r" THEN GoTo(p, "try_rmdir_r") /\ Continue ELSE Throw(p)
     ELSE GoTo(p, "rmfile") /\ Continue
  /\ Tree /\ Given

(* try_rmfile() of the path rm was given. *)
RmFile(p) ==
  /\ At(p, "rmfile")
  /\ LET i == Lstat(Top(p).path)
     IN  IF TypeOf(i) \in {"file", "link"}
         THEN node' = Unlink(Top(p).path) /\ Return(p)
         ELSE (IF i = Nil /\ Forced(p) THEN Return(p) ELSE Throw(p)) /\ Tree
  /\ Given

(* try_rmdir_r(): not_exist, or rmdir_r(). *)
TryRmdirR(p) ==
  /\ At(p, "try_rmdir_r")
  /\ IF DirExists(Top(p).path) THEN GoTo(p, "open") /\ Continue ELSE Return(p)
  /\ Tree /\ Given

(* dir_iterator(): opendir() follows symlinks. *)
Opened(p, at, path) ==
  LET d == Stat(path)
  IN  [Top(p) EXCEPT !.at = at, !.dir = d, !.had = [n \in Names |-> TypeOf(Child(d, n))]]

(* Fault: whether opendir() has failed is not looked at. *)
OpenDirUnchecked(p) ==
  /\ At(p, "open")
  /\ SetTop(p, Opened(p, "next", Top(p).path))
  /\ Continue /\ Tree /\ Given

OpenDir(p) ==
  /\ At(p, "open")
  /\ IF DirExists(Top(p).path) THEN SetTop(p, Opened(p, "next", Top(p).path)) /\ Continue ELSE Throw(p)
  /\ Tree /\ Given

(* readdir(): an entry that was there when the stream was opened, or has   *)
(* come since, and is not returned yet, with the type it has or had; the   *)
(* end once all entries are returned that were there the whole time.       *)
Entries(f) ==
  {e \in (Names \ f.seen) \X {"file", "dir", "link"} :
     e[2] \in {f.had[e[1]], TypeOf(Child(f.dir, e[1]))}}

AllRead(f) ==
  \A n \in Names \ f.seen : f.had[n] = "none" \/ Child(f.dir, n) = Nil

Entry(f, n) == Append(f.path, n)

(* rmdir_r(): a directory is removed recursively, anything else unlinked.  *)
Dispose(p, n, t) ==
  LET seen == [Top(p) EXCEPT !.seen = @ \cup {n}, !.entry = Nil, !.at = "next"]
      call == Frame(IF t = "dir" THEN "open" ELSE "unlink", Entry(Top(p), n))
  IN  stack' = [stack EXCEPT
        ![p] = Append(Front(@), seen) \o <<[call EXCEPT !.ignore = Top(p).ignore]>>]

(* Fault: a symlink is taken for what it leads to. *)
NextEntryFollowed(p) ==
  /\ At(p, "next")
  /\ \E e \in Entries(Top(p)) :
       Dispose(p, e[1], TypeOf(Stat(Entry(Top(p), e[1]))))
  /\ Continue /\ Tree /\ Given

NextEntry(p) ==
  /\ At(p, "next")
  /\ \E e \in Entries(Top(p)) :
       IF fs.types
       THEN Dispose(p, e[1], e[2])
       ELSE SetTop(p, [Top(p) EXCEPT !.at = "type", !.entry = e[1]])
  /\ Continue /\ Tree /\ Given

(* Where readdir() does not tell it, ltype() asks lstat(), which throws if *)
(* the entry is gone.                                                      *)
EntryType(p) ==
  /\ At(p, "type")
  /\ LET n == Top(p).entry
         t == TypeOf(Lstat(Entry(Top(p), n)))
     IN  IF t = "none" THEN Throw(p) ELSE Dispose(p, n, t) /\ Continue
  /\ Tree /\ Given

EndOfDir(p) ==
  /\ At(p, "next") /\ AllRead(Top(p))
  /\ CloseDir(p, "rmdir")
  /\ Continue /\ Tree /\ Given

(* Fault: an entry that is gone already is an error. *)
UnlinkPresent(p) ==
  /\ At(p, "unlink")
  /\ IF TypeOf(Lstat(Top(p).path)) \in {"file", "link"}
     THEN node' = Unlink(Top(p).path) /\ Return(p)
     ELSE Fail(p) /\ Tree
  /\ Given

(* try_rmfile() of an entry: not_exist is not an error. *)
UnlinkEntry(p) ==
  /\ At(p, "unlink")
  /\ LET t == TypeOf(Lstat(Top(p).path))
     IN  IF t \in {"file", "link"}
         THEN node' = Unlink(Top(p).path) /\ Return(p)
         ELSE (IF t = "none" \/ Top(p).ignore THEN Return(p) ELSE Throw(p)) /\ Tree
  /\ Given

-----------------------------------------------------------------------------
(* touch *)

(* touch_file(): a file that exists gets a new time, another entry is an   *)
(* error, none is created.                                                 *)
Touch(p) ==
  /\ At(p, "touch")
  /\ CASE TypeOf(Stat(Top(p).path)) = "file" -> GoTo(p, "utimes") /\ Continue
       [] TypeOf(Stat(Top(p).path)) = "none" -> GoTo(p, "create") /\ Continue
       [] OTHER -> Throw(p)
  /\ Tree /\ Given

Utimes(p) ==
  /\ At(p, "utimes")
  /\ IF Stat(Top(p).path) # Nil THEN Return(p) ELSE Throw(p)
  /\ Tree /\ Given

(* open() with O_CREAT, of a symlink too: the file it leads to. *)
Target(path) == IF TypeOf(Lstat(path)) = "link" THEN node[Lstat(path)].to ELSE path
Creatable(path, to) == Vacant(to) /\ (path = to \/ Parent(to) = Down(node, Front(to)))

CreateFile(p) ==
  /\ At(p, "create")
  /\ LET path == Top(p).path
         to == Target(path)
     IN  IF Creatable(path, to)
         THEN Make(to, File("")) /\ Return(p)
         ELSE (IF TypeOf(Stat(path)) = "file" THEN Return(p) ELSE Throw(p)) /\ Tree
  /\ Given

-----------------------------------------------------------------------------
(* ln *)

(* The target of a link must exist; the directory to link, if it is one,   *)
(* is known from there on.                                                 *)
LinkTarget(p) ==
  /\ At(p, "target")
  /\ IF Lstat(Top(p).from) # Nil
     THEN GoTo(p, IF cmd[p].op = "ln_s" THEN "symlink" ELSE "link") /\ Continue
     ELSE Throw(p)
  /\ Tree /\ Given

(* mksymlink(), and the fallback to mkhardlink(). *)
MkSymlink(p) ==
  /\ At(p, "symlink")
  /\ CASE ~Vacant(Top(p).path) -> Throw(p) /\ Tree
       [] Vacant(Top(p).path) /\ ~fs.symlinks -> GoTo(p, "link") /\ Continue /\ Tree
       [] OTHER -> Make(Top(p).path, Link(Top(p).from)) /\ Return(p)
  /\ Given

(* mkhardlink(), and the fallback to a copy: the code tests whether it is  *)
(* known that the target is a directory, not whether it is one, and so     *)
(* calls cpdir() for a file as well.                                       *)
MkHardlink(p) ==
  /\ At(p, "link")
  /\ LET i == Lstat(Top(p).from)
     IN  CASE i = Nil \/ ~Vacant(Top(p).path) -> Throw(p) /\ Tree
           [] i # Nil /\ Vacant(Top(p).path) /\ (TypeOf(i) = "dir" \/ ~fs.hardlinks) ->
                GoTo(p, "cpdir") /\ Continue /\ Tree
           [] OTHER -> node' = Put(Top(p).path, i) /\ Return(p)
  /\ Given

-----------------------------------------------------------------------------
(* cp *)

Copying(at, from, to) == [Frame(at, to) EXCEPT !.from = from]

(* cpdir(): the directory must not exist yet. *)
CpDir(p) ==
  /\ At(p, "cpdir")
  /\ CallFrom(p, "cp_open", [Frame("mkdir", Top(p).path) EXCEPT !.new = TRUE])
  /\ Continue /\ Tree /\ Given

CpOpenDir(p) ==
  /\ At(p, "cp_open")
  /\ IF DirExists(Top(p).from)
     THEN SetTop(p, Opened(p, "cp_next", Top(p).from)) /\ Continue
     ELSE Throw(p)
  /\ Tree /\ Given

(* Fault: the entries may overwrite what is there. *)
CopyOverwriting(p, n, t) ==
  LET frame == [Top(p) EXCEPT !.at = "cp_next", !.entry = Nil, !.seen = @ \cup {n}]
      at == IF t = "dir" THEN "cpdir" ELSE "cp_source"
      call == Copying(at, Append(Top(p).from, n), Append(Top(p).path, n))
  IN  stack' = [stack EXCEPT ![p] = Append(Front(@), frame) \o <<call>>]

(* A directory is copied by cpdir(), all else by cpfile(), which must not  *)
(* overwrite anything.                                                     *)
CopyEntry(p, n, t) ==
  LET frame == [Top(p) EXCEPT !.at = "cp_next", !.entry = Nil, !.seen = @ \cup {n}]
      at == IF t = "dir" THEN "cpdir" ELSE "cp_source"
      call == Copying(at, Append(Top(p).from, n), Append(Top(p).path, n))
  IN  stack' = [stack EXCEPT ![p] = Append(Front(@), frame) \o <<[call EXCEPT !.new = TRUE]>>]

(* The type of an entry is the one readdir() has told, if it did and the   *)
(* entry is not a symlink; ...                                             *)
CpNext(p) ==
  /\ At(p, "cp_next")
  /\ \E e \in Entries(Top(p)) :
       IF fs.types /\ e[2] # "link"
       THEN CopyEntry(p, e[1], e[2])
       ELSE SetTop(p, [Top(p) EXCEPT !.at = IF fs.types THEN "cp_follow" ELSE "cp_type", !.entry = e[1]])
  /\ Continue /\ Tree /\ Given

(* ... ltype() asks lstat() if it did not, and type() follows a symlink by *)
(* stat().  Both throw if there is nothing.                                *)
CpEntry(p) ==
  /\ At(p, "cp_type") \/ At(p, "cp_follow")
  /\ LET from == Append(Top(p).from, Top(p).entry)
         t == TypeOf(IF Top(p).at = "cp_type" THEN Lstat(from) ELSE Stat(from))
     IN  CASE t = "none" -> Throw(p)
           [] t = "link" -> GoTo(p, "cp_follow") /\ Continue
           [] OTHER -> CopyEntry(p, Top(p).entry, t) /\ Continue
  /\ Tree /\ Given

(* Permissions and times are not modelled. *)
CpEnd(p) ==
  /\ At(p, "cp_next") /\ AllRead(Top(p))
  /\ Return(p)
  /\ Tree /\ Given

(* cpfile(): the source is opened, which can be a directory, ... *)
CpSource(p) ==
  /\ At(p, "cp_source")
  /\ LET i == Stat(Top(p).from)
     IN  IF i # Nil THEN SetTop(p, [Top(p) EXCEPT !.at = "cp_file", !.src = i]) /\ Continue ELSE Throw(p)
  /\ Tree /\ Given

(* ... the destination created, or truncated if it may exist, and the data *)
(* copied: nothing if it is the source itself.  A directory cannot be read. *)
CpFile(p) ==
  /\ At(p, "cp_file")
  /\ LET to == Top(p).path
         path == IF Top(p).new THEN to ELSE Target(to)
         i == Stat(to)
         readable == TypeOf(Top(p).src) = "file"
         text == IF readable /\ Top(p).src # i THEN node[Top(p).src].text ELSE ""
         done == IF readable THEN Return(p) ELSE GoTo(p, "cp_undo") /\ Continue
     IN  CASE Creatable(to, path) -> Make(path, File(text)) /\ done
           [] ~Creatable(to, path) /\ ~Top(p).new /\ TypeOf(i) = "file" ->
                node' = [node EXCEPT ![i] = File(text)] /\ done
           [] OTHER -> Throw(p) /\ Tree
  /\ Given

(* auto_rmfile removes the incomplete copy. *)
CpUndo(p) ==
  /\ At(p, "cp_undo")
  /\ node' = IF TypeOf(Lstat(Top(p).path)) \in {"file", "link"} THEN Unlink(Top(p).path) ELSE node
  /\ Fail(p)
  /\ Given

-----------------------------------------------------------------------------
(* mv *)

(* The one error mv looks for itself is a move of an entry onto itself. *)
Mv(p) ==
  /\ At(p, "mv")
  /\ IF Lstat(Top(p).path) # Nil /\ Top(p).path = Top(p).from
     THEN Throw(p)
     ELSE GoTo(p, "rename") /\ Continue
  /\ Tree /\ Given

(* The path without symlinks of the entry at path. *)
RealPath(path) ==
  LET at[k \in 0..(Len(path) - 1)] ==
        IF k = 0 THEN <<>>
        ELSE LET q == Append(at[k - 1], path[k])
             IN  IF TypeOf(Down(node, q)) = "link" THEN node[Down(node, q)].to ELSE q
  IN  Append(at[Len(path) - 1], Last(path))

(* rename(2): a directory replaces an empty directory, and anything else   *)
(* anything else, but nothing is moved into itself.                        *)
Renames(i, j, from, to) ==
  /\ i # Nil /\ TypeOf(Parent(to)) = "dir"
  /\ from # <<>> /\ ~IsPrefix(RealPath(from), RealPath(to))
  /\ j # Nil => (TypeOf(i) = "dir" <=> TypeOf(j) = "dir")
  /\ TypeOf(j) = "dir" => Empty(j)

Rename(p) ==
  /\ At(p, "rename")
  /\ LET from == Top(p).from
         to == Top(p).path
         i == Lstat(from)
         j == Lstat(to)
         f == [node EXCEPT ![Parent(from)].sub[Last(from)] = Nil, ![Parent(to)].sub[Last(to)] = i]
     IN  CASE i # Nil /\ i = j -> Return(p) /\ Tree
           [] i # j /\ Renames(i, j, from, to) -> node' = Release(f, j) /\ Return(p)
           [] OTHER -> Throw(p) /\ Tree
  /\ Given

-----------------------------------------------------------------------------
(* The tree f, seen from outside, without following symlinks. *)
Paths == SeqOf(Names, Depth) \ {<<>>}

Shape(f) ==
  LET View(i) == IF i = Nil THEN NoInode ELSE IF f[i].type = "dir" THEN [type |-> "dir"] ELSE f[i]
      at[q \in Paths \cup {<<>>}] ==
        IF q = <<>> THEN Root
        ELSE LET i == at[Front(q)] IN IF i # Nil /\ f[i].type = "dir" THEN f[i].sub[Last(q)] ELSE Nil
  IN  [q \in Paths |-> View(at[q])]

First(c) ==
  CASE c.op = "mkdir" -> [Frame("mkdir", c.path) EXCEPT !.new = TRUE]
    [] c.op \in {"mkdir_p", "try_mkdir_p", "touch"} -> Frame(c.op, c.path)
    [] c.op \in {"rmdir", "rmdir_f"} -> Frame("rmdir", c.path)
    [] c.op \in {"rm", "rm_f", "rm_r"} -> Frame("rm", c.path)
    [] c.op = "auto_rm" -> [Frame("try_rmdir_r", c.path) EXCEPT !.ignore = TRUE]
    [] c.op \in {"ln", "ln_s"} -> Copying("target", c.from, c.path)
    [] c.op = "cp" -> Copying("cp_source", c.from, c.path)
    [] c.op = "cp_r" -> Copying("cpdir", c.from, c.path)
    [] c.op = "mv" -> Copying("mv", c.from, c.path)

Idle(p) == cmd[p].op = "none"

Init ==
  /\ \E s \in Scenes : fs = s.fs /\ cmd = s.cmd /\ node = s.tree
  /\ stack = [p \in Procs |-> IF Idle(p) THEN <<>> ELSE <<First(cmd[p])>>]
  /\ result = [p \in Procs |-> IF Idle(p) THEN "ok" ELSE "run"]
  /\ before = node
  /\ held = [p \in Procs |-> Effect(cmd[p])]

MakeDir(p) == MkdirP(p) \/ TryMkdirP(p) \/ TryMkdir(p) \/ AlreadyExists(p)
RemoveEntry(p) ==
  TryRmdir(p) \/ Rm(p) \/ RmFile(p) \/ TryRmdirR(p) \/ OpenDir(p) \/ NextEntry(p)
    \/ EntryType(p) \/ EndOfDir(p) \/ UnlinkEntry(p)
TouchFile(p) == Touch(p) \/ Utimes(p) \/ CreateFile(p)
Ln(p) == LinkTarget(p) \/ MkSymlink(p) \/ MkHardlink(p)
Cp(p) ==
  CpDir(p) \/ CpOpenDir(p) \/ CpNext(p) \/ CpEntry(p) \/ CpEnd(p) \/ CpSource(p) \/ CpFile(p) \/ CpUndo(p)

Step(p) == MakeDir(p) \/ RemoveEntry(p) \/ TouchFile(p) \/ Ln(p) \/ Cp(p) \/ Mv(p) \/ Rename(p)

AllDone == (\A p \in Procs : result[p] # "run") /\ UNCHANGED vars

Next == (\E p \in Procs : Step(p)) \/ AllDone

Spec == Init /\ [][Next]_vars

-----------------------------------------------------------------------------
(* What a command does when nothing else runs, as one step on the tree t   *)
(* (a function from paths to entries), from the synopses in builtin.cxx    *)
(* and the comments in filesystem.hxx.                                     *)

None(t, q) == q # <<>> /\ t[q] = NoInode
Resolve(t, q) == IF q \in Paths /\ t[q].type = "link" THEN t[q].to ELSE q
IsDir(t, q) == Resolve(t, q) = <<>> \/ t[Resolve(t, q)].type = "dir"
IsFile(t, q) == Resolve(t, q) # <<>> /\ t[Resolve(t, q)].type = "file"
CanMake(t, q) == None(t, q) /\ IsDir(t, Front(q))
Without(t, q) == [r \in Paths |-> IF IsPrefix(q, r) THEN NoInode ELSE t[r]]
Emptied(t, q) == [r \in Paths |-> IF IsStrictPrefix(q, r) THEN NoInode ELSE t[r]]

(* From q on, along rest, following symlinks; and where the entry at q is. *)
Follow(t, q, rest) == FoldLeft(LAMBDA r, n : Resolve(t, Append(r, n)), q, rest)
Real(t, q) == IF q = <<>> THEN q ELSE Append(Follow(t, <<>>, Front(q)), Last(q))

(* The fronts of a path, down to the path itself. *)
Ways(t, q) == {Real(t, SubSeq(q, 1, k)) : k \in DOMAIN q}

(* What a copy of the entry at q has below it at rest. *)
Copied(t, q, rest) ==
  LET at == Follow(t, Resolve(t, q), rest) IN IF at \in Paths THEN t[at] ELSE NoInode

CopyTree(t, from, to) ==
  [r \in Paths |->
     IF IsPrefix(to, r) THEN Copied(t, from, SubSeq(r, Len(to) + 1, Len(r))) ELSE t[r]]

MoveTree(t, from, to) ==
  [r \in Paths |->
     CASE IsPrefix(to, r) ->
            LET q == from \o SubSeq(r, Len(to) + 1, Len(r))
            IN  IF q \in Paths THEN t[q] ELSE NoInode
       [] IsPrefix(from, r) /\ ~IsPrefix(to, r) -> NoInode
       [] OTHER -> t[r]]

Refused(t) == [ok |-> FALSE, tree |-> t]
Does(condition, t, u) == IF condition THEN [ok |-> TRUE, tree |-> u] ELSE Refused(t)

MakesPath(t, q) ==
  Does(\A r \in Ways(t, q) : None(t, r) \/ IsDir(t, r),
       t, [r \in Paths |-> IF r \in Ways(t, q) /\ None(t, r) THEN [type |-> "dir"] ELSE t[r]])

(* -f allows that there is nothing, but not that a file is on the way. *)
RemovesDir(t, q, force) ==
  LET r == Real(t, q)
  IN  Does(IF None(t, r)
           THEN force /\ \A w \in Ways(t, Front(q)) : ~IsFile(t, w)
           ELSE t[r].type = "dir" /\ Emptied(t, r) = t,
           t, Without(t, r))

RemovesFile(t, q, force) ==
  Does(IF None(t, q) THEN force ELSE t[q].type # "dir", t, Without(t, q))

(* Of a symlink to a directory, the symlink stays and the directory is     *)
(* emptied.                                                                *)
CleansUp(t, q) ==
  CASE ~IsDir(t, q) -> t
    [] IsDir(t, q) /\ Resolve(t, q) = q -> Without(t, q)
    [] OTHER -> Emptied(t, Resolve(t, q))

Touches(t, q) ==
  IF None(t, q) THEN Does(CanMake(t, q), t, [t EXCEPT ![q] = File("")])
                ELSE Does(~IsDir(t, q), t, t)

Links(t, from, to, copies) ==
  Does(~None(t, from) /\ CanMake(t, to), t,
       IF copies THEN CopyTree(t, from, to) ELSE [t EXCEPT ![to] = t[from]])

(* A directory cannot be copied without -r, and the incomplete copy that   *)
(* replaced a file is deleted.  A file that is copied onto itself is       *)
(* truncated before it is read.                                            *)
Copies(t, from, to) ==
  LET path == Resolve(t, to)
      writes == ~None(t, from) /\ ~IsDir(t, to) /\ IsDir(t, Front(path))
      text == IF Resolve(t, from) = path THEN File("") ELSE t[Resolve(t, from)]
  IN  IF writes /\ IsDir(t, from)
      THEN Refused([t EXCEPT ![to] = NoInode])
      ELSE Does(writes, t, [t EXCEPT ![path] = text])

(* The new directory stays if there is nothing to copy into it.  It is     *)
(* made before the source is looked at, so that what is missing can be     *)
(* copied onto itself.                                                     *)
CopiesTree(t, from, to) ==
  LET new == [t EXCEPT ![to] = [type |-> "dir"]]
  IN  CASE ~CanMake(t, to) -> Refused(t)
        [] CanMake(t, to) /\ IsDir(t, from) -> Does(TRUE, t, CopyTree(t, from, to))
        [] OTHER -> [ok |-> from = to, tree |-> new]

Moves(t, from, to) ==
  Does(/\ ~None(t, from) /\ IsDir(t, Front(to)) /\ ~IsPrefix(from, to)
       /\ ~None(t, to) => (t[from].type = "dir" <=> t[to].type = "dir") /\ Emptied(t, to) = t,
       t, MoveTree(t, from, to))

Meaning(c, t) ==
  LET path == Real(t, c.path)
      from == Real(t, c.from)
  IN  CASE c.op = "mkdir" -> Does(CanMake(t, path), t, [t EXCEPT ![path] = [type |-> "dir"]])
        [] c.op \in {"mkdir_p", "try_mkdir_p"} -> MakesPath(t, c.path)
        [] c.op \in {"rmdir", "rmdir_f"} -> RemovesDir(t, c.path, c.op = "rmdir_f")
        [] c.op \in {"rm", "rm_f"} -> RemovesFile(t, path, c.op = "rm_f")
        [] c.op = "rm_r" -> Does(~None(t, path), t, Without(t, path))
        [] c.op = "auto_rm" -> Does(TRUE, t, CleansUp(t, path))
        [] c.op = "touch" -> Touches(t, path)
        [] c.op = "ln_s" /\ fs.symlinks -> Does(~None(t, from) /\ CanMake(t, path), t,
                                              [t EXCEPT ![path] = Link(c.from)])
        [] c.op = "ln" \/ (c.op = "ln_s" /\ ~fs.symlinks) ->
             Links(t, from, path, ~fs.hardlinks \/ t[from].type = "dir")
        [] c.op = "cp" -> Copies(t, from, path)
        [] c.op = "cp_r" -> CopiesTree(t, from, path)
        [] c.op = "mv" /\ from = path -> Does(c.from # c.path /\ ~None(t, path), t, t)
        [] c.op = "mv" /\ from # path -> Moves(t, from, path)

-----------------------------------------------------------------------------
(* Properties *)

(* A call with a DIR stream has one, a call about an entry has its name,    *)
(* and no call but mkdir -p and try_mkdir_p() can be about the root.       *)
FrameOK(f) ==
  /\ f.at \in {"next", "type", "cp_next", "cp_type", "cp_follow"} => f.dir # Nil
  /\ f.at \in {"type", "cp_type", "cp_follow"} => f.entry \in Names
  /\ f.at = "cp_file" => f.src # Nil
  /\ f.at \notin {"mkdir_p", "try_mkdir_p", "mkdir", "exists"} => f.path # <<>>

(* Types.  The tree stays a tree: no entry is left that names an inode the  *)
(* last name of which was removed; and a directory that is iterated over   *)
(* has been opened.                                                        *)
TypeOK ==
  /\ fs \in Support /\ cmd \in [Procs -> Commands]
  /\ TreeOK(node) /\ TreeOK(before)
  /\ stack \in [Procs -> Seq(Frames)]
  /\ result \in [Procs -> {"run", "ok", "fail"}]
  /\ held \in [Procs -> BOOLEAN]
  /\ \A p \in Procs : /\ result[p] = "run" <=> stack[p] # <<>>
                      /\ \A k \in DOMAIN stack[p] : FrameOK(stack[p][k])

Runs(p) == {p} = {q \in Procs : ~Idle(q)}

(* A file on a file system without hard links, which is to be copied. *)
CopiedInstead(c) ==
  /\ ~fs.hardlinks
  /\ c.op = "ln" \/ (c.op = "ln_s" /\ ~fs.symlinks)
  /\ TypeIn(before, LstatIn(before, c.from)) = "file"

(* A command that runs alone succeeds or fails as it is documented to, and *)
(* leaves the tree as it should, with nothing changed outside of what it   *)
(* was told to change: however the directory entries are ordered, with or  *)
(* without types from readdir(), and where its paths are symlinks, lead    *)
(* through symlinks or past a file.  (Not a link to a file that is copied  *)
(* instead, see LinkFallsBack.)                                            *)
AloneMeaning ==
  \A p \in Procs :
    Runs(p) /\ result[p] # "run" /\ ~CopiedInstead(cmd[p]) =>
      Meaning(cmd[p], Shape(before)) = [ok |-> result[p] = "ok", tree |-> Shape(node)]

(* "Fall back to copies, if hard link creation is not supported for the    *)
(* link path" (the comments in front of mkhardlink() and mksymlink() in    *)
(* builtin.cxx).                                                           *)
LinkFallsBack ==
  \A p \in Procs :
    Runs(p) /\ result[p] # "run" /\ CopiedInstead(cmd[p]) =>
      Meaning(cmd[p], Shape(before)) = [ok |-> result[p] = "ok", tree |-> Shape(node)]

(* A command that returns success has had its effect at a moment between   *)
(* its start and its end, whatever the other processes do to the tree: a   *)
(* directory checked for and made in two steps was there, a tree removed   *)
(* entry by entry was gone.                                                *)
SuccessHeld == \A p \in Procs : result[p] = "ok" => held[p]

Makes(c) == c.op \in {"none", "mkdir_p", "try_mkdir_p"}

(* Something on the path of c was there at the beginning and no directory. *)
Blocked(c) ==
  \E k \in 1..Len(c.path) :
    LET q == SubSeq(c.path, 1, k) IN LstatIn(before, q) # Nil /\ ~IsDirIn(before, q)

(* Any number of processes can make overlapping paths at the same time, by *)
(* mkdir -p or try_mkdir_p(), and none of them fails because another one   *)
(* was faster between its check and its mkdir(): only what was in the way  *)
(* from the beginning is an error.                                         *)
PathsShared ==
  (\A p \in Procs : Makes(cmd[p])) => \A p \in Procs : result[p] = "fail" => Blocked(cmd[p])

(* Every inode that is in use in f is the same in g, but for entries that   *)
(* directories have got since.                                             *)
Grown(f, g) ==
  \A i \in Ids :
    /\ f[i].type \notin {"none", "dir"} => g[i] = f[i]
    /\ f[i].type = "dir" =>
         /\ g[i].type = "dir"
         /\ \A n \in Names : f[i].sub[n] # Nil => g[i].sub[n] = f[i].sub[n]

Creates(c) == c.op \in {"none", "mkdir", "mkdir_p", "try_mkdir_p", "touch", "ln", "ln_s", "cp_r"}

(* Commands that create neither remove nor change what is there, be it      *)
(* their own or somebody else's that came in between: not by the fallback  *)
(* of a link to a copy, not by copying into a directory in which others    *)
(* have made files and links, not by the cleanup of an incomplete copy.    *)
OnlyAdds == [][(\A p \in Procs : Creates(cmd[p])) => Grown(node, node')]_vars

(* Several auto_rmdir that clean up the same tree leave nothing of it: an  *)
(* error of one, because of what another one has removed already, does not *)
(* make it skip the rest.  (Where readdir() tells the types; otherwise     *)
(* lstat() of a removed entry ends the loop and they can all give up.  And *)
(* for a path that crosses no symlink, which another one could remove.)    *)
CleanedUp ==
  fs.types /\ (\A p \in Procs : cmd[p].op \in {"none", "auto_rm"}) =>
    \A p \in Procs :
      /\ ~Idle(p) /\ result[p] # "run"
      /\ TypeIn(before, Down(before, cmd[p].path)) = "dir"
      => Lstat(cmd[p].path) = Nil
=============================================================================
