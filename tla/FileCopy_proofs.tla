--------------------------- MODULE FileCopy_proofs --------------------------
(***************************************************************************)
(* Proofs about FileCopy, for every file system to start from, with hard   *)
(* links and symlinks wherever they are, and for contents of any length.   *)
(***************************************************************************)
EXTENDS FileCopy, SequenceTheorems, TLAPS

Steps ==
  {"permissions", "source", "destination", "copy", "chmod", "utimes", "exists", "rename",
   "unlink", "times", "remove", "throw", "done", "failed", "crashed"}

TypeInv ==
  /\ dir \in [Names -> Inodes \cup {None}]
  /\ inode \in [Inodes -> Files]
  /\ job \in [Procs -> Calls]
  /\ pc \in [Procs -> Steps]
  /\ perm \in [Procs -> SUBSET Bits]
  /\ ifs \in [Procs -> Inodes \cup {None}]
  /\ ofs \in [Procs -> Inodes \cup {None}]
  /\ pos \in [Procs -> Nat]
  /\ rm \in [Procs -> BOOLEAN]
  /\ before \in [dir : [Names -> Names \cup {None}], inode : [Inodes -> Files]]

(* Who opens, and closes, what when; the auto_rmfile is active from the    *)
(* opening of the destination to the end of cpfile().                      *)
ControlOf(p) ==
  /\ job[p].op = "none" => pc[p] = "done"
  /\ job[p].op = "cp" => pc[p] \notin {"exists", "rename", "unlink", "times", "remove"}
  /\ pc[p] \in {"destination", "copy"} => ifs[p] \in Inodes
  /\ pc[p] = "copy" => ofs[p] \in Inodes
  /\ pc[p] \in {"exists", "rename", "unlink", "permissions", "source", "destination"} => pos[p] = 0
  /\ pc[p] \in {"copy", "chmod", "utimes"} => rm[p]
  /\ pc[p] \in {"exists", "rename", "unlink", "permissions", "source", "destination", "times", "remove"}
       => ~rm[p]

Control == \A p \in Procs : ControlOf(p)

(* What is a symlink remains one, with its target, and nothing else        *)
(* becomes one; the history stays the beginning.                           *)
Links == \A i \in Names : inode[i].link = before.inode[i].link

Base == TypeInv /\ Control /\ Links

-----------------------------------------------------------------------------
(* The source of p, and what happens to the names and files around it.     *)
Source(p) == Was(job[p].from)
Content(p) == before.inode[Source(p)].data

Untouched == dir = before.dir /\ inode = before.inode

(* Only the destination of p is another file than before, or a new one;    *)
(* and the source is as it was.                                            *)
SourceKept(p) ==
  /\ \A n \in Names \ {job[p].to} : before.dir[n] # None => dir[n] = before.dir[n]
  /\ inode[Source(p)] = before.inode[Source(p)]

(* The destination of p leads to a file which is not the source, and of    *)
(* whose content p has written the first n chunks.                         *)
Copied(p, n) ==
  /\ ofs[p] \in Inodes \ {Source(p)} /\ Resolve(job[p].to) = ofs[p]
  /\ n \in 0 .. Len(Content(p)) /\ inode[ofs[p]].data = SubSeq(Content(p), 1, n)

(* The permissions of a file that existed, and those of a new one.         *)
FirstPerm(p) ==
  IF job[p].op = "cp" /\ Was(job[p].to) # None THEN before.inode[Was(job[p].to)].perm
  ELSE before.inode[Source(p)].perm \ Umask

LastPerm(p) ==
  IF Flag(p, "overwrite_permissions") THEN before.inode[Source(p)].perm ELSE FirstPerm(p)

Busy(p) == job[p].op # "none" /\ Alone(p) /\ Different(p)

(* One call, step by step.  A move by rename() is the only end at which    *)
(* the source is not where it was and has not been copied.                 *)
CallOf(p) ==
  /\ pc[p] \in {"exists", "rename", "unlink"} => Untouched
  /\ job[p].op = "cp" /\ pc[p] \in {"permissions", "source", "destination"} => Untouched
  /\ job[p].op = "cp" \/ pc[p] # "done" => SourceKept(p)
  /\ job[p].op = "mv" /\ pc[p] = "done" => HasSource(p, job[p].to) /\ dir[job[p].from] = None
  /\ job[p].op = "mv" /\ pc[p] \in {"permissions", "source", "destination"} => inode = before.inode
  /\ pc[p] \in {"source", "destination", "copy", "chmod"} => perm[p] = before.inode[Source(p)].perm
  /\ pc[p] \in {"destination", "copy"} => ifs[p] = Source(p)
  /\ pc[p] = "copy" => Copied(p, pos[p])
  /\ pc[p] \in {"chmod", "utimes", "times", "remove"} => Copied(p, Len(Content(p)))
  /\ pc[p] \in {"copy", "chmod"} => inode[ofs[p]].perm = FirstPerm(p)
  /\ pc[p] = "utimes" => inode[ofs[p]].perm = LastPerm(p)
  /\ pc[p] \in {"copy", "chmod", "utimes"} => inode[ofs[p]].time = Now
  /\ job[p].op = "cp" /\ pc[p] = "done" =>
       /\ Copied(p, Len(Content(p)))
       /\ inode[ofs[p]].perm = LastPerm(p)
       /\ inode[ofs[p]].time =
            IF job[p].copy_timestamps THEN Timeval(before.inode[Source(p)].time) ELSE Now
  /\ job[p].op = "cp" /\ pc[p] = "failed" => Untouched \/ dir[job[p].to] = None

CallInv(p) == Busy(p) => CallOf(p)

(* A call that is not to overwrite what is there changes nothing.          *)
Refuses(p) ==
  job[p].op # "none" /\ ~job[p].overwrite_content /\ Alone(p) /\ before.dir[job[p].to] # None

OldInv(p) ==
  Refuses(p) =>
    Untouched /\ pc[p] \in {"permissions", "source", "destination", "exists", "failed", "crashed"}

(* Of several copies to the same path without overwriting, the one that    *)
(* has created the file is the only one with an active auto_rmfile, until  *)
(* it is done.                                                             *)
RaceOf(p) ==
  /\ pc[p] \in {"copy", "chmod", "utimes", "done", "throw"} =>
       before.dir[job[p].to] = None /\ dir[job[p].to] = p /\ inode[p].link = None
  /\ pc[p] = "copy" => ofs[p] = p
  /\ Source(p) # None =>
       /\ pc[p] \in {"destination", "copy"} => ifs[p] = Source(p)
       /\ pc[p] = "copy" =>
            pos[p] \in 0 .. Len(Content(p)) /\ inode[p].data = SubSeq(Content(p), 1, pos[p])
       /\ pc[p] \in {"chmod", "utimes", "done"} => inode[p].data = Content(p)

(* And what there was at the beginning is there all the time.              *)
Preserved ==
  /\ \A n \in Names : before.dir[n] # None => dir[n] = before.dir[n]
  /\ \A i \in Names : inode[i] = before.inode[i]

RaceInv == Race => Preserved /\ \A p \in Procs : RaceOf(p)

IInv == Base /\ RaceInv /\ \A p \in Procs : CallInv(p) /\ OldInv(p)

-----------------------------------------------------------------------------
(* Paths and contents. *)

Contents == Seq(Chunks \cup {Hole})

(* What a path leads to is a file, not a symlink, if it is anything.       *)
LEMMA FileIs ==
  ASSUME NEW d \in [Names -> Inodes \cup {None}], NEW f \in [Inodes -> Files], NEW n \in Names
  PROVE  /\ File(d, f, n) \in Inodes \cup {None}
         /\ File(d, f, n) # None => f[File(d, f, n)].link = None
<1>1. CASE d[n] = None
  BY <1>1 DEF File
<1>2. CASE d[n] # None /\ f[d[n]].link = None
  BY <1>2, SMTT(40) DEF File
<1>3. CASE d[n] # None /\ f[d[n]].link # None
  <2>1. f[d[n]].link \in Names
    BY <1>3 DEF Files
  <2>2. File(d, f, n) = LET i == d[f[d[n]].link] IN IF i # None /\ f[i].link = None THEN i ELSE None
    BY <1>3 DEF File
  <2> QED
    BY <2>1, <2>2
<1> QED
  BY <1>1, <1>2, <1>3

(* The path n leads to the same file as ever if the symlinks are the same  *)
(* and the entries, too, but for one that led to another file.             *)
LEMMA FileStays ==
  ASSUME NEW d \in [Names -> Inodes \cup {None}], NEW f \in [Inodes -> Files],
         NEW c \in [Names -> Names \cup {None}], NEW g \in [Inodes -> Files],
         NEW n \in Names, NEW t \in Names, File(c, g, n) # None, File(c, g, n) # File(c, g, t),
         \A m \in Names \ {t} : c[m] # None => d[m] = c[m],
         \A i \in Names : f[i].link = g[i].link
  PROVE  File(d, f, n) = File(c, g, n) /\ File(c, g, n) \in Names /\ n # t
<1>1. n # t /\ c[n] # None /\ c[n] \in Names /\ None \notin Names
  BY FileCopyAssumption DEF File, Inodes
<1>2. d[n] = c[n] /\ f[c[n]].link = g[c[n]].link
  BY <1>1
<1>3. CASE g[c[n]].link = None
  BY <1>1, <1>2, <1>3 DEF File
<1>4. CASE g[c[n]].link # None
  <2> DEFINE m == g[c[n]].link
  <2>1. m \in Names
    BY <1>1, <1>4 DEF Files, Inodes
  <2>2. File(c, g, n) = IF c[m] # None /\ g[c[m]].link = None THEN c[m] ELSE None
    BY <1>1, <1>4 DEF File
  <2>3. c[m] # None /\ g[c[m]].link = None /\ File(c, g, n) = c[m]
    BY <2>2
  <2>4. m # t
    BY <2>3 DEF File
  <2>5. d[m] = c[m] /\ c[m] \in Names /\ f[c[m]].link = None
    BY <2>1, <2>3, <2>4
  <2>6. f[d[n]].link = m
    BY <1>2
  <2> HIDE DEF m
  <2>7. File(d, f, n) = c[m]
    BY <1>1, <1>2, <2>1, <2>5, <2>6 DEF File
  <2> QED
    BY <1>1, <2>3, <2>5, <2>7
<1> QED
  BY <1>3, <1>4

(* So it is if no entry is another one, and the symlinks are the same.     *)
LEMMA FileKept ==
  ASSUME NEW d \in [Names -> Inodes \cup {None}], NEW f \in [Inodes -> Files],
         NEW c \in [Names -> Names \cup {None}], NEW g \in [Inodes -> Files],
         NEW n \in Names, File(c, g, n) # None,
         \A m \in Names : c[m] # None => d[m] = c[m],
         \A i \in Names : f[i].link = g[i].link
  PROVE  File(d, f, n) = File(c, g, n) /\ File(c, g, n) \in Names
<1>1. c[n] # None /\ c[n] \in Names /\ None \notin Names /\ d[n] = c[n]
  BY FileCopyAssumption DEF File, Inodes
<1>2. f[c[n]].link = g[c[n]].link
  BY <1>1
<1>3. CASE g[c[n]].link = None
  BY <1>1, <1>2, <1>3 DEF File
<1>4. CASE g[c[n]].link # None
  <2> DEFINE m == g[c[n]].link
  <2>1. m \in Names
    BY <1>1, <1>4 DEF Files, Inodes
  <2>2. File(c, g, n) = IF c[m] # None /\ g[c[m]].link = None THEN c[m] ELSE None
    BY <1>1, <1>4 DEF File
  <2>3. c[m] # None /\ g[c[m]].link = None /\ File(c, g, n) = c[m]
    BY <2>2
  <2>4. d[m] = c[m] /\ c[m] \in Names /\ f[c[m]].link = None
    BY <2>1, <2>3
  <2>5. f[d[n]].link = m
    BY <1>1, <1>2
  <2> HIDE DEF m
  <2>6. File(d, f, n) = c[m]
    BY <1>1, <2>1, <2>4, <2>5 DEF File
  <2> QED
    BY <2>3, <2>4, <2>6
<1> QED
  BY <1>3, <1>4

(* What a path leads to depends on entries and links alone.                *)
LEMMA FileSame ==
  ASSUME NEW d \in [Names -> Inodes \cup {None}], NEW f \in [Inodes -> Files],
         NEW g \in [Inodes -> Files], NEW n \in Names,
         \A i \in Inodes : f[i].link = g[i].link
  PROVE  File(d, g, n) = File(d, f, n)
<1>1. CASE d[n] = None
  BY <1>1 DEF File
<1>2. CASE d[n] # None /\ f[d[n]].link = None
  BY <1>2 DEF File
<1>3. CASE d[n] # None /\ f[d[n]].link # None
  <2> DEFINE m == f[d[n]].link
  <2>1. m \in Names /\ g[d[n]].link = m /\ d[m] \in Inodes \cup {None} /\ m # None
    BY <1>3 DEF Files
  <2>2. /\ File(d, f, n) = IF d[m] # None /\ f[d[m]].link = None THEN d[m] ELSE None
        /\ File(d, g, n) = IF d[m] # None /\ g[d[m]].link = None THEN d[m] ELSE None
    BY <1>3, <2>1 DEF File
  <2> QED
    BY <2>1, <2>2
<1> QED
  BY <1>1, <1>2, <1>3

LEMMA TimevalType == ASSUME NEW t \in Nat PROVE Timeval(t) \in Nat
  BY DEF Timeval

(* A write puts its chunk at the offset, past the end after holes.         *)
LEMMA WriteAtType ==
  ASSUME NEW s \in Contents, NEW n \in Nat, NEW c \in Chunks \cup {Hole}
  PROVE  WriteAt(s, n, c) \in Contents
<1> DEFINE m == IF Len(s) > n THEN Len(s) ELSE n + 1
<1>1. m \in Nat /\ Len(s) \in Nat
  BY LenProperties DEF Contents
<1>2. \A k \in 1 .. m :
        (IF k = n + 1 THEN c ELSE IF k <= Len(s) THEN s[k] ELSE Hole) \in Chunks \cup {Hole}
  BY <1>1, ElementOfSeq DEF Contents
<1>3. WriteAt(s, n, c) \in [1 .. m -> Chunks \cup {Hole}]
  BY <1>2 DEF WriteAt
<1> QED
  BY <1>1, <1>3 DEF Contents

(* The next chunk after the first n of a content.                          *)
LEMMA WriteAtEnd ==
  ASSUME NEW s \in Contents, NEW n \in Nat, n < Len(s)
  PROVE  WriteAt(SubSeq(s, 1, n), n, s[n + 1]) = SubSeq(s, 1, n + 1)
<1>1. Len(s) \in Nat /\ Len(SubSeq(s, 1, n)) = n /\ Len(SubSeq(s, 1, n + 1)) = n + 1
  BY LenProperties, SubSeqProperties DEF Contents
<1>2. /\ SubSeq(s, 1, n) = [k \in 1 .. n |-> s[k]]
      /\ SubSeq(s, 1, n + 1) = [k \in 1 .. n + 1 |-> s[k]]
  OBVIOUS
<1>3. WriteAt(SubSeq(s, 1, n), n, s[n + 1])
        = [k \in 1 .. n + 1 |-> IF k = n + 1 THEN s[n + 1] ELSE IF k <= n THEN s[k] ELSE Hole]
  BY <1>1, <1>2 DEF WriteAt
<1>4. \A k \in 1 .. n + 1 :
        (IF k = n + 1 THEN s[n + 1] ELSE IF k <= n THEN s[k] ELSE Hole) = s[k]
  OBVIOUS
<1> QED
  BY <1>2, <1>3, <1>4

-----------------------------------------------------------------------------
(* What the calls that change the file system do. *)

LEMMA ResolveIs ==
  ASSUME TypeInv, NEW n \in Names
  PROVE  /\ Resolve(n) \in Inodes \cup {None}
         /\ Resolve(n) # None => inode[Resolve(n)].link = None
BY FileIs DEF TypeInv, Resolve

(* The paths of a call, and the types of what its source was.              *)
LEMMA JobIs ==
  ASSUME TypeInv, NEW p \in Procs
  PROVE  /\ job[p].from \in Names /\ job[p].to \in Names
         /\ before.dir \in [Names -> Names \cup {None}]
         /\ before.dir \in [Names -> Inodes \cup {None}]
         /\ before.inode \in [Inodes -> Files]
BY DEF TypeInv, Calls, Inodes

(* A write and a change of permissions or times concern one file and leave *)
(* the rest of it alone.                                                   *)
LEMMA WriteIs ==
  ASSUME TypeInv, NEW i \in Inodes, NEW s \in Contents,
         inode' = [inode EXCEPT ![i].data = s, ![i].time = Now]
  PROVE  /\ inode' \in [Inodes -> Files]
         /\ \A j \in Inodes : inode'[j].link = inode[j].link /\ (j # i => inode'[j] = inode[j])
         /\ inode'[i].data = s /\ inode'[i].time = Now /\ inode'[i].perm = inode[i].perm
<1>1. inode \in [Inodes -> Files] /\ Now \in Nat
  BY FileCopyAssumption DEF TypeInv
<1> QED
  BY <1>1 DEF Files, Contents

LEMMA SetPermIs ==
  ASSUME TypeInv, NEW i \in Inodes, NEW b \in SUBSET Bits,
         inode' = [inode EXCEPT ![i].perm = b]
  PROVE  /\ inode' \in [Inodes -> Files]
         /\ \A j \in Inodes : /\ inode'[j].link = inode[j].link /\ inode'[j].data = inode[j].data
                              /\ j # i => inode'[j] = inode[j]
         /\ inode'[i].time = inode[i].time /\ inode'[i].perm = b
<1>1. inode \in [Inodes -> Files]
  BY DEF TypeInv
<1> QED
  BY <1>1 DEF Files

LEMMA SetTimeIs ==
  ASSUME TypeInv, NEW i \in Inodes, NEW t \in Nat, inode' = [inode EXCEPT ![i].time = t]
  PROVE  /\ inode' \in [Inodes -> Files]
         /\ \A j \in Inodes : /\ inode'[j].link = inode[j].link /\ inode'[j].data = inode[j].data
                              /\ j # i => inode'[j] = inode[j]
         /\ inode'[i].time = t /\ inode'[i].perm = inode[i].perm
<1>1. inode \in [Inodes -> Files]
  BY DEF TypeInv
<1> QED
  BY <1>1 DEF Files

(* fdopen() of a file that is there truncates it.                          *)
Truncates(p, n) ==
  /\ Resolve(n) \in Inodes /\ ofs' = [ofs EXCEPT ![p] = Resolve(n)] /\ dir' = dir
  /\ inode' = [inode EXCEPT ![Resolve(n)].data = <<>>, ![Resolve(n)].time = Now]

(* Of one that is not, it makes one at the name m, where there was none.   *)
NewFile(p) == [link |-> None, data |-> <<>>, perm |-> perm[p] \ Umask, time |-> Now]

Creates(p, n, m) ==
  /\ Resolve(n) = None /\ dir[m] = None /\ m = (IF dir[n] = None THEN n ELSE inode[dir[n]].link)
  /\ ofs' = [ofs EXCEPT ![p] = p]
  /\ dir' = [dir EXCEPT ![m] = p]
  /\ inode' = [inode EXCEPT ![p] = NewFile(p)]

LEMMA OpenIs ==
  ASSUME TypeInv, NEW p \in Procs, NEW n \in Names, Open(p, n)
  PROVE  Truncates(p, n) \/ \E m \in Names : Creates(p, n, m)
<1>1. Resolve(n) \in Inodes \cup {None}
  BY ResolveIs
<1>2. CASE Resolve(n) # None
  BY <1>1, <1>2 DEF Open, Truncates
<1>3. CASE Resolve(n) = None
  <2> DEFINE m == IF dir[n] = None THEN n ELSE inode[dir[n]].link
  <2>1. m \in Names
    <3>1. CASE dir[n] = None
      BY <3>1
    <3>2. CASE dir[n] # None
      <4>1. inode[dir[n]].link # None
        BY <1>3, <3>2 DEF Resolve, File
      <4>2. dir[n] \in Inodes
        BY <3>2 DEF TypeInv
      <4>3. inode[dir[n]] \in Files
        BY <4>2 DEF TypeInv
      <4> QED
        BY <3>2, <4>1, <4>3 DEF Files
    <3> QED
      BY <3>1, <3>2
  <2>2. Creates(p, n, m)
    BY <1>3 DEF Open, Creates, NewFile
  <2> QED
    BY <2>1, <2>2
<1> QED
  BY <1>2, <1>3

LEMMA TruncatesType ==
  ASSUME TypeInv, NEW p \in Procs, NEW n \in Names, Truncates(p, n)
  PROVE  /\ dir' \in [Names -> Inodes \cup {None}] /\ inode' \in [Inodes -> Files]
         /\ ofs' \in [Procs -> Inodes \cup {None}] /\ ofs'[p] = Resolve(n)
         /\ \A j \in Inodes : inode'[j].link = inode[j].link /\ (j # Resolve(n) => inode'[j] = inode[j])
         /\ inode'[Resolve(n)].data = <<>> /\ inode'[Resolve(n)].time = Now
         /\ inode'[Resolve(n)].perm = inode[Resolve(n)].perm
<1>1. <<>> \in Contents /\ Now \in Nat
  BY FileCopyAssumption DEF Contents
<1>2. Resolve(n) \in Inodes /\ inode \in [Inodes -> Files]
  BY DEF Truncates, TypeInv
<1>3. inode' = [inode EXCEPT ![Resolve(n)].data = <<>>, ![Resolve(n)].time = Now]
  BY DEF Truncates
<1>4. /\ inode' \in [Inodes -> Files]
      /\ \A j \in Inodes : inode'[j].link = inode[j].link /\ (j # Resolve(n) => inode'[j] = inode[j])
      /\ inode'[Resolve(n)].data = <<>> /\ inode'[Resolve(n)].time = Now
      /\ inode'[Resolve(n)].perm = inode[Resolve(n)].perm
  BY <1>1, <1>2, <1>3, WriteIs
<1> QED
  BY <1>2, <1>4 DEF Truncates, TypeInv

LEMMA CreatesType ==
  ASSUME TypeInv, NEW p \in Procs, NEW n \in Names, NEW m \in Names, Creates(p, n, m)
  PROVE  /\ dir' \in [Names -> Inodes \cup {None}] /\ inode' \in [Inodes -> Files]
         /\ ofs' \in [Procs -> Inodes \cup {None}] /\ ofs'[p] = p
         /\ dir'[m] = p /\ \A k \in Names \ {m} : dir'[k] = dir[k]
         /\ \A j \in Inodes \ {p} : inode'[j] = inode[j]
         /\ inode'[p] = NewFile(p)
         /\ p \in Inodes /\ p \notin Names /\ p # None
<1>1. p \in Inodes /\ p \notin Names /\ p # None
  BY FileCopyAssumption DEF Inodes
<1>2. NewFile(p) \in Files
  BY FileCopyAssumption DEF NewFile, Files, TypeInv
<1> QED
  BY <1>1, <1>2 DEF Creates, TypeInv

(* file_time(to, file_time(from)) changes one time.                        *)
LEMMA CopyTimesIs ==
  ASSUME TypeInv, NEW p \in Procs, CopyTimes(p)
  PROVE  /\ Resolve(job[p].to) \in Inodes
         /\ \E t \in Nat :
              /\ inode' = [inode EXCEPT ![Resolve(job[p].to)].time = t]
              /\ Resolve(job[p].from) # None => t = Timeval(inode[Resolve(job[p].from)].time)
<1> DEFINE from == Resolve(job[p].from)
           to == Resolve(job[p].to)
           i == IF from = None THEN to ELSE from
<1>1. to # None /\ inode' = [inode EXCEPT ![to].time = Timeval(inode[i].time)]
  BY DEF CopyTimes
<1>2. from \in Inodes \cup {None} /\ to \in Inodes \cup {None}
  BY ResolveIs, JobIs
<1> HIDE DEF from, to
<1>3. i \in Inodes
  BY <1>1, <1>2
<1>4. inode[i] \in Files
  BY <1>3 DEF TypeInv
<1>5. Timeval(inode[i].time) \in Nat
  BY <1>4, TimevalType DEF Files
<1>6. from # None => Timeval(inode[i].time) = Timeval(inode[from].time)
  OBVIOUS
<1> HIDE DEF i
<1> QED
  BY <1>1, <1>2, <1>5, <1>6 DEF from, to

(* What p copies next; the file it writes is the only one that changes.    *)
LEMMA CopyIs ==
  ASSUME TypeInv, Control, NEW p \in Procs, Copy(p)
  PROVE  /\ ofs[p] \in Inodes /\ ifs[p] \in Inodes /\ inode' \in [Inodes -> Files]
         /\ \A j \in Inodes : inode'[j].link = inode[j].link /\ (j # ofs[p] => inode'[j] = inode[j])
         /\ inode'[ofs[p]].data
              = WriteAt(inode[ofs[p]].data, pos[p], inode[ifs[p]].data[pos[p] + 1])
         /\ inode'[ofs[p]].time = Now /\ inode'[ofs[p]].perm = inode[ofs[p]].perm
<1> DEFINE s == WriteAt(inode[ofs[p]].data, pos[p], inode[ifs[p]].data[pos[p] + 1])
<1>1. ofs[p] \in Inodes /\ ifs[p] \in Inodes /\ pos[p] \in Nat
  BY DEF Copy, Control, ControlOf, TypeInv
<1>2. inode[ofs[p]].data \in Contents /\ inode[ifs[p]].data \in Contents
  BY <1>1 DEF TypeInv, Files, Contents
<1>3. inode[ifs[p]].data[pos[p] + 1] \in Chunks \cup {Hole}
  BY <1>1, <1>2, ElementOfSeq, LenProperties DEF Copy, Contents
<1>4. s \in Contents
  BY <1>1, <1>2, <1>3, WriteAtType
<1>5. inode' = [inode EXCEPT ![ofs[p]].data = s, ![ofs[p]].time = Now]
  BY DEF Copy
<1> HIDE DEF s
<1>6. /\ inode' \in [Inodes -> Files]
      /\ \A j \in Inodes : inode'[j].link = inode[j].link /\ (j # ofs[p] => inode'[j] = inode[j])
      /\ inode'[ofs[p]].data = s /\ inode'[ofs[p]].time = Now
      /\ inode'[ofs[p]].perm = inode[ofs[p]].perm
  BY <1>1, <1>4, <1>5, WriteIs
<1> QED
  BY <1>1, <1>6 DEF s

(* The times of the destination become those of the source, or what they   *)
(* are without one; nothing else changes.                                  *)
LEMMA CopyTimesSets ==
  ASSUME TypeInv, NEW p \in Procs, CopyTimes(p)
  PROVE  LET to == Resolve(job[p].to)
             from == Resolve(job[p].from)
         IN
           /\ to \in Inodes /\ inode' \in [Inodes -> Files]
           /\ \A j \in Inodes : /\ inode'[j].link = inode[j].link /\ inode'[j].data = inode[j].data
                                /\ j # to => inode'[j] = inode[j]
           /\ from # None => inode'[to].time = Timeval(inode[from].time)
           /\ inode'[to].perm = inode[to].perm
<1>1. PICK t \in Nat :
        /\ inode' = [inode EXCEPT ![Resolve(job[p].to)].time = t]
        /\ Resolve(job[p].from) # None => t = Timeval(inode[Resolve(job[p].from)].time)
  BY CopyTimesIs
<1>2. Resolve(job[p].to) \in Inodes
  BY CopyTimesIs
<1> QED
  BY <1>1, <1>2, SetTimeIs

(* path_permissions(to, perm), if wanted.                                  *)
LEMMA ChmodIs ==
  ASSUME TypeInv, NEW p \in Procs, Chmod(p)
  PROVE  LET to == Resolve(job[p].to) IN
           /\ inode' \in [Inodes -> Files]
           /\ \A j \in Inodes : /\ inode'[j].link = inode[j].link /\ inode'[j].data = inode[j].data
                                /\ inode'[j].time = inode[j].time
                                /\ j # to => inode'[j] = inode[j]
           /\ IF Flag(p, "overwrite_permissions") THEN to \in Inodes /\ inode'[to].perm = perm[p]
              ELSE inode' = inode
<1>1. CASE Flag(p, "overwrite_permissions")
  <2>1. Resolve(job[p].to) \in Inodes
    BY <1>1, ResolveIs, JobIs DEF Chmod
  <2>2. inode' = [inode EXCEPT ![Resolve(job[p].to)].perm = perm[p]] /\ perm[p] \in SUBSET Bits
    BY <1>1 DEF Chmod, TypeInv
  <2> QED
    BY <1>1, <2>1, <2>2, SetPermIs, ZenonT(40)
<1>2. CASE ~Flag(p, "overwrite_permissions")
  BY <1>2 DEF Chmod, TypeInv
<1> QED
  BY <1>1, <1>2

-----------------------------------------------------------------------------
(* Every step keeps the types, the control and the symlinks. *)

Step(p) == Cpfile(p) \/ Mventry(p) \/ Error(p) \/ Cleanup(p) \/ Crash(p)

(* A step of p leaves the variables of the others alone.                   *)
Others(p) ==
  \A q \in Procs \ {p} :
    /\ pc'[q] = pc[q] /\ perm'[q] = perm[q] /\ ifs'[q] = ifs[q]
    /\ ofs'[q] = ofs[q] /\ pos'[q] = pos[q] /\ rm'[q] = rm[q]

LEMMA Frame ==
  ASSUME TypeInv, NEW p \in Procs, Step(p)
  PROVE  job' = job /\ before' = before /\ Others(p)
<1>1. CASE Permissions(p) \/ OpenSource(p) \/ Copy(p) \/ Close(p) \/ Chmod(p) \/ Utimes(p)
  BY <1>1 DEF Permissions, OpenSource, Copy, Close, Chmod, Utimes, Go, local, Others, TypeInv
<1>2. CASE OpenDestination(p)
  BY <1>2 DEF OpenDestination, Open, Go, Others, TypeInv
<1>3. CASE Mventry(p)
  BY <1>3 DEF Mventry, Exists, Rename, Fallback, UnlinkDestination, MoveTimes, RemoveSource,
    Go, local, Others, TypeInv
<1>4. CASE Error(p) \/ Cleanup(p) \/ Crash(p)
  BY <1>4 DEF Error, Cleanup, Crash, Go, local, Others, TypeInv
<1> QED
  BY <1>1, <1>2, <1>3, <1>4 DEF Step, Cpfile

LEMMA TypeStep ==
  ASSUME TypeInv, Control, NEW p \in Procs, Step(p)
  PROVE  TypeInv'
<1> USE JobIs DEF TypeInv
<1>1. CASE Permissions(p)
  <2>1. Resolve(job[p].from) \in Inodes
    BY <1>1, ResolveIs DEF Permissions
  <2>2. inode[Resolve(job[p].from)].perm \in SUBSET Bits
    BY <2>1 DEF Files
  <2> QED
    BY <1>1, <2>2 DEF Permissions, Go, Steps
<1>2. CASE OpenSource(p)
  <2>1. Resolve(job[p].from) \in Inodes
    BY <1>2, ResolveIs DEF OpenSource
  <2> QED
    BY <1>2, <2>1 DEF OpenSource, Go, Steps
<1>3. CASE OpenDestination(p)
  <2>1. /\ dir' \in [Names -> Inodes \cup {None}] /\ inode' \in [Inodes -> Files]
        /\ ofs' \in [Procs -> Inodes \cup {None}]
    BY <1>3, OpenIs, TruncatesType, CreatesType DEF OpenDestination
  <2> QED
    BY <1>3, <2>1 DEF OpenDestination, Go, Steps
<1>4. CASE Copy(p)
  <2>1. inode' \in [Inodes -> Files]
    BY <1>4, CopyIs
  <2>2. pos' \in [Procs -> Nat] /\ UNCHANGED <<dir, job, pc, perm, ifs, ofs, rm, before>>
    BY <1>4 DEF Copy
  <2> QED
    BY <2>1, <2>2
<1>5. CASE Close(p)
  BY <1>5 DEF Close, Go, local, Steps
<1>6. CASE Chmod(p)
  BY <1>6, ChmodIs DEF Chmod, Go, local, Steps
<1>7. CASE Utimes(p)
  <2>1. inode' \in [Inodes -> Files]
    BY <1>7, CopyTimesSets DEF Utimes
  <2> QED
    BY <1>7, <2>1 DEF Utimes, Go, Steps
<1>8. CASE Exists(p) \/ Fallback(p) \/ Error(p) \/ Crash(p)
  BY <1>8 DEF Exists, Fallback, Error, Crash, Go, local, Steps
<1>9. CASE Rename(p)
  BY <1>9 DEF Rename, Go, local, Steps
<1>10. CASE UnlinkDestination(p) \/ RemoveSource(p) \/ Cleanup(p)
  BY <1>10 DEF UnlinkDestination, RemoveSource, Cleanup, Unlink, Go, local, Steps
<1>11. CASE MoveTimes(p)
  <2>1. inode' \in [Inodes -> Files]
    BY <1>11, CopyTimesSets DEF MoveTimes
  <2> QED
    BY <1>11, <2>1 DEF MoveTimes, Go, local, Steps
<1> QED
  BY <1>1, <1>2, <1>3, <1>4, <1>5, <1>6, <1>7, <1>8, <1>9, <1>10, <1>11
    DEF Step, Cpfile, Mventry

LEMMA ControlStep ==
  ASSUME TypeInv, Control, NEW p \in Procs, Step(p)
  PROVE  Control'
<1>1. job' = job /\ Others(p) /\ TypeInv'
  BY Frame, TypeStep
<1>2. ControlOf(p)
  BY DEF Control, ControlOf
<1>3. ControlOf(p)'
  <2> USE <1>1, <1>2 DEF TypeInv, ControlOf
  <2>1. CASE Permissions(p)
    BY <2>1 DEF Permissions, Go
  <2>2. CASE OpenSource(p)
    <3>1. Resolve(job[p].from) \in Inodes
      BY <2>2, ResolveIs, JobIs DEF OpenSource
    <3> QED
      BY <2>2, <3>1 DEF OpenSource, Go
  <2>3. CASE OpenDestination(p)
    <3>1. ofs'[p] \in Inodes
      <4>1. CASE Truncates(p, job[p].to)
        BY <4>1, TruncatesType, JobIs DEF Truncates
      <4>2. CASE \E m \in Names : Creates(p, job[p].to, m)
        BY <4>2, CreatesType, JobIs
      <4> QED
        BY <2>3, <4>1, <4>2, OpenIs, JobIs, SMTT(40) DEF OpenDestination
    <3> QED
      BY <2>3, <3>1 DEF OpenDestination, Go
  <2>4. CASE Copy(p)
    <3>1. pc[p] = "copy" /\ UNCHANGED <<pc, ifs, ofs, rm>>
      BY <2>4 DEF Copy
    <3> QED
      BY <3>1
  <2>5. CASE Close(p) \/ Chmod(p)
    BY <2>5 DEF Close, Chmod, Go, local
  <2>6. CASE Utimes(p)
    BY <2>6 DEF Utimes, Go
  <2>7. CASE Mventry(p)
    BY <2>7 DEF Mventry, Exists, Rename, Fallback, UnlinkDestination, MoveTimes, RemoveSource,
      Go, local
  <2>8. CASE Error(p) \/ Cleanup(p) \/ Crash(p)
    BY <2>8 DEF Error, Cleanup, Crash, Running, Go, local
  <2> QED
    BY <2>1, <2>2, <2>3, <2>4, <2>5, <2>6, <2>7, <2>8 DEF Step, Cpfile
<1>4. \A q \in Procs \ {p} : ControlOf(q)'
  BY <1>1 DEF Control, ControlOf, Others
<1> QED
  BY <1>3, <1>4 DEF Control, ControlOf

LEMMA LinksStep ==
  ASSUME Base, NEW p \in Procs, Step(p)
  PROVE  Links'
<1>1. before' = before
  BY Frame DEF Base
<1>2. \A i \in Names : inode'[i].link = inode[i].link
  <2> USE JobIs DEF Base, Inodes
  <2>1. CASE OpenDestination(p)
    <3>1. CASE Truncates(p, job[p].to)
      BY <3>1, TruncatesType
    <3>2. CASE \E m \in Names : Creates(p, job[p].to, m)
      BY <3>2, CreatesType
    <3> QED
      BY <2>1, <3>1, <3>2, OpenIs DEF OpenDestination
  <2>2. CASE Copy(p)
    BY <2>2, CopyIs
  <2>3. CASE Chmod(p)
    BY <2>3, ChmodIs
  <2>4. CASE Utimes(p) \/ MoveTimes(p)
    BY <2>4, CopyTimesSets DEF Utimes, MoveTimes
  <2>5. CASE inode' = inode
    BY <2>5
  <2> QED
    BY <2>1, <2>2, <2>3, <2>4, <2>5 DEF Step, Cpfile, Mventry, Permissions, OpenSource, Close,
      Exists, Rename, Fallback, UnlinkDestination, RemoveSource, Error, Cleanup, Crash
<1> QED
  BY <1>1, <1>2 DEF Base, Links

LEMMA BaseStep ==
  ASSUME Base, NEW p \in Procs, Step(p)
  PROVE  Base' /\ job' = job /\ before' = before /\ Others(p)
BY TypeStep, ControlStep, LinksStep, Frame DEF Base

-----------------------------------------------------------------------------
(* A process that makes no call is done and makes no step.                 *)
LEMMA AloneStep ==
  ASSUME Base, NEW p \in Procs, NEW q \in Procs, Alone(p), Step(q)
  PROVE  q = p
<1>1. SUFFICES ASSUME q # p PROVE FALSE
  OBVIOUS
<1>2. pc[q] = "done"
  <2>1. ControlOf(q)
    BY DEF Base, Control
  <2>2. job[q].op = "none"
    BY <1>1, ZenonT(40) DEF Alone
  <2> QED
    BY <2>1, <2>2 DEF ControlOf
<1> QED
  BY <1>2 DEF Step, Cpfile, Mventry, Permissions, OpenSource, OpenDestination, Copy,
     Close, Chmod,
    Utimes, Exists, Rename, Fallback, UnlinkDestination, MoveTimes, RemoveSource, Error, Cleanup,
    Crash, Running

(* Exists(p) and OpenDestination(p) refuse, and until then nothing is      *)
(* written; nor is there anything to clean up after them.                  *)
LEMMA OldStep ==
  ASSUME Base, NEW p \in Procs, OldInv(p), NEW q \in Procs, Step(q)
  PROVE  OldInv(p)'
<1>1. job' = job /\ before' = before
  BY BaseStep
<1>2. SUFFICES ASSUME Refuses(p)
               PROVE  /\ dir' = before.dir /\ inode' = before.inode
                      /\ pc'[p] \in {"permissions", "source", "destination", "exists", "failed", "crashed"}
  BY <1>1 DEF OldInv, Refuses, Alone, Untouched
<1>3. q = p
  BY <1>2, AloneStep DEF Refuses
<1>4. /\ dir = before.dir /\ inode = before.inode /\ dir[job[p].to] # None
      /\ ~Flag(p, "overwrite_content") /\ ~job[p].overwrite_content
      /\ pc[p] \in {"permissions", "source", "destination", "exists", "failed", "crashed"}
      /\ pc \in [Procs -> Steps]
      /\ pc[p] \notin {"failed", "crashed"} => ~rm[p]
  BY <1>2 DEF OldInv, Refuses, Untouched, Flag, Base, TypeInv, Control, ControlOf
<1> QED
  BY <1>3, <1>4 DEF Step, Cpfile, Mventry, Permissions, OpenSource, OpenDestination,
     Copy, Close,
    Chmod, Utimes, Exists, Rename, Fallback, UnlinkDestination, MoveTimes, RemoveSource, Error,
    Cleanup, Crash, Running, Go, local

-----------------------------------------------------------------------------
(* Copies to the same path. *)

(* The source is what it was for whoever opens it.                         *)
LEMMA RaceSource ==
  ASSUME Base, RaceInv, Race, NEW p \in Procs, Source(p) # None
  PROVE  Resolve(job[p].from) = Source(p) /\ Source(p) \in Names
<1>1. /\ dir \in [Names -> Inodes \cup {None}] /\ inode \in [Inodes -> Files]
      /\ before.dir \in [Names -> Names \cup {None}] /\ before.inode \in [Inodes -> Files]
      /\ job[p].from \in Names
  BY JobIs DEF Base, TypeInv
<1>2. /\ \A n \in Names : before.dir[n] # None => dir[n] = before.dir[n]
      /\ \A i \in Names : inode[i].link = before.inode[i].link
  BY DEF Base, Links, RaceInv, Preserved
<1> QED
  BY <1>1, <1>2, FileKept DEF Source, Was, Resolve

(* The winner's file is what its destination leads to.                     *)
LEMMA RaceOwn ==
  ASSUME Base, RaceInv, Race, NEW p \in Procs,
         pc[p] \in {"copy", "chmod", "utimes", "done", "throw"}
  PROVE  Resolve(job[p].to) = p /\ p \in Inodes /\ p \notin Names
<1>1. dir[job[p].to] = p /\ inode[p].link = None
  BY DEF RaceInv, RaceOf
<1> QED
  BY <1>1, FileCopyAssumption DEF Resolve, File, Inodes

(* A step of p may change the file it has created, and the destination     *)
(* once it is its own or there is nothing yet.                             *)
LEMMA RaceOther ==
  ASSUME Base, RaceInv, Race, NEW p \in Procs, NEW q \in Procs \ {p}, Step(p),
         \A i \in Inodes \ {p} : inode'[i] = inode[i],
         dir' = dir \/ dir[job[p].to] \in {None, p}
  PROVE  RaceOf(q)'
<1>1. job' = job /\ before' = before /\ Others(p)
  BY BaseStep
<1>2. inode'[q] = inode[q] /\ q # None
  BY FileCopyAssumption DEF Inodes
<1>3. Source(q)' = Source(q) /\ Content(q)' = Content(q)
  BY <1>1 DEF Source, Content, Was
<1>4. RaceOf(q)
  BY DEF RaceInv
<1>5. job[q].to = job[p].to
  BY DEF Race
<1>6. pc'[q] = pc[q] /\ ofs'[q] = ofs[q] /\ ifs'[q] = ifs[q] /\ pos'[q] = pos[q]
  BY <1>1 DEF Others
<1>7. dir'[job[q].to] = dir[job[q].to] \/ dir[job[q].to] # q
  BY <1>2, <1>5
<1> QED
  BY <1>1, <1>2, <1>3, <1>4, <1>6, <1>7 DEF RaceOf

LEMMA RaceStep ==
  ASSUME Base, RaceInv, NEW p \in Procs, Step(p)
  PROVE  RaceInv'
<1>1. job' = job /\ before' = before /\ Base'
  BY BaseStep
<1>2. SUFFICES ASSUME Race PROVE Preserved' /\ \A q \in Procs : RaceOf(q)'
  BY <1>1 DEF RaceInv, Race
<1>3. Source(p)' = Source(p) /\ Content(p)' = Content(p)
  BY <1>1 DEF Source, Content, Was
<1>4. RaceOf(p) /\ Preserved /\ job[p].op = "cp" /\ ~job[p].overwrite_content
  BY <1>2 DEF RaceInv, Race
<1>5. SUFFICES /\ Preserved' /\ RaceOf(p)'
               /\ \A i \in Inodes \ {p} : inode'[i] = inode[i]
               /\ dir' = dir \/ dir[job[p].to] \in {None, p}
  BY <1>2, RaceOther
<1>6. p \in Inodes /\ p \notin Names /\ p # None /\ pc \in [Procs -> Steps]
  BY FileCopyAssumption DEF Inodes, Base, TypeInv
<1>7. CASE Permissions(p) \/ Error(p) \/ Crash(p)
  <2>1. /\ pc'[p] \in {"source", "failed", "crashed"} \/ (pc'[p] = "throw" /\ rm[p] /\ Running(p))
        /\ UNCHANGED <<dir, inode>>
    BY <1>6, <1>7 DEF Permissions, Error, Crash, Go, local
  <2>2. pc'[p] = "throw" => pc[p] \in {"copy", "chmod", "utimes"}
    BY <1>4, <1>6, <2>1 DEF Running, Base, Control, ControlOf, Steps
  <2>3. Preserved'
    BY <1>1, <1>4, <2>1 DEF Preserved
  <2>4. RaceOf(p)'
    BY <1>1, <1>3, <1>4, <2>1, <2>2 DEF RaceOf
  <2> QED
    BY <2>1, <2>3, <2>4
<1>8. CASE OpenSource(p)
  <2>1. Source(p) # None => Resolve(job[p].from) = Source(p)
    BY <1>2, RaceSource
  <2>2. ifs'[p] = Resolve(job[p].from) /\ pc'[p] = "destination" /\ UNCHANGED <<dir, inode>>
    BY <1>6, <1>8 DEF OpenSource, Go, Base, TypeInv
  <2> QED
    BY <1>1, <1>3, <1>4, <2>1, <2>2 DEF RaceOf, Preserved
<1>9. CASE OpenDestination(p)
  <2>1. dir[job[p].to] = None /\ Resolve(job[p].to) = None /\ before.dir[job[p].to] = None
    <3>1. dir[job[p].to] = None
      BY <1>4, <1>9 DEF OpenDestination, Flag
    <3> QED
      BY <1>4, <3>1, JobIs DEF Preserved, Base, Resolve, File
  <2>2. PICK m \in Names : Creates(p, job[p].to, m)
    <3>1. ~Truncates(p, job[p].to)
      BY <2>1, FileCopyAssumption DEF Truncates
    <3> QED
      BY <1>9, <3>1, OpenIs, JobIs DEF OpenDestination, Base
  <2>3. m = job[p].to
    BY <2>1, <2>2 DEF Creates
  <2>4. /\ dir'[job[p].to] = p /\ \A k \in Names \ {job[p].to} : dir'[k] = dir[k]
        /\ \A j \in Inodes \ {p} : inode'[j] = inode[j]
        /\ inode'[p] = NewFile(p) /\ ofs'[p] = p
    BY <2>2, <2>3, CreatesType, JobIs DEF Base
  <2>5. pc[p] = "destination" /\ pc'[p] = "copy" /\ ifs' = ifs /\ pos' = pos /\ pos[p] = 0
    BY <1>6, <1>9 DEF OpenDestination, Go, Base, Control, ControlOf
  <2>6. inode'[p].link = None /\ inode'[p].data = <<>>
    BY <2>4 DEF NewFile
  <2>7. Source(p) # None => Content(p) \in Contents
    BY <1>2, RaceSource, JobIs DEF Base, Content, Files, Contents, Inodes
  <2>8. Source(p) # None => 0 \in 0 .. Len(Content(p)) /\ <<>> = SubSeq(Content(p), 1, 0)
    BY <2>7, LenProperties, SubSeqProperties, EmptySeq DEF Contents
  <2>9. Preserved'
    BY <1>1, <1>4, <1>6, <2>1, <2>4 DEF Preserved, Inodes
  <2>10. RaceOf(p)'
    BY <1>1, <1>3, <1>4, <2>1, <2>4, <2>5, <2>6, <2>8 DEF RaceOf
  <2> QED
    BY <2>1, <2>4, <2>9, <2>10
<1>10. CASE Copy(p)
  <2>1. /\ pc[p] = "copy" /\ pos[p] < Len(inode[ifs[p]].data) /\ pos'[p] = pos[p] + 1
        /\ UNCHANGED <<dir, pc, ifs, ofs>> /\ pos[p] \in Nat
    BY <1>10 DEF Copy, Base, TypeInv
  <2>2. ofs[p] = p /\ inode[p].link = None
    BY <1>4, <2>1 DEF RaceOf
  <2>3. /\ \A j \in Inodes : inode'[j].link = inode[j].link /\ (j # p => inode'[j] = inode[j])
        /\ inode'[p].data = WriteAt(inode[p].data, pos[p], inode[ifs[p]].data[pos[p] + 1])
    BY <1>10, <2>2, CopyIs DEF Base
  <2>4. ASSUME Source(p) # None
        PROVE  /\ pos[p] + 1 \in 0 .. Len(Content(p))
               /\ inode'[p].data = SubSeq(Content(p), 1, pos[p] + 1)
    <3>1. ifs[p] = Source(p) /\ Source(p) \in Names
      BY <1>2, <1>4, <2>1, <2>4, RaceSource DEF RaceOf
    <3>2. inode[ifs[p]].data = Content(p)
      BY <1>4, <3>1 DEF Preserved, Content
    <3>3. Content(p) \in Contents
      BY <3>1, JobIs DEF Base, Content, Files, Contents, Inodes
    <3>4. inode[p].data = SubSeq(Content(p), 1, pos[p])
      BY <1>4, <2>1, <2>4 DEF RaceOf
    <3>5. Len(Content(p)) \in Nat
      BY <3>3, LenProperties DEF Contents
    <3> QED
      BY <2>1, <2>3, <3>2, <3>3, <3>4, <3>5, WriteAtEnd
  <2>5. Preserved'
    BY <1>1, <1>4, <1>6, <2>1, <2>3, SMTT(40) DEF Preserved, Inodes
  <2>6. RaceOf(p)'
    BY <1>1, <1>3, <1>4, <1>6, <2>1, <2>2, <2>3, <2>4 DEF RaceOf
  <2> QED
    BY <2>1, <2>3, <2>5, <2>6
<1>11. CASE Close(p)
  <2>1. /\ pc[p] = "copy" /\ pos[p] >= Len(inode[ifs[p]].data) /\ pc'[p] = "chmod"
        /\ UNCHANGED <<dir, inode>>
    BY <1>6, <1>11 DEF Close, Go, local
  <2>2. ASSUME Source(p) # None
        PROVE  inode[p].data = Content(p)
    <3>1. ifs[p] = Source(p) /\ Source(p) \in Names
      BY <1>2, <1>4, <2>1, <2>2, RaceSource DEF RaceOf
    <3>2. inode[ifs[p]].data = Content(p)
      BY <1>4, <3>1 DEF Preserved, Content
    <3>3. Content(p) \in Contents
      BY <3>1, JobIs DEF Base, Content, Files, Contents, Inodes
    <3>4. inode[p].data = SubSeq(Content(p), 1, pos[p]) /\ pos[p] \in 0 .. Len(Content(p))
      BY <1>4, <2>1, <2>2 DEF RaceOf
    <3>5. pos[p] = Len(Content(p))
      BY <2>1, <3>2, <3>3, <3>4, LenProperties DEF Contents
    <3> QED
      BY <3>3, <3>4, <3>5, SubSeqFull DEF Contents
  <2> QED
    BY <1>1, <1>3, <1>4, <2>1, <2>2 DEF RaceOf, Preserved
<1>12. CASE Chmod(p) \/ Utimes(p)
  <2>1. pc[p] \in {"chmod", "utimes"} /\ pc'[p] \in {"utimes", "done"} /\ dir' = dir
    BY <1>4, <1>6, <1>12 DEF Chmod, Utimes, Go
  <2>2. Resolve(job[p].to) = p
    BY <1>2, <2>1, RaceOwn
  <2>3. /\ \A j \in Inodes \ {p} : inode'[j] = inode[j]
        /\ inode'[p].link = inode[p].link /\ inode'[p].data = inode[p].data
    <3>1. CASE Chmod(p)
      BY <1>6, <2>2, <3>1, ChmodIs DEF Base
    <3>2. CASE Utimes(p) /\ CopyTimes(p)
      BY <1>6, <2>2, <3>2, CopyTimesSets DEF Base
    <3>3. CASE Utimes(p) /\ inode' = inode
      BY <3>3
    <3> QED
      BY <1>12, <3>1, <3>2, <3>3 DEF Utimes
  <2>4. Preserved'
    BY <1>1, <1>4, <1>6, <2>1, <2>3 DEF Preserved, Inodes
  <2>5. RaceOf(p)'
    BY <1>1, <1>3, <1>4, <1>6, <2>1, <2>3 DEF RaceOf
  <2> QED
    BY <2>1, <2>3, <2>4, <2>5
<1>13. CASE Cleanup(p)
  <2>1. /\ pc[p] = "throw" /\ pc'[p] = "failed" /\ inode' = inode
        /\ dir' = [dir EXCEPT ![job[p].to] = None]
    BY <1>6, <1>13 DEF Cleanup, Unlink, Go
  <2>2. dir[job[p].to] = p /\ before.dir[job[p].to] = None
    BY <1>4, <2>1 DEF RaceOf
  <2>3. Preserved'
    BY <1>1, <1>4, <2>1, <2>2, JobIs DEF Preserved, Base, TypeInv
  <2>4. RaceOf(p)'
    BY <2>1 DEF RaceOf
  <2> QED
    BY <2>1, <2>2, <2>3, <2>4
<1>14. CASE Mventry(p)
  BY <1>4, <1>14 DEF Mventry, Exists, Rename, Fallback, UnlinkDestination, MoveTimes,
     RemoveSource,
    Base, Control, ControlOf
<1> QED
  BY <1>7, <1>8, <1>9, <1>10, <1>11, <1>12, <1>13, <1>14 DEF Step, Cpfile

-----------------------------------------------------------------------------
(* One call, with the file system to itself. *)

(* As long as it is kept the source is what the path leads to, and the     *)
(* destination is another path.                                            *)
LEMMA CallSource ==
  ASSUME Base, NEW p \in Procs, Busy(p), SourceKept(p)
  PROVE  /\ Resolve(job[p].from) = Source(p) /\ Source(p) \in Names
         /\ job[p].from # job[p].to /\ Content(p) \in Contents
         /\ inode[Source(p)] = before.inode[Source(p)]
<1>1. /\ Resolve(job[p].from) = Source(p) /\ Source(p) \in Names /\ job[p].from # job[p].to
  <2> DEFINE from == job[p].from
             to == job[p].to
             c == before.dir
             g == before.inode
  <2>1. /\ from \in Names /\ to \in Names /\ c \in [Names -> Names \cup {None}]
        /\ g \in [Inodes -> Files] /\ dir \in [Names -> Inodes \cup {None}]
        /\ inode \in [Inodes -> Files]
    BY JobIs DEF Base, TypeInv
  <2>2. File(c, g, from) # None /\ File(c, g, from) # File(c, g, to)
    BY DEF Busy, Different, Was
  <2>3. /\ \A m \in Names \ {to} : c[m] # None => dir[m] = c[m]
        /\ \A i \in Names : inode[i].link = g[i].link
    BY DEF Base, Links, SourceKept
  <2> HIDE DEF from, to, c, g
  <2>4. File(dir, inode, from) = File(c, g, from) /\ File(c, g, from) \in Names /\ from # to
    BY <2>1, <2>2, <2>3, FileStays
  <2> QED
    BY <2>4 DEF from, to, c, g, Source, Was, Resolve
<1>2. Content(p) \in Contents
  BY <1>1, JobIs DEF Base, Content, Files, Contents, Inodes
<1> QED
  BY <1>1, <1>2 DEF SourceKept

(* A step that changes one file other than the source, and no symlink,     *)
(* changes neither the source nor where the destination leads to.          *)
LEMMA CallKeeps ==
  ASSUME Base, NEW p \in Procs, Step(p), SourceKept(p), dir' = dir, NEW i \in Inodes, i # Source(p),
         \A j \in Inodes : inode'[j].link = inode[j].link /\ (j # i => inode'[j] = inode[j]),
         Source(p) \in Names
  PROVE  SourceKept(p)' /\ Resolve(job[p].to)' = Resolve(job[p].to)
<1>1. job' = job /\ before' = before /\ Base'
  BY BaseStep
<1>2. SourceKept(p)'
  BY <1>1 DEF SourceKept, Source, Was, Inodes
<1>3. File(dir, inode', job[p].to) = File(dir, inode, job[p].to)
  <2>1. /\ dir \in [Names -> Inodes \cup {None}] /\ inode \in [Inodes -> Files]
        /\ inode' \in [Inodes -> Files]
    BY <1>1 DEF Base, TypeInv
  <2>2. job[p].to \in Names /\ \A j \in Inodes : inode[j].link = inode'[j].link
    BY JobIs DEF Base
  <2> QED
    BY <2>1, <2>2, FileSame
<1> QED
  BY <1>1, <1>2, <1>3 DEF Resolve

(* What a call is about does not change.                                   *)
LEMMA CallFrame ==
  ASSUME Base, NEW p \in Procs, Step(p)
  PROVE  /\ job' = job /\ before' = before /\ Base' /\ pc \in [Procs -> Steps] /\ ControlOf(p)
         /\ Busy(p)' = Busy(p)
         /\ Source(p)' = Source(p) /\ Content(p)' = Content(p)
         /\ FirstPerm(p)' = FirstPerm(p) /\ LastPerm(p)' = LastPerm(p)
<1>1. job' = job /\ before' = before /\ Base'
  BY BaseStep
<1>2. pc \in [Procs -> Steps] /\ ControlOf(p)
  BY DEF Base, TypeInv, Control
<1> QED
  BY <1>1, <1>2 DEF Busy, Alone, Different, Source, Was, Content, FirstPerm, LastPerm, Flag

(* Where the file system stays as it is.                                   *)
LEMMA CallLooks ==
  ASSUME Base, NEW p \in Procs, Busy(p), CallOf(p), Step(p), UNCHANGED <<dir, inode>>
  PROVE  /\ Untouched => Untouched'
         /\ SourceKept(p) => SourceKept(p)'
         /\ \A n : ofs'[p] = ofs[p] /\ Copied(p, n) => Copied(p, n)'
BY CallFrame DEF Untouched, SourceKept, Copied, Resolve

LEMMA CallReads ==
  ASSUME Base, NEW p \in Procs, Busy(p), CallOf(p),
         Permissions(p) \/ OpenSource(p) \/ Exists(p) \/ Fallback(p)
  PROVE  CallOf(p)'
<1>1. Step(p)
  BY DEF Step, Cpfile, Mventry
<1> USE <1>1, CallFrame, CallLooks DEF CallOf
<1>2. CASE Permissions(p)
  <2>1. pc[p] = "permissions" /\ pc'[p] = "source" /\ UNCHANGED <<dir, inode>>
    BY <1>2 DEF Permissions, Go
  <2>2. SourceKept(p)
    BY <2>1
  <2>3. perm'[p] = before.inode[Source(p)].perm
    BY <1>2, <2>2, CallSource DEF Permissions, Base, TypeInv
  <2> QED
    BY <2>1, <2>3
<1>3. CASE OpenSource(p)
  <2>1. pc[p] = "source" /\ pc'[p] = "destination" /\ UNCHANGED <<dir, inode, perm>>
    BY <1>3 DEF OpenSource, Go
  <2>2. SourceKept(p)
    BY <2>1
  <2>3. ifs'[p] = Source(p)
    BY <1>3, <2>2, CallSource DEF OpenSource, Base, TypeInv
  <2> QED
    BY <2>1, <2>3
<1>4. CASE Exists(p) \/ Fallback(p)
  <2>1. /\ pc[p] \in {"exists", "rename"} /\ pc'[p] \in {"rename", "unlink"}
        /\ UNCHANGED <<dir, inode>>
    BY <1>4 DEF Exists, Fallback, Go
  <2> QED
    BY <2>1
<1> QED
  BY <1>2, <1>3, <1>4

LEMMA CallEnds ==
  ASSUME Base, NEW p \in Procs, Busy(p), CallOf(p), Error(p) \/ Crash(p)
  PROVE  CallOf(p)'
<1>1. Step(p)
  BY DEF Step
<1>2. /\ Running(p) \/ pc[p] = "throw"
      /\ UNCHANGED <<dir, inode, ofs>>
      /\ pc'[p] \in {"throw", "crashed"} \/ (pc'[p] = "failed" /\ ~rm[p] /\ Running(p))
  BY CallFrame, <1>1 DEF Error, Crash, Go, local
<1>3. SourceKept(p)'
  BY <1>1, <1>2, CallLooks DEF CallOf, Running
<1>4. ASSUME job[p].op = "cp", pc'[p] = "failed" PROVE Untouched'
  <2>1. pc[p] \in {"permissions", "source", "destination"}
    BY <1>1, <1>2, <1>4, CallFrame DEF ControlOf, Running, Steps
  <2> QED
    BY <1>1, <1>2, <1>4, <2>1, CallLooks DEF CallOf
<1> QED
  BY <1>1, <1>2, <1>3, <1>4, CallFrame DEF CallOf

(* The destination is opened: a file of its own, with nothing in it.       *)
LEMMA CallTruncates ==
  ASSUME Base, NEW p \in Procs, Busy(p), CallOf(p), OpenDestination(p), Truncates(p, job[p].to)
  PROVE  CallOf(p)'
<1>1. Step(p)
  BY DEF Step, Cpfile
<1> USE <1>1, CallFrame
<1>2. /\ pc[p] = "destination" /\ pc'[p] = "copy" /\ perm' = perm /\ ifs' = ifs /\ pos' = pos
      /\ pos[p] = 0
      /\ Flag(p, "overwrite_content") \/ dir[job[p].to] = None
  BY DEF OpenDestination, Go, ControlOf
<1>3. SourceKept(p)
  BY <1>2 DEF CallOf
<1> DEFINE i == Resolve(job[p].to)
<1>4. /\ i \in Inodes /\ dir' = dir /\ ofs'[p] = i
      /\ \A j \in Inodes : inode'[j].link = inode[j].link /\ (j # i => inode'[j] = inode[j])
      /\ inode'[i].data = <<>> /\ inode'[i].time = Now /\ inode'[i].perm = inode[i].perm
  <2>1. TypeInv /\ job[p].to \in Names
    BY JobIs DEF Base
  <2>2. i \in Inodes /\ dir' = dir
    BY DEF Truncates
  <2> QED
    BY <2>1, <2>2, TruncatesType
<1>5. job[p].op = "cp"
  <2>1. dir[job[p].to] # None
    <3>1. ASSUME dir[job[p].to] = None PROVE i = None
      BY <3>1 DEF Resolve, File
    <3> HIDE DEF i
    <3> QED
      BY <1>4, <3>1, FileCopyAssumption
  <2> QED
    BY <1>2, <2>1 DEF Flag
<1>6. i = Was(job[p].to) /\ inode = before.inode
  BY <1>2, <1>5 DEF CallOf, Untouched, Resolve, Was
<1>7. i # Source(p) /\ i # None
  BY <1>4, <1>6, FileCopyAssumption DEF Busy, Different, Source
<1>8. Source(p) \in Names /\ Content(p) \in Contents
  BY <1>3, CallSource
<1>9. SourceKept(p)' /\ Resolve(job[p].to)' = i
  BY <1>3, <1>4, <1>7, <1>8, CallKeeps
<1>10. inode'[i].perm = FirstPerm(p)
  BY <1>4, <1>5, <1>6, <1>7 DEF FirstPerm
<1>11. pos'[p] \in 0 .. Len(Content(p)) /\ inode'[ofs'[p]].data = SubSeq(Content(p), 1, pos'[p])
  <2>1. Len(Content(p)) \in Nat
    BY <1>8, LenProperties DEF Contents
  <2> HIDE DEF i
  <2>2. pos'[p] = 0 /\ inode'[ofs'[p]].data = <<>>
    BY <1>2, <1>4
  <2>3. SubSeq(Content(p), 1, pos'[p]) = <<>>
    BY <2>2, SubSeqEmpty
  <2> QED
    BY <2>1, <2>2, <2>3
<1>12. Copied(p, pos[p])'
  <2> HIDE DEF i
  <2> QED
    BY <1>4, <1>7, <1>9, <1>11 DEF Copied
<1>13. perm'[p] = before.inode[Source(p)].perm /\ ifs'[p] = Source(p)
  BY <1>2 DEF CallOf
<1> HIDE DEF i
<1> QED
  BY <1>2, <1>4, <1>9, <1>10, <1>12, <1>13 DEF CallOf

LEMMA CallCreates ==
  ASSUME Base, NEW p \in Procs, Busy(p), CallOf(p), OpenDestination(p),
         NEW m \in Names, Creates(p, job[p].to, m)
  PROVE  CallOf(p)'
<1>1. Step(p)
  BY DEF Step, Cpfile
<1> USE <1>1, CallFrame
<1> DEFINE to == job[p].to
<1>2. /\ pc[p] = "destination" /\ pc'[p] = "copy" /\ perm' = perm /\ ifs' = ifs /\ pos' = pos
      /\ pos[p] = 0
      /\ Flag(p, "overwrite_content") \/ dir[to] = None
  BY DEF OpenDestination, Go, ControlOf
<1>3. SourceKept(p)
  BY <1>2 DEF CallOf
<1>4. /\ Resolve(to) = None /\ dir[m] = None
      /\ ofs'[p] = p /\ dir'[m] = p /\ \A k \in Names \ {m} : dir'[k] = dir[k]
      /\ \A j \in Inodes \ {p} : inode'[j] = inode[j]
      /\ inode'[p] = NewFile(p) /\ p \in Inodes /\ p \notin Names /\ p # None /\ to \in Names
  <2>1. to \in Names /\ TypeInv
    BY JobIs DEF Base
  <2>2. Creates(p, to, m) /\ Resolve(to) = None /\ dir[m] = None
    BY DEF Creates
  <2> HIDE DEF to
  <2> QED
    BY <2>1, <2>2, CreatesType
<1>5. Source(p) \in Names /\ Content(p) \in Contents
  BY <1>3, CallSource
<1>6. SourceKept(p)'
  BY <1>3, <1>4, <1>5, JobIs DEF SourceKept, Inodes, Base
<1>7. Resolve(to)' = p
  <2>1. CASE dir[to] = None
    <3>1. m = to
      BY <2>1 DEF Creates
    <3> QED
      BY <1>4, <3>1 DEF Resolve, File, NewFile
  <2>2. CASE dir[to] # None
    <3>1. job[p].op = "cp"
      BY <1>2, <2>2 DEF Flag
    <3>2. dir[to] \in Names
      BY <1>2, <1>4, <2>2, <3>1, JobIs DEF CallOf, Untouched, Base
    <3>3. m = inode[dir[to]].link
      BY <2>2 DEF Creates
    <3>4. dir'[to] = dir[to] /\ inode'[dir[to]] = inode[dir[to]] /\ m # None
      BY <1>4, <2>2, <3>2, FileCopyAssumption DEF Inodes
    <3>5. /\ dir'[to] # None /\ inode'[dir'[to]].link = m
          /\ dir'[m] = p /\ inode'[p].link = None /\ p # None
      <4>1. inode'[p].link = None
        BY <1>4, SMTT(40) DEF NewFile
      <4> QED
        BY <1>4, <2>2, <3>3, <3>4, <4>1
    <3>6. Resolve(to)' = LET i == dir'[m] IN IF i # None /\ inode'[i].link = None THEN i ELSE None
      BY <1>1, <3>4, <3>5 DEF Resolve, File
    <3> QED
      BY <3>5, <3>6
  <2> QED
    BY <2>1, <2>2, SMTT(40)
<1>8. perm'[p] = before.inode[Source(p)].perm /\ ifs'[p] = Source(p)
  BY <1>2 DEF CallOf
<1>9. inode'[p].perm = FirstPerm(p)
  <2>1. job[p].op = "cp" => Was(to) = None
    BY <1>2, <1>4 DEF CallOf, Untouched, Resolve, Was
  <2> QED
    BY <1>2, <1>4, <1>8, <2>1 DEF NewFile, FirstPerm
<1>10. pos'[p] \in 0 .. Len(Content(p)) /\ inode'[ofs'[p]].data = SubSeq(Content(p), 1, pos'[p])
  <2>1. Len(Content(p)) \in Nat
    BY <1>5, LenProperties DEF Contents
  <2>2. pos'[p] = 0 /\ inode'[ofs'[p]].data = <<>>
    BY <1>2, <1>4 DEF NewFile
  <2>3. SubSeq(Content(p), 1, pos'[p]) = <<>>
    BY <2>2, SubSeqEmpty
  <2> QED
    BY <2>1, <2>2, <2>3
<1>11. Copied(p, pos[p])'
  BY <1>4, <1>5, <1>7, <1>10 DEF Copied
<1>12. inode'[p].time = Now
  BY <1>4 DEF NewFile
<1> QED
  BY <1>2, <1>4, <1>6, <1>8, <1>9, <1>11, <1>12 DEF CallOf

(* The next chunk is written, and finally all are.                         *)
LEMMA CallCopies ==
  ASSUME Base, NEW p \in Procs, Busy(p), CallOf(p), Copy(p) \/ Close(p)
  PROVE  CallOf(p)'
<1>1. Step(p)
  BY DEF Step, Cpfile
<1> USE <1>1, CallFrame
<1>2. /\ pc[p] = "copy" /\ dir' = dir /\ perm' = perm /\ ifs' = ifs /\ ofs' = ofs
      /\ pos[p] \in Nat
  BY DEF Copy, Close, local, Base, TypeInv
<1>3. SourceKept(p) /\ Copied(p, pos[p]) /\ ifs[p] = Source(p)
  BY <1>2 DEF CallOf
<1>4. /\ Source(p) \in Names /\ Content(p) \in Contents /\ inode[ifs[p]].data = Content(p)
      /\ Len(Content(p)) \in Nat
  BY <1>3, CallSource, LenProperties DEF Content, Contents
<1>5. /\ ofs[p] \in Inodes \ {Source(p)} /\ Resolve(job[p].to) = ofs[p]
      /\ inode[ofs[p]].data = SubSeq(Content(p), 1, pos[p])
  BY <1>3 DEF Copied
<1>6. /\ perm[p] = before.inode[Source(p)].perm
      /\ inode[ofs[p]].perm = FirstPerm(p) /\ inode[ofs[p]].time = Now
  BY <1>2 DEF CallOf
<1>7. CASE Copy(p)
  <2>1. pos[p] < Len(Content(p)) /\ pos'[p] = pos[p] + 1 /\ pc' = pc
    BY <1>4, <1>7 DEF Copy, Base, TypeInv
  <2>2. /\ \A j \in Inodes : inode'[j].link = inode[j].link /\ (j # ofs[p] => inode'[j] = inode[j])
        /\ inode'[ofs[p]].data
             = WriteAt(inode[ofs[p]].data, pos[p], inode[ifs[p]].data[pos[p] + 1])
        /\ inode'[ofs[p]].time = Now /\ inode'[ofs[p]].perm = inode[ofs[p]].perm
    BY <1>7, CopyIs DEF Base
  <2>3. inode'[ofs[p]].data = SubSeq(Content(p), 1, pos[p] + 1)
    BY <1>2, <1>4, <1>5, <2>1, <2>2, WriteAtEnd
  <2>4. SourceKept(p)' /\ Resolve(job[p].to)' = Resolve(job[p].to)
    BY <1>2, <1>3, <1>4, <1>5, <2>2, CallKeeps
  <2>5. Copied(p, pos[p])'
    BY <1>2, <1>4, <1>5, <2>1, <2>3, <2>4 DEF Copied
  <2> QED
    BY <1>2, <1>3, <1>6, <2>1, <2>2, <2>4, <2>5 DEF CallOf
<1>8. CASE Close(p)
  <2>1. pos[p] >= Len(Content(p)) /\ pc'[p] = "chmod" /\ UNCHANGED <<dir, inode>>
    BY <1>4, <1>8 DEF Close, Go
  <2>2. pos[p] = Len(Content(p))
    BY <1>3, <1>4, <2>1 DEF Copied
  <2>3. Copied(p, Len(Content(p)))'
    BY <1>2, <1>3, <2>1, <2>2, CallLooks
  <2>4. SourceKept(p)'
    BY <1>3, <2>1, CallLooks
  <2> QED
    BY <1>2, <1>6, <2>1, <2>3, <2>4 DEF CallOf
<1> QED
  BY <1>7, <1>8

(* Permissions and times of the copy.                                      *)
LEMMA CallChmod ==
  ASSUME Base, NEW p \in Procs, Busy(p), CallOf(p), Chmod(p)
  PROVE  CallOf(p)'
<1>1. Step(p)
  BY DEF Step, Cpfile
<1> USE <1>1, CallFrame
<1>2. pc[p] = "chmod" /\ pc'[p] = "utimes" /\ dir' = dir /\ ofs' = ofs
  BY DEF Chmod, Go, local
<1>3. /\ SourceKept(p) /\ Copied(p, Len(Content(p))) /\ perm[p] = before.inode[Source(p)].perm
      /\ inode[ofs[p]].perm = FirstPerm(p) /\ inode[ofs[p]].time = Now
  BY <1>2 DEF CallOf
<1>4. ofs[p] \in Inodes \ {Source(p)} /\ Resolve(job[p].to) = ofs[p] /\ Source(p) \in Names
  BY <1>3, CallSource DEF Copied
<1>5. /\ \A j \in Inodes : inode'[j].link = inode[j].link /\ (j # ofs[p] => inode'[j] = inode[j])
      /\ inode'[ofs[p]].data = inode[ofs[p]].data /\ inode'[ofs[p]].time = inode[ofs[p]].time
  BY <1>4, ChmodIs DEF Base
<1>6. SourceKept(p)' /\ Resolve(job[p].to)' = Resolve(job[p].to)
  BY <1>2, <1>3, <1>4, <1>5, CallKeeps
<1>7. inode'[ofs[p]].perm = LastPerm(p)
  <2>1. CASE Flag(p, "overwrite_permissions")
    BY <1>3, <1>4, <2>1, ChmodIs DEF Base, LastPerm
  <2>2. CASE ~Flag(p, "overwrite_permissions")
    BY <1>3, <2>2, ChmodIs DEF Base, LastPerm
  <2> QED
    BY <2>1, <2>2
<1>8. Copied(p, Len(Content(p)))'
  BY <1>2, <1>3, <1>4, <1>5, <1>6 DEF Copied
<1>9. inode'[ofs[p]].time = Now
  BY <1>3, <1>4, <1>5
<1> QED
  BY <1>2, <1>6, <1>7, <1>8, <1>9 DEF CallOf

LEMMA CallTimes ==
  ASSUME Base, NEW p \in Procs, Busy(p), CallOf(p), Step(p), SourceKept(p),
         Copied(p, Len(Content(p))), CopyTimes(p), UNCHANGED <<dir, ofs>>
  PROVE  /\ SourceKept(p)' /\ Copied(p, Len(Content(p)))'
         /\ inode'[ofs[p]].perm = inode[ofs[p]].perm
         /\ inode'[ofs[p]].time = Timeval(before.inode[Source(p)].time)
<1> USE CallFrame
<1>1. /\ ofs[p] \in Inodes \ {Source(p)} /\ Resolve(job[p].to) = ofs[p] /\ Source(p) \in Names
      /\ Resolve(job[p].from) = Source(p) /\ inode[Source(p)] = before.inode[Source(p)]
  BY CallSource DEF Copied
<1>2. /\ \A j \in Inodes : inode'[j].link = inode[j].link /\ (j # ofs[p] => inode'[j] = inode[j])
      /\ inode'[ofs[p]].data = inode[ofs[p]].data
      /\ Resolve(job[p].from) # None
           => inode'[ofs[p]].time = Timeval(inode[Resolve(job[p].from)].time)
      /\ inode'[ofs[p]].perm = inode[ofs[p]].perm
  BY <1>1, CopyTimesSets DEF Base
<1>3. SourceKept(p)' /\ Resolve(job[p].to)' = Resolve(job[p].to)
  BY <1>1, <1>2, CallKeeps
<1>4. Copied(p, Len(Content(p)))'
  BY <1>1, <1>2, <1>3 DEF Copied
<1>5. Source(p) # None
  BY <1>1, FileCopyAssumption DEF Inodes
<1> QED
  BY <1>1, <1>2, <1>3, <1>4, <1>5

LEMMA CallUtimes ==
  ASSUME Base, NEW p \in Procs, Busy(p), CallOf(p), Utimes(p) \/ MoveTimes(p)
  PROVE  CallOf(p)'
<1>1. Step(p)
  BY DEF Step, Cpfile, Mventry
<1> USE <1>1, CallFrame
<1>2. pc[p] \in {"utimes", "times"} /\ UNCHANGED <<dir, ofs>>
  BY DEF Utimes, MoveTimes, local
<1>3. SourceKept(p) /\ Copied(p, Len(Content(p)))
  BY <1>2 DEF CallOf
<1>4. CASE Utimes(p)
  <2>1. /\ pc[p] = "utimes" /\ pc'[p] = IF job[p].op = "mv" THEN "times" ELSE "done"
        /\ inode[ofs[p]].perm = LastPerm(p) /\ inode[ofs[p]].time = Now
    BY <1>4 DEF Utimes, Go, CallOf
  <2>2. job[p].op = "cp" => (Flag(p, "copy_timestamps") <=> job[p].copy_timestamps)
    BY DEF Flag, Base, TypeInv, Calls
  <2>3. CASE Flag(p, "copy_timestamps")
    <3>1. CopyTimes(p)
      BY <1>4, <2>3 DEF Utimes
    <3>2. /\ SourceKept(p)' /\ Copied(p, Len(Content(p)))'
          /\ inode'[ofs[p]].perm = LastPerm(p)
          /\ inode'[ofs[p]].time = Timeval(before.inode[Source(p)].time)
      BY <1>2, <1>3, <2>1, <3>1, CallTimes
    <3> QED
      BY <1>2, <2>1, <2>2, <2>3, <3>2 DEF CallOf
  <2>4. CASE ~Flag(p, "copy_timestamps")
    <3>1. inode' = inode
      BY <1>4, <2>4 DEF Utimes
    <3>2. SourceKept(p)' /\ Copied(p, Len(Content(p)))'
      BY <1>2, <1>3, <3>1, CallLooks
    <3> QED
      BY <1>2, <2>1, <2>2, <2>4, <3>1, <3>2 DEF CallOf
  <2> QED
    BY <2>3, <2>4
<1>5. CASE MoveTimes(p)
  <2>1. pc[p] = "times" /\ pc'[p] = "remove" /\ CopyTimes(p)
    BY <1>5 DEF MoveTimes, Go
  <2>2. SourceKept(p)' /\ Copied(p, Len(Content(p)))'
    BY <1>2, <1>3, <2>1, CallTimes
  <2> QED
    BY <2>1, <2>2 DEF CallOf
<1> QED
  BY <1>4, <1>5

(* What is at the path n, be it a symlink, leads to the same file from the *)
(* path t.                                                                 *)
LEMMA FileMoved ==
  ASSUME NEW d \in [Names -> Inodes \cup {None}], NEW f \in [Inodes -> Files],
         NEW n \in Names, NEW t \in Names, n # t,
         File(d, f, n) # None, File(d, f, n) # File(d, f, t),
         NEW e \in [Names -> Inodes \cup {None}],
         e[t] = d[n], \A k \in Names \ {n, t} : e[k] = d[k]
  PROVE  File(e, f, t) = File(d, f, n)
<1>1. /\ e[t] = d[n] /\ \A k \in Names \ {n, t} : e[k] = d[k]
  OBVIOUS
<1>2. d[n] # None
  BY DEF File
<1>3. CASE f[d[n]].link = None
  BY <1>1, <1>2, <1>3 DEF File
<1>4. CASE f[d[n]].link # None
  <2> DEFINE m == f[d[n]].link
  <2>1. m \in Names
    BY <1>2, <1>4 DEF Files
  <2>2. File(d, f, n) = d[m] /\ f[d[m]].link = None /\ d[m] # None
    BY <1>2, <1>4 DEF File
  <2>3. File(e, f, t) = LET i == e[m] IN IF i # None /\ f[i].link = None THEN i ELSE None
    BY <1>1, <1>2, <1>4 DEF File
  <2>4. m # n
    BY <1>4, <2>2
  <2>5. m # t
    <3>1. ASSUME m = t PROVE File(d, f, t) = d[m]
      BY <2>2, <3>1 DEF File
    <3> QED
      BY <2>2, <3>1
  <2> HIDE DEF m
  <2>6. e[m] = d[m]
    BY <1>1, <2>1, <2>4, <2>5
  <2> QED
    BY <1>2, <2>2, <2>3, <2>6
<1> QED
  BY <1>2, <1>3, <1>4

(* rename() takes what is at the path along.                               *)
LEMMA CallRename ==
  ASSUME Base, NEW p \in Procs, Busy(p), CallOf(p), Rename(p)
  PROVE  CallOf(p)'
<1>1. Step(p)
  BY DEF Step, Mventry
<1> DEFINE from == job[p].from
           to == job[p].to
<1>2. pc[p] = "rename" /\ pc'[p] = "done" /\ inode' = inode
  BY <1>1, CallFrame DEF Rename, Go, local
<1>3. dir = before.dir /\ inode = before.inode /\ SourceKept(p) /\ job[p].op = "mv"
  BY <1>2 DEF CallOf, Untouched, Control, ControlOf, Busy, Base, TypeInv, Calls
<1>4. /\ from \in Names /\ to \in Names /\ from # to
      /\ dir \in [Names -> Inodes \cup {None}] /\ inode \in [Inodes -> Files]
  BY <1>3, CallSource, JobIs DEF Base, TypeInv
<1>5. Source(p) = File(dir, inode, from) /\ Source(p) # File(dir, inode, to) /\ Source(p) # None
  BY <1>3 DEF Busy, Different, Source, Was
<1>6. dir' = IF dir[from] = dir[to] THEN dir ELSE [dir EXCEPT ![to] = dir[from], ![from] = None]
  BY DEF Rename
<1> HIDE DEF from, to
<1>7. dir[from] # dir[to]
  BY <1>5 DEF File
<1>8. /\ dir' \in [Names -> Inodes \cup {None}]
      /\ dir'[from] = None /\ dir'[to] = dir[from] /\ \A k \in Names \ {from, to} : dir'[k] = dir[k]
  BY <1>4, <1>6, <1>7
<1>9. dir'[from] = None /\ File(dir', inode, to) = Source(p)
  BY <1>4, <1>5, <1>8, FileMoved
<1> USE <1>1, CallFrame DEF from, to
<1>10. Resolve(to)' = Source(p)
  BY <1>2, <1>9 DEF Resolve
<1>11. HasSource(p, to)'
  BY <1>2, <1>3, <1>5, <1>10 DEF HasSource, Source
<1> QED
  BY <1>2, <1>3, <1>9, <1>11 DEF CallOf

(* Neither path leads through the other.                                   *)
LEMMA FileWithout ==
  ASSUME NEW d \in [Names -> Inodes \cup {None}], NEW f \in [Inodes -> Files],
         NEW n \in Names, NEW t \in Names, n # t, File(d, f, n) # None, d[t] # File(d, f, n)
  PROVE  File([d EXCEPT ![t] = None], f, n) = File(d, f, n)
<1> DEFINE e == [d EXCEPT ![t] = None]
<1>1. e[n] = d[n] /\ d[n] # None
  BY DEF File
<1>2. CASE f[d[n]].link = None
  BY <1>1, <1>2 DEF File
<1>3. CASE f[d[n]].link # None
  <2> DEFINE m == f[d[n]].link
  <2>1. m \in Names
    BY <1>1, <1>3 DEF Files
  <2>2. File(d, f, n) = d[m] /\ f[d[m]].link = None /\ d[m] # None
    BY <1>1, <1>3 DEF File
  <2>3. e[m] = d[m]
    BY <2>1, <2>2
  <2>4. File(e, f, n) = LET i == e[m] IN IF i # None /\ f[i].link = None THEN i ELSE None
    BY <1>1, <1>3 DEF File
  <2> HIDE DEF e, m
  <2>5. File(e, f, n) = File(d, f, n)
    BY <2>2, <2>3, <2>4
  <2> QED
    BY <2>5 DEF e
<1> QED
  BY <1>2, <1>3

LEMMA CallUnlinks ==
  ASSUME Base, NEW p \in Procs, Busy(p), CallOf(p), UnlinkDestination(p) \/ Cleanup(p)
  PROVE  CallOf(p)'
<1>1. Step(p)
  BY DEF Step, Mventry
<1> USE <1>1, CallFrame
<1>2. pc[p] \in {"unlink", "throw"} /\ inode' = inode /\ ofs' = ofs
  BY DEF UnlinkDestination, Cleanup, local
<1>3. SourceKept(p) /\ job[p].from \in Names /\ job[p].to \in Names
  BY <1>2, JobIs DEF CallOf, Base
<1>4. /\ (pc[p] = "unlink" /\ pc'[p] = "permissions") \/ (pc[p] = "throw" /\ pc'[p] = "failed")
      /\ dir' = [dir EXCEPT ![job[p].to] = None]
  BY DEF UnlinkDestination, Cleanup, Unlink, Go
<1>5. SourceKept(p)' /\ dir'[job[p].to] = None
  BY <1>2, <1>3, <1>4 DEF SourceKept, Base, TypeInv
<1>6. pc[p] = "unlink" => job[p].op = "mv" /\ inode' = before.inode
  BY <1>2 DEF CallOf, Untouched, ControlOf, Busy, Base, TypeInv, Calls
<1> QED
  BY <1>4, <1>5, <1>6 DEF CallOf

LEMMA CallRemoves ==
  ASSUME Base, NEW p \in Procs, Busy(p), CallOf(p), RemoveSource(p)
  PROVE  CallOf(p)'
<1> DEFINE from == job[p].from
           to == job[p].to
<1>1. Step(p)
  BY DEF Step, Mventry
<1>2. /\ pc[p] = "remove" /\ pc'[p] = "done" /\ inode' = inode /\ ofs' = ofs
      /\ dir' = [dir EXCEPT ![from] = None]
  BY <1>1, CallFrame DEF RemoveSource, Unlink, Go, local
<1>3. job[p].op = "mv" /\ SourceKept(p) /\ Copied(p, Len(Content(p)))
  BY <1>1, <1>2, CallFrame DEF CallOf, ControlOf, Busy, Base, TypeInv, Calls
<1>4. /\ from \in Names /\ to \in Names /\ from # to
      /\ Resolve(from) = Source(p) /\ Content(p) \in Contents
  BY <1>3, CallSource, JobIs DEF Base
<1>5. /\ Resolve(to) = ofs[p] /\ ofs[p] # Source(p) /\ ofs[p] # None
      /\ dir \in [Names -> Inodes \cup {None}] /\ inode \in [Inodes -> Files]
  BY <1>3, FileCopyAssumption DEF Copied, Base, TypeInv
<1>6. inode[ofs[p]].data = Content(p)
  BY <1>3, <1>4, SubSeqFull DEF Copied, Contents
<1>7. inode[ofs[p]].link = None
  <2>1. TypeInv /\ Resolve(to) # None
    BY <1>5 DEF Base
  <2>2. inode[Resolve(to)].link = None
    BY <1>4, <2>1, ResolveIs
  <2> QED
    BY <1>5, <2>2
<1>8. dir[from] # ofs[p]
  <2>1. ASSUME dir[from] = ofs[p] PROVE Resolve(from) = ofs[p]
    BY <1>5, <1>7, <2>1 DEF Resolve, File
  <2> QED
    BY <1>4, <1>5, <2>1, SMTT(40)
<1>9. Resolve(to)' = ofs[p]
  <2>1. job' = job
    BY <1>1, CallFrame
  <2>2. File(dir, inode, to) = ofs[p]
    BY <1>5 DEF Resolve
  <2> HIDE DEF from, to
  <2>3. File([dir EXCEPT ![from] = None], inode, to) = ofs[p]
    BY <1>4, <1>5, <1>8, <2>2, FileWithout
  <2> QED
    BY <1>2, <2>1, <2>3 DEF Resolve, to
<1>10. HasSource(p, to)'
  BY <1>1, <1>2, <1>5, <1>6, <1>9, CallFrame DEF HasSource, Content, Source
<1>11. dir'[from] = None
  BY <1>2, <1>4, <1>5
<1> QED
  BY <1>1, <1>2, <1>3, <1>10, <1>11, CallFrame DEF CallOf

LEMMA CallStep ==
  ASSUME Base, NEW p \in Procs, CallInv(p), NEW q \in Procs, Step(q)
  PROVE  CallInv(p)'
<1>1. SUFFICES ASSUME Busy(p) PROVE CallOf(p)'
  BY CallFrame, Frame DEF CallInv, Base, Busy, Alone, Different, Was
<1>2. q = p /\ CallOf(p)
  BY <1>1, AloneStep DEF CallInv, Busy
<1>3. CASE OpenDestination(p)
  BY <1>1, <1>2, <1>3, OpenIs, JobIs, CallTruncates, CallCreates DEF OpenDestination, Base
<1> QED
  BY <1>1, <1>2, <1>3, CallReads, CallEnds, CallCopies, CallChmod, CallUtimes, CallRename,
    CallUnlinks, CallRemoves DEF Step, Cpfile, Mventry

-----------------------------------------------------------------------------
(* The invariant and what follows from it. *)

LEMMA InitInv == Init => IInv
<1> SUFFICES ASSUME Init PROVE IInv
  OBVIOUS
<1>1. PICK s \in Starts : dir = s.dir /\ inode = s.inode /\ before = s
  BY DEF Init
<1>2. s \in [dir : [Names -> Names \cup {None}], inode : [Inodes -> Files]]
  BY FileCopyAssumption
<1>3. job \in [Procs -> Calls]
  BY FileCopyAssumption DEF Init
<1>4. pc = [p \in Procs |->
        CASE job[p].op = "cp" -> "permissions" [] job[p].op = "mv" -> "exists" [] OTHER -> "done"]
  BY DEF Init
<1>5. ASSUME NEW p \in Procs
      PROVE  /\ job[p].op = "cp" => pc[p] = "permissions"
             /\ job[p].op = "mv" => pc[p] = "exists"
             /\ job[p].op = "none" => pc[p] = "done"
             /\ job[p].op \in {"cp", "mv", "none"}
  BY <1>3, <1>4 DEF Calls
<1>6. TypeInv
  <2>1. dir \in [Names -> Inodes \cup {None}] /\ inode \in [Inodes -> Files]
        /\ before \in [dir : [Names -> Names \cup {None}], inode : [Inodes -> Files]]
    BY <1>1, <1>2 DEF Inodes
  <2>2. pc \in [Procs -> Steps]
    BY <1>4 DEF Steps
  <2> QED
    BY <1>3, <2>1, <2>2 DEF Init, TypeInv
<1>7. Base
  <2>1. Control
    BY <1>3, <1>5 DEF Init, Control, ControlOf, Calls
  <2>2. Links
    BY <1>1 DEF Links
  <2> QED
    BY <1>6, <2>1, <2>2 DEF Base
<1>8. Untouched
  BY <1>1 DEF Untouched
<1>9. RaceInv
  <2> SUFFICES ASSUME Race PROVE Preserved /\ \A p \in Procs : RaceOf(p)
    BY DEF RaceInv
  <2>1. Preserved
    BY <1>8 DEF Preserved, Untouched
  <2>2. \A p \in Procs : pc[p] = "permissions"
    BY <1>5 DEF Race
  <2> QED
    BY <2>1, <2>2 DEF RaceOf
<1>10. ASSUME NEW p \in Procs PROVE CallInv(p)
  <2>1. SUFFICES ASSUME Busy(p) PROVE CallOf(p)
    BY DEF CallInv
  <2>2. pc[p] \in {"permissions", "exists"} /\ (job[p].op = "mv" => pc[p] = "exists")
    BY <1>3, <1>5, <2>1 DEF Busy, Calls
  <2>3. SourceKept(p) /\ inode = before.inode
    BY <1>8 DEF SourceKept, Untouched
  <2> QED
    BY <1>8, <2>2, <2>3 DEF CallOf
<1>11. ASSUME NEW p \in Procs PROVE OldInv(p)
  <2>1. Refuses(p) => pc[p] \in {"permissions", "exists"}
    BY <1>3, <1>5 DEF Refuses, Calls
  <2> QED
    BY <1>8, <2>1 DEF OldInv
<1> QED
  BY <1>7, <1>9, <1>10, <1>11 DEF IInv

LEMMA NextInv == IInv /\ [Next]_vars => IInv'
<1> SUFFICES ASSUME IInv, [Next]_vars PROVE IInv'
  OBVIOUS
<1>1. ASSUME NEW p \in Procs, Step(p) PROVE IInv'
  BY <1>1, BaseStep, RaceStep, CallStep, OldStep DEF IInv
<1>2. ASSUME UNCHANGED vars PROVE IInv'
  <2> USE <1>2 DEF vars
  <2>1. Base'
    BY DEF IInv, Base, TypeInv, Control, ControlOf, Links
  <2>2. RaceInv'
    <3>1. Race' = Race /\ Preserved' = Preserved
      BY DEF Race, Preserved
    <3>2. ASSUME NEW p \in Procs PROVE RaceOf(p)' = RaceOf(p)
      BY DEF RaceOf, Source, Content, Was
    <3> QED
      BY <3>1, <3>2 DEF IInv, RaceInv
  <2>3. ASSUME NEW p \in Procs PROVE CallInv(p)'
    <3>1. Busy(p)' = Busy(p)
      BY DEF Busy, Alone, Different, Was
    <3>2. /\ Untouched' = Untouched /\ SourceKept(p)' = SourceKept(p)
          /\ Source(p)' = Source(p) /\ Content(p)' = Content(p)
          /\ FirstPerm(p)' = FirstPerm(p) /\ LastPerm(p)' = LastPerm(p)
      BY DEF Untouched, SourceKept, Source, Content, Was, FirstPerm, LastPerm, Flag
    <3>3. \A n : Copied(p, n)' = Copied(p, n)
      BY <3>2 DEF Copied, Resolve
    <3>4. HasSource(p, job[p].to)' = HasSource(p, job[p].to)
      BY DEF HasSource, Resolve, Was
    <3>5. CallOf(p)' = CallOf(p)
      BY <3>2, <3>3, <3>4 DEF CallOf
    <3> QED
      BY <3>1, <3>5 DEF IInv, CallInv
  <2>4. ASSUME NEW p \in Procs PROVE OldInv(p)'
    BY DEF IInv, OldInv, Refuses, Alone, Untouched
  <2> QED
    BY <2>1, <2>2, <2>3, <2>4 DEF IInv
<1> QED
  BY <1>1, <1>2 DEF Next, Step, AllDone

(* The inductive invariant, of any number of processes at once.            *)
THEOREM Invariant == Spec => []IInv
BY InitInv, NextInv, PTL DEF Spec

(* Neither call touches what is already at the destination, unless it was  *)
(* told to overwrite it, wherever it fails or the process ends: Exists()   *)
(* and fdopen_mode::exclusive refuse before anything is written, and the   *)
(* auto_rmfile is not active before the destination has been created.      *)
THEOREM OldFilesKept == Spec => []OldKept
<1>1. IInv => OldKept
  BY DEF IInv, OldKept, OldInv, Refuses, Untouched
<1> QED
  BY <1>1, Invariant, PTL

(* mventry() never loses the content, between any two of its system calls. *)
THEOREM MoveNeverLoses == Spec => []MoveKeeps
<1>1. IInv => MoveKeeps
  <2> SUFFICES ASSUME IInv, NEW p \in Procs, job[p].op = "mv", Alone(p), Different(p)
               PROVE  /\ HasSource(p, job[p].from) \/ HasSource(p, job[p].to)
                      /\ pc[p] = "done" => HasSource(p, job[p].to) /\ dir[job[p].from] = None
    BY DEF MoveKeeps
  <2>1. Base /\ Busy(p) /\ CallOf(p)
    BY DEF IInv, CallInv, Busy
  <2>2. CASE pc[p] = "done"
    BY <2>1, <2>2 DEF CallOf
  <2>3. CASE pc[p] # "done"
    <3>1. SourceKept(p)
      BY <2>1, <2>3 DEF CallOf
    <3>2. Resolve(job[p].from) = Source(p) /\ Source(p) # None
      BY <2>1, <3>1, CallSource, FileCopyAssumption DEF Inodes
    <3> QED
      BY <2>1, <2>3, <3>1, <3>2, CallSource DEF HasSource, Source
  <2> QED
    BY <2>2, <2>3
<1> QED
  BY <1>1, Invariant, PTL

(* cpfile() makes the copy it promises, or leaves the destination alone or *)
(* removes it.                                                             *)
THEOREM CopyDoneOrUndone == Spec => []CopyOutcome
<1>1. IInv => CopyOutcome
  <2> SUFFICES ASSUME IInv, NEW p \in Procs, job[p].op = "cp", Alone(p), Different(p)
               PROVE
        LET to == job[p].to
            source == before.inode[Was(job[p].from)]
        IN
          /\ pc[p] = "done" =>
               LET copy == inode[Resolve(to)] IN
                 /\ HasSource(p, to)
                 /\ copy.perm = CASE job[p].overwrite_permissions -> source.perm
                                  [] ~job[p].overwrite_permissions /\ Was(to) # None ->
                                       before.inode[Was(to)].perm
                                  [] OTHER -> source.perm \ Umask
                 /\ copy.time = IF job[p].copy_timestamps THEN Timeval(source.time) ELSE Now
          /\ pc[p] = "failed" /\ ~Symlink(to) =>
               \/ dir[to] = None
               \/ dir[to] = before.dir[to] /\ inode[dir[to]] = before.inode[dir[to]]
    BY DEF CopyOutcome
  <2>1. Base /\ Busy(p) /\ CallOf(p)
    BY DEF IInv, CallInv, Busy
  <2>2. pc[p] = "failed" => Untouched \/ dir[job[p].to] = None
    BY <2>1 DEF CallOf
  <2>3. ASSUME pc[p] = "done"
        PROVE  /\ HasSource(p, job[p].to)
               /\ inode[Resolve(job[p].to)].perm = LastPerm(p)
               /\ inode[Resolve(job[p].to)].time =
                    IF job[p].copy_timestamps THEN Timeval(before.inode[Source(p)].time) ELSE Now
    <3>1. /\ SourceKept(p) /\ Copied(p, Len(Content(p))) /\ inode[ofs[p]].perm = LastPerm(p)
          /\ inode[ofs[p]].time =
               IF job[p].copy_timestamps THEN Timeval(before.inode[Source(p)].time) ELSE Now
      BY <2>1, <2>3 DEF CallOf
    <3>2. /\ Resolve(job[p].to) = ofs[p] /\ ofs[p] \in Inodes
          /\ inode[ofs[p]].data = SubSeq(Content(p), 1, Len(Content(p)))
      BY <3>1 DEF Copied
    <3>3. inode[ofs[p]].data = Content(p)
      BY <2>1, <3>1, <3>2, CallSource, SubSeqFull, SMTT(40) DEF Contents
    <3>4. HasSource(p, job[p].to)
      BY <3>2, <3>3, FileCopyAssumption DEF HasSource, Content, Source
    <3> QED
      BY <3>1, <3>2, <3>4
  <2>4. /\ Flag(p, "overwrite_permissions") = job[p].overwrite_permissions
        /\ job[p].overwrite_permissions \in BOOLEAN
    BY <2>1 DEF Flag, Base, TypeInv, Calls
  <2>5. LastPerm(p) = CASE job[p].overwrite_permissions -> before.inode[Source(p)].perm
                        [] ~job[p].overwrite_permissions /\ Was(job[p].to) # None ->
                             before.inode[Was(job[p].to)].perm
                        [] OTHER -> before.inode[Source(p)].perm \ Umask
    BY <2>4 DEF LastPerm, FirstPerm
  <2> QED
    BY <2>2, <2>3, <2>5 DEF Untouched, Source
<1> QED
  BY <1>1, Invariant, PTL

(* Of any number of processes that copy to the same path without           *)
(* overwriting, at any speed, with any of them failing or crashing         *)
(* anywhere, the one that returns has made a complete copy that stays.     *)
THEOREM WinnerKept == Spec => []WinnerKeeps
<1>1. IInv => WinnerKeeps
  <2> SUFFICES ASSUME IInv, Race, NEW p \in Procs, pc[p] = "done", Was(job[p].from) # None
               PROVE  HasSource(p, job[p].to)
    BY DEF WinnerKeeps
  <2>1. Resolve(job[p].to) = p /\ p \in Inodes
    BY RaceOwn DEF IInv
  <2>2. inode[p].data = Content(p)
    BY DEF IInv, RaceInv, RaceOf, Source
  <2> QED
    BY <2>1, <2>2, FileCopyAssumption DEF HasSource, Content, Source
<1> QED
  BY <1>1, Invariant, PTL
=============================================================================
