------------------------------ MODULE FileCopy ------------------------------
(***************************************************************************)
(* Copying and moving files (cpfile(), mventry() and auto_rmfile of        *)
(* libbutl/filesystem.hxx, POSIX).                                         *)
(*                                                                         *)
(* Both are sequences of system calls on paths.  Any of the calls can fail *)
(* and is then followed by an exception, which removes the destination     *)
(* while the auto_rmfile is active; the process can also just end between  *)
(* two of them.  Other processes use the same names at the same time.      *)
(***************************************************************************)
EXTENDS Integers, Sequences

CONSTANTS
  Procs,    \* processes, each of which makes one call
  Names,    \* paths
  None,     \* no entry, no file
  Chunks,   \* pieces of content as large as the buffers of the streams
  Hole,     \* what a file reads as where nothing was written
  Bits,     \* permissions
  Umask,    \* those that newly created files do not get
  Device,   \* the file system of each path
  Now,      \* the modification time of what is written during the calls
  Jobs,     \* what the processes may do: functions from Procs
  Starts    \* file systems to start from: records of dir and inode

(* An inode is named by the path it was at, or by the process that created *)
(* it.                                                                     *)
Inodes == Names \cup Procs

(* A symlink has a target, the rest of the record is about files.          *)
Files == [link : Names \cup {None}, data : Seq(Chunks \cup {Hole}), perm : SUBSET Bits, time : Nat]

(* op is "cp", "mv" or "none"; the others are cpflags.                     *)
Calls == [op : {"cp", "mv", "none"}, from : Names, to : Names,
          overwrite_content : BOOLEAN, overwrite_permissions : BOOLEAN,
          copy_timestamps : BOOLEAN]

ASSUME FileCopyAssumption ==
  /\ Names \cap Procs = {} /\ None \notin Inodes
  /\ Umask \subseteq Bits
  /\ Now \in Nat
  /\ Jobs \subseteq [Procs -> Calls]
  /\ Starts \subseteq [dir : [Names -> Names \cup {None}], inode : [Inodes -> Files]]

VARIABLES
  dir,     \* the inode at each path
  inode,   \* the content of the file system
  job,     \* the call of each process
  pc,      \* its next system call
  perm,    \* the local variables of cpfile(): perm,
  ifs,     \*   the file ifs reads,
  ofs,     \*   the file ofs writes,
  pos,     \*   how much has been copied,
  rm,      \*   whether the auto_rmfile is active
  before   \* history: the file system at the beginning

local == <<perm, ifs, ofs, pos, rm>>
vars == <<dir, inode, job, pc, perm, ifs, ofs, pos, rm, before>>

Go(p, at) == pc' = [pc EXCEPT ![p] = at]

(* The file that stat() or open() of n find, in a file system d, f.        *)
File(d, f, n) ==
  IF d[n] = None \/ f[d[n]].link = None THEN d[n]
  ELSE LET i == d[f[d[n]].link] IN IF i # None /\ f[i].link = None THEN i ELSE None

Resolve(n) == File(dir, inode, n)

(* mventry() calls cpfile() with cpflags::none. *)
Flag(p, flag) == job[p].op = "cp" /\ job[p][flag]

-----------------------------------------------------------------------------
(* cpfile() *)

(* path_permissions(from). *)
Permissions(p) ==
  /\ pc[p] = "permissions" /\ Resolve(job[p].from) # None
  /\ perm' = [perm EXCEPT ![p] = inode[Resolve(job[p].from)].perm]
  /\ Go(p, "source")
  /\ UNCHANGED <<dir, inode, job, ifs, ofs, pos, rm, before>>

(* Fault: the auto_rmfile is active before the destination is opened. *)
OpenSourceArmed(p) ==
  /\ pc[p] = "source" /\ Resolve(job[p].from) # None
  /\ ifs' = [ifs EXCEPT ![p] = Resolve(job[p].from)]
  /\ rm' = [rm EXCEPT ![p] = TRUE]
  /\ Go(p, "destination")
  /\ UNCHANGED <<dir, inode, job, perm, ofs, pos, before>>

OpenSource(p) ==
  /\ pc[p] = "source" /\ Resolve(job[p].from) # None
  /\ ifs' = [ifs EXCEPT ![p] = Resolve(job[p].from)]
  /\ Go(p, "destination")
  /\ UNCHANGED <<dir, inode, job, perm, ofs, pos, rm, before>>

(* fdopen() with O_TRUNC and O_CREAT: where the path leads to no file, it  *)
(* makes one there, at the target of a dangling symlink.                   *)
Open(p, n) ==
  LET i == Resolve(n)
      at == IF dir[n] = None THEN n ELSE inode[dir[n]].link
  IN
    \/ /\ i # None
       /\ inode' = [inode EXCEPT ![i].data = <<>>, ![i].time = Now]
       /\ ofs' = [ofs EXCEPT ![p] = i]
       /\ UNCHANGED dir
    \/ /\ i = None /\ dir[at] = None
       /\ dir' = [dir EXCEPT ![at] = p]
       /\ inode' = [inode EXCEPT
            ![p] = [link |-> None, data |-> <<>>, perm |-> perm[p] \ Umask, time |-> Now]]
       /\ ofs' = [ofs EXCEPT ![p] = p]

(* Fault: the destination is opened without fdopen_mode::exclusive. *)
OpenDestinationShared(p) ==
  /\ pc[p] = "destination"
  /\ Open(p, job[p].to)
  /\ rm' = [rm EXCEPT ![p] = TRUE]
  /\ Go(p, "copy")
  /\ UNCHANGED <<job, perm, ifs, pos, before>>

(* Fault: nothing is removed when the copying fails. *)
OpenDestinationUnarmed(p) ==
  /\ pc[p] = "destination"
  /\ Flag(p, "overwrite_content") \/ dir[job[p].to] = None
  /\ Open(p, job[p].to)
  /\ Go(p, "copy")
  /\ UNCHANGED <<job, perm, ifs, pos, rm, before>>

(* The file is new unless overwrite_content is set; it is removed again if *)
(* anything fails from here on.                                            *)
OpenDestination(p) ==
  /\ pc[p] = "destination"
  /\ Flag(p, "overwrite_content") \/ dir[job[p].to] = None
  /\ Open(p, job[p].to)
  /\ rm' = [rm EXCEPT ![p] = TRUE]
  /\ Go(p, "copy")
  /\ UNCHANGED <<job, perm, ifs, pos, before>>

(* The content s after a write of c at the offset n. *)
WriteAt(s, n, c) ==
  [k \in 1 .. (IF Len(s) > n THEN Len(s) ELSE n + 1) |->
     IF k = n + 1 THEN c ELSE IF k <= Len(s) THEN s[k] ELSE Hole]

(* ofs << ifs.rdbuf(): reads a buffer and writes it, until EOF. *)
Copy(p) ==
  /\ pc[p] = "copy" /\ pos[p] < Len(inode[ifs[p]].data)
  /\ inode' = [inode EXCEPT
       ![ofs[p]].data = WriteAt(@, pos[p], inode[ifs[p]].data[pos[p] + 1]), ![ofs[p]].time = Now]
  /\ pos' = [pos EXCEPT ![p] = @ + 1]
  /\ UNCHANGED <<dir, job, pc, perm, ifs, ofs, rm, before>>

(* The streams are closed. *)
Close(p) ==
  /\ pc[p] = "copy" /\ pos[p] >= Len(inode[ifs[p]].data)
  /\ Go(p, "chmod")
  /\ UNCHANGED <<dir, inode, job, local, before>>

(* path_permissions(to, perm): by the path, not the open file. *)
Chmod(p) ==
  /\ pc[p] = "chmod"
  /\ IF Flag(p, "overwrite_permissions")
     THEN /\ Resolve(job[p].to) # None
          /\ inode' = [inode EXCEPT ![Resolve(job[p].to)].perm = perm[p]]
     ELSE UNCHANGED inode
  /\ Go(p, "utimes")
  /\ UNCHANGED <<dir, job, local, before>>

(* struct timeval has no nanoseconds: the last digit of a time is lost. *)
Timeval(t) == t - (t % 10)

(* file_time(to, file_time(from)); a source that does not exist any more   *)
(* has no times, and the destination keeps its own.                        *)
CopyTimes(p) ==
  LET from == Resolve(job[p].from)
      to == Resolve(job[p].to)
  IN
    /\ to # None
    /\ inode' = [inode EXCEPT
         ![to].time = Timeval(inode[IF from = None THEN to ELSE from].time)]

(* The end of cpfile(): after the times, if wanted, rm.cancel(). *)
Utimes(p) ==
  /\ pc[p] = "utimes"
  /\ IF Flag(p, "copy_timestamps") THEN CopyTimes(p) ELSE UNCHANGED inode
  /\ rm' = [rm EXCEPT ![p] = FALSE]
  /\ Go(p, IF job[p].op = "mv" THEN "times" ELSE "done")
  /\ UNCHANGED <<dir, job, perm, ifs, ofs, pos, before>>

-----------------------------------------------------------------------------
(* mventry() *)

Exists(p) ==
  /\ pc[p] = "exists" /\ (job[p].overwrite_content \/ dir[job[p].to] = None)
  /\ Go(p, "rename")
  /\ UNCHANGED <<dir, inode, job, local, before>>

(* rename() does nothing with two links to the same file. *)
Rename(p) ==
  LET from == job[p].from
      to == job[p].to
  IN
    /\ pc[p] = "rename" /\ dir[from] # None /\ Device[from] = Device[to]
    /\ dir' = IF dir[from] = dir[to] THEN dir
              ELSE [dir EXCEPT ![to] = dir[from], ![from] = None]
    /\ Go(p, "done")
    /\ UNCHANGED <<inode, job, local, before>>

(* EXDEV *)
Fallback(p) ==
  /\ pc[p] = "rename" /\ dir[job[p].from] # None
  /\ Device[job[p].from] # Device[job[p].to]
  /\ Go(p, "unlink")
  /\ UNCHANGED <<dir, inode, job, local, before>>

(* Unlink n; there may be nothing to unlink. *)
Unlink(n) == dir' = [dir EXCEPT ![n] = None]

UnlinkDestination(p) ==
  /\ pc[p] = "unlink"
  /\ Unlink(job[p].to)
  /\ Go(p, "permissions")
  /\ UNCHANGED <<inode, job, local, before>>

MoveTimes(p) ==
  /\ pc[p] = "times"
  /\ CopyTimes(p)
  /\ Go(p, "remove")
  /\ UNCHANGED <<dir, job, local, before>>

RemoveSource(p) ==
  /\ pc[p] = "remove"
  /\ Unlink(job[p].from)
  /\ Go(p, "done")
  /\ UNCHANGED <<inode, job, local, before>>

-----------------------------------------------------------------------------
Running(p) == pc[p] \notin {"done", "failed", "crashed", "throw"}

(* Fault: a failed write leaves a state bit, and nobody looks at it. *)
ErrorIgnored(p) ==
  /\ Running(p)
  /\ Go(p, CASE pc[p] = "copy" -> "chmod" [] pc[p] # "copy" /\ rm[p] -> "throw" [] OTHER -> "failed")
  /\ UNCHANGED <<dir, inode, job, local, before>>

(* A system call fails, be it because of the guard of its action. *)
Error(p) ==
  /\ Running(p)
  /\ Go(p, IF rm[p] THEN "throw" ELSE "failed")
  /\ UNCHANGED <<dir, inode, job, local, before>>

(* ~auto_rmfile() *)
Cleanup(p) ==
  /\ pc[p] = "throw"
  /\ Unlink(job[p].to)
  /\ Go(p, "failed")
  /\ UNCHANGED <<inode, job, local, before>>

(* The process ends between two calls. *)
Crash(p) ==
  /\ Running(p) \/ pc[p] = "throw"
  /\ Go(p, "crashed")
  /\ UNCHANGED <<dir, inode, job, local, before>>

-----------------------------------------------------------------------------
Init ==
  /\ \E s \in Starts : dir = s.dir /\ inode = s.inode /\ before = s
  /\ job \in Jobs
  /\ pc = [p \in Procs |->
       CASE job[p].op = "cp" -> "permissions" [] job[p].op = "mv" -> "exists" [] OTHER -> "done"]
  /\ perm = [p \in Procs |-> {}]
  /\ ifs = [p \in Procs |-> None]
  /\ ofs = [p \in Procs |-> None]
  /\ pos = [p \in Procs |-> 0]
  /\ rm = [p \in Procs |-> FALSE]

Cpfile(p) ==
  \/ Permissions(p) \/ OpenSource(p) \/ OpenDestination(p) \/ Copy(p) \/ Close(p)
  \/ Chmod(p) \/ Utimes(p)

Mventry(p) ==
  \/ Exists(p) \/ Rename(p) \/ Fallback(p) \/ UnlinkDestination(p)
  \/ MoveTimes(p) \/ RemoveSource(p)

AllDone ==
  /\ \A p \in Procs : pc[p] \in {"done", "failed", "crashed"}
  /\ UNCHANGED vars

Next ==
  \/ \E p \in Procs : Cpfile(p) \/ Mventry(p) \/ Error(p) \/ Cleanup(p) \/ Crash(p)
  \/ AllDone

Spec == Init /\ [][Next]_vars

-----------------------------------------------------------------------------
(* Nobody else uses the file system. *)
Alone(p) == \A q \in Procs \ {p} : job[q].op = "none"

(* The file at the path n at the beginning. *)
Was(n) == File(before.dir, before.inode, n)

(* The content of the source of p is at the path n. *)
HasSource(p, n) ==
  Resolve(n) # None /\ inode[Resolve(n)].data = before.inode[Was(job[p].from)].data

(* The source and the destination of p are different files. *)
Different(p) == Was(job[p].from) # None /\ Was(job[p].from) # Was(job[p].to)

(* mventry(), whichever of its calls fails and wherever the process        *)
(* crashes, never loses the content of the source: it is complete at one   *)
(* of the two paths at every moment, and at the destination once mventry() *)
(* has returned.                                                           *)
MoveKeeps ==
  \A p \in Procs : job[p].op = "mv" /\ Alone(p) /\ Different(p) =>
    /\ HasSource(p, job[p].from) \/ HasSource(p, job[p].to)
    /\ pc[p] = "done" => HasSource(p, job[p].to) /\ dir[job[p].from] = None

(* What a symlink points to is not what is at the path itself. *)
Symlink(n) == before.dir[n] # None /\ before.inode[before.dir[n]].link # None

(* cpfile() of one file to another either returns and has made the copy it *)
(* promises, or throws and has left the destination alone or removed it.   *)
CopyOutcome ==
  \A p \in Procs :
    LET to == job[p].to
        source == before.inode[Was(job[p].from)]
    IN
      job[p].op = "cp" /\ Alone(p) /\ Different(p) =>
        /\ pc[p] = "done" =>
             LET copy == inode[Resolve(to)] IN
               /\ HasSource(p, to)
               /\ copy.perm = CASE job[p].overwrite_permissions -> source.perm
                                [] ~job[p].overwrite_permissions /\ Was(to) # None ->
                                     before.inode[Was(to)].perm
                                [] OTHER -> source.perm \ Umask
               /\ copy.time = IF job[p].copy_timestamps THEN Timeval(source.time) ELSE Now
        /\ pc[p] = "failed" /\ ~Symlink(to) =>
             \/ dir[to] = None
             \/ dir[to] = before.dir[to] /\ inode[dir[to]] = before.inode[dir[to]]

(* Without overwrite_content neither call touches an entry that is already *)
(* at the destination, not even when it fails or crashes.                  *)
OldKept ==
  \A p \in Procs :
    LET to == job[p].to IN
      job[p].op # "none" /\ ~job[p].overwrite_content /\ Alone(p) /\ before.dir[to] # None =>
        dir[to] = before.dir[to] /\ inode[dir[to]] = before.inode[dir[to]]

(* Everybody copies to the same path, and nobody may overwrite it. *)
Race ==
  /\ \A p \in Procs : job[p].op = "cp" /\ ~job[p].overwrite_content
  /\ \A p, q \in Procs : job[p].to = job[q].to

(* Of several cpfile() to the same path without overwrite_content the one  *)
(* that returns has made its own copy, and the cleanup of the others, who  *)
(* fail or crash at any point, does not harm it.                           *)
WinnerKeeps ==
  Race => \A p \in Procs : pc[p] = "done" /\ Was(job[p].from) # None => HasSource(p, job[p].to)
=============================================================================
