---------------------------- MODULE MCFileCopy ----------------------------
(* Small file systems, and the calls made on them, for FileCopy. *)
EXTENDS FileCopy

CONSTANTS p, q, a, b, dest, other, x, y, z

MCDevice == [n \in Names |-> IF n = a THEN 1 ELSE 2]

Regular(data, perm_, time) == [link |-> None, data |-> data, perm |-> perm_, time |-> time]

(* Two sources, the second on the file system of the destination. *)
Inode(at) ==
  [i \in Inodes |->
     CASE i = a -> Regular(<<x, y>>, {"user", "group"}, 23)
       [] i = b -> Regular(<<y>>, {"user"}, 34)
       [] i = dest -> [Regular(<<z, z, z>>, {"user"}, 15) EXCEPT !.link = at]
       [] OTHER -> Regular(<<z>>, {"user", "group"}, 17)]

Entries(d, e) == [n \in Names |-> IF n = dest THEN d ELSE IF n = other THEN e ELSE n]

Start(d, e, at) == [dir |-> Entries(d, e), inode |-> Inode(at)]

(* The destination is a symlink, also a dangling one or one to a source.   *)
MCSymlinks ==
  {Start(dest, other, at) : at \in {other, a, b}} \cup {Start(dest, None, other)}

(* Or there is nothing, a file, or another link to the other file or to a  *)
(* source that is on the same file system; and the sources are files or    *)
(* symlinks.                                                               *)
MCStarts ==
  LET files == MCSymlinks \cup {Start(d, other, None) : d \in {None, dest, other, b}} IN
    files \cup {[s EXCEPT !.inode[a].link = other, !.inode[b].link = other] : s \in files}

Call(op, from, ovr, prm, times) ==
  [op |-> op, from |-> from, to |-> dest, overwrite_content |-> ovr,
   overwrite_permissions |-> prm, copy_timestamps |-> times]

Idle == Call("none", a, FALSE, FALSE, FALSE)

Both(c, d) == [r \in Procs |-> IF r = p THEN c ELSE d]

MCCopies == {Both(Call("cp", f, o, m, t), Idle) : f \in {a, b}, o, m, t \in BOOLEAN}

(* One process alone, or two that copy to the same path. *)
MCJobs ==
  MCCopies
    \cup {Both(Call("mv", f, o, TRUE, FALSE), Idle) : f \in {a, b, dest}, o \in BOOLEAN}
    \cup {Both(Call("cp", a, FALSE, m, t), Call("cp", b, FALSE, FALSE, FALSE)) : m, t \in BOOLEAN}
=============================================================================
