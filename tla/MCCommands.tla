----------------------------- MODULE MCCommands -----------------------------
(* Every command alone, the pairs that create, remove and copy the same    *)
(* tree, three processes that make paths and three that clean up.          *)
EXTENDS Commands

MCNames == {"d", "s", "f", "l"}
MCRoot == 1

Holding(entries) == Dir([n \in Names |-> IF n \in DOMAIN entries THEN entries[n] ELSE Nil])

(* d, with a file, a directory with a file, and a symlink to s; s, with a  *)
(* file; and the file f.                                                   *)
Full ==
  LET known == <<Holding([d |-> 2, s |-> 3, f |-> 4]), Holding([s |-> 5, f |-> 6, l |-> 7]), Holding([f |-> 8]),
                 File("a"), Holding([f |-> 9]), File("b"), Link(<<"s">>), File("c"), File("b")>>
  IN  [i \in Ids |-> IF i \in DOMAIN known THEN known[i] ELSE NoInode]

(* d, with a file and a directory with a file. *)
Small ==
  LET known == <<Holding([d |-> 2, f |-> 3]), Holding([s |-> 4, f |-> 5]), File("a"), Holding([f |-> 6]),
                 File("b"), File("c")>>
  IN  [i \in Ids |-> IF i \in DOMAIN known THEN known[i] ELSE NoInode]

Bare == [i \in Ids |-> IF i = Root THEN EmptyDir ELSE NoInode]

On(op, path) == [op |-> op, path |-> path, from |-> <<>>]
From(op, from, path) == [op |-> op, path |-> path, from |-> from]
Idles == On("none", <<>>)

(* Entries, symlinks and what is missing, below a file and a symlink too.  *)
Args ==
  {<<"d">>, <<"d", "s">>, <<"d", "l">>, <<"d", "f">>, <<"f">>, <<"l">>, <<"l", "s">>, <<"f", "s">>, <<"s">>,
   <<"d", "l", "f">>}

(* A path to make through the symlink d/l, which leads into s.             *)
Inside == <<"d", "l", "s">>

(* All of the commands on all of the paths, but for one kind: s is not     *)
(* copied into s, nor is d, a copy of which has s in it.                   *)
Single ==
  {On(op, a) : op \in {"mkdir", "mkdir_p", "try_mkdir_p", "rmdir", "rmdir_f", "rm", "rm_f", "rm_r", "auto_rm", "touch"},
                  a \in Args \cup {Inside}}
    \cup {From(op, a, b) : op \in {"ln", "ln_s", "cp", "cp_r", "mv"}, a \in Args, b \in Args}
    \cup {From(op, a, Inside) : op \in {"cp", "mv"}, a \in Args}
    \cup {From(op, a, Inside) : op \in {"ln", "ln_s", "cp_r"}, a \in Args \ {<<"d">>, <<"s">>, <<"d", "l">>}}

Makers == {On("mkdir_p", <<"d", "s", "l">>), On("try_mkdir_p", <<"d", "s", "l">>),
           On("mkdir_p", <<"d", "f">>), On("try_mkdir_p", <<"l", "s">>), On("mkdir_p", <<"l">>)}
Removers == {On("auto_rm", <<"d">>), On("auto_rm", <<"d", "s">>)}
Changers == {On("rm_r", <<"d">>), On("rm_r", <<"d", "s">>), On("auto_rm", <<"d">>), On("rmdir_f", <<"d", "s">>),
             On("rm_f", <<"d", "f">>), On("touch", <<"d", "s", "f">>), On("mkdir_p", <<"d", "s", "l">>),
             On("try_mkdir_p", <<"d", "d", "l">>), From("mv", <<"d", "s">>, <<"l">>),
             From("cp_r", <<"d">>, <<"l">>), From("ln_s", <<"f">>, <<"d", "d">>), From("cp", <<"f">>, <<"d", "f">>)}

Creators == {From("cp_r", <<"d">>, <<"l">>), From("ln_s", <<"f">>, <<"l", "f">>), On("touch", <<"l", "f">>),
             From("ln", <<"d">>, <<"l">>), On("mkdir_p", <<"l", "s", "d">>), From("ln", <<"f">>, <<"l", "s", "f">>)}

Cast(a, b, c) == [p \in Procs |-> CASE p = "p" -> a [] p = "q" -> b [] p = "r" -> c]

MCProcs == {"p", "q", "r"}
FileSystems ==
  {[symlinks |-> TRUE, hardlinks |-> TRUE, types |-> t] : t \in BOOLEAN}
    \cup {[symlinks |-> FALSE, hardlinks |-> h, types |-> TRUE] : h \in BOOLEAN}

Linux == [symlinks |-> TRUE, hardlinks |-> TRUE, types |-> TRUE]

Scene(f, tree, cast) == [fs |-> f, tree |-> tree, cmd |-> cast]

MCScenes ==
  {Scene(f, tree, Cast(a, Idles, Idles)) : f \in FileSystems, tree \in {Full, Bare}, a \in Single}
    \cup {Scene([Linux EXCEPT !.types = t], Small, Cast(a, b, Idles)) :
            t \in BOOLEAN, a \in Changers, b \in Changers}
    \cup {Scene(Linux, Bare, Cast(a, b, c)) : a \in Makers, b \in Makers, c \in Makers}
    \cup {Scene(Linux, Bare, Cast(a, b, On("rm_r", <<"d">>))) : a \in Makers, b \in Makers}
    \cup {Scene(Linux, Small, Cast(From("cp_r", <<"d">>, <<"l">>), a, Idles)) : a \in Creators}
    \cup {Scene(Linux, Small, Cast(a, b, On("touch", <<"l", "f">>))) : a \in Creators, b \in Creators}
    \cup {Scene(Linux, Small, Cast(a, b, c)) : a \in Removers, b \in Removers, c \in Removers}
=============================================================================
