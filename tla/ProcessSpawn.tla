---------------------------- MODULE ProcessSpawn ----------------------------
(***************************************************************************)
(* Threads that start child processes at the same time                     *)
(* (libbutl/process.cxx, libbutl/process-details.hxx, and fdopen(),        *)
(* fddup() and fdopen_pipe() of libbutl/fdstream.cxx, POSIX).              *)
(*                                                                         *)
(* Every thread t writes an executable file, and then runs it with its     *)
(* stdin and stdout connected to pipes: process::process() opens the pipes *)
(* and creates the child, the thread closes its write end, reads the       *)
(* output until EOF and waits.  A child gets a copy of the whole           *)
(* descriptor table; exec() keeps what is not close-on-exec.  pipe() and   *)
(* dup() return descriptors that are not, so that process_spawn_mutex has  *)
(* to keep children from being created until they are.                     *)
(***************************************************************************)
EXTENDS Integers

CONSTANTS
  Threads,
  NoThread,    \* nobody holds the mutex exclusively
  SpawnRetry,  \* how often creating the process is retried (15)
  ExecTries    \* how often exec() is tried in the fork() build (9)

ASSUME ProcessSpawnAssumption ==
  /\ NoThread \notin Threads
  /\ SpawnRetry \in Nat
  /\ ExecTries \in Nat \ {0}

(* The descriptors of a thread: the file it writes, both ends of both      *)
(* pipes and a duplicate of its end of the child's stdin.                  *)
Ends == {"script", "in.r", "in.w", "out.r", "out.w", "dup.w"}
Fds == Threads \X Ends

VARIABLES
  fork,      \* the build: fork() and exec(), otherwise posix_spawn()
  pc,        \* what each thread does next
  section,   \* the descriptors the thread creates next: "in", "out" or "dup"
  attempt,   \* i of the loop around the creation of the process
  table,     \* the parent's descriptors: "none", "plain" or "cloexec"
  shared,    \* the threads that hold process_spawn_mutex for shared access
  excl,      \* the one that holds it exclusively
  child,     \* of each thread: "none", "forked", "running", "exited", "dead"
  ctable,    \* the child's descriptors above 2
  std,       \* what the child's 0 and 1 are
  tries      \* exec() attempts of the child

locks == <<shared, excl>>
children == <<child, ctable, std, tries>>
vars == <<fork, pc, section, attempt, table, shared, excl, child, ctable, std, tries>>

Go(t, at) == pc' = [pc EXCEPT ![t] = at]

Own(t, es) == {t} \X es

(* The table f after the descriptors ds became s. *)
Set(f, ds, s) == [d \in Fds |-> IF d \in ds THEN s ELSE f[d]]

NoFds == [d \in Fds |-> "none"]

(* Some process, the parent or a child, holds one of the descriptors ds. *)
Held(ds) ==
  \/ \E d \in ds : table[d] # "none"
  \/ \E t \in Threads : \E d \in ds : ctable[t][d] # "none" \/ d \in std[t]

-----------------------------------------------------------------------------
(* fdopen(): the file is close-on-exec from the start, and its own thread  *)
(* closes it before it goes on.                                            *)
OpenScript(t) ==
  /\ pc[t] = "script"
  /\ table' = Set(table, Own(t, {"script"}), "cloexec")
  /\ Go(t, "written")
  /\ UNCHANGED <<fork, section, attempt, locks, children>>

CloseScript(t) ==
  /\ pc[t] = "written"
  /\ table' = Set(table, Own(t, {"script"}), "none")
  /\ Go(t, "lock")
  /\ UNCHANGED <<fork, section, attempt, locks, children>>

(* fdopen_pipe() for stdin and for stdout, and fddup(): create the         *)
(* descriptors and mark them close-on-exec, with the mutex held shared.    *)
Created(s) ==
  CASE s = "in" -> {"in.r", "in.w"} [] s = "out" -> {"out.r", "out.w"} [] s = "dup" -> {"dup.w"}

(* Fault: descriptors are opened without the shared lock of the mutex. *)
LockSharedNot(t) ==
  /\ pc[t] = "lock"
  /\ shared' = shared \cup {t}
  /\ Go(t, "create")
  /\ UNCHANGED <<fork, section, attempt, table, excl, children>>

LockShared(t) ==
  /\ pc[t] = "lock" /\ excl = NoThread
  /\ shared' = shared \cup {t}
  /\ Go(t, "create")
  /\ UNCHANGED <<fork, section, attempt, table, excl, children>>

Create(t) ==
  /\ pc[t] = "create"
  /\ table' = Set(table, Own(t, Created(section[t])), "plain")
  /\ Go(t, "mark")
  /\ UNCHANGED <<fork, section, attempt, locks, children>>

Mark(t) ==
  /\ pc[t] = "mark"
  /\ \E e \in Created(section[t]) :
       /\ table[<<t, e>>] = "plain"
       /\ table' = Set(table, Own(t, {e}), "cloexec")
  /\ UNCHANGED <<fork, pc, section, attempt, locks, children>>

UnlockShared(t) ==
  /\ pc[t] = "mark"
  /\ \A e \in Created(section[t]) : table[<<t, e>>] = "cloexec"
  /\ shared' = shared \ {t}
  /\ section' = [section EXCEPT ![t] = IF @ = "in" THEN "out" ELSE "dup"]
  /\ Go(t, IF section[t] = "dup" THEN "spawn" ELSE "lock")
  /\ UNCHANGED <<fork, attempt, table, excl, children>>

(* Fault: this error path does not release the mutex. *)
CreateFailsLocked(t) ==
  /\ pc[t] = "create"
  /\ table' = Set(table, Own(t, Ends), "none")
  /\ Go(t, "failed")
  /\ UNCHANGED <<fork, section, attempt, locks, children>>

(* pipe() or dup() fails: the auto_fds close what was opened before. *)
CreateFails(t) ==
  /\ pc[t] = "create"
  /\ shared' = shared \ {t}
  /\ table' = Set(table, Own(t, Ends), "none")
  /\ Go(t, "failed")
  /\ UNCHANGED <<fork, section, attempt, excl, children>>

-----------------------------------------------------------------------------
(* process::process(): create the child with the mutex held exclusively. *)

(* Fault: the child is created under the shared lock. *)
LockSpawnShared(t) ==
  /\ pc[t] = "spawn" /\ excl = NoThread
  /\ excl' = t
  /\ Go(t, "fork")
  /\ UNCHANGED <<fork, section, attempt, table, shared, children>>

LockSpawn(t) ==
  /\ pc[t] = "spawn" /\ excl = NoThread /\ shared = {}
  /\ excl' = t
  /\ Go(t, "fork")
  /\ UNCHANGED <<fork, section, attempt, table, shared, children>>

(* Fault: posix_spawn() does not wait for exec() either. *)
CreateChildUnsuspended(t) ==
  /\ pc[t] = "fork"
  /\ child' = [child EXCEPT ![t] = "forked"]
  /\ ctable' = [ctable EXCEPT ![t] = table]
  /\ Go(t, "unlock")
  /\ UNCHANGED <<fork, section, attempt, table, locks, std, tries>>

(* fork(): the parent goes on; posix_spawn(): it is suspended until the    *)
(* child has called exec().                                                *)
CreateChild(t) ==
  /\ pc[t] = "fork"
  /\ child' = [child EXCEPT ![t] = "forked"]
  /\ ctable' = [ctable EXCEPT ![t] = table]
  /\ Go(t, IF fork THEN "unlock" ELSE "suspended")
  /\ UNCHANGED <<fork, section, attempt, table, locks, std, tries>>

Resume(t) ==
  /\ pc[t] = "suspended" /\ child[t] # "forked"
  /\ Go(t, "unlock")
  /\ UNCHANGED <<fork, section, attempt, table, locks, children>>

(* Fault: the creation is retried without a limit. *)
SpawnAgainForever(t) ==
  /\ pc[t] = "fork"
  /\ attempt' = [attempt EXCEPT ![t] = @ + 1]
  /\ excl' = NoThread
  /\ Go(t, "spawn")
  /\ UNCHANGED <<fork, section, table, shared, children>>

(* Creating the process failed with EAGAIN: give up the mutex, sleep and   *)
(* try again, or throw after too many attempts or for another error.       *)
SpawnAgain(t) ==
  /\ pc[t] = "fork" /\ attempt[t] # SpawnRetry
  /\ attempt' = [attempt EXCEPT ![t] = @ + 1]
  /\ excl' = NoThread
  /\ Go(t, "spawn")
  /\ UNCHANGED <<fork, section, table, shared, children>>

(* Fault: the exception leaves the mutex locked. *)
SpawnFailsLocked(t) ==
  /\ pc[t] = "fork"
  /\ table' = Set(table, Own(t, Ends), "none")
  /\ Go(t, "failed")
  /\ UNCHANGED <<fork, section, attempt, locks, children>>

SpawnFails(t) ==
  /\ pc[t] = "fork"
  /\ excl' = NoThread
  /\ table' = Set(table, Own(t, Ends), "none")
  /\ Go(t, "failed")
  /\ UNCHANGED <<fork, section, attempt, shared, children>>

UnlockSpawn(t) ==
  /\ pc[t] = "unlock"
  /\ excl' = NoThread
  /\ Go(t, "parent")
  /\ UNCHANGED <<fork, section, attempt, table, shared, children>>

-----------------------------------------------------------------------------
(* The child of t before exec(). *)

(* The pipes become 0 and 1, and their ends are closed. *)
Redirect(t) ==
  /\ child[t] = "forked" /\ std[t] = {}
  /\ std' = [std EXCEPT ![t] = Own(t, {"in.r", "out.w"})]
  /\ ctable' = [ctable EXCEPT
       ![t] = Set(@, Own(t, {"in.r", "in.w", "out.r", "out.w"}), "none")]
  /\ UNCHANGED <<fork, pc, section, attempt, table, locks, child, tries>>

(* ETXTBSY: some process has the file open for writing. *)
Busy(t) == Held({<<t, "script">>})

Exec(t) ==
  /\ child[t] = "forked" /\ std[t] # {} /\ ~Busy(t)
  /\ child' = [child EXCEPT ![t] = "running"]
  /\ ctable' = [ctable EXCEPT
       ![t] = [d \in Fds |-> IF @[d] = "cloexec" THEN "none" ELSE @[d]]]
  /\ UNCHANGED <<fork, pc, section, attempt, table, locks, std, tries>>

(* Only the fork() based implementation tries again. *)
ExecBusy(t) ==
  /\ child[t] = "forked" /\ std[t] # {} /\ Busy(t)
  /\ IF fork /\ tries[t] + 1 # ExecTries
     THEN /\ tries' = [tries EXCEPT ![t] = @ + 1]
          /\ UNCHANGED <<child, ctable, std>>
     ELSE /\ child' = [child EXCEPT ![t] = "dead"]
          /\ ctable' = [ctable EXCEPT ![t] = NoFds]
          /\ std' = [std EXCEPT ![t] = {}]
          /\ UNCHANGED tries
  /\ UNCHANGED <<fork, pc, section, attempt, table, locks>>

(* The program reads its stdin until EOF, which is when nobody holds a     *)
(* write end any more, and exits.                                          *)
Exit(t) ==
  /\ child[t] = "running" /\ ~Held(Own(t, {"in.w", "dup.w"}))
  /\ child' = [child EXCEPT ![t] = "exited"]
  /\ ctable' = [ctable EXCEPT ![t] = NoFds]
  /\ std' = [std EXCEPT ![t] = {}]
  /\ UNCHANGED <<fork, pc, section, attempt, table, locks, tries>>

-----------------------------------------------------------------------------
(* The parent after the child was created. *)

(* The fdpipes of the constructor close the child's ends. *)
CloseChildEnds(t) ==
  /\ pc[t] = "parent"
  /\ table' = Set(table, Own(t, {"in.r", "out.w"}), "none")
  /\ Go(t, "feed")
  /\ UNCHANGED <<fork, section, attempt, locks, children>>

(* The caller is done writing. *)
CloseIn(t) ==
  /\ pc[t] = "feed"
  /\ table' = Set(table, Own(t, {"in.w", "dup.w"}), "none")
  /\ Go(t, "drain")
  /\ UNCHANGED <<fork, section, attempt, locks, children>>

(* It reads the output until EOF. *)
ReadOut(t) ==
  /\ pc[t] = "drain" /\ ~Held(Own(t, {"out.w"}))
  /\ table' = Set(table, Own(t, {"out.r"}), "none")
  /\ Go(t, "wait")
  /\ UNCHANGED <<fork, section, attempt, locks, children>>

Wait(t) ==
  /\ pc[t] = "wait" /\ child[t] \in {"exited", "dead"}
  /\ Go(t, "done")
  /\ UNCHANGED <<fork, section, attempt, table, locks, children>>

-----------------------------------------------------------------------------
Init ==
  /\ fork \in BOOLEAN
  /\ pc = [t \in Threads |-> "script"]
  /\ section = [t \in Threads |-> "in"]
  /\ attempt = [t \in Threads |-> 0]
  /\ table = NoFds
  /\ shared = {}
  /\ excl = NoThread
  /\ child = [t \in Threads |-> "none"]
  /\ ctable = [t \in Threads |-> NoFds]
  /\ std = [t \in Threads |-> {}]
  /\ tries = [t \in Threads |-> 0]

Open(t) == OpenScript(t) \/ CloseScript(t) \/ Create(t) \/ Mark(t) \/ UnlockShared(t) \/ CreateFails(t)
Spawn(t) == CreateChild(t) \/ Resume(t) \/ SpawnAgain(t) \/ SpawnFails(t) \/ UnlockSpawn(t)
Child(t) == Redirect(t) \/ Exec(t) \/ ExecBusy(t) \/ Exit(t)
Parent(t) == CloseChildEnds(t) \/ CloseIn(t) \/ ReadOut(t) \/ Wait(t)

AllDone ==
  /\ \A t \in Threads : pc[t] \in {"done", "failed"}
  /\ UNCHANGED vars

Next ==
  \/ \E t \in Threads :
       Open(t) \/ LockShared(t) \/ LockSpawn(t) \/ Spawn(t) \/ Child(t) \/ Parent(t)
  \/ AllDone

Spec == Init /\ [][Next]_vars

(* Threads and children keep running, and a thread that wants a mutex that *)
(* is released again and again gets it.                                    *)
Fairness ==
  \A t \in Threads :
    /\ WF_vars(Open(t) \/ Spawn(t) \/ Parent(t))
    /\ WF_vars(Child(t))
    /\ SF_vars(LockShared(t))
    /\ SF_vars(LockSpawn(t))

FairSpec == Spec /\ Fairness

-----------------------------------------------------------------------------
States == {"none", "plain", "cloexec"}

(* The types of the variables. *)
TypeOK ==
  /\ fork \in BOOLEAN
  /\ pc \in [Threads -> {"script", "written", "lock", "create", "mark", "spawn", "fork",
                         "suspended", "unlock", "parent", "feed", "drain", "wait",
                         "done", "failed"}]
  /\ section \in [Threads -> {"in", "out", "dup"}]
  /\ attempt \in [Threads -> 0 .. SpawnRetry]
  /\ table \in [Fds -> States]
  /\ shared \in SUBSET Threads
  /\ excl \in Threads \cup {NoThread}
  /\ child \in [Threads -> {"none", "forked", "running", "exited", "dead"}]
  /\ ctable \in [Threads -> [Fds -> States]]
  /\ std \in [Threads -> SUBSET Fds]
  /\ tries \in [Threads -> 0 .. ExecTries - 1]

(* A running program has no descriptor of the library but its own standard *)
(* streams, whatever the other threads were opening when it was created:   *)
(* a leaked write end would keep another child from ever seeing EOF.       *)
NoLeak ==
  \A t \in Threads : child[t] = "running" => \A d \in Fds : ctable[t][d] = "none"

(* The posix_spawn() comment: a freshly written script can be executed at  *)
(* once, since no other child can be between fork and exec with its        *)
(* descriptor.                                                             *)
NeverBusy == ~fork => \A t \in Threads : child[t] # "dead"

(* Every thread gets its output and its exit status, or the exception: no  *)
(* child waits for ever for an EOF, and nobody for the mutex.              *)
EveryCallEnds == \A t \in Threads : pc[t] = "script" ~> pc[t] \in {"done", "failed"}
=============================================================================
