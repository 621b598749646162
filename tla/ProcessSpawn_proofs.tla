------------------------- MODULE ProcessSpawn_proofs -------------------------
(***************************************************************************)
(* Proofs about ProcessSpawn: whatever the number of threads, no program   *)
(* inherits a descriptor of the library, and in the posix_spawn() build    *)
(* none finds its own executable busy.                                     *)
(***************************************************************************)
EXTENDS ProcessSpawn, TLAPS

(* The threads in each kind of critical section of process_spawn_mutex. *)
Opening == {"create", "mark"}
Spawning == {"fork", "suspended", "unlock"}

(* process_spawn_mutex: who is in a critical section holds it, and the     *)
(* exclusive holder is alone.                                              *)
Mutex ==
  /\ \A t \in Threads : t \in shared <=> pc[t] \in Opening
  /\ \A t \in Threads : excl = t <=> pc[t] \in Spawning
  /\ excl # NoThread => shared = {}

(* A descriptor that is not close-on-exec is one its thread is marking. *)
Marked ==
  \A t \in Threads : \A e \in Ends :
    table[<<t, e>>] = "plain" => pc[t] = "mark" /\ e \in Created(section[t])

(* The file is open while its thread writes it, and not longer. *)
Written == \A t \in Threads : table[<<t, "script">>] # "none" => pc[t] = "written"

(* Only a child that has not called exec() has inherited descriptors, and  *)
(* all of them are close-on-exec.                                          *)
Inherited ==
  \A t \in Threads : \A d \in Fds :
    ctable[t][d] # "none" => child[t] = "forked" /\ ctable[t][d] = "cloexec"

(* Such a child was created after its own thread had closed its file, and  *)
(* with posix_spawn() it is the only one.                                  *)
BeforeExec ==
  \A t \in Threads : child[t] = "forked" =>
    /\ ctable[t][<<t, "script">>] = "none"
    /\ ~fork => pc[t] = "suspended"

(* The standard streams of a child are its own pipes. *)
Streams == \A t \in Threads : std[t] \subseteq Own(t, {"in.r", "out.w"})

IInv ==
  /\ TypeOK
  /\ Mutex
  /\ Marked
  /\ Written
  /\ Inherited
  /\ BeforeExec
  /\ Streams
  /\ NeverBusy

-----------------------------------------------------------------------------
(* What Set() returns. *)
LEMMA SetIs ==
  ASSUME NEW f \in [Fds -> States], NEW ds, NEW s \in States
  PROVE  /\ Set(f, ds, s) \in [Fds -> States]
         /\ \A d \in Fds : Set(f, ds, s)[d] = IF d \in ds THEN s ELSE f[d]
BY DEF Set

(* What it returns for the ends es of the thread t. *)
LEMMA SetOwn ==
  ASSUME NEW f \in [Fds -> States], NEW t \in Threads, NEW es, NEW s \in States
  PROVE  /\ Set(f, Own(t, es), s) \in [Fds -> States]
         /\ \A u \in Threads : \A e \in Ends :
              Set(f, Own(t, es), s)[<<u, e>>] = IF u = t /\ e \in es THEN s ELSE f[<<u, e>>]
<1>1. \A u \in Threads : \A e \in Ends : <<u, e>> \in Fds /\ (<<u, e>> \in Own(t, es) <=> u = t /\ e \in es)
  BY DEF Fds, Own
<1> QED BY <1>1, SetIs

(* What a thread creates in a critical section are not its files. *)
LEMMA CreatedEnds ==
  ASSUME NEW s \in {"in", "out", "dup"}
  PROVE  Created(s) \subseteq Ends \ {"script"}
BY DEF Created, Ends

-----------------------------------------------------------------------------
(* A step of a thread leaves its child alone, and it is not suspended      *)
(* while its child has not called exec().                                  *)
LEMMA ParentStep ==
  ASSUME IInv, NEW t \in Threads, NEW at, pc' = [pc EXCEPT ![t] = at],
         UNCHANGED <<fork, children>>, pc[t] = "suspended" => child[t] # "forked"
  PROVE  Inherited' /\ BeforeExec' /\ Streams' /\ NeverBusy'
<1>1. /\ pc \in [Threads -> {"script", "written", "lock", "create", "mark", "spawn", "fork",
                             "suspended", "unlock", "parent", "feed", "drain", "wait",
                             "done", "failed"}]
      /\ UNCHANGED <<fork, child, ctable, std>>
  BY DEF IInv, TypeOK, children
<1>2. BeforeExec'
  BY <1>1 DEF IInv, BeforeExec
<1>3. Inherited' /\ Streams' /\ NeverBusy'
  BY <1>1 DEF IInv, Inherited, Streams, NeverBusy
<1> QED BY <1>2, <1>3

(* A step outside of the critical sections does not disturb the mutex. *)
LEMMA OutsideStep ==
  ASSUME IInv, NEW t \in Threads, NEW at, pc' = [pc EXCEPT ![t] = at], UNCHANGED locks,
         pc[t] \notin Opening \cup Spawning, at \notin Opening \cup Spawning
  PROVE  Mutex'
<1>1. /\ \A u \in Threads : pc'[u] = IF u = t THEN at ELSE pc[u]
      /\ UNCHANGED <<shared, excl>>
  BY DEF IInv, TypeOK, locks
<1> QED BY <1>1 DEF IInv, Mutex

(* Closing descriptors leaves the others as they were: none is being       *)
(* marked afterwards, unless they are all closed.                          *)
LEMMA CloseStep ==
  ASSUME IInv, NEW t \in Threads, NEW at, pc' = [pc EXCEPT ![t] = at], NEW es,
         table' = Set(table, Own(t, es), "none"), UNCHANGED section,
         pc[t] # "mark", pc[t] = "written" => "script" \in es
  PROVE  table' \in [Fds -> States] /\ Marked' /\ Written'
<1>1. /\ table \in [Fds -> States]
      /\ \A u \in Threads : pc'[u] = IF u = t THEN at ELSE pc[u]
  BY DEF IInv, TypeOK
<1>2. /\ table' \in [Fds -> States]
      /\ \A u \in Threads : \A e \in Ends :
           table'[<<u, e>>] = IF u = t /\ e \in es THEN "none" ELSE table[<<u, e>>]
  BY <1>1, SetOwn DEF States
<1>3. Marked'
  BY <1>1, <1>2 DEF IInv, Marked
<1>4. "script" \in Ends
  BY DEF Ends
<1>5. Written'
  BY <1>1, <1>2, <1>4 DEF IInv, Written
<1> QED BY <1>2, <1>3, <1>5

-----------------------------------------------------------------------------
(* auto_fd::close() of the file. *)
LEMMA CloseScriptInv ==
  ASSUME IInv, NEW t \in Threads, CloseScript(t)
  PROVE  IInv'
<1>1. /\ pc[t] = "written" /\ pc' = [pc EXCEPT ![t] = "lock"]
      /\ table' = Set(table, Own(t, {"script"}), "none")
      /\ UNCHANGED <<fork, section, attempt, child, ctable, std, tries>>
  BY DEF CloseScript, Go, locks, children
<1>2. table' \in [Fds -> States] /\ Marked' /\ Written'
  BY <1>1, CloseStep DEF Ends
<1>3. Inherited' /\ BeforeExec' /\ Streams' /\ NeverBusy'
  BY <1>1, ParentStep DEF children
<1>4. TypeOK'
  BY <1>1, <1>2 DEF IInv, TypeOK, CloseScript, locks
<1>5. Mutex'
  BY <1>1, OutsideStep DEF CloseScript, Opening, Spawning
<1> QED BY <1>2, <1>3, <1>4, <1>5 DEF IInv

(* fdopen_pipe() and fddup() create descriptors. *)
LEMMA CreateInv ==
  ASSUME IInv, NEW t \in Threads, Create(t)
  PROVE  IInv'
<1> DEFINE es == Created(section[t])
<1>1. /\ pc[t] = "create" /\ pc' = [pc EXCEPT ![t] = "mark"]
      /\ table' = Set(table, Own(t, es), "plain")
      /\ UNCHANGED <<fork, section, attempt, shared, excl, child, ctable, std, tries>>
  BY DEF Create, Go, locks, children
<1>2. TypeOK /\ table \in [Fds -> States] /\ section[t] \in {"in", "out", "dup"}
  BY DEF IInv, TypeOK
<1> HIDE DEF es
<1>3. /\ table' \in [Fds -> States]
      /\ \A u \in Threads : \A e \in Ends :
           table'[<<u, e>>] = IF u = t /\ e \in es THEN "plain" ELSE table[<<u, e>>]
  BY <1>1, <1>2, SetOwn DEF States
<1>4. "script" \in Ends \ es
  BY <1>2, CreatedEnds DEF es, Ends
<1>5. TypeOK'
  BY <1>1, <1>2, <1>3 DEF TypeOK
<1>6. Mutex'
  BY <1>1, <1>2 DEF IInv, TypeOK, Mutex, Opening, Spawning
<1>7. Marked'
  BY <1>1, <1>2, <1>3 DEF IInv, TypeOK, Marked, es
<1>8. Written'
  BY <1>1, <1>2, <1>3, <1>4 DEF IInv, TypeOK, Written
<1>9. Inherited' /\ BeforeExec' /\ Streams' /\ NeverBusy'
  BY <1>1, ParentStep DEF children
<1> QED BY <1>5, <1>6, <1>7, <1>8, <1>9 DEF IInv
(* A failed pipe() or dup() closes all descriptors. *)
LEMMA CreateFailsInv ==
  ASSUME IInv, NEW t \in Threads, CreateFails(t)
  PROVE  IInv'
<1>1. /\ pc[t] = "create" /\ pc' = [pc EXCEPT ![t] = "failed"]
      /\ table' = Set(table, Own(t, Ends), "none")
      /\ UNCHANGED <<fork, section, attempt, child, ctable, std, tries>>
  BY DEF CreateFails, Go, locks, children
<1>2. table' \in [Fds -> States] /\ Marked' /\ Written'
  BY <1>1, CloseStep DEF Ends
<1>3. Inherited' /\ BeforeExec' /\ Streams' /\ NeverBusy'
  BY <1>1, ParentStep DEF children
<1>4. TypeOK'
  BY <1>1, <1>2 DEF IInv, TypeOK, CreateFails, locks
<1>5. Mutex'
  BY <1>1 DEF IInv, TypeOK, Mutex, Opening, Spawning, CreateFails
<1> QED BY <1>2, <1>3, <1>4, <1>5 DEF IInv

(* So does a failed fork() or posix_spawn(). *)
LEMMA SpawnFailsInv ==
  ASSUME IInv, NEW t \in Threads, SpawnFails(t)
  PROVE  IInv'
<1>1. /\ pc[t] = "fork" /\ pc' = [pc EXCEPT ![t] = "failed"]
      /\ table' = Set(table, Own(t, Ends), "none")
      /\ UNCHANGED <<fork, section, attempt, child, ctable, std, tries>>
  BY DEF SpawnFails, Go, locks, children
<1>2. table' \in [Fds -> States] /\ Marked' /\ Written'
  BY <1>1, CloseStep DEF Ends
<1>3. Inherited' /\ BeforeExec' /\ Streams' /\ NeverBusy'
  BY <1>1, ParentStep DEF children
<1>4. TypeOK'
  BY <1>1, <1>2 DEF IInv, TypeOK, SpawnFails, locks
<1>5. Mutex'
  BY <1>1, ProcessSpawnAssumption DEF IInv, TypeOK, Mutex, Opening, Spawning, SpawnFails
<1> QED BY <1>2, <1>3, <1>4, <1>5 DEF IInv

(* The constructor closes the ends of the child. *)
LEMMA CloseChildEndsInv ==
  ASSUME IInv, NEW t \in Threads, CloseChildEnds(t)
  PROVE  IInv'
<1>1. /\ pc[t] = "parent" /\ pc' = [pc EXCEPT ![t] = "feed"]
      /\ table' = Set(table, Own(t, {"in.r", "out.w"}), "none")
      /\ UNCHANGED <<fork, section, attempt, child, ctable, std, tries>>
  BY DEF CloseChildEnds, Go, locks, children
<1>2. table' \in [Fds -> States] /\ Marked' /\ Written'
  BY <1>1, CloseStep DEF Ends
<1>3. Inherited' /\ BeforeExec' /\ Streams' /\ NeverBusy'
  BY <1>1, ParentStep DEF children
<1>4. TypeOK'
  BY <1>1, <1>2 DEF IInv, TypeOK, CloseChildEnds, locks
<1>5. Mutex'
  BY <1>1, OutsideStep DEF CloseChildEnds, Opening, Spawning
<1> QED BY <1>2, <1>3, <1>4, <1>5 DEF IInv

(* The caller closes its end of stdin. *)
LEMMA CloseInInv ==
  ASSUME IInv, NEW t \in Threads, CloseIn(t)
  PROVE  IInv'
<1>1. /\ pc[t] = "feed" /\ pc' = [pc EXCEPT ![t] = "drain"]
      /\ table' = Set(table, Own(t, {"in.w", "dup.w"}), "none")
      /\ UNCHANGED <<fork, section, attempt, child, ctable, std, tries>>
  BY DEF CloseIn, Go, locks, children
<1>2. table' \in [Fds -> States] /\ Marked' /\ Written'
  BY <1>1, CloseStep DEF Ends
<1>3. Inherited' /\ BeforeExec' /\ Streams' /\ NeverBusy'
  BY <1>1, ParentStep DEF children
<1>4. TypeOK'
  BY <1>1, <1>2 DEF IInv, TypeOK, CloseIn, locks
<1>5. Mutex'
  BY <1>1, OutsideStep DEF CloseIn, Opening, Spawning
<1> QED BY <1>2, <1>3, <1>4, <1>5 DEF IInv

(* And stdout once it has seen EOF. *)
LEMMA ReadOutInv ==
  ASSUME IInv, NEW t \in Threads, ReadOut(t)
  PROVE  IInv'
<1>1. /\ pc[t] = "drain" /\ pc' = [pc EXCEPT ![t] = "wait"]
      /\ table' = Set(table, Own(t, {"out.r"}), "none")
      /\ UNCHANGED <<fork, section, attempt, child, ctable, std, tries>>
  BY DEF ReadOut, Go, locks, children
<1>2. table' \in [Fds -> States] /\ Marked' /\ Written'
  BY <1>1, CloseStep DEF Ends
<1>3. Inherited' /\ BeforeExec' /\ Streams' /\ NeverBusy'
  BY <1>1, ParentStep DEF children
<1>4. TypeOK'
  BY <1>1, <1>2 DEF IInv, TypeOK, ReadOut, locks
<1>5. Mutex'
  BY <1>1, OutsideStep DEF ReadOut, Opening, Spawning
<1> QED BY <1>2, <1>3, <1>4, <1>5 DEF IInv

(* fdopen() creates the file close-on-exec. *)
LEMMA OpenScriptInv ==
  ASSUME IInv, NEW t \in Threads, OpenScript(t)
  PROVE  IInv'
<1>1. /\ pc[t] = "script" /\ pc' = [pc EXCEPT ![t] = "written"]
      /\ table' = Set(table, Own(t, {"script"}), "cloexec")
      /\ UNCHANGED <<fork, section, attempt, shared, excl, child, ctable, std, tries>>
  BY DEF OpenScript, Go, locks, children
<1>2. TypeOK /\ table \in [Fds -> States]
  BY DEF IInv, TypeOK
<1>3. /\ table' \in [Fds -> States]
      /\ \A u \in Threads : \A e \in Ends :
           table'[<<u, e>>] = IF u = t /\ e = "script" THEN "cloexec" ELSE table[<<u, e>>]
  BY <1>1, <1>2, SetOwn DEF States
<1>4. TypeOK'
  BY <1>1, <1>2, <1>3 DEF TypeOK
<1>5. Mutex'
  BY <1>1, OutsideStep DEF Opening, Spawning, locks
<1>6. Marked'
  BY <1>1, <1>2, <1>3 DEF IInv, TypeOK, Marked
<1>7. Written'
  BY <1>1, <1>2, <1>3 DEF IInv, TypeOK, Written, Ends
<1>8. Inherited' /\ BeforeExec' /\ Streams' /\ NeverBusy'
  BY <1>1, ParentStep DEF children
<1> QED BY <1>4, <1>5, <1>6, <1>7, <1>8 DEF IInv

(* fcntl() marks one descriptor. *)
LEMMA MarkInv ==
  ASSUME IInv, NEW t \in Threads, Mark(t)
  PROVE  IInv'
<1>1. PICK e \in Created(section[t]) :
        table[<<t, e>>] = "plain" /\ table' = Set(table, Own(t, {e}), "cloexec")
  BY DEF Mark
<1>2. /\ pc[t] = "mark"
      /\ UNCHANGED <<fork, pc, section, attempt, shared, excl, child, ctable, std, tries>>
  BY DEF Mark, locks, children
<1>3. TypeOK /\ table \in [Fds -> States] /\ section[t] \in {"in", "out", "dup"}
  BY DEF IInv, TypeOK
<1>4. e # "script"
  BY <1>1, <1>3, CreatedEnds
<1>5. /\ table' \in [Fds -> States]
      /\ \A u \in Threads : \A x \in Ends :
           table'[<<u, x>>] = IF u = t /\ x = e THEN "cloexec" ELSE table[<<u, x>>]
  BY <1>1, <1>3, SetOwn DEF States
<1>6. TypeOK'
  BY <1>2, <1>3, <1>5 DEF TypeOK
<1>7. Marked'
  BY <1>2, <1>5 DEF IInv, Marked
<1>8. "script" \in Ends
  BY DEF Ends
<1>9. Written'
  BY <1>2, <1>4, <1>5, <1>8 DEF IInv, Written
<1>10. Mutex' /\ Inherited' /\ BeforeExec' /\ Streams' /\ NeverBusy'
  BY <1>2 DEF IInv, Mutex, Inherited, BeforeExec, Streams, NeverBusy
<1> QED BY <1>6, <1>7, <1>9, <1>10 DEF IInv

(* The shared mutex is taken. *)
LEMMA LockSharedInv ==
  ASSUME IInv, NEW t \in Threads, LockShared(t)
  PROVE  IInv'
<1>1. /\ pc[t] = "lock" /\ excl = NoThread /\ pc' = [pc EXCEPT ![t] = "create"]
      /\ shared' = shared \cup {t}
      /\ UNCHANGED <<fork, section, attempt, table, excl, child, ctable, std, tries>>
  BY DEF LockShared, Go, children
<1>2. TypeOK'
  BY <1>1 DEF IInv, TypeOK
<1>3. Mutex'
  BY <1>1 DEF IInv, TypeOK, Mutex, Opening, Spawning
<1>4. Marked' /\ Written'
  BY <1>1 DEF IInv, TypeOK, Marked, Written
<1>5. Inherited' /\ BeforeExec' /\ Streams' /\ NeverBusy'
  BY <1>1, ParentStep DEF children
<1> QED BY <1>2, <1>3, <1>4, <1>5 DEF IInv

(* And released once everything is marked. *)
LEMMA UnlockSharedInv ==
  ASSUME IInv, NEW t \in Threads, UnlockShared(t)
  PROVE  IInv'
<1> DEFINE at == IF section[t] = "dup" THEN "spawn" ELSE "lock"
<1>1. /\ pc[t] = "mark" /\ pc' = [pc EXCEPT ![t] = at]
      /\ \A e \in Created(section[t]) : table[<<t, e>>] = "cloexec"
      /\ shared' = shared \ {t}
      /\ section' = [section EXCEPT ![t] = IF @ = "in" THEN "out" ELSE "dup"]
      /\ UNCHANGED <<fork, attempt, table, excl, child, ctable, std, tries>>
  BY DEF UnlockShared, Go, children
<1>2. TypeOK'
  BY <1>1 DEF IInv, TypeOK
<1>3. at \in {"spawn", "lock"}
  OBVIOUS
<1> HIDE DEF at
<1>4. Mutex'
  BY <1>1, <1>3 DEF IInv, TypeOK, Mutex, Opening, Spawning
<1>5. \A e \in Ends : table[<<t, e>>] # "plain"
  BY <1>1 DEF IInv, Marked
<1>6. Marked'
  BY <1>1, <1>5 DEF IInv, TypeOK, Marked
<1>7. Written'
  BY <1>1 DEF IInv, TypeOK, Written
<1>8. Inherited' /\ BeforeExec' /\ Streams' /\ NeverBusy'
  BY <1>1, ParentStep DEF children
<1> QED BY <1>2, <1>4, <1>6, <1>7, <1>8 DEF IInv

-----------------------------------------------------------------------------
(* The mutex is taken exclusively: nobody holds it any more. *)
LEMMA LockSpawnInv ==
  ASSUME IInv, NEW t \in Threads, LockSpawn(t)
  PROVE  IInv'
<1>1. /\ pc[t] = "spawn" /\ pc' = [pc EXCEPT ![t] = "fork"]
      /\ excl = NoThread /\ shared = {} /\ excl' = t
      /\ UNCHANGED <<fork, section, attempt, shared, table, child, ctable, std, tries>>
  BY DEF LockSpawn, Go, locks, children
<1>2. TypeOK'
  BY <1>1 DEF IInv, TypeOK
<1>3. Mutex'
  BY <1>1, ProcessSpawnAssumption DEF IInv, TypeOK, Mutex, Opening, Spawning
<1>4. Marked' /\ Written'
  BY <1>1 DEF IInv, TypeOK, Marked, Written
<1>5. Inherited' /\ BeforeExec' /\ Streams' /\ NeverBusy'
  BY <1>1, ParentStep DEF children
<1> QED BY <1>2, <1>3, <1>4, <1>5 DEF IInv

(* It is given up before the next attempt. *)
LEMMA SpawnAgainInv ==
  ASSUME IInv, NEW t \in Threads, SpawnAgain(t)
  PROVE  IInv'
<1>1. /\ pc[t] = "fork" /\ pc' = [pc EXCEPT ![t] = "spawn"]
      /\ excl' = NoThread
      /\ UNCHANGED <<fork, section, shared, table, child, ctable, std, tries>>
  BY DEF SpawnAgain, Go, locks, children
<1>2. TypeOK'
  <2>1. attempt[t] \in 0 .. SpawnRetry /\ attempt[t] # SpawnRetry
    BY DEF IInv, TypeOK, SpawnAgain
  <2>2. attempt[t] + 1 \in 0 .. SpawnRetry
    BY <2>1, ProcessSpawnAssumption
  <2>3. attempt' = [attempt EXCEPT ![t] = attempt[t] + 1] /\ attempt \in [Threads -> 0 .. SpawnRetry]
    BY DEF IInv, TypeOK, SpawnAgain
  <2>4. attempt' \in [Threads -> 0 .. SpawnRetry]
    BY <2>2, <2>3
  <2> QED BY <1>1, <2>4 DEF IInv, TypeOK
<1>3. Mutex'
  BY <1>1, ProcessSpawnAssumption DEF IInv, TypeOK, Mutex, Opening, Spawning
<1>4. Marked' /\ Written'
  BY <1>1 DEF IInv, TypeOK, Marked, Written
<1>5. Inherited' /\ BeforeExec' /\ Streams' /\ NeverBusy'
  BY <1>1, ParentStep DEF children
<1> QED BY <1>2, <1>3, <1>4, <1>5 DEF IInv

(* Or after the process was created. *)
LEMMA UnlockSpawnInv ==
  ASSUME IInv, NEW t \in Threads, UnlockSpawn(t)
  PROVE  IInv'
<1>1. /\ pc[t] = "unlock" /\ pc' = [pc EXCEPT ![t] = "parent"]
      /\ excl' = NoThread
      /\ UNCHANGED <<fork, section, attempt, shared, table, child, ctable, std, tries>>
  BY DEF UnlockSpawn, Go, locks, children
<1>2. TypeOK'
  BY <1>1 DEF IInv, TypeOK
<1>3. Mutex'
  BY <1>1, ProcessSpawnAssumption DEF IInv, TypeOK, Mutex, Opening, Spawning
<1>4. Marked' /\ Written'
  BY <1>1 DEF IInv, TypeOK, Marked, Written
<1>5. Inherited' /\ BeforeExec' /\ Streams' /\ NeverBusy'
  BY <1>1, ParentStep DEF children
<1> QED BY <1>2, <1>3, <1>4, <1>5 DEF IInv

(* posix_spawn() returns when the child has called exec(). *)
LEMMA ResumeInv ==
  ASSUME IInv, NEW t \in Threads, Resume(t)
  PROVE  IInv'
<1>1. /\ pc[t] = "suspended" /\ pc' = [pc EXCEPT ![t] = "unlock"]
      /\ child[t] # "forked"
      /\ UNCHANGED <<shared, excl>>
      /\ UNCHANGED <<fork, section, attempt, table, child, ctable, std, tries>>
  BY DEF Resume, Go, locks, children
<1>2. TypeOK'
  BY <1>1 DEF IInv, TypeOK
<1>3. Mutex'
  BY <1>1, ProcessSpawnAssumption DEF IInv, TypeOK, Mutex, Opening, Spawning
<1>4. Marked' /\ Written'
  BY <1>1 DEF IInv, TypeOK, Marked, Written
<1>5. Inherited' /\ BeforeExec' /\ Streams' /\ NeverBusy'
  BY <1>1, ParentStep DEF children
<1> QED BY <1>2, <1>3, <1>4, <1>5 DEF IInv

(* The child has ended and is waited for. *)
LEMMA WaitInv ==
  ASSUME IInv, NEW t \in Threads, Wait(t)
  PROVE  IInv'
<1>1. /\ pc[t] = "wait" /\ pc' = [pc EXCEPT ![t] = "done"]
      /\ UNCHANGED <<shared, excl>>
      /\ UNCHANGED <<fork, section, attempt, table, child, ctable, std, tries>>
  BY DEF Wait, Go, locks, children
<1>2. TypeOK'
  BY <1>1 DEF IInv, TypeOK
<1>3. Mutex'
  BY <1>1, OutsideStep DEF Opening, Spawning, locks
<1>4. Marked' /\ Written'
  BY <1>1 DEF IInv, TypeOK, Marked, Written
<1>5. Inherited' /\ BeforeExec' /\ Streams' /\ NeverBusy'
  BY <1>1, ParentStep DEF children
<1> QED BY <1>2, <1>3, <1>4, <1>5 DEF IInv

(* The child is created while nobody is marking descriptors and no other   *)
(* child is before exec() (posix_spawn()).                                 *)
LEMMA CreateChildInv ==
  ASSUME IInv, NEW t \in Threads, CreateChild(t)
  PROVE  IInv'
<1> DEFINE at == IF fork THEN "unlock" ELSE "suspended"
<1>1. /\ pc[t] = "fork" /\ pc' = [pc EXCEPT ![t] = at]
      /\ child' = [child EXCEPT ![t] = "forked"]
      /\ ctable' = [ctable EXCEPT ![t] = table]
      /\ UNCHANGED <<fork, section, attempt, table, shared, excl, std, tries>>
  BY DEF CreateChild, Go, locks
<1>2. at \in {"unlock", "suspended"} /\ (~fork => at = "suspended")
  OBVIOUS
<1> HIDE DEF at
<1>3. TypeOK'
  BY <1>1, <1>2 DEF IInv, TypeOK
<1>4. Mutex'
  BY <1>1, <1>2 DEF IInv, TypeOK, Mutex, Opening, Spawning
<1>5. Marked' /\ Written'
  BY <1>1, <1>2 DEF IInv, TypeOK, Marked, Written
<1>6. \A u \in Threads : \A e \in Ends : table[<<u, e>>] # "plain"
  <2>1. shared = {}
    BY <1>1, ProcessSpawnAssumption DEF IInv, Mutex, Spawning
  <2>2. \A u \in Threads : pc[u] # "mark"
    BY <2>1 DEF IInv, Mutex, Opening
  <2> QED BY <2>2 DEF IInv, Marked
<1>7. \A d \in Fds : table[d] \in {"none", "cloexec"}
  BY <1>6 DEF IInv, TypeOK, States, Fds
<1>8. Inherited'
  BY <1>1, <1>7 DEF IInv, TypeOK, Inherited
<1>9. table[<<t, "script">>] = "none"
  BY <1>1 DEF IInv, Written
<1>10. BeforeExec'
  <2>1. SUFFICES ASSUME NEW u \in Threads, child'[u] = "forked"
                 PROVE  /\ ctable'[u][<<u, "script">>] = "none"
                        /\ ~fork => pc'[u] = "suspended"
    BY <1>1 DEF BeforeExec
  <2>2. /\ ctable'[t] = table /\ pc'[t] = at
        /\ u # t => ctable'[u] = ctable[u] /\ pc'[u] = pc[u] /\ child'[u] = child[u]
    BY <1>1 DEF IInv, TypeOK
  <2>3. CASE u = t
    BY <1>2, <1>9, <2>2, <2>3
  <2>4. CASE u # t
    BY <2>1, <2>2, <2>4 DEF IInv, BeforeExec
  <2> QED BY <2>3, <2>4
<1>11. Streams' /\ NeverBusy'
  BY <1>1 DEF IInv, TypeOK, Streams, NeverBusy
<1> QED BY <1>3, <1>4, <1>5, <1>8, <1>10, <1>11 DEF IInv

-----------------------------------------------------------------------------
(* A step of a child leaves the parent alone. *)
LEMMA ChildStep ==
  ASSUME IInv, UNCHANGED <<fork, pc, section, attempt, table, locks>>
  PROVE  Mutex' /\ Marked' /\ Written'
BY DEF IInv, Mutex, Marked, Written, locks

(* A child that ends has no descriptors any more. *)
LEMMA EndStep ==
  ASSUME IInv, NEW t \in Threads, NEW how \in {"exited", "dead"},
         UNCHANGED <<fork, pc, section, attempt, table, locks, tries>>,
         child' = [child EXCEPT ![t] = how], ctable' = [ctable EXCEPT ![t] = NoFds],
         std' = [std EXCEPT ![t] = {}], how = "dead" => fork
  PROVE  IInv'
<1>1. TypeOK'
  BY DEF IInv, TypeOK, NoFds, States, locks
<1>2. Inherited'
  BY DEF IInv, TypeOK, Inherited, NoFds
<1>3. BeforeExec'
  BY DEF IInv, TypeOK, BeforeExec
<1>4. Streams' /\ NeverBusy'
  BY DEF IInv, TypeOK, Streams, NeverBusy
<1> QED BY <1>1, <1>2, <1>3, <1>4, ChildStep DEF IInv

(* The child connects its streams. *)
LEMMA RedirectInv ==
  ASSUME IInv, NEW t \in Threads, Redirect(t)
  PROVE  IInv'
<1> DEFINE closed == Own(t, {"in.r", "in.w", "out.r", "out.w"})
<1>1. /\ child[t] = "forked"
      /\ std' = [std EXCEPT ![t] = Own(t, {"in.r", "out.w"})]
      /\ ctable' = [ctable EXCEPT ![t] = Set(ctable[t], closed, "none")]
      /\ UNCHANGED <<fork, pc, section, attempt, table, locks, child, tries>>
  BY DEF Redirect
<1> HIDE DEF closed
<1>2. ctable[t] \in [Fds -> States] /\ ctable \in [Threads -> [Fds -> States]]
  BY DEF IInv, TypeOK
<1>3. /\ Set(ctable[t], closed, "none") \in [Fds -> States]
      /\ \A d \in Fds : Set(ctable[t], closed, "none")[d] \in {"none", ctable[t][d]}
  BY <1>2, SetIs DEF States
<1>4. Own(t, {"in.r", "out.w"}) \in SUBSET Fds
  BY DEF Own, Fds, Ends
<1>5. TypeOK'
  BY <1>1, <1>2, <1>3, <1>4 DEF IInv, TypeOK, locks
<1>6. Inherited'
  BY <1>1, <1>2, <1>3 DEF IInv, Inherited
<1>7. <<t, "script">> \in Fds
  BY DEF Fds, Ends
<1>8. BeforeExec'
  BY <1>1, <1>2, <1>3, <1>7 DEF IInv, BeforeExec
<1>9. Streams' /\ NeverBusy'
  BY <1>1 DEF IInv, TypeOK, Streams, NeverBusy
<1> QED BY <1>1, <1>5, <1>6, <1>8, <1>9, ChildStep DEF IInv

(* exec() closes what is close-on-exec, which is everything. *)
LEMMA ExecInv ==
  ASSUME IInv, NEW t \in Threads, Exec(t)
  PROVE  IInv'
<1> DEFINE kept == [d \in Fds |-> IF ctable[t][d] = "cloexec" THEN "none" ELSE ctable[t][d]]
<1>1. /\ child' = [child EXCEPT ![t] = "running"]
      /\ ctable' = [ctable EXCEPT ![t] = kept]
      /\ UNCHANGED <<fork, pc, section, attempt, table, locks, std, tries>>
  BY DEF Exec
<1>2. \A d \in Fds : kept[d] = "none"
  BY DEF IInv, Inherited
<1>3. kept \in [Fds -> States]
  BY <1>2 DEF States
<1> HIDE DEF kept
<1>4. TypeOK'
  BY <1>1, <1>3 DEF IInv, TypeOK, locks
<1>5. Inherited'
  BY <1>1, <1>2 DEF IInv, TypeOK, Inherited
<1>6. BeforeExec'
  BY <1>1 DEF IInv, TypeOK, BeforeExec
<1>7. Streams' /\ NeverBusy'
  BY <1>1 DEF IInv, TypeOK, Streams, NeverBusy
<1> QED BY <1>1, <1>4, <1>5, <1>6, <1>7, ChildStep DEF IInv

(* With posix_spawn() nobody holds the file of a child that calls exec():  *)
(* its thread has closed it, no other child is before exec(), and standard *)
(* streams are pipes.                                                      *)
LEMMA NotBusy ==
  ASSUME IInv, NEW t \in Threads, child[t] = "forked", ~fork
  PROVE  ~Busy(t)
<1> DEFINE d == <<t, "script">>
<1>1. d \in Fds
  BY DEF Fds, Ends
<1>2. pc[t] = "suspended" /\ excl = t
  BY DEF IInv, BeforeExec, Mutex, Spawning
<1>3. table[d] = "none"
  BY <1>2 DEF IInv, Written
<1>4. \A u \in Threads : ctable[u][d] = "none"
  <2>1. SUFFICES ASSUME NEW u \in Threads, ctable[u][d] # "none"
                 PROVE  FALSE
    OBVIOUS
  <2>2. child[u] = "forked"
    BY <1>1, <2>1 DEF IInv, Inherited
  <2>3. excl = u
    BY <2>2 DEF IInv, BeforeExec, Mutex, Spawning
  <2>4. ctable[t][d] = "none"
    BY DEF IInv, BeforeExec
  <2> QED BY <1>2, <2>1, <2>3, <2>4
<1>5. \A u \in Threads : d \notin std[u]
  BY DEF IInv, Streams, Own
<1> QED BY <1>3, <1>4, <1>5 DEF Busy, Held

(* A failed exec() is tried again, or the child ends. *)
LEMMA ExecBusyInv ==
  ASSUME IInv, NEW t \in Threads, ExecBusy(t)
  PROVE  IInv'
<1>1. fork
  BY NotBusy, ProcessSpawnAssumption DEF ExecBusy
<1>2. CASE fork /\ tries[t] + 1 # ExecTries
  <2>1. /\ tries' = [tries EXCEPT ![t] = tries[t] + 1]
        /\ UNCHANGED <<fork, pc, section, attempt, table, locks, child, ctable, std>>
    BY <1>2 DEF ExecBusy
  <2>2. tries \in [Threads -> 0 .. ExecTries - 1] /\ tries[t] \in 0 .. ExecTries - 1
    BY DEF IInv, TypeOK
  <2>3. tries[t] + 1 \in 0 .. ExecTries - 1
    BY <1>2, <2>2, ProcessSpawnAssumption
  <2>4. tries' \in [Threads -> 0 .. ExecTries - 1]
    BY <2>1, <2>2, <2>3
  <2>5. TypeOK'
    BY <2>1, <2>4 DEF IInv, TypeOK, locks
  <2>6. Inherited' /\ BeforeExec' /\ Streams' /\ NeverBusy'
    BY <2>1 DEF IInv, Inherited, BeforeExec, Streams, NeverBusy
  <2> QED BY <2>1, <2>5, <2>6, ChildStep DEF IInv
<1>3. CASE ~(fork /\ tries[t] + 1 # ExecTries)
  BY <1>1, <1>3, EndStep DEF ExecBusy
<1> QED BY <1>2, <1>3

(* The program ends. *)
LEMMA ExitInv ==
  ASSUME IInv, NEW t \in Threads, Exit(t)
  PROVE  IInv'
BY EndStep DEF Exit

-----------------------------------------------------------------------------
(* Nothing is open at the beginning. *)
LEMMA InitInv == Init => IInv
<1> SUFFICES ASSUME Init PROVE IInv
  OBVIOUS
<1>1. TypeOK
  BY ProcessSpawnAssumption DEF Init, TypeOK, NoFds, States
<1>2. Mutex
  BY ProcessSpawnAssumption DEF Init, Mutex, Opening, Spawning
<1>3. \A t \in Threads : \A e \in Ends : table[<<t, e>>] = "none"
  BY DEF Init, NoFds, Fds
<1>4. Marked /\ Written
  BY <1>3 DEF Marked, Written, Ends
<1>5. Inherited /\ BeforeExec /\ Streams /\ NeverBusy
  BY DEF Init, Inherited, BeforeExec, Streams, NeverBusy, NoFds
<1> QED BY <1>1, <1>2, <1>4, <1>5 DEF IInv

(* Every step preserves the invariant. *)
LEMMA NextInv == IInv /\ [Next]_vars => IInv'
<1> SUFFICES ASSUME IInv, [Next]_vars PROVE IInv'
  OBVIOUS
<1>1. CASE UNCHANGED vars
  BY <1>1 DEF vars, IInv, TypeOK, Mutex, Marked, Written, Inherited, BeforeExec, Streams, NeverBusy
<1>2. ASSUME NEW t \in Threads, Open(t) PROVE IInv'
  BY <1>2, OpenScriptInv, CloseScriptInv, CreateInv, MarkInv, UnlockSharedInv, CreateFailsInv DEF Open
<1>3. ASSUME NEW t \in Threads, Spawn(t) PROVE IInv'
  BY <1>3, CreateChildInv, ResumeInv, SpawnAgainInv, SpawnFailsInv, UnlockSpawnInv DEF Spawn
<1>4. ASSUME NEW t \in Threads, Child(t) PROVE IInv'
  BY <1>4, RedirectInv, ExecInv, ExecBusyInv, ExitInv DEF Child
<1>5. ASSUME NEW t \in Threads, Parent(t) PROVE IInv'
  BY <1>5, CloseChildEndsInv, CloseInInv, ReadOutInv, WaitInv DEF Parent
<1>6. CASE AllDone
  BY <1>1, <1>6 DEF AllDone
<1> QED BY <1>1, <1>2, <1>3, <1>4, <1>5, <1>6, LockSharedInv, LockSpawnInv DEF Next

(* The invariant of process_spawn_mutex holds in every reachable state. *)
THEOREM Invariant == Spec => []IInv
BY InitInv, NextInv, PTL DEF Spec

(* The variables keep their types; the attempts stay within their limits. *)
THEOREM TypeCorrect == Spec => []TypeOK
<1>1. IInv => TypeOK
  BY DEF IInv
<1> QED BY <1>1, Invariant, PTL

(* However many threads start processes, no program inherits a descriptor  *)
(* of the library.                                                         *)
THEOREM NothingLeaks == Spec => []NoLeak
<1>1. IInv => NoLeak
  BY DEF IInv, Inherited, NoLeak
<1> QED BY <1>1, Invariant, PTL

(* However many threads start processes with posix_spawn(), none fails     *)
(* because its executable is still open for writing.                       *)
THEOREM ScriptsRun == Spec => []NeverBusy
<1>1. IInv => NeverBusy
  BY DEF IInv
<1> QED BY <1>1, Invariant, PTL
=============================================================================
