-------------------------- MODULE Commands_proofs ---------------------------
(***************************************************************************)
(* Proofs about Commands: lookups on paths of any length, what the system  *)
(* calls do to the tree and what stays as it was, and that the types of    *)
(* TypeOK are kept, for every tree and every command of any number of      *)
(* processes.                                                              *)
(***************************************************************************)
EXTENDS Commands, SequenceTheorems, WellFoundedInduction, TLAPS

(* A nonempty set of natural numbers has a least element. *)
LEMMA LeastExists ==
  ASSUME NEW T \in SUBSET Nat, T # {}
  PROVE  \E x \in T : \A y \in T : x <= y
<1> DEFINE R == OpToRel(<, Nat)
<1>1. IsWellFoundedOn(R, Nat)
  BY NatLessThanWellFounded
<1>2. \A x, y \in Nat : x < y => <<x, y>> \in R
  BY DEF OpToRel
<1> HIDE DEF R
<1>3. PICK x \in T : \A y \in T : ~(<<y, x>> \in R)
  BY <1>1, WFMin
<1>4. ASSUME NEW y \in T PROVE x <= y
  <2>1. ~(y < x)
    BY <1>2, <1>3, Zenon
  <2> QED BY <2>1
<1> QED BY <1>4

(* Induction over the natural numbers, for a set. *)
LEMMA NatSetInduction ==
  ASSUME NEW T, 0 \in T, \A n \in Nat : n \in T => n + 1 \in T
  PROVE  \A n \in Nat : n \in T
<1> DEFINE B == {n \in Nat : n \notin T}
<1> SUFFICES ASSUME B # {} PROVE FALSE
  OBVIOUS
<1>1. PICK x \in B : \A y \in B : x <= y
  BY LeastExists
<1>2. x # 0 /\ x - 1 \in Nat
  BY <1>1
<1>3. x - 1 \notin B
  BY <1>1, <1>2
<1> QED BY <1>1, <1>2, <1>3

(* The parts of a sequence with one more element, ... *)
LEMMA AppendParts ==
  ASSUME NEW N, NEW q \in Seq(N), NEW n \in N
  PROVE  /\ Append(q, n) \in Seq(N) /\ Append(q, n) # <<>>
         /\ Len(Append(q, n)) = Len(q) + 1
         /\ Front(Append(q, n)) = q /\ Last(Append(q, n)) = n
         /\ Append(q, n)[Len(q) + 1] = n
         /\ \A k \in 1 .. Len(q) : Append(q, n)[k] = q[k]
BY DEF Front, Last

(* ... and of a sequence that is not empty. *)
LEMMA FrontLast ==
  ASSUME NEW N, NEW q \in Seq(N), q # <<>>
  PROVE  /\ Front(q) \in Seq(N) /\ Last(q) \in N /\ Len(Front(q)) = Len(q) - 1
         /\ Append(Front(q), Last(q)) = q
<1>1. Len(q) \in Nat /\ Len(q) >= 1
  OBVIOUS
<1>2. Front(q) \in Seq(N) /\ Len(Front(q)) = Len(q) - 1
  <2>1. \A i \in 1 .. Len(q) - 1 : q[i] \in N
    BY <1>1
  <2>2. PICK n \in Int : n = Len(q) - 1
    BY <1>1
  <2>3. \A i \in 1 .. n : q[i] \in N
    BY <2>1, <2>2
  <2>4. SubSeq(q, 1, n) \in Seq(N) /\ Len(SubSeq(q, 1, n)) = IF 1 <= n THEN n - 1 + 1 ELSE 0
    BY <2>3, SubSeqProperties
  <2> QED BY <1>1, <2>2, <2>4 DEF Front
<1>3. Last(q) \in N
  BY <1>1 DEF Last
<1>4. Append(Front(q), Last(q)) = q
  BY DEF Front, Last
<1> QED BY <1>2, <1>3, <1>4

(* Induction over paths. *)
LEMMA PathInduction ==
  ASSUME NEW N, NEW T, <<>> \in T, \A q \in Seq(N), n \in N : q \in T => Append(q, n) \in T
  PROVE  \A q \in Seq(N) : q \in T
<1> DEFINE S == {k \in Nat : \A q \in Seq(N) : Len(q) = k => q \in T}
<1>1. 0 \in S
  OBVIOUS
<1>2. ASSUME NEW k \in Nat, k \in S PROVE k + 1 \in S
  <2> SUFFICES ASSUME NEW q \in Seq(N), Len(q) = k + 1 PROVE q \in T
    OBVIOUS
  <2>1. q # <<>>
    OBVIOUS
  <2>2. /\ Front(q) \in Seq(N) /\ Last(q) \in N /\ Len(Front(q)) = k
        /\ Append(Front(q), Last(q)) = q
    BY <2>1, FrontLast
  <2>3. Front(q) \in T
    BY <1>2, <2>2
  <2> QED BY <2>2, <2>3
<1>3. \A k \in Nat : k \in S
  <2> HIDE DEF S
  <2> QED BY <1>1, <1>2, NatSetInduction
<1> QED BY <1>3

(* The steps of a lookup. *)
Walks(V, s, next, q) ==
  \E g \in [0 .. Len(q) -> V] : g[0] = s /\ \A k \in 1 .. Len(q) : g[k] = next[q[k]][g[k - 1]]

(* A lookup that goes from one value to the next by the elements of a      *)
(* path is defined for every path: what makes the recursive functions of   *)
(* Down and LstatIn available.                                             *)
LEMMA WalkExists ==
  ASSUME NEW V, NEW s \in V, NEW N, NEW next \in [N -> [V -> V]]
  PROVE  \A q \in Seq(N) : Walks(V, s, next, q)
<1> DEFINE W(g, q) == /\ g \in [0 .. Len(q) -> V] /\ g[0] = s
                      /\ \A k \in 1 .. Len(q) : g[k] = next[q[k]][g[k - 1]]
           T == {q \in Seq(N) : \E g : W(g, q)}
<1>1. <<>> \in T
  <2>1. W([k \in 0 .. 0 |-> s], <<>>)
    OBVIOUS
  <2> HIDE DEF W
  <2> QED BY <2>1
<1>2. ASSUME NEW q \in Seq(N), NEW n \in N, q \in T PROVE Append(q, n) \in T
  <2>1. PICK g : W(g, q)
    BY <1>2
  <2> DEFINE m == Len(q)
             a == Append(q, n)
             h == [k \in 0 .. m + 1 |-> IF k = m + 1 THEN next[n][g[m]] ELSE g[k]]
  <2>2. a \in Seq(N) /\ Len(a) = m + 1 /\ a[m + 1] = n /\ \A k \in 1 .. m : a[k] = q[k]
    BY AppendParts
  <2>3. m \in Nat /\ g[m] \in V /\ next[n][g[m]] \in V
    BY <2>1
  <2> HIDE DEF a, m
  <2>4. h \in [0 .. Len(a) -> V] /\ h[0] = s
    BY <2>1, <2>2, <2>3 DEF m
  <2>5. ASSUME NEW k \in 1 .. Len(a) PROVE h[k] = next[a[k]][h[k - 1]]
    <3>1. CASE k = m + 1
      BY <3>1, <2>2, <2>3
    <3>2. CASE k # m + 1
      <4>1. k \in 1 .. m /\ k - 1 \in 0 .. m + 1 /\ k - 1 # m + 1
        BY <3>2, <2>2, <2>3
      <4>2. g[k] = next[q[k]][g[k - 1]]
        BY <2>1, <4>1 DEF m
      <4> QED BY <4>1, <4>2, <2>2, <2>3
    <3> QED BY <3>1, <3>2
  <2>6. W(h, a)
    BY <2>4, <2>5
  <2> QED BY <2>2, <2>6 DEF a
<1> HIDE DEF T
<1>3. \A q \in Seq(N) : q \in T
  BY <1>1, <1>2, PathInduction
<1> QED BY <1>3 DEF T, Walks

(* What a lookup without symlinks returns. *)
LEMMA DownIs ==
  ASSUME NEW f \in [Ids -> Inodes]
  PROVE  /\ Down(f, <<>>) = Root
         /\ \A q \in Seq(Names) :
              /\ Down(f, q) \in Refs
              /\ \A n \in Names : Down(f, Append(q, n)) = ChildIn(f, Down(f, q), n)
<1> DEFINE next == [n \in Names |-> [i \in Refs |-> ChildIn(f, i, n)]]
           Is(g, q) == g = [k \in 0 .. Len(q) |-> IF k = 0 THEN Root ELSE ChildIn(f, g[k - 1], q[k])]
           Walk(q) == CHOOSE g : Is(g, q)
<1>1. \A n \in Names, i \in Refs : ChildIn(f, i, n) \in Refs
  BY DEF ChildIn, TypeIn, Refs, Inodes, NoInode
<1>2. next \in [Names -> [Refs -> Refs]] /\ \A n \in Names, i \in Refs : next[n][i] = ChildIn(f, i, n)
  BY <1>1
<1>3. Root \in Refs
  BY CommandsAssumption DEF Refs
<1>4. ASSUME NEW q \in Seq(Names), NEW a, Is(a, q)
      PROVE  /\ a[0] = Root /\ \A k \in 1 .. Len(q) : a[k] = ChildIn(f, a[k - 1], q[k])
             /\ a \in [0 .. Len(q) -> Refs]
  <2> DEFINE T == {k \in Nat : k <= Len(q) => a[k] \in Refs}
  <2>1. a[0] = Root
    BY <1>4
  <2>2. ASSUME NEW k \in 1 .. Len(q) PROVE a[k] = ChildIn(f, a[k - 1], q[k])
    BY <1>4
  <2>3. DOMAIN a = 0 .. Len(q) /\ a = [k \in 0 .. Len(q) |-> a[k]]
    BY <1>4
  <2>4. 0 \in T
    BY <2>1, <1>3
  <2>5. ASSUME NEW k \in Nat, k \in T PROVE k + 1 \in T
    <3> SUFFICES ASSUME k + 1 <= Len(q) PROVE a[k + 1] \in Refs
      OBVIOUS
    <3>1. a[k] \in Refs /\ k + 1 \in 1 .. Len(q) /\ q[k + 1] \in Names
      BY <2>5
    <3>2. a[k + 1] = ChildIn(f, a[k], q[k + 1])
      BY <2>2, <3>1
    <3> QED BY <3>1, <3>2, <1>1
  <2>6. \A k \in Nat : k \in T
    <3> HIDE DEF T
    <3> QED BY <2>4, <2>5, NatSetInduction
  <2>7. \A k \in 0 .. Len(q) : a[k] \in Refs
    BY <2>6
  <2> QED BY <2>1, <2>2, <2>3, <2>7
<1>5. ASSUME NEW q \in Seq(Names)
      PROVE  Is(Walk(q), q) /\ Down(f, q) = Walk(q)[Len(q)]
  <2> HIDE DEF next
  <2>1. Walks(Refs, Root, next, q)
    BY <1>2, <1>3, WalkExists
  <2>2. PICK g \in [0 .. Len(q) -> Refs] : g[0] = Root /\ \A k \in 1 .. Len(q) : g[k] = next[q[k]][g[k - 1]]
    BY <2>1, Zenon DEF Walks
  <2>3. ASSUME NEW k \in 1 .. Len(q) PROVE g[k] = ChildIn(f, g[k - 1], q[k])
    <3>1. q[k] \in Names /\ k - 1 \in 0 .. Len(q)
      OBVIOUS
    <3>2. g[k - 1] \in Refs
      BY <3>1
    <3> QED BY <2>2, <3>1, <3>2, <1>2
  <2>4. Is(g, q)
    BY <2>2, <2>3
  <2>5. Is(Walk(q), q)
    BY <2>4, Zenon
  <2>6. Down(f, q) = Walk(q)[Len(q)]
    BY Zenon DEF Down
  <2> QED BY <2>5, <2>6
<1> HIDE DEF Walk, Is
<1>6. ASSUME NEW q \in Seq(Names)
      PROVE  Down(f, q) \in Refs
  <2>1. Len(q) \in 0 .. Len(q)
    OBVIOUS
  <2> QED BY <1>4, <1>5, <2>1
<1>7. Down(f, <<>>) = Root
  <2>1. Len(<<>>) = 0 /\ <<>> \in Seq(Names)
    OBVIOUS
  <2> QED BY <1>4, <1>5, <2>1
<1>8. ASSUME NEW q \in Seq(Names), NEW n \in Names
      PROVE  Down(f, Append(q, n)) = ChildIn(f, Down(f, q), n)
  <2> DEFINE m == Len(q)
             r == Append(q, n)
             a == Walk(q)
             b == Walk(r)
             T == {k \in Nat : k <= m => a[k] = b[k]}
  <2>1. r \in Seq(Names) /\ Len(r) = m + 1 /\ r[m + 1] = n /\ \A k \in 1 .. m : r[k] = q[k]
    BY AppendParts
  <2>2. m \in Nat
    OBVIOUS
  <2> HIDE DEF r
  <2>3. Is(a, q) /\ Is(b, r) /\ Down(f, q) = a[m] /\ Down(f, r) = b[m + 1]
    BY <1>5, <2>1
  <2> HIDE DEF a, b
  <2>4. /\ a[0] = Root /\ \A k \in 1 .. m : a[k] = ChildIn(f, a[k - 1], q[k])
        /\ b[0] = Root /\ \A k \in 1 .. m + 1 : b[k] = ChildIn(f, b[k - 1], r[k])
    <3>1. a[0] = Root /\ \A k \in 1 .. m : a[k] = ChildIn(f, a[k - 1], q[k])
      BY <1>4, <2>3
    <3>2. b[0] = Root /\ \A k \in 1 .. Len(r) : b[k] = ChildIn(f, b[k - 1], r[k])
      BY <1>4, <2>1, <2>3
    <3> QED BY <2>1, <3>1, <3>2
  <2> HIDE DEF m
  <2>5. b[m + 1] = ChildIn(f, b[m], n)
    <3>1. m + 1 \in 1 .. m + 1 /\ (m + 1) - 1 = m
      BY <2>2
    <3> QED BY <2>1, <2>4, <3>1
  <2>6. 0 \in T
    BY <2>4
  <2>7. ASSUME NEW k \in Nat, k \in T PROVE k + 1 \in T
    <3> SUFFICES ASSUME k + 1 <= m PROVE a[k + 1] = b[k + 1]
      OBVIOUS
    <3>1. a[k] = b[k] /\ k + 1 \in 1 .. m /\ k + 1 \in 1 .. m + 1 /\ (k + 1) - 1 = k
      BY <2>2, <2>7
    <3> QED BY <2>1, <2>4, <3>1
  <2>8. m \in T
    <3> HIDE DEF T
    <3> QED BY <2>2, <2>6, <2>7, NatSetInduction
  <2>9. a[m] = b[m]
    BY <2>2, <2>8
  <2> QED BY <2>3, <2>5, <2>9 DEF r
<1> QED BY <1>6, <1>7, <1>8

(* An entry of a directory is an inode or Nil, ... *)
LEMMA ChildType ==
  ASSUME NEW f \in [Ids -> Inodes], NEW i \in Refs, NEW n \in Names
  PROVE  ChildIn(f, i, n) \in Refs
BY DEF ChildIn, TypeIn, Refs, Inodes, NoInode

(* ... and so is what a symlink leads to. *)
LEMMA DerefType ==
  ASSUME NEW f \in [Ids -> Inodes], NEW i \in Refs
  PROVE  DerefIn(f, i) \in Refs
<1>1. TypeIn(f, i) = "link" => f[i].to \in Seq(Names)
  BY DEF TypeIn, Refs, Inodes, NoInode
<1>2. TypeIn(f, i) = "link" => Down(f, f[i].to) \in Refs
  BY <1>1, DownIs
<1> QED BY <1>2 DEF DerefIn, Refs

(* What lstat() finds. *)
LEMMA LstatIs ==
  ASSUME NEW f \in [Ids -> Inodes]
  PROVE  /\ LstatIn(f, <<>>) = Root
         /\ \A q \in Seq(Names) :
              /\ LstatIn(f, q) \in Refs
              /\ \A n \in Names : LstatIn(f, Append(q, n)) = ChildIn(f, DerefIn(f, LstatIn(f, q)), n)
<1> DEFINE next == [n \in Names |-> [i \in Refs |-> ChildIn(f, DerefIn(f, i), n)]]
           Is(g, q) == g = [k \in 0 .. Len(q) |-> IF k = 0 THEN Root ELSE ChildIn(f, DerefIn(f, g[k - 1]), q[k])]
           Walk(q) == CHOOSE g : Is(g, q)
<1>1. \A n \in Names, i \in Refs : ChildIn(f, DerefIn(f, i), n) \in Refs
  BY ChildType, DerefType
<1>2. next \in [Names -> [Refs -> Refs]] /\ \A n \in Names, i \in Refs : next[n][i] = ChildIn(f, DerefIn(f, i), n)
  BY <1>1
<1>3. Root \in Refs
  BY CommandsAssumption DEF Refs
<1>4. ASSUME NEW q \in Seq(Names), NEW a, Is(a, q)
      PROVE  /\ a[0] = Root /\ \A k \in 1 .. Len(q) : a[k] = ChildIn(f, DerefIn(f, a[k - 1]), q[k])
             /\ a \in [0 .. Len(q) -> Refs]
  <2> DEFINE T == {k \in Nat : k <= Len(q) => a[k] \in Refs}
  <2>1. a[0] = Root
    BY <1>4
  <2>2. ASSUME NEW k \in 1 .. Len(q) PROVE a[k] = ChildIn(f, DerefIn(f, a[k - 1]), q[k])
    BY <1>4
  <2>3. DOMAIN a = 0 .. Len(q) /\ a = [k \in 0 .. Len(q) |-> a[k]]
    BY <1>4
  <2>4. 0 \in T
    BY <2>1, <1>3
  <2>5. ASSUME NEW k \in Nat, k \in T PROVE k + 1 \in T
    <3> SUFFICES ASSUME k + 1 <= Len(q) PROVE a[k + 1] \in Refs
      OBVIOUS
    <3>1. a[k] \in Refs /\ k + 1 \in 1 .. Len(q) /\ q[k + 1] \in Names
      BY <2>5
    <3>2. a[k + 1] = ChildIn(f, DerefIn(f, a[k]), q[k + 1])
      BY <2>2, <3>1
    <3> QED BY <3>1, <3>2, <1>1
  <2>6. \A k \in Nat : k \in T
    <3> HIDE DEF T
    <3> QED BY <2>4, <2>5, NatSetInduction
  <2>7. \A k \in 0 .. Len(q) : a[k] \in Refs
    BY <2>6
  <2> QED BY <2>1, <2>2, <2>3, <2>7
<1>5. ASSUME NEW q \in Seq(Names)
      PROVE  Is(Walk(q), q) /\ LstatIn(f, q) = Walk(q)[Len(q)]
  <2> HIDE DEF next
  <2>1. Walks(Refs, Root, next, q)
    BY <1>2, <1>3, WalkExists
  <2>2. PICK g \in [0 .. Len(q) -> Refs] : g[0] = Root /\ \A k \in 1 .. Len(q) : g[k] = next[q[k]][g[k - 1]]
    BY <2>1, Zenon DEF Walks
  <2>3. ASSUME NEW k \in 1 .. Len(q) PROVE g[k] = ChildIn(f, DerefIn(f, g[k - 1]), q[k])
    <3>1. q[k] \in Names /\ k - 1 \in 0 .. Len(q)
      OBVIOUS
    <3>2. g[k - 1] \in Refs
      BY <3>1
    <3> QED BY <2>2, <3>1, <3>2, <1>2
  <2>4. Is(g, q)
    BY <2>2, <2>3
  <2>5. Is(Walk(q), q)
    BY <2>4, Zenon
  <2>6. LstatIn(f, q) = Walk(q)[Len(q)]
    BY Zenon DEF LstatIn
  <2> QED BY <2>5, <2>6
<1> HIDE DEF Walk, Is
<1>6. ASSUME NEW q \in Seq(Names)
      PROVE  LstatIn(f, q) \in Refs
  <2>1. Len(q) \in 0 .. Len(q)
    OBVIOUS
  <2> QED BY <1>4, <1>5, <2>1
<1>7. LstatIn(f, <<>>) = Root
  <2>1. Len(<<>>) = 0 /\ <<>> \in Seq(Names)
    OBVIOUS
  <2> QED BY <1>4, <1>5, <2>1
<1>8. ASSUME NEW q \in Seq(Names), NEW n \in Names
      PROVE  LstatIn(f, Append(q, n)) = ChildIn(f, DerefIn(f, LstatIn(f, q)), n)
  <2> DEFINE m == Len(q)
             r == Append(q, n)
             a == Walk(q)
             b == Walk(r)
             T == {k \in Nat : k <= m => a[k] = b[k]}
  <2>1. r \in Seq(Names) /\ Len(r) = m + 1 /\ r[m + 1] = n /\ \A k \in 1 .. m : r[k] = q[k]
    BY AppendParts
  <2>2. m \in Nat
    OBVIOUS
  <2> HIDE DEF r
  <2>3. Is(a, q) /\ Is(b, r) /\ LstatIn(f, q) = a[m] /\ LstatIn(f, r) = b[m + 1]
    BY <1>5, <2>1
  <2> HIDE DEF a, b
  <2>4. /\ a[0] = Root /\ \A k \in 1 .. m : a[k] = ChildIn(f, DerefIn(f, a[k - 1]), q[k])
        /\ b[0] = Root /\ \A k \in 1 .. m + 1 : b[k] = ChildIn(f, DerefIn(f, b[k - 1]), r[k])
    <3>1. a[0] = Root /\ \A k \in 1 .. m : a[k] = ChildIn(f, DerefIn(f, a[k - 1]), q[k])
      BY <1>4, <2>3
    <3>2. b[0] = Root /\ \A k \in 1 .. Len(r) : b[k] = ChildIn(f, DerefIn(f, b[k - 1]), r[k])
      BY <1>4, <2>1, <2>3
    <3> QED BY <2>1, <3>1, <3>2
  <2> HIDE DEF m
  <2>5. b[m + 1] = ChildIn(f, DerefIn(f, b[m]), n)
    <3>1. m + 1 \in 1 .. m + 1 /\ (m + 1) - 1 = m
      BY <2>2
    <3> QED BY <2>1, <2>4, <3>1
  <2>6. 0 \in T
    BY <2>4
  <2>7. ASSUME NEW k \in Nat, k \in T PROVE k + 1 \in T
    <3> SUFFICES ASSUME k + 1 <= m PROVE a[k + 1] = b[k + 1]
      OBVIOUS
    <3>1. a[k] = b[k] /\ k + 1 \in 1 .. m /\ k + 1 \in 1 .. m + 1 /\ (k + 1) - 1 = k
      BY <2>2, <2>7
    <3> QED BY <2>1, <2>4, <3>1
  <2>8. m \in T
    <3> HIDE DEF T
    <3> QED BY <2>2, <2>6, <2>7, NatSetInduction
  <2>9. a[m] = b[m]
    BY <2>2, <2>8
  <2> QED BY <2>3, <2>5, <2>9 DEF r
<1> QED BY <1>6, <1>7, <1>8

-----------------------------------------------------------------------------
(* Inodes and entries, and what adding entries leaves as it was. *)

(* The four kinds of inodes. *)
LEMMA InodeKinds ==
  ASSUME NEW f \in [Ids -> Inodes], NEW i \in Refs
  PROVE  /\ TypeIn(f, i) \in Kinds
         /\ TypeIn(f, i) # "none" => i \in Ids /\ i # Nil /\ TypeIn(f, i) = f[i].type
         /\ i \in Ids => i # Nil /\ TypeIn(f, i) = f[i].type
         /\ TypeIn(f, i) = "none" /\ i \in Ids => f[i] = NoInode
         /\ TypeIn(f, i) = "dir" => f[i] \in [type : {"dir"}, sub : [Names -> Refs]]
         /\ TypeIn(f, i) = "file" => f[i] \in [type : {"file"}, text : Texts]
         /\ TypeIn(f, i) = "link" => f[i] \in [type : {"link"}, to : Seq(Names)]
<1>1. Nil \notin Ids
  BY CommandsAssumption
<1>2. i # Nil => f[i] \in Inodes
  BY DEF Refs
<1> QED BY <1>1, <1>2 DEF TypeIn, Refs, Inodes, NoInode, Kinds

(* An entry is one of the directory that leads to it. *)
LEMMA EntryIs ==
  ASSUME NEW f \in [Ids -> Inodes], NEW path \in Seq(Names), path # <<>>,
         NEW d, d = DerefIn(f, LstatIn(f, Front(path)))
  PROVE  /\ Front(path) \in Seq(Names) /\ Last(path) \in Names
         /\ d \in Refs
         /\ LstatIn(f, path) = ChildIn(f, d, Last(path))
         /\ LstatIn(f, path) # Nil =>
              /\ d \in Ids /\ f[d].type = "dir" /\ f[d].sub[Last(path)] = LstatIn(f, path)
              /\ LstatIn(f, path) \in Ids /\ Linked(f, LstatIn(f, path))
<1>1. Front(path) \in Seq(Names) /\ Last(path) \in Names /\ Append(Front(path), Last(path)) = path
  BY FrontLast
<1>2. LstatIn(f, Front(path)) \in Refs
  BY <1>1, LstatIs
<1>3. d \in Refs
  BY <1>2, DerefType
<1>4. LstatIn(f, path) = ChildIn(f, d, Last(path)) /\ LstatIn(f, path) \in Refs
  BY <1>1, LstatIs
<1>5. ASSUME LstatIn(f, path) # Nil
      PROVE  /\ d \in Ids /\ f[d].type = "dir" /\ f[d].sub[Last(path)] = LstatIn(f, path)
             /\ LstatIn(f, path) \in Ids /\ Linked(f, LstatIn(f, path))
  <2>1. TypeIn(f, d) = "dir" /\ f[d].sub[Last(path)] = LstatIn(f, path)
    BY <1>4, <1>5 DEF ChildIn
  <2>2. d \in Ids /\ f[d].type = "dir"
    BY <2>1, <1>3, InodeKinds
  <2>3. LstatIn(f, path) \in Ids
    BY <1>4, <1>5 DEF Refs
  <2> QED BY <1>1, <2>1, <2>2, <2>3 DEF Linked
<1> QED BY <1>1, <1>3, <1>4, <1>5

(* The root is an inode. *)
LEMMA RootIs == Root \in Ids /\ Root \in Refs /\ Root # Nil /\ Nil \in Refs
BY CommandsAssumption DEF Refs

(* What a vacant path is. *)
LEMMA VacantIs ==
  ASSUME node \in [Ids -> Inodes], NEW path \in Seq(Names), Vacant(path)
  PROVE  /\ path # <<>> /\ Front(path) \in Seq(Names) /\ Last(path) \in Names
         /\ Parent(path) \in Ids /\ node[Parent(path)].type = "dir"
         /\ node[Parent(path)].sub[Last(path)] = Nil
<1>1. path # <<>>
  BY LstatIs, RootIs DEF Vacant, Lstat
<1>2. Parent(path) \in Refs /\ Front(path) \in Seq(Names) /\ Last(path) \in Names
      /\ Lstat(path) = ChildIn(node, Parent(path), Last(path))
  BY <1>1, EntryIs DEF Parent, Stat, Lstat
<1>3. Parent(path) \in Ids /\ node[Parent(path)].type = "dir"
  BY <1>2, InodeKinds DEF Vacant, TypeOf
<1> QED BY <1>1, <1>2, <1>3 DEF Vacant, ChildIn, TypeOf

(* What dereferencing does to an entry of each kind. *)
LEMMA DerefIs ==
  ASSUME NEW f \in [Ids -> Inodes], NEW i \in Refs
  PROVE  /\ DerefIn(f, i) \in Refs
         /\ TypeIn(f, DerefIn(f, i)) # "link"
         /\ TypeIn(f, i) # "link" => DerefIn(f, i) = i
<1> QED BY DerefType DEF DerefIn, TypeIn

(* Nothing is found in what is not there. *)
LEMMA NilLeadsNowhere ==
  ASSUME NEW f
  PROVE  TypeIn(f, Nil) = "none" /\ DerefIn(f, Nil) = Nil /\ \A n : ChildIn(f, Nil, n) = Nil
BY DEF DerefIn, TypeIn, ChildIn

-----------------------------------------------------------------------------
(* Adding entries. *)

(* Entries are only added, in the sense of Grown: an order. *)
LEMMA GrownRefl ==
  ASSUME NEW f, f \in [Ids -> Inodes] PROVE Grown(f, f)
BY DEF Grown

LEMMA GrownTrans ==
  ASSUME NEW f \in [Ids -> Inodes], NEW g \in [Ids -> Inodes], NEW h \in [Ids -> Inodes],
         Grown(f, g), Grown(g, h)
  PROVE  Grown(f, h)
BY DEF Grown

(* Adding entries keeps inodes and the entries of directories, ... *)
LEMMA GrownChild ==
  ASSUME NEW f \in [Ids -> Inodes], NEW g \in [Ids -> Inodes], Grown(f, g), NEW i \in Refs
  PROVE  /\ TypeIn(f, i) # "none" => TypeIn(g, i) = TypeIn(f, i)
         /\ TypeIn(f, i) \in {"file", "link"} => g[i] = f[i]
         /\ \A n \in Names : ChildIn(f, i, n) # Nil => ChildIn(g, i, n) = ChildIn(f, i, n)
<1>1. TypeIn(f, i) # "none" => TypeIn(g, i) = TypeIn(f, i)
  BY InodeKinds DEF Grown, TypeIn
<1>2. TypeIn(f, i) \in {"file", "link"} => g[i] = f[i]
  BY InodeKinds DEF Grown
<1>3. ASSUME NEW n \in Names, ChildIn(f, i, n) # Nil PROVE ChildIn(g, i, n) = ChildIn(f, i, n)
  <2>1. TypeIn(f, i) = "dir" /\ i \in Ids /\ f[i].type = "dir"
    BY <1>3, InodeKinds DEF ChildIn
  <2>2. f[i].sub[n] # Nil
    BY <1>3, <2>1 DEF ChildIn
  <2> QED BY <1>1, <2>1, <2>2 DEF Grown, ChildIn
<1> QED BY <1>1, <1>2, <1>3

(* What is found once is found again when entries are added only. *)
LEMMA GrownDown ==
  ASSUME NEW f \in [Ids -> Inodes], NEW g \in [Ids -> Inodes], Grown(f, g)
  PROVE  \A q \in Seq(Names) : Down(f, q) # Nil => Down(g, q) = Down(f, q)
<1> DEFINE T == {q \in Seq(Names) : Down(f, q) # Nil => Down(g, q) = Down(f, q)}
<1>1. <<>> \in T
  BY DownIs
<1>2. ASSUME NEW q \in Seq(Names), NEW n \in Names, q \in T PROVE Append(q, n) \in T
  <2>1. Append(q, n) \in Seq(Names)
    BY AppendParts
  <2>2. /\ Down(f, Append(q, n)) = ChildIn(f, Down(f, q), n)
        /\ Down(g, Append(q, n)) = ChildIn(g, Down(g, q), n)
        /\ Down(f, q) \in Refs
    BY DownIs
  <2>3. SUFFICES ASSUME ChildIn(f, Down(f, q), n) # Nil
                 PROVE  ChildIn(g, Down(g, q), n) = ChildIn(f, Down(f, q), n)
    BY <2>1, <2>2
  <2>4. Down(f, q) # Nil
    BY <2>3 DEF ChildIn, TypeIn
  <2>5. Down(g, q) = Down(f, q)
    BY <1>2, <2>4
  <2> QED BY <2>2, <2>3, <2>5, GrownChild
<1> HIDE DEF T
<1>3. \A q \in Seq(Names) : q \in T
  BY <1>1, <1>2, PathInduction
<1> QED BY <1>3 DEF T

(* Bound of the model: a link to a path where nothing was can come to lead *)
(* to another link, and so nowhere; one that leads somewhere stays.        *)
LEMMA GrownDeref ==
  ASSUME NEW f \in [Ids -> Inodes], NEW g \in [Ids -> Inodes], Grown(f, g),
         NEW i \in Refs, TypeIn(f, DerefIn(f, i)) # "none"
  PROVE  DerefIn(g, i) = DerefIn(f, i)
<1>1. CASE TypeIn(f, i) # "link"
  <2>1. DerefIn(f, i) = i /\ TypeIn(f, i) # "none"
    BY <1>1, DerefIs
  <2> QED BY <1>1, <2>1, GrownChild, DerefIs
<1>2. CASE TypeIn(f, i) = "link"
  <2>1. TypeIn(g, i) = "link" /\ g[i] = f[i] /\ f[i].to \in Seq(Names)
    BY <1>2, GrownChild, InodeKinds
  <2>2. TypeIn(f, Down(f, f[i].to)) # "link"
    BY <1>2 DEF DerefIn, TypeIn
  <2>3. DerefIn(f, i) = Down(f, f[i].to)
    BY <1>2, <2>2 DEF DerefIn
  <2>4. Down(f, f[i].to) # Nil /\ Down(f, f[i].to) \in Refs
    BY <2>1, <2>3, DownIs DEF TypeIn
  <2>5. Down(g, f[i].to) = Down(f, f[i].to)
    BY <2>1, <2>4, GrownDown
  <2>6. TypeIn(g, Down(f, f[i].to)) = TypeIn(f, Down(f, f[i].to))
    BY <2>3, <2>4, GrownChild
  <2> QED BY <2>1, <2>2, <2>3, <2>5, <2>6 DEF DerefIn
<1> QED BY <1>1, <1>2

(* What lstat() found it finds again. *)
LEMMA GrownLstat ==
  ASSUME NEW f \in [Ids -> Inodes], NEW g \in [Ids -> Inodes], Grown(f, g)
  PROVE  \A q \in Seq(Names) : LstatIn(f, q) # Nil => LstatIn(g, q) = LstatIn(f, q)
<1> DEFINE T == {q \in Seq(Names) : LstatIn(f, q) # Nil => LstatIn(g, q) = LstatIn(f, q)}
<1>1. <<>> \in T
  BY LstatIs
<1>2. ASSUME NEW q \in Seq(Names), NEW n \in Names, q \in T PROVE Append(q, n) \in T
  <2> DEFINE d == DerefIn(f, LstatIn(f, q))
  <2>1. Append(q, n) \in Seq(Names)
    BY AppendParts
  <2>2. /\ LstatIn(f, Append(q, n)) = ChildIn(f, d, n)
        /\ LstatIn(g, Append(q, n)) = ChildIn(g, DerefIn(g, LstatIn(g, q)), n)
        /\ LstatIn(f, q) \in Refs /\ d \in Refs
    BY LstatIs, DerefType
  <2>3. SUFFICES ASSUME ChildIn(f, d, n) # Nil
                 PROVE  ChildIn(g, DerefIn(g, LstatIn(g, q)), n) = ChildIn(f, d, n)
    BY <2>1, <2>2
  <2>4. TypeIn(f, d) = "dir"
    BY <2>3 DEF ChildIn
  <2>5. LstatIn(f, q) # Nil
    BY <2>4, NilLeadsNowhere
  <2>6. LstatIn(g, q) = LstatIn(f, q)
    BY <1>2, <2>5
  <2>7. DerefIn(g, LstatIn(f, q)) = d
    BY <2>2, <2>4, GrownDeref
  <2> QED BY <2>2, <2>3, <2>6, <2>7, GrownChild
<1> HIDE DEF T
<1>3. \A q \in Seq(Names) : q \in T
  BY <1>1, <1>2, PathInduction
<1> QED BY <1>3 DEF T

(* The same of an entry with symlinks followed. *)
LEMMA GrownStat ==
  ASSUME NEW f \in [Ids -> Inodes], NEW g \in [Ids -> Inodes], Grown(f, g), NEW q \in Seq(Names),
         TypeIn(f, DerefIn(f, LstatIn(f, q))) # "none"
  PROVE  /\ DerefIn(g, LstatIn(g, q)) = DerefIn(f, LstatIn(f, q))
         /\ TypeIn(g, DerefIn(g, LstatIn(g, q))) = TypeIn(f, DerefIn(f, LstatIn(f, q)))
<1>1. LstatIn(f, q) \in Refs /\ DerefIn(f, LstatIn(f, q)) \in Refs
  BY LstatIs, DerefType
<1>2. LstatIn(f, q) # Nil
  BY NilLeadsNowhere
<1>3. LstatIn(g, q) = LstatIn(f, q)
  BY <1>2, GrownLstat
<1> QED BY <1>1, <1>3, GrownDeref, GrownChild

-----------------------------------------------------------------------------
(* What the system calls do to the tree. *)

(* What a lookup finds has a name, or is the root. *)
LEMMA FoundLinked ==
  ASSUME NEW f \in [Ids -> Inodes], NEW q \in Seq(Names)
  PROVE  /\ Down(f, q) \in {Nil, Root} \/ Linked(f, Down(f, q))
         /\ LstatIn(f, q) \in {Nil, Root} \/ Linked(f, LstatIn(f, q))
         /\ DerefIn(f, LstatIn(f, q)) \in {Nil, Root} \/ Linked(f, DerefIn(f, LstatIn(f, q)))
<1>1. ASSUME NEW r \in Seq(Names) PROVE Down(f, r) \in {Nil, Root} \/ Linked(f, Down(f, r))
  <2>1. CASE r = <<>>
    BY <2>1, DownIs
  <2>2. CASE r # <<>>
    <3>1. Front(r) \in Seq(Names) /\ Last(r) \in Names /\ Append(Front(r), Last(r)) = r
      BY <2>2, FrontLast
    <3>2. Down(f, r) = ChildIn(f, Down(f, Front(r)), Last(r)) /\ Down(f, Front(r)) \in Refs
      BY <3>1, DownIs
    <3>3. TypeIn(f, Down(f, Front(r))) = "dir" =>
            Down(f, Front(r)) \in Ids /\ f[Down(f, Front(r))].type = "dir"
      BY <3>2, InodeKinds
    <3> QED BY <3>1, <3>2, <3>3 DEF ChildIn, Linked
  <2> QED BY <2>1, <2>2
<1>2. LstatIn(f, q) \in {Nil, Root} \/ Linked(f, LstatIn(f, q))
  <2>1. CASE q = <<>>
    BY <2>1, LstatIs
  <2>2. CASE q # <<>>
    BY <2>2, EntryIs
  <2> QED BY <2>1, <2>2
<1>3. LstatIn(f, q) \in Refs
  BY LstatIs
<1>4. TypeIn(f, LstatIn(f, q)) = "link" => f[LstatIn(f, q)].to \in Seq(Names)
  BY <1>3, InodeKinds
<1>5. DerefIn(f, LstatIn(f, q)) \in {Nil, Root} \/ Linked(f, DerefIn(f, LstatIn(f, q)))
  BY <1>1, <1>2, <1>4 DEF DerefIn
<1> QED BY <1>1, <1>2, <1>5

(* What Make() does. *)
Adds(g, path, i, what) ==
  LET d == Parent(path)
  IN  /\ d \in Ids /\ node[d].type = "dir" /\ node[d].sub[Last(path)] = Nil
      /\ i \in Ids /\ i # d /\ i # Root /\ ~Linked(node, i) /\ ~Open(i)
      /\ g \in [Ids -> Inodes] /\ g[i] = what
      /\ g[d].type = "dir"
      /\ \A n \in Names : g[d].sub[n] = IF n = Last(path) THEN i ELSE node[d].sub[n]
      /\ \A j \in Ids \ {i, d} : g[j] = node[j]

(* An entry is written into its directory, and nothing else. *)
LEMMA PutIs ==
  ASSUME node \in [Ids -> Inodes], NEW path, Last(path) \in Names,
         Parent(path) \in Ids, node[Parent(path)].type = "dir", NEW i \in Refs
  PROVE  /\ Put(path, i) \in [Ids -> Inodes]
         /\ Put(path, i)[Parent(path)].type = "dir"
         /\ \A n \in Names :
              Put(path, i)[Parent(path)].sub[n] = IF n = Last(path) THEN i ELSE node[Parent(path)].sub[n]
         /\ \A j \in Ids \ {Parent(path)} : Put(path, i)[j] = node[j]
         /\ \A j \in Ids : Put(path, i)[j].type = node[j].type
<1> DEFINE d == Parent(path)
<1>1. TypeIn(node, d) = "dir" /\ d \in Refs
  BY CommandsAssumption DEF TypeIn, Refs
<1>2. node[d] \in [type : {"dir"}, sub : [Names -> Refs]]
  BY <1>1, InodeKinds
<1>3. [node[d] EXCEPT !.sub[Last(path)] = i] \in [type : {"dir"}, sub : [Names -> Refs]]
  BY <1>2
<1>4. Put(path, i) = [node EXCEPT ![d] = [node[d] EXCEPT !.sub[Last(path)] = i]]
  BY DEF Put
<1>5. [node[d] EXCEPT !.sub[Last(path)] = i] \in Inodes
  BY <1>3 DEF Inodes
<1> HIDE DEF d
<1>6. Put(path, i) \in [Ids -> Inodes] /\ \A j \in Ids \ {d} : Put(path, i)[j] = node[j]
  BY <1>4, <1>5
<1>7. Put(path, i)[d] = [node[d] EXCEPT !.sub[Last(path)] = i]
  BY <1>4 DEF d
<1> QED BY <1>2, <1>3, <1>6, <1>7 DEF d

(* An inode that can be made. *)
LEMMA NewInodes ==
  /\ EmptyDir \in Inodes /\ EmptyDir.type = "dir" /\ \A n \in Names : EmptyDir.sub[n] = Nil
  /\ \A t \in Texts : File(t) \in Inodes /\ File(t).type = "file" /\ File(t).text = t
  /\ \A q \in Seq(Names) : Link(q) \in Inodes /\ Link(q).type = "link" /\ Link(q).to = q
BY RootIs DEF EmptyDir, Dir, File, Link, Inodes

(* What Make() does is to add an entry. *)
LEMMA MakeAdds ==
  ASSUME node \in [Ids -> Inodes], NEW path \in Seq(Names), Vacant(path),
         NEW what \in Inodes, Make(path, what)
  PROVE  \E i \in Ids : Adds(node', path, i, what)
<1> DEFINE d == Parent(path)
           i == Fresh
<1>1. i \in Ids /\ Free(i)
  BY DEF Fresh, Make
<1> HIDE DEF i
<1>2. /\ d \in Ids /\ node[d].type = "dir" /\ node[d].sub[Last(path)] = Nil
      /\ Last(path) \in Names /\ Front(path) \in Seq(Names)
  BY VacantIs
<1>3. d # i
  <2>1. d # Nil
    BY <1>2, CommandsAssumption
  <2>2. d = Root \/ Linked(node, d)
    BY <1>2, <2>1, FoundLinked DEF Parent, Stat, Lstat
  <2> QED BY <1>1, <2>2 DEF Free
<1>4. node' = [Put(path, i) EXCEPT ![i] = what]
  BY DEF Make, i
<1>5. /\ Put(path, i) \in [Ids -> Inodes] /\ Put(path, i)[d].type = "dir"
      /\ \A n \in Names : Put(path, i)[d].sub[n] = IF n = Last(path) THEN i ELSE node[d].sub[n]
      /\ \A j \in Ids \ {d} : Put(path, i)[j] = node[j]
  BY <1>1, <1>2, PutIs DEF Refs
<1>6. node' \in [Ids -> Inodes] /\ node'[i] = what /\ \A j \in Ids \ {i} : node'[j] = Put(path, i)[j]
  BY <1>1, <1>4, <1>5
<1>7. Adds(node', path, i, what)
  <2> HIDE DEF d
  <2>1. node'[d].type = "dir" /\ \A n \in Names : node'[d].sub[n] = IF n = Last(path) THEN i ELSE node[d].sub[n]
    BY <1>2, <1>3, <1>5, <1>6
  <2>2. \A j \in Ids \ {i, d} : node'[j] = node[j]
    BY <1>5, <1>6
  <2> QED BY <1>1, <1>2, <1>3, <1>6, <2>1, <2>2 DEF Adds, Free, d
<1> QED BY <1>1, <1>7

(* The tree stays one when an entry is made, ... *)
LEMMA AddsKeepsTree ==
  ASSUME TreeOK(node), NEW path, Last(path) \in Names, NEW i, NEW g, NEW what, Adds(g, path, i, what),
         what.type # "none", what.type = "dir" => \A n \in Names : what.sub[n] = Nil
  PROVE  TreeOK(g)
<1> DEFINE d == Parent(path)
<1>1. Root \in Ids /\ Nil \notin Ids
  BY CommandsAssumption
<1>2. ASSUME NEW j \in Ids, Linked(g, j) PROVE j = i \/ Linked(node, j)
  <2>1. PICK e \in Ids, n \in Names : g[e].type = "dir" /\ g[e].sub[n] = j
    BY <1>2 DEF Linked
  <2>2. CASE e = i
    BY <1>1, <2>1, <2>2 DEF Adds
  <2>3. CASE e = d
    <3>1. node[d].type = "dir" /\ (j = i \/ node[d].sub[n] = j) /\ d \in Ids
      BY <2>1, <2>3 DEF Adds
    <3> QED BY <3>1 DEF Linked
  <2>4. CASE e # i /\ e # d
    BY <2>1, <2>4 DEF Adds, Linked
  <2> QED BY <2>2, <2>3, <2>4
<1>3. ASSUME NEW j \in Ids, node[j].type # "none" PROVE j = i \/ g[j].type = node[j].type
  BY <1>3 DEF Adds
<1>4. g[Root].type = "dir" /\ ~Linked(g, Root)
  BY <1>1, <1>2, <1>3 DEF Adds, TreeOK
<1>5. \A j \in Ids : Linked(g, j) => g[j].type # "none"
  BY <1>2, <1>3 DEF Adds, TreeOK
<1> QED BY <1>4, <1>5 DEF TreeOK, Adds

(* ... and another name given to an inode, ... *)
LEMMA PutKeepsTree ==
  ASSUME TreeOK(node), NEW path \in Seq(Names), Vacant(path),
         NEW i \in Ids, i # Root, node[i].type # "none"
  PROVE  TreeOK(Put(path, i))
<1> DEFINE d == Parent(path)
           g == Put(path, i)
<1>1. d \in Ids /\ node[d].type = "dir" /\ Last(path) \in Names
  BY VacantIs DEF TreeOK
<1>2. /\ g \in [Ids -> Inodes]
      /\ \A n \in Names : g[d].sub[n] = IF n = Last(path) THEN i ELSE node[d].sub[n]
      /\ \A j \in Ids \ {d} : g[j] = node[j]
      /\ \A j \in Ids : g[j].type = node[j].type
  BY <1>1, PutIs DEF Refs, TreeOK
<1> HIDE DEF g, d
<1>3. ASSUME NEW j \in Ids, Linked(g, j) PROVE j = i \/ Linked(node, j)
  <2>1. PICK e \in Ids, n \in Names : g[e].type = "dir" /\ g[e].sub[n] = j
    BY <1>3 DEF Linked
  <2>2. node[e].type = "dir" /\ (node[e].sub[n] = j \/ j = i)
    BY <1>2, <2>1
  <2> QED BY <2>2 DEF Linked
<1> QED BY <1>2, <1>3, RootIs DEF TreeOK, g

(* ... and when one is taken away that leads to a file, a link or an empty *)
(* directory.                                                              *)
Removable(path) ==
  LET x == Lstat(path) IN TypeOf(x) \in {"file", "link"} \/ (TypeOf(x) = "dir" /\ Empty(x))

Removes(g, path) ==
  LET d == Parent(path)
      x == Lstat(path)
  IN  /\ d \in Ids /\ x \in Ids /\ d # x /\ x # Root
      /\ node[d].type = "dir" /\ node[d].sub[Last(path)] = x
      /\ g \in [Ids -> Inodes] /\ g[d].type = "dir"
      /\ \A n \in Names : g[d].sub[n] = IF n = Last(path) THEN Nil ELSE node[d].sub[n]
      /\ g[x] = node[x] \/ (g[x] = NoInode /\ ~Linked(g, x) /\ ~Open(x))
      /\ \A j \in Ids \ {d, x} : g[j] = node[j]

LEMMA UnlinkRemoves ==
  ASSUME TreeOK(node), NEW path \in Seq(Names), path # <<>>, Removable(path)
  PROVE  Removes(Unlink(path), path) /\ TreeOK(Unlink(path)) /\ Last(path) \in Names
<1> DEFINE d == Parent(path)
           x == Lstat(path)
           h == Put(path, Nil)
           g == Unlink(path)
<1>1. x # Nil
  BY NilLeadsNowhere DEF Removable, TypeOf
<1>2. /\ Last(path) \in Names
      /\ d \in Ids /\ node[d].type = "dir" /\ node[d].sub[Last(path)] = x /\ x \in Ids /\ Linked(node, x)
  BY <1>1, EntryIs DEF TreeOK, Parent, Stat, Lstat
<1>3. x # Root
  BY <1>2 DEF TreeOK
<1>4. d # x
  <2>1. ASSUME d = x PROVE FALSE
    <3>1. TypeOf(x) = "dir"
      BY <1>1, <1>2, <2>1 DEF TypeOf, TypeIn
    <3>2. node[x].sub = [n \in Names |-> Nil]
      BY <3>1 DEF Removable, Empty, EmptyDir, Dir
    <3>3. node[x].sub[Last(path)] = x
      BY <1>2, <2>1
    <3> QED BY <1>1, <1>2, <3>2, <3>3
  <2> QED BY <2>1
<1>5. /\ h \in [Ids -> Inodes] /\ h[d].type = "dir"
      /\ \A n \in Names : h[d].sub[n] = IF n = Last(path) THEN Nil ELSE node[d].sub[n]
      /\ \A j \in Ids \ {d} : h[j] = node[j]
      /\ \A j \in Ids : h[j].type = node[j].type
  BY <1>2, PutIs, RootIs DEF TreeOK
<1>6. g = Release(h, x)
  BY DEF Unlink
<1> HIDE DEF g, h, d, x
<1>7. NoInode \in Inodes
  BY DEF Inodes
<1>8. g \in [Ids -> Inodes] /\ (\A j \in Ids \ {x} : g[j] = h[j])
      /\ (g[x] = h[x] \/ (g[x] = NoInode /\ ~Linked(h, x) /\ ~Open(x)))
  BY <1>2, <1>5, <1>6, <1>7 DEF Release
<1>9. ASSUME NEW j \in Ids, Linked(g, j) PROVE Linked(h, j)
  BY <1>8, <1>9 DEF Linked, NoInode
<1>10. ASSUME NEW j \in Ids, Linked(h, j) PROVE Linked(node, j)
  <2>1. PICK e \in Ids, n \in Names : h[e].type = "dir" /\ h[e].sub[n] = j
    BY <1>10 DEF Linked
  <2>2. node[e].type = "dir" /\ node[e].sub[n] = j
    BY <1>5, <2>1, CommandsAssumption
  <2> QED BY <2>2 DEF Linked
<1>11. Removes(g, path)
  <2>1. g[d].type = "dir" /\ \A n \in Names : g[d].sub[n] = IF n = Last(path) THEN Nil ELSE node[d].sub[n]
    BY <1>2, <1>4, <1>5, <1>8
  <2>2. g[x] = node[x] \/ (g[x] = NoInode /\ ~Linked(g, x) /\ ~Open(x))
    BY <1>2, <1>4, <1>5, <1>8, <1>9
  <2>3. \A j \in Ids \ {d, x} : g[j] = node[j]
    BY <1>5, <1>8
  <2> QED BY <1>2, <1>3, <1>4, <1>8, <2>1, <2>2, <2>3 DEF Removes, d, x
<1>12. TreeOK(g)
  <2>1. g[Root].type = "dir"
    BY <1>3, <1>5, <1>8, RootIs DEF TreeOK
  <2>2. ASSUME NEW j \in Ids, Linked(g, j) PROVE g[j].type # "none"
    <3>1. Linked(h, j) /\ Linked(node, j)
      BY <1>9, <1>10, <2>2
    <3>2. g[j] = h[j]
      BY <1>8, <3>1, <1>9, <2>2
    <3> QED BY <1>5, <3>1, <3>2 DEF TreeOK
  <2> QED BY <1>8, <1>9, <1>10, <2>1, <2>2, RootIs DEF TreeOK
<1> QED BY <1>2, <1>11, <1>12 DEF g

Moved(from, to) ==
  [node EXCEPT ![Parent(from)].sub[Last(from)] = Nil, ![Parent(to)].sub[Last(to)] = Lstat(from)]

(* The tree stays one when an entry is moved, over another one or not. *)
LEMMA RenameKeepsTree ==
  ASSUME TreeOK(node), NEW from \in Seq(Names), NEW to \in Seq(Names), to # <<>>,
         Lstat(from) # Lstat(to), Renames(Lstat(from), Lstat(to), from, to)
  PROVE  TreeOK(Release(Moved(from, to), Lstat(to)))
<1> DEFINE i == Lstat(from)
           j == Lstat(to)
           d == Parent(from)
           e == Parent(to)
           f == Put(from, Nil)
           h == Moved(from, to)
           g == Release(h, j)
<1>1. from # <<>>
  BY DEF Renames, IsPrefix
<1>2. i # Nil /\ TypeIn(node, e) = "dir"
  BY DEF Renames, TypeOf
<1>3. /\ Last(from) \in Names /\ i \in Ids /\ Linked(node, i)
      /\ d \in Ids /\ node[d].type = "dir" /\ node[d].sub[Last(from)] = i
  BY <1>1, <1>2, EntryIs DEF TreeOK, Parent, Stat, Lstat
<1>4. Last(to) \in Names /\ e \in Refs /\ (j # Nil => Linked(node, j)) /\ j \in Refs
  BY EntryIs, LstatIs DEF TreeOK, Parent, Stat, Lstat
<1>5. e \in Ids /\ node[e].type = "dir"
  BY <1>2, <1>4, InodeKinds DEF TreeOK
<1>6. i # Root /\ j # Root /\ node[i].type # "none" /\ i # j
  BY <1>3, <1>4, RootIs DEF TreeOK
<1>7. /\ f \in [Ids -> Inodes] /\ f[d].type = "dir"
      /\ \A n \in Names : f[d].sub[n] = IF n = Last(from) THEN Nil ELSE node[d].sub[n]
      /\ \A k \in Ids \ {d} : f[k] = node[k]
      /\ \A k \in Ids : f[k].type = node[k].type
  BY <1>3, PutIs, RootIs DEF TreeOK
<1>8. h = [f EXCEPT ![e].sub[Last(to)] = i]
  BY DEF Moved, Put
<1> HIDE DEF h, f, i, j, d, e
<1>9. f[e] \in [type : {"dir"}, sub : [Names -> Refs]]
  <2>1. TypeIn(f, e) = "dir"
    BY <1>4, <1>5, <1>7, InodeKinds
  <2> QED BY <1>4, <1>7, <2>1, InodeKinds
<1>10. [f[e] EXCEPT !.sub[Last(to)] = i] \in [type : {"dir"}, sub : [Names -> Refs]]
  BY <1>3, <1>9 DEF Refs
<1>11. h = [f EXCEPT ![e] = [f[e] EXCEPT !.sub[Last(to)] = i]]
  BY <1>8
<1>12. h \in [Ids -> Inodes]
  BY <1>7, <1>10, <1>11 DEF Inodes
<1>13. /\ h[e] = [f[e] EXCEPT !.sub[Last(to)] = i]
       /\ \A k \in Ids \ {e} : h[k] = f[k]
  BY <1>5, <1>7, <1>11
<1>14. \A k \in Ids : h[k].type = node[k].type
  BY <1>7, <1>13, <1>9
<1>15. ASSUME NEW k \in Ids, Linked(h, k) PROVE k = i \/ Linked(node, k)
  <2>1. PICK a \in Ids, n \in Names : h[a].type = "dir" /\ h[a].sub[n] = k
    BY <1>15 DEF Linked
  <2>2. f[a].type = "dir" /\ (f[a].sub[n] = k \/ k = i)
    BY <1>13, <1>14, <1>7, <1>9, <2>1
  <2>3. node[a].type = "dir" /\ (node[a].sub[n] = k \/ k = i)
    BY <1>7, <2>2, CommandsAssumption
  <2> QED BY <2>3 DEF Linked
<1>16. g \in [Ids -> Inodes] /\ (\A k \in Ids \ {j} : g[k] = h[k])
       /\ (g[j] = h[j] \/ (g[j] = NoInode /\ ~Linked(h, j)) \/ j \notin Ids)
  BY <1>12, <1>4 DEF Release, Inodes
<1>17. ASSUME NEW k \in Ids, Linked(g, k) PROVE Linked(h, k)
  BY <1>16, <1>17 DEF Linked, NoInode
<1>18. g[Root].type = "dir"
  BY <1>6, <1>14, <1>16, RootIs DEF TreeOK
<1>19. ASSUME NEW k \in Ids, Linked(g, k) PROVE g[k].type # "none"
  <2>1. Linked(h, k) /\ g[k] = h[k]
    BY <1>16, <1>17, <1>19
  <2> QED BY <1>3, <1>14, <1>15, <2>1 DEF TreeOK
<1> HIDE DEF g
<1>20. TreeOK(g)
  BY <1>6, <1>15, <1>16, <1>17, <1>18, <1>19, RootIs DEF TreeOK
<1> QED BY <1>20 DEF g, h, j

(* The content of a file is written. *)
LEMMA WriteKeepsTree ==
  ASSUME TreeOK(node), NEW i \in Refs, TypeOf(i) = "file", NEW t \in Texts
  PROVE  TreeOK([node EXCEPT ![i] = File(t)])
<1> DEFINE g == [node EXCEPT ![i] = File(t)]
<1>1. i \in Ids /\ node[i].type = "file"
  BY InodeKinds DEF TreeOK, TypeOf
<1>2. File(t) \in Inodes /\ File(t).type = "file"
  BY NewInodes
<1>3. g \in [Ids -> Inodes] /\ g[i].type = "file" /\ \A j \in Ids \ {i} : g[j] = node[j]
  BY <1>1, <1>2 DEF TreeOK
<1> HIDE DEF g
<1>4. \A j \in Ids : Linked(g, j) => Linked(node, j)
  BY <1>1, <1>3 DEF Linked
<1>5. TreeOK(g)
  BY <1>1, <1>3, <1>4, RootIs DEF TreeOK
<1> QED BY <1>5 DEF g

-----------------------------------------------------------------------------
(* The calls of the processes. *)

(* The calls of all processes are of the set S. *)
CallsOf(S, calls, res) ==
  /\ calls \in [Procs -> Seq(S)]
  /\ res \in [Procs -> {"run", "ok", "fail"}]
  /\ \A p \in Procs : res[p] = "run" <=> calls[p] # <<>>

(* What each kind of step does to the calls of a process. *)
LEMMA StackSteps ==
  ASSUME NEW S, CallsOf(S, stack, result), NEW p \in Procs, result[p] = "run"
  PROVE  /\ Top(p) \in S
         /\ \A f \in S : SetTop(p, f) /\ Continue => CallsOf(S, stack', result')
         /\ \A f, g \in S : stack' = [stack EXCEPT ![p] = Append(Front(@), f) \o <<g>>] /\ Continue =>
              CallsOf(S, stack', result')
         /\ Return(p) => CallsOf(S, stack', result')
         /\ Fail(p) => CallsOf(S, stack', result')
<1>1. stack[p] \in Seq(S) /\ stack[p] # <<>>
  BY DEF CallsOf
<1>2. Front(stack[p]) \in Seq(S) /\ Last(stack[p]) \in S /\ Len(Front(stack[p])) = Len(stack[p]) - 1
  BY <1>1, FrontLast
<1>3. ASSUME NEW f \in S, SetTop(p, f), Continue PROVE CallsOf(S, stack', result')
  <2>1. Append(Front(stack[p]), f) \in Seq(S) /\ Append(Front(stack[p]), f) # <<>>
    BY <1>2, AppendParts
  <2>2. stack' = [stack EXCEPT ![p] = Append(Front(stack[p]), f)]
    BY <1>3 DEF SetTop
  <2> QED BY <1>3, <2>1, <2>2 DEF CallsOf, Continue
<1>4. ASSUME NEW f \in S, NEW g \in S,
             stack' = [stack EXCEPT ![p] = Append(Front(@), f) \o <<g>>], Continue
      PROVE  CallsOf(S, stack', result')
  <2>1. Append(Front(stack[p]), f) \in Seq(S)
    BY <1>2, AppendParts
  <2> DEFINE s == Append(Front(stack[p]), f) \o <<g>>
  <2>2. s \in Seq(S) /\ s # <<>>
    BY <2>1
  <2> HIDE DEF s
  <2>3. stack' = [stack EXCEPT ![p] = s]
    BY <1>4 DEF s
  <2> QED BY <1>4, <2>2, <2>3 DEF CallsOf, Continue
<1>5. ASSUME Return(p) PROVE CallsOf(S, stack', result')
  <2>1. Len(stack[p]) = 1 <=> Front(stack[p]) = <<>>
    <3>1. \A t \in Seq(S) : t = <<>> <=> Len(t) = 0
      OBVIOUS
    <3>2. Front(stack[p]) = <<>> <=> Len(Front(stack[p])) = 0
      BY <1>2, <3>1, Zenon
    <3>3. Len(stack[p]) \in Nat
      BY <1>1
    <3> QED BY <1>2, <3>2, <3>3
  <2>2. stack' = [stack EXCEPT ![p] = Front(stack[p])]
        /\ result' = [result EXCEPT ![p] = IF Len(stack[p]) = 1 THEN "ok" ELSE result[p]]
    BY <1>5 DEF Return
  <2>3. result' \in [Procs -> {"run", "ok", "fail"}]
    BY <2>2 DEF CallsOf
  <2>4. stack' \in [Procs -> Seq(S)]
    BY <1>2, <2>2 DEF CallsOf
  <2>5. ASSUME NEW q \in Procs PROVE result'[q] = "run" <=> stack'[q] # <<>>
    BY <1>1, <2>1, <2>2 DEF CallsOf
  <2> QED BY <2>3, <2>4, <2>5 DEF CallsOf
<1>6. ASSUME Fail(p) PROVE CallsOf(S, stack', result')
  <2>1. <<>> \in Seq(S)
    OBVIOUS
  <2> QED BY <1>6, <2>1 DEF Fail, CallsOf
<1> QED BY <1>2, <1>3, <1>4, <1>5, <1>6 DEF Top

(* A frame after an error of its iteration. *)
Closed(f) == [f EXCEPT !.at = "rmdir", !.dir = Nil, !.had = Nothing, !.seen = {}, !.entry = Nil]

(* An error ends the command, or the loop of the innermost call. *)
LEMMA ThrowSteps ==
  ASSUME NEW S, CallsOf(S, stack, result), NEW p \in Procs, result[p] = "run", Throw(p),
         Top(p).ignore /\ Top(p).at \in Iterating => Closed(Top(p)) \in S
  PROVE  CallsOf(S, stack', result')
<1>1. CASE Top(p).ignore /\ Top(p).at \in Iterating
  <2>1. SetTop(p, Closed(Top(p))) /\ Continue
    BY <1>1 DEF Throw, CloseDir, Closed
  <2> QED BY <1>1, <2>1, StackSteps
<1>2. CASE ~(Top(p).ignore /\ Top(p).at \in Iterating)
  BY <1>2, StackSteps, Zenon DEF Throw
<1> QED BY <1>1, <1>2

(* The frames that a call begins with, ... *)
LEMMA FrameIs ==
  ASSUME NEW at \in Steps, NEW path \in Seq(Names), NEW from \in Seq(Names)
  PROVE  /\ Frame(at, path) \in Frames /\ Copying(at, from, path) \in Frames
         /\ [Frame(at, path) EXCEPT !.new = TRUE] \in Frames
         /\ [Copying(at, from, path) EXCEPT !.new = TRUE] \in Frames
         /\ \A b \in BOOLEAN : [Frame(at, path) EXCEPT !.ignore = b] \in Frames
<1>1. Nothing \in [Names -> Kinds] /\ {} \in SUBSET Names /\ <<>> \in Seq(Names) /\ Nil \in Refs
  BY RootIs DEF Nothing, Kinds
<1> QED BY <1>1 DEF Frames, Frame, Copying

(* ... goes on with, ... *)
LEMMA FrameAt ==
  ASSUME NEW f \in Frames, NEW at \in Steps
  PROVE  [f EXCEPT !.at = at] \in Frames
BY DEF Frames

LEMMA FrameClosed ==
  ASSUME NEW f \in Frames
  PROVE  Closed(f) \in Frames
<1>1. Nothing \in [Names -> Kinds] /\ {} \in SUBSET Names /\ Nil \in Refs
  BY RootIs DEF Nothing, Kinds
<1> QED BY <1>1 DEF Frames, Closed, Steps

LEMMA FrameEntry ==
  ASSUME NEW f \in Frames, NEW at \in Steps, NEW n \in Names
  PROVE  /\ [f EXCEPT !.at = at, !.entry = n] \in Frames
         /\ [f EXCEPT !.seen = f.seen \cup {n}, !.entry = Nil, !.at = at] \in Frames
         /\ [f EXCEPT !.at = at, !.entry = Nil, !.seen = f.seen \cup {n}] \in Frames
BY DEF Frames

LEMMA FrameSource ==
  ASSUME NEW f \in Frames, NEW at \in Steps, NEW i \in Refs
  PROVE  [f EXCEPT !.at = at, !.src = i] \in Frames
BY DEF Frames

-----------------------------------------------------------------------------
(* Types: one group of actions after the other. *)

Good == {f \in Frames : FrameOK(f)}

Typed ==
  /\ fs \in Support /\ cmd \in [Procs -> Commands]
  /\ TreeOK(node) /\ TreeOK(before)
  /\ held \in [Procs -> BOOLEAN]
  /\ CallsOf(Good, stack, result)

(* TypeOK says that all calls are of the set Good. *)
LEMMA TypedCalls == TypeOK <=> Typed
<1>1. ASSUME NEW s \in Seq(Frames) PROVE (\A k \in DOMAIN s : FrameOK(s[k])) <=> s \in Seq(Good)
  BY <1>1 DEF Good
<1>2. Seq(Good) \subseteq Seq(Frames)
  BY DEF Good
<1>3. stack \in [Procs -> Seq(Good)] => stack \in [Procs -> Seq(Frames)]
  BY <1>2
<1>4. ASSUME stack \in [Procs -> Seq(Frames)]
      PROVE  (\A p \in Procs : \A k \in DOMAIN stack[p] : FrameOK(stack[p][k])) <=> stack \in [Procs -> Seq(Good)]
  BY <1>1, <1>4
<1>5. ASSUME TypeOK PROVE CallsOf(Good, stack, result)
  <2>1. stack \in [Procs -> Seq(Frames)] /\ \A p \in Procs : \A k \in DOMAIN stack[p] : FrameOK(stack[p][k])
    <3>1. ASSUME NEW p \in Procs, NEW k \in DOMAIN stack[p] PROVE FrameOK(stack[p][k])
      BY <1>5, Zenon DEF TypeOK
    <3>2. stack \in [Procs -> Seq(Frames)]
      BY <1>5 DEF TypeOK
    <3> QED BY <3>1, <3>2
  <2> QED BY <1>4, <1>5, <2>1 DEF TypeOK, CallsOf
<1>6. ASSUME CallsOf(Good, stack, result)
      PROVE  /\ stack \in [Procs -> Seq(Frames)]
             /\ \A p \in Procs : \A k \in DOMAIN stack[p] : FrameOK(stack[p][k])
  <2>1. stack \in [Procs -> Seq(Good)]
    BY <1>6 DEF CallsOf
  <2> QED BY <1>3, <1>4, <2>1
<1> QED BY <1>5, <1>6 DEF TypeOK, CallsOf, Typed

(* The innermost call of a process that runs. *)
LEMMA TopIs ==
  ASSUME TypeOK, NEW p \in Procs, result[p] = "run"
  PROVE  /\ CallsOf(Good, stack, result)
         /\ Top(p) \in Good /\ Top(p) \in Frames /\ FrameOK(Top(p))
         /\ Top(p).path \in Seq(Names) /\ Top(p).from \in Seq(Names)
         /\ Top(p).dir \in Refs /\ Top(p).src \in Refs
         /\ node \in [Ids -> Inodes] /\ TreeOK(node)
<1>1. CallsOf(Good, stack, result) /\ TreeOK(node)
  BY TypedCalls DEF Typed
<1>2. Top(p) \in Good
  BY <1>1, StackSteps
<1> QED BY <1>1, <1>2 DEF Good, Frames, TreeOK

(* What the steps leave alone keeps its type. *)
LEMMA GivenTypes ==
  ASSUME TypeOK, Given
  PROVE  fs' \in Support /\ cmd' \in [Procs -> Commands] /\ TreeOK(before)' /\ held' \in [Procs -> BOOLEAN]
<1>1. ASSUME NEW p \in Procs
      PROVE  (held[p] \/ (result[p] = "run" /\ Effect(cmd[p])')) \in BOOLEAN
  OBVIOUS
<1>2. held' \in [Procs -> BOOLEAN]
  BY <1>1 DEF Given, Observe
<1>3. TreeOK(before)' <=> TreeOK(before)
  BY DEF Given, TreeOK, Linked
<1> QED BY <1>2, <1>3 DEF Given, TypeOK

(* A call that throws leaves calls of the same kind. *)
LEMMA ThrowTypes ==
  ASSUME TypeOK, NEW p \in Procs, result[p] = "run", Throw(p)
  PROVE  CallsOf(Good, stack', result')
<1>1. CallsOf(Good, stack, result) /\ Top(p) \in Frames /\ FrameOK(Top(p))
  BY TopIs
<1>2. ASSUME Top(p).at \in Iterating PROVE Closed(Top(p)) \in Good
  <2>1. Closed(Top(p)) \in Frames
    BY <1>1, FrameClosed
  <2>2. Closed(Top(p)).at = "rmdir" /\ Closed(Top(p)).path = Top(p).path /\ Top(p).path # <<>>
    BY <1>1, <1>2 DEF Closed, FrameOK, Iterating, Frames
  <2> QED BY <2>1, <2>2 DEF Good, FrameOK
<1> QED BY <1>1, <1>2, ThrowSteps

(* A new call that has nothing open is well-formed, ... *)
LEMMA NewFrameTypes ==
  ASSUME NEW path \in Seq(Names), NEW from \in Seq(Names), NEW at \in Steps,
         at \notin {"next", "type", "cp_next", "cp_type", "cp_follow", "cp_file"},
         path # <<>> \/ at \in {"mkdir_p", "try_mkdir_p", "mkdir", "exists"}
  PROVE  /\ Frame(at, path) \in Good /\ Copying(at, from, path) \in Good
         /\ [Frame(at, path) EXCEPT !.new = TRUE] \in Good
         /\ [Copying(at, from, path) EXCEPT !.new = TRUE] \in Good
         /\ \A b \in BOOLEAN : [Frame(at, path) EXCEPT !.ignore = b] \in Good
BY FrameIs DEF Good, FrameOK, Frame, Copying

(* ... and one that goes on. *)
LEMMA GoToTypes ==
  ASSUME NEW f \in Good, NEW at \in Steps,
         at \notin {"next", "type", "cp_next", "cp_type", "cp_follow", "cp_file"},
         f.at \in {"mkdir_p", "try_mkdir_p", "mkdir", "exists"} => at \in {"mkdir_p", "try_mkdir_p", "mkdir", "exists"}
  PROVE  [f EXCEPT !.at = at] \in Good
<1>1. [f EXCEPT !.at = at] \in Frames
  BY FrameAt DEF Good
<1>2. [f EXCEPT !.at = at].at = at /\ [f EXCEPT !.at = at].path = f.path
  BY DEF Good, Frames
<1> QED BY <1>1, <1>2 DEF Good, FrameOK

(* One action after the other. *)
LEMMA MakeDirTypes ==
  ASSUME TypeOK, NEW p \in Procs, MakeDir(p)
  PROVE  TreeOK(node') /\ CallsOf(Good, stack', result') /\ Given
<1>1. result[p] = "run" /\ Given
  BY DEF MakeDir, MkdirP, TryMkdirP, TryMkdir, AlreadyExists, At
<1>2. /\ CallsOf(Good, stack, result)
      /\ Top(p) \in Good /\ Top(p) \in Frames /\ Top(p).path \in Seq(Names)
      /\ node \in [Ids -> Inodes] /\ TreeOK(node)
  BY <1>1, TopIs
<1>3. Return(p) => CallsOf(Good, stack', result')
  BY <1>1, <1>2, StackSteps
<1>4. Throw(p) => CallsOf(Good, stack', result')
  BY <1>1, ThrowTypes
<1>5. Front(Top(p).path) \in Seq(Names)
  <2>1. CASE Top(p).path = <<>>
    BY <2>1 DEF Front
  <2>2. CASE Top(p).path # <<>>
    BY <1>2, <2>2, FrontLast
  <2> QED BY <2>1, <2>2
<1>6. ASSUME NEW at \in {"mkdir", "exists"}, Top(p).at \in {"mkdir_p", "try_mkdir_p", "mkdir"}
      PROVE  [Top(p) EXCEPT !.at = at] \in Good
  <2>1. at \in Steps
    BY DEF Steps
  <2> QED BY <1>2, <2>1, GoToTypes
<1>7. Frame("mkdir_p", Front(Top(p).path)) \in Good /\ Frame("try_mkdir_p", Front(Top(p).path)) \in Good
  BY <1>5, NewFrameTypes DEF Steps
<1>8. CASE MkdirP(p)
  <2>1. TreeOK(node') /\ Top(p).at = "mkdir_p"
    BY <1>2, <1>8 DEF MkdirP, Tree, At
  <2>2. CASE DirExists(Top(p).path)
    BY <1>1, <1>3, <1>8, <2>1, <2>2 DEF MkdirP
  <2>3. CASE ~DirExists(Top(p).path)
    <3>1. CallFrom(p, "mkdir", Frame("mkdir_p", Front(Top(p).path))) /\ Continue
      BY <1>8, <2>3 DEF MkdirP
    <3> QED BY <1>1, <1>2, <1>6, <1>7, <2>1, <3>1, StackSteps DEF CallFrom
  <2> QED BY <2>2, <2>3
<1>9. CASE TryMkdirP(p)
  <2>1. TreeOK(node') /\ Top(p).at = "try_mkdir_p" /\ Continue
    BY <1>2, <1>9 DEF TryMkdirP, Tree, At
  <2>2. CASE DirExists(Front(Top(p).path))
    <3>1. SetTop(p, [Top(p) EXCEPT !.at = "mkdir"])
      BY <1>9, <2>2 DEF TryMkdirP, GoTo
    <3> QED BY <1>1, <1>2, <1>6, <2>1, <3>1, StackSteps
  <2>3. CASE ~DirExists(Front(Top(p).path))
    <3>1. CallFrom(p, "mkdir", Frame("try_mkdir_p", Front(Top(p).path)))
      BY <1>9, <2>3 DEF TryMkdirP
    <3> QED BY <1>1, <1>2, <1>6, <1>7, <2>1, <3>1, StackSteps DEF CallFrom
  <2> QED BY <2>2, <2>3
<1>10. CASE TryMkdir(p)
  <2>1. CASE Vacant(Top(p).path)
    <3>1. Make(Top(p).path, EmptyDir) /\ Return(p)
      BY <1>10, <2>1 DEF TryMkdir
    <3>2. TreeOK(node')
      BY <1>2, <2>1, <3>1, MakeAdds, AddsKeepsTree, NewInodes, VacantIs
    <3> QED BY <1>1, <1>3, <3>1, <3>2
  <2>2. CASE ~Vacant(Top(p).path)
    <3>1. TreeOK(node') /\ Top(p).at = "mkdir"
      BY <1>2, <1>10, <2>2 DEF TryMkdir, Tree, At
    <3>2. CASE Lstat(Top(p).path) # Nil
      <4>1. SetTop(p, [Top(p) EXCEPT !.at = "exists"]) /\ Continue
        BY <1>10, <2>2, <3>2 DEF TryMkdir, GoTo
      <4> QED BY <1>1, <1>2, <1>6, <3>1, <4>1, StackSteps
    <3>3. CASE Lstat(Top(p).path) = Nil
      BY <1>1, <1>4, <1>10, <2>2, <3>1, <3>3 DEF TryMkdir
    <3> QED BY <3>2, <3>3
  <2> QED BY <2>1, <2>2
<1>11. CASE AlreadyExists(p)
  BY <1>1, <1>2, <1>3, <1>4, <1>11 DEF AlreadyExists, Tree
<1> QED BY <1>8, <1>9, <1>10, <1>11 DEF MakeDir

(* The two calls that the removal of an entry leaves. *)
LEMMA DisposeTypes ==
  ASSUME TypeOK, NEW p \in Procs, result[p] = "run", Top(p).at \in {"next", "type"},
         NEW n \in Names, NEW t, Dispose(p, n, t), Continue
  PROVE  CallsOf(Good, stack', result')
<1> DEFINE seen == [Top(p) EXCEPT !.seen = @ \cup {n}, !.entry = Nil, !.at = "next"]
           at == IF t = "dir" THEN "open" ELSE "unlink"
           call == [Frame(at, Entry(Top(p), n)) EXCEPT !.ignore = Top(p).ignore]
<1>1. CallsOf(Good, stack, result) /\ Top(p) \in Frames /\ FrameOK(Top(p)) /\ Top(p).path \in Seq(Names)
  BY TopIs
<1>2. seen \in Good
  <2>1. seen \in Frames
    BY <1>1, FrameEntry DEF Steps
  <2>2. seen.at = "next" /\ seen.dir = Top(p).dir /\ seen.path = Top(p).path
    BY <1>1 DEF Frames
  <2>3. Top(p).dir # Nil /\ Top(p).path # <<>>
    BY <1>1 DEF FrameOK
  <2> QED BY <2>1, <2>2, <2>3 DEF Good, FrameOK
<1>3. call \in Good
  <2>1. Entry(Top(p), n) \in Seq(Names) /\ Entry(Top(p), n) # <<>>
    BY <1>1, AppendParts DEF Entry
  <2>2. Top(p).ignore \in BOOLEAN /\ at \in Steps
    BY <1>1 DEF Frames, Steps
  <2>3. \A b \in BOOLEAN : [Frame(at, Entry(Top(p), n)) EXCEPT !.ignore = b] \in Good
    BY <2>1, <2>2, NewFrameTypes
  <2> QED BY <2>2, <2>3
<1>4. stack' = [stack EXCEPT ![p] = Append(Front(@), seen) \o <<call>>]
  BY Zenon DEF Dispose
<1> HIDE DEF seen, call
<1> QED BY <1>1, <1>2, <1>3, <1>4, StackSteps

(* The frames that a step sets are of the kind all frames are of. *)
LEMMA SetFrames ==
  ASSUME CallsOf(Good, stack, result), CallsOf(Good, stack', result'), NEW p \in Procs, result[p] = "run"
  PROVE  /\ \A f : SetTop(p, f) => f \in Good
         /\ \A f, g : stack' = [stack EXCEPT ![p] = Append(Front(@), f) \o <<g>>] => f \in Good /\ g \in Good
<1>1. stack[p] \in Seq(Good) /\ stack[p] # <<>> /\ stack'[p] \in Seq(Good) /\ stack \in [Procs -> Seq(Good)]
  BY DEF CallsOf
<1>2. Front(stack[p]) \in Seq(Good)
  BY <1>1, FrontLast
<1>3. ASSUME NEW f, SetTop(p, f) PROVE f \in Good
  <2>1. stack'[p] = Append(Front(stack[p]), f)
    BY <1>1, <1>3 DEF SetTop
  <2> QED BY <1>1, <1>2, <2>1
<1>4. ASSUME NEW f, NEW g, stack' = [stack EXCEPT ![p] = Append(Front(@), f) \o <<g>>]
      PROVE  f \in Good /\ g \in Good
  <2> DEFINE s == Front(stack[p])
  <2>1. stack'[p] = Append(s, f) \o <<g>>
    BY <1>1, <1>4
  <2>2. stack'[p] = Append(Append(s, f), g)
    BY <1>2, <2>1
  <2> QED BY <1>1, <1>2, <2>2
<1> QED BY <1>3, <1>4

(* The types that opendir() and readdir() report. *)
LEMMA OpenedTypes ==
  ASSUME node \in [Ids -> Inodes], NEW p, Top(p) \in Frames, NEW at \in Steps, NEW path \in Seq(Names)
  PROVE  /\ Opened(p, at, path) \in Frames
         /\ Opened(p, at, path).at = at /\ Opened(p, at, path).dir = Stat(path)
         /\ Opened(p, at, path).path = Top(p).path /\ Opened(p, at, path).ignore = Top(p).ignore
<1>1. Stat(path) \in Refs
  BY LstatIs, DerefType DEF Stat, Lstat
<1> DEFINE had == [n \in Names |-> TypeOf(Child(Stat(path), n))]
<1>2. had \in [Names -> Kinds]
  <2>1. \A n \in Names : TypeIn(node, ChildIn(node, Stat(path), n)) \in Kinds
    BY <1>1, ChildType, InodeKinds
  <2> QED BY <2>1 DEF TypeOf, Child
<1>3. Opened(p, at, path) = [Top(p) EXCEPT !.at = at, !.dir = Stat(path), !.had = had]
  BY DEF Opened
<1> HIDE DEF had
<1>4. Opened(p, at, path) \in Frames
  BY <1>1, <1>2, <1>3 DEF Frames
<1>5. Opened(p, at, path).at = at /\ Opened(p, at, path).dir = Stat(path)
      /\ Opened(p, at, path).path = Top(p).path /\ Opened(p, at, path).ignore = Top(p).ignore
  BY <1>3 DEF Frames
<1> QED BY <1>4, <1>5

(* Removing an entry keeps the tree. *)
LEMMA UnlinkTypes ==
  ASSUME TypeOK, NEW path \in Seq(Names), path # <<>>, Removable(path), node' = Unlink(path)
  PROVE  TreeOK(node')
BY UnlinkRemoves DEF TypeOK

(* What is a directory is there. *)
LEMMA IsDirStat ==
  ASSUME NEW path, DirExists(path)
  PROVE  Stat(path) # Nil /\ TypeOf(Stat(path)) = "dir"
BY DEF DirExists, IsDirIn, Stat, TypeOf, TypeIn, Lstat

(* The steps of rmdir, rm and auto_rmdir. *)
LEMMA RemoveEntryTypes ==
  ASSUME TypeOK, NEW p \in Procs, RemoveEntry(p)
  PROVE  TreeOK(node') /\ CallsOf(Good, stack', result') /\ Given
<1>1. result[p] = "run" /\ Given
  BY DEF RemoveEntry, TryRmdir, Rm, RmFile, TryRmdirR, OpenDir, NextEntry, EntryType, EndOfDir, UnlinkEntry, At
<1>2. /\ CallsOf(Good, stack, result)
      /\ Top(p) \in Good /\ Top(p) \in Frames /\ Top(p).path \in Seq(Names) /\ FrameOK(Top(p))
      /\ node \in [Ids -> Inodes] /\ TreeOK(node)
  BY <1>1, TopIs
<1>3. Return(p) => CallsOf(Good, stack', result')
  BY <1>1, <1>2, StackSteps
<1>4. Throw(p) => CallsOf(Good, stack', result')
  BY <1>1, ThrowTypes
<1>5. Tree => TreeOK(node')
  BY <1>2 DEF Tree
<1>6. ASSUME NEW at \in {"try_rmdir_r", "rmfile", "open"}, Top(p).at \in {"rm", "try_rmdir_r"},
             SetTop(p, [Top(p) EXCEPT !.at = at]), Continue
      PROVE  CallsOf(Good, stack', result')
  <2>1. at \in Steps
    BY DEF Steps
  <2>2. [Top(p) EXCEPT !.at = at] \in Good
    BY <1>2, <1>6, <2>1, GoToTypes
  <2> QED BY <1>1, <1>2, <1>6, <2>2, StackSteps
<1>7. CASE TryRmdir(p)
  <2>1. Top(p).path # <<>>
    BY <1>2, <1>7 DEF TryRmdir, At, FrameOK
  <2>2. CASE TypeOf(Lstat(Top(p).path)) = "dir" /\ Empty(Lstat(Top(p).path))
    <3>1. node' = Unlink(Top(p).path) /\ Return(p)
      BY <1>7, <2>2 DEF TryRmdir
    <3>2. Removable(Top(p).path)
      BY <2>2 DEF Removable
    <3> QED BY <1>1, <1>2, <1>3, <2>1, <3>1, <3>2, UnlinkTypes
  <2>3. CASE ~(TypeOf(Lstat(Top(p).path)) = "dir" /\ Empty(Lstat(Top(p).path)))
    <3>1. Tree /\ (Return(p) \/ Throw(p))
      BY <1>7, <2>3 DEF TryRmdir
    <3> QED BY <1>1, <1>3, <1>4, <1>5, <3>1
  <2> QED BY <2>2, <2>3
<1>8. CASE Rm(p)
  <2>1. Tree /\ Top(p).at = "rm"
    BY <1>8 DEF Rm, At
  <2>2. Throw(p) \/ \E at \in {"try_rmdir_r", "rmfile", "open"} : SetTop(p, [Top(p) EXCEPT !.at = at]) /\ Continue
    BY <1>8 DEF Rm, GoTo
  <2> QED BY <1>1, <1>4, <1>5, <1>6, <2>1, <2>2
<1>9. CASE RmFile(p)
  <2>1. Top(p).path # <<>>
    BY <1>2, <1>9 DEF RmFile, At, FrameOK
  <2>2. CASE TypeOf(Lstat(Top(p).path)) \in {"file", "link"}
    <3>1. node' = Unlink(Top(p).path) /\ Return(p)
      BY <1>9, <2>2 DEF RmFile
    <3>2. Removable(Top(p).path)
      BY <2>2 DEF Removable
    <3> QED BY <1>1, <1>2, <1>3, <2>1, <3>1, <3>2, UnlinkTypes
  <2>3. CASE ~(TypeOf(Lstat(Top(p).path)) \in {"file", "link"})
    <3>1. Tree /\ (Return(p) \/ Throw(p))
      BY <1>9, <2>3 DEF RmFile
    <3> QED BY <1>1, <1>3, <1>4, <1>5, <3>1
  <2> QED BY <2>2, <2>3
<1>10. CASE TryRmdirR(p)
  <2>1. Tree /\ Top(p).at = "try_rmdir_r"
    BY <1>10 DEF TryRmdirR, At
  <2>2. Return(p) \/ \E at \in {"try_rmdir_r", "rmfile", "open"} : SetTop(p, [Top(p) EXCEPT !.at = at]) /\ Continue
    BY <1>10 DEF TryRmdirR, GoTo
  <2> QED BY <1>1, <1>3, <1>5, <1>6, <2>1, <2>2
<1>11. CASE OpenDir(p)
  <2>1. Tree /\ Top(p).path # <<>>
    BY <1>2, <1>11 DEF OpenDir, At, FrameOK
  <2>2. CASE DirExists(Top(p).path)
    <3> DEFINE f == Opened(p, "next", Top(p).path)
    <3>1. SetTop(p, f) /\ Continue
      BY <1>11, <2>2 DEF OpenDir
    <3>2. f \in Frames /\ f.at = "next" /\ f.dir = Stat(Top(p).path) /\ f.path = Top(p).path
      BY <1>2, OpenedTypes DEF Steps
    <3>3. f.dir # Nil
      BY <2>2, <3>2, IsDirStat
    <3> HIDE DEF f
    <3>4. f \in Good
      BY <2>1, <3>2, <3>3 DEF Good, FrameOK
    <3> QED BY <1>1, <1>2, <1>5, <2>1, <3>1, <3>4, StackSteps
  <2>3. CASE ~DirExists(Top(p).path)
    BY <1>1, <1>4, <1>5, <1>11, <2>1, <2>3 DEF OpenDir
  <2> QED BY <2>2, <2>3
<1>12. CASE NextEntry(p)
  <2>1. Tree /\ Continue /\ Top(p).at = "next"
    BY <1>12 DEF NextEntry, At
  <2>2. PICK e \in Entries(Top(p)) :
          IF fs.types THEN Dispose(p, e[1], e[2])
                      ELSE SetTop(p, [Top(p) EXCEPT !.at = "type", !.entry = e[1]])
    BY <1>12 DEF NextEntry
  <2>3. e[1] \in Names
    BY DEF Entries
  <2>4. CASE fs.types
    BY <1>1, <1>5, <2>1, <2>2, <2>3, <2>4, DisposeTypes
  <2>5. CASE ~fs.types
    <3> DEFINE f == [Top(p) EXCEPT !.at = "type", !.entry = e[1]]
    <3>1. f \in Frames
      BY <1>2, <2>3, FrameEntry DEF Steps
    <3>2. f.at = "type" /\ f.entry = e[1] /\ f.dir = Top(p).dir /\ f.path = Top(p).path
      BY <1>2 DEF Frames
    <3>3. Top(p).dir # Nil /\ Top(p).path # <<>>
      BY <1>2, <2>1 DEF FrameOK
    <3>4. SetTop(p, f)
      BY <2>2, <2>5
    <3> HIDE DEF f
    <3>5. f \in Good
      BY <2>3, <3>1, <3>2, <3>3 DEF Good, FrameOK
    <3> QED BY <1>1, <1>2, <1>5, <2>1, <3>4, <3>5, StackSteps
  <2> QED BY <2>4, <2>5
<1>13. CASE EntryType(p)
  <2>1. Tree /\ Top(p).at = "type"
    BY <1>13 DEF EntryType, At
  <2>2. Top(p).entry \in Names
    BY <1>2, <2>1 DEF FrameOK
  <2>3. Throw(p) \/ \E t \in Kinds : Dispose(p, Top(p).entry, t) /\ Continue
    <3>1. TypeOf(Lstat(Entry(Top(p), Top(p).entry))) \in Kinds
      <4>1. Entry(Top(p), Top(p).entry) \in Seq(Names)
        BY <1>2, <2>2, AppendParts DEF Entry
      <4> QED BY <1>2, <4>1, LstatIs, InodeKinds DEF TypeOf, Lstat
    <3> QED BY <1>13, <3>1 DEF EntryType
  <2> QED BY <1>1, <1>4, <1>5, <2>1, <2>2, <2>3, DisposeTypes
<1>14. CASE EndOfDir(p)
  <2>1. Tree /\ Continue /\ SetTop(p, Closed(Top(p))) /\ Top(p).at = "next"
    BY <1>14 DEF EndOfDir, At, CloseDir, Closed
  <2>2. Closed(Top(p)) \in Good
    <3>1. Closed(Top(p)) \in Frames
      BY <1>2, FrameClosed
    <3>2. Closed(Top(p)).at = "rmdir" /\ Closed(Top(p)).path = Top(p).path
      BY <1>2 DEF Closed, Frames
    <3>3. Top(p).path # <<>>
      BY <1>2, <2>1 DEF FrameOK
    <3> QED BY <3>1, <3>2, <3>3 DEF Good, FrameOK
  <2> QED BY <1>1, <1>2, <1>5, <2>1, <2>2, StackSteps
<1>15. CASE UnlinkEntry(p)
  <2>1. Top(p).path # <<>>
    BY <1>2, <1>15 DEF UnlinkEntry, At, FrameOK
  <2>2. CASE TypeOf(Lstat(Top(p).path)) \in {"file", "link"}
    <3>1. node' = Unlink(Top(p).path) /\ Return(p)
      BY <1>15, <2>2 DEF UnlinkEntry
    <3>2. Removable(Top(p).path)
      BY <2>2 DEF Removable
    <3> QED BY <1>1, <1>2, <1>3, <2>1, <3>1, <3>2, UnlinkTypes
  <2>3. CASE ~(TypeOf(Lstat(Top(p).path)) \in {"file", "link"})
    <3>1. Tree /\ (Return(p) \/ Throw(p))
      BY <1>15, <2>3 DEF UnlinkEntry
    <3> QED BY <1>1, <1>3, <1>4, <1>5, <3>1
  <2> QED BY <2>2, <2>3
<1> QED BY <1>7, <1>8, <1>9, <1>10, <1>11, <1>12, <1>13, <1>14, <1>15 DEF RemoveEntry

(* The path that open() creates is one. *)
LEMMA TargetIs ==
  ASSUME node \in [Ids -> Inodes], NEW path \in Seq(Names)
  PROVE  Target(path) \in Seq(Names)
BY LstatIs, InodeKinds DEF Target, TypeOf, Lstat

(* The steps of touch, ... *)
LEMMA TouchFileTypes ==
  ASSUME TypeOK, NEW p \in Procs, TouchFile(p)
  PROVE  TreeOK(node') /\ CallsOf(Good, stack', result') /\ Given
<1>1. result[p] = "run" /\ Given
  BY DEF TouchFile, Touch, Utimes, CreateFile, At
<1>2. /\ CallsOf(Good, stack, result)
      /\ Top(p) \in Good /\ Top(p) \in Frames /\ Top(p).path \in Seq(Names)
      /\ node \in [Ids -> Inodes] /\ TreeOK(node)
  BY <1>1, TopIs
<1>3. Return(p) => CallsOf(Good, stack', result')
  BY <1>1, <1>2, StackSteps
<1>4. Throw(p) => CallsOf(Good, stack', result')
  BY <1>1, ThrowTypes
<1>5. Tree => TreeOK(node')
  BY <1>2 DEF Tree
<1>6. CASE Touch(p)
  <2>1. Tree /\ Top(p).at = "touch"
    BY <1>6 DEF Touch, At
  <2>2. ASSUME NEW at \in {"utimes", "create"}, GoTo(p, at), Continue PROVE CallsOf(Good, stack', result')
    <3>1. [Top(p) EXCEPT !.at = at] \in Good
      BY <1>2, <2>1, GoToTypes DEF Steps
    <3> QED BY <1>1, <1>2, <2>2, <3>1, StackSteps DEF GoTo
  <2>3. Throw(p) \/ \E at \in {"utimes", "create"} : GoTo(p, at) /\ Continue
    BY <1>6 DEF Touch
  <2> QED BY <1>1, <1>4, <1>5, <2>1, <2>2, <2>3
<1>7. CASE Utimes(p)
  BY <1>1, <1>3, <1>4, <1>5, <1>7 DEF Utimes
<1>8. CASE CreateFile(p)
  <2> DEFINE path == Target(Top(p).path)
  <2>1. path \in Seq(Names)
    BY <1>2, TargetIs
  <2>2. CASE Creatable(Top(p).path, path)
    <3>1. Make(path, File("")) /\ Return(p)
      BY <1>8, <2>2 DEF CreateFile
    <3>2. "" \in Texts
      BY CommandsAssumption
    <3>3. File("") \in Inodes /\ File("").type = "file"
      BY <3>2, NewInodes
    <3> HIDE DEF path
    <3>4. Vacant(path)
      BY <2>2 DEF Creatable
    <3>5. TreeOK(node')
      BY <1>2, <2>1, <3>1, <3>3, <3>4, MakeAdds, AddsKeepsTree, VacantIs
    <3> QED BY <1>1, <1>3, <3>1, <3>5
  <2>3. CASE ~Creatable(Top(p).path, path)
    BY <1>1, <1>3, <1>4, <1>5, <1>8, <2>3 DEF CreateFile
  <2> QED BY <2>2, <2>3
<1> QED BY <1>6, <1>7, <1>8 DEF TouchFile

(* ... of ln, ... *)
LEMMA LnTypes ==
  ASSUME TypeOK, NEW p \in Procs, Ln(p)
  PROVE  TreeOK(node') /\ CallsOf(Good, stack', result') /\ Given
<1>1. result[p] = "run" /\ Given
  BY DEF Ln, LinkTarget, MkSymlink, MkHardlink, At
<1>2. /\ CallsOf(Good, stack, result)
      /\ Top(p) \in Good /\ Top(p) \in Frames /\ Top(p).path \in Seq(Names) /\ Top(p).from \in Seq(Names)
      /\ node \in [Ids -> Inodes] /\ TreeOK(node)
  BY <1>1, TopIs
<1>3. Return(p) => CallsOf(Good, stack', result')
  BY <1>1, <1>2, StackSteps
<1>4. Throw(p) => CallsOf(Good, stack', result')
  BY <1>1, ThrowTypes
<1>5. Tree => TreeOK(node')
  BY <1>2 DEF Tree
<1>6. ASSUME NEW at \in {"symlink", "link", "cpdir"}, Top(p).at \in {"target", "symlink", "link"},
             GoTo(p, at), Continue
      PROVE  CallsOf(Good, stack', result')
  <2>1. [Top(p) EXCEPT !.at = at] \in Good
    BY <1>2, <1>6, GoToTypes DEF Steps
  <2> QED BY <1>1, <1>2, <1>6, <2>1, StackSteps DEF GoTo
<1>7. CASE LinkTarget(p)
  <2>1. Tree /\ Top(p).at = "target"
    BY <1>7 DEF LinkTarget, At
  <2>2. Throw(p) \/ \E at \in {"symlink", "link", "cpdir"} : GoTo(p, at) /\ Continue
    BY <1>7 DEF LinkTarget
  <2> QED BY <1>1, <1>4, <1>5, <1>6, <2>1, <2>2
<1>8. CASE MkSymlink(p)
  <2>1. Top(p).at = "symlink"
    BY <1>8 DEF MkSymlink, At
  <2>2. CASE ~Vacant(Top(p).path)
    BY <1>1, <1>4, <1>5, <1>8, <2>2 DEF MkSymlink
  <2>3. CASE Vacant(Top(p).path) /\ ~fs.symlinks
    BY <1>1, <1>5, <1>6, <1>8, <2>1, <2>3 DEF MkSymlink
  <2>4. CASE Vacant(Top(p).path) /\ ~(~fs.symlinks)
    <3>1. Make(Top(p).path, Link(Top(p).from)) /\ Return(p)
      BY <1>8, <2>4 DEF MkSymlink
    <3>2. Link(Top(p).from) \in Inodes /\ Link(Top(p).from).type = "link"
      BY <1>2, NewInodes
    <3>3. TreeOK(node')
      BY <1>2, <2>4, <3>1, <3>2, MakeAdds, AddsKeepsTree, VacantIs
    <3> QED BY <1>1, <1>3, <3>1, <3>3
  <2> QED BY <2>2, <2>3, <2>4
<1>9. CASE MkHardlink(p)
  <2> DEFINE i == Lstat(Top(p).from)
             path == Top(p).path
  <2>1. Top(p).at = "link"
    BY <1>9 DEF MkHardlink, At
  <2>2. CASE i = Nil \/ ~Vacant(path)
    BY <1>1, <1>4, <1>5, <1>9, <2>2 DEF MkHardlink
  <2>3. CASE i # Nil /\ Vacant(path) /\ (TypeOf(i) = "dir" \/ ~fs.hardlinks)
    BY <1>1, <1>5, <1>6, <1>9, <2>1, <2>3 DEF MkHardlink
  <2>4. CASE ~(i = Nil \/ ~Vacant(path)) /\ ~(i # Nil /\ Vacant(path) /\ (TypeOf(i) = "dir" \/ ~fs.hardlinks))
    <3>1. node' = Put(path, i) /\ Return(p)
      BY <1>9, <2>4 DEF MkHardlink
    <3>2. i # Nil /\ Vacant(path) /\ TypeOf(i) # "dir" /\ i \in Refs
      BY <1>2, <2>4, LstatIs DEF Lstat
    <3>3. i \in Ids /\ i # Root /\ node[i].type # "none"
      <4>1. i \in Ids
        BY <3>2 DEF Refs
      <4>2. i # Root
        BY <1>2, <3>2, RootIs DEF TypeOf, TypeIn, TreeOK
      <4>3. Linked(node, i)
        BY <1>2, <3>2, <4>2, FoundLinked DEF Lstat
      <4> QED BY <1>2, <4>1, <4>2, <4>3 DEF TreeOK
    <3> HIDE DEF i, path
    <3>4. path \in Seq(Names)
      BY <1>2 DEF path
    <3>5. TreeOK(node')
      BY <1>2, <3>1, <3>2, <3>3, <3>4, PutKeepsTree
    <3> QED BY <1>1, <1>3, <3>1, <3>5
  <2> QED BY <2>2, <2>3, <2>4
<1> QED BY <1>7, <1>8, <1>9 DEF Ln

(* ... of a copy, for an entry of the directory, ... *)
LEMMA CopyTypes ==
  ASSUME TypeOK, NEW p \in Procs, result[p] = "run", Top(p).at \in {"cp_next", "cp_type", "cp_follow"},
         NEW n \in Names, NEW t, CopyEntry(p, n, t), Continue
  PROVE  CallsOf(Good, stack', result')
<1> DEFINE from == Append(Top(p).from, n)
           to == Append(Top(p).path, n)
           at == IF t = "dir" THEN "cpdir" ELSE "cp_source"
           frame == [Top(p) EXCEPT !.at = "cp_next", !.entry = Nil, !.seen = @ \cup {n}]
           call == [Copying(at, from, to) EXCEPT !.new = TRUE]
<1>1. /\ CallsOf(Good, stack, result) /\ Top(p) \in Frames /\ FrameOK(Top(p))
      /\ Top(p).path \in Seq(Names) /\ Top(p).from \in Seq(Names)
  BY TopIs
<1>2. stack' = [stack EXCEPT ![p] = Append(Front(@), frame) \o <<call>>]
  BY Zenon DEF CopyEntry
<1>3. frame \in Good
  <2>1. frame \in Frames
    BY <1>1, FrameEntry DEF Steps
  <2>2. frame.at = "cp_next" /\ frame.dir = Top(p).dir /\ frame.path = Top(p).path
    BY <1>1 DEF Frames
  <2>3. Top(p).dir # Nil /\ Top(p).path # <<>>
    BY <1>1 DEF FrameOK
  <2> QED BY <2>1, <2>2, <2>3 DEF Good, FrameOK
<1>4. call \in Good
  <2>1. from \in Seq(Names) /\ to \in Seq(Names) /\ to # <<>>
    BY <1>1, AppendParts
  <2>2. at \in {"cpdir", "cp_source"} /\ at \in Steps
    BY DEF Steps
  <2> HIDE DEF from, to, at
  <2> QED BY <2>1, <2>2, NewFrameTypes
<1> HIDE DEF frame, call
<1> QED BY <1>1, <1>2, <1>3, <1>4, StackSteps

(* ... of cp, ... *)
LEMMA CpTypes ==
  ASSUME TypeOK, NEW p \in Procs, Cp(p)
  PROVE  TreeOK(node') /\ CallsOf(Good, stack', result') /\ Given
<1>1. result[p] = "run" /\ Given
  BY DEF Cp, CpDir, CpOpenDir, CpNext, CpEntry, CpEnd, CpSource, CpFile, CpUndo, At
<1>2. /\ CallsOf(Good, stack, result)
      /\ Top(p) \in Good /\ Top(p) \in Frames /\ FrameOK(Top(p))
      /\ Top(p).path \in Seq(Names) /\ Top(p).from \in Seq(Names) /\ Top(p).src \in Refs
      /\ node \in [Ids -> Inodes] /\ TreeOK(node)
  BY <1>1, TopIs
<1>3. Return(p) => CallsOf(Good, stack', result')
  BY <1>1, <1>2, StackSteps
<1>4. Throw(p) => CallsOf(Good, stack', result')
  BY <1>1, ThrowTypes
<1>5. Tree => TreeOK(node')
  BY <1>2 DEF Tree
<1>6. ASSUME NEW at \in {"cp_open", "cp_undo"}, Top(p).at \in {"cpdir", "cp_file"}
      PROVE  [Top(p) EXCEPT !.at = at] \in Good
  BY <1>2, <1>6, GoToTypes DEF Steps
<1>7. CASE CpDir(p)
  <2> DEFINE call == [Frame("mkdir", Top(p).path) EXCEPT !.new = TRUE]
  <2>1. Tree /\ Continue /\ Top(p).at = "cpdir" /\ CallFrom(p, "cp_open", call)
    BY <1>7 DEF CpDir, At
  <2>2. call \in Good
    BY <1>2, NewFrameTypes DEF Steps
  <2> HIDE DEF call
  <2>3. stack' = [stack EXCEPT ![p] = Append(Front(@), [Top(p) EXCEPT !.at = "cp_open"]) \o <<call>>]
    BY <2>1 DEF CallFrom
  <2> QED BY <1>1, <1>2, <1>5, <1>6, <2>1, <2>2, <2>3, StackSteps
<1>8. CASE CpOpenDir(p)
  <2>1. Tree /\ Top(p).path # <<>>
    BY <1>2, <1>8 DEF CpOpenDir, At, FrameOK
  <2>2. CASE DirExists(Top(p).from)
    <3> DEFINE f == Opened(p, "cp_next", Top(p).from)
    <3>1. SetTop(p, f) /\ Continue
      BY <1>8, <2>2 DEF CpOpenDir
    <3>2. f \in Frames /\ f.at = "cp_next" /\ f.dir = Stat(Top(p).from) /\ f.path = Top(p).path
      BY <1>2, OpenedTypes DEF Steps
    <3>3. f.dir # Nil
      BY <2>2, <3>2, IsDirStat
    <3> HIDE DEF f
    <3>4. f \in Good
      BY <2>1, <3>2, <3>3 DEF Good, FrameOK
    <3> QED BY <1>1, <1>2, <1>5, <2>1, <3>1, <3>4, StackSteps
  <2>3. CASE ~DirExists(Top(p).from)
    BY <1>1, <1>4, <1>5, <1>8, <2>1, <2>3 DEF CpOpenDir
  <2> QED BY <2>2, <2>3
<1>9. CASE CpNext(p)
  <2>1. Tree /\ Continue /\ Top(p).at = "cp_next"
    BY <1>9 DEF CpNext, At
  <2>2. PICK e \in Entries(Top(p)) :
          IF fs.types /\ e[2] # "link"
          THEN CopyEntry(p, e[1], e[2])
          ELSE SetTop(p, [Top(p) EXCEPT !.at = IF fs.types THEN "cp_follow" ELSE "cp_type", !.entry = e[1]])
    BY <1>9 DEF CpNext
  <2>3. e[1] \in Names
    BY DEF Entries
  <2>4. CASE CopyEntry(p, e[1], e[2])
    BY <1>1, <1>5, <2>1, <2>3, <2>4, CopyTypes
  <2>5. CASE \E at \in {"cp_type", "cp_follow"} : SetTop(p, [Top(p) EXCEPT !.at = at, !.entry = e[1]])
    <3>1. PICK at \in {"cp_type", "cp_follow"} : SetTop(p, [Top(p) EXCEPT !.at = at, !.entry = e[1]])
      BY <2>5
    <3> DEFINE f == [Top(p) EXCEPT !.at = at, !.entry = e[1]]
    <3>2. f \in Frames
      BY <1>2, <2>3, FrameEntry DEF Steps
    <3>3. f.at \in {"cp_type", "cp_follow"} /\ f.entry = e[1] /\ f.dir = Top(p).dir /\ f.path = Top(p).path
      BY <1>2 DEF Frames
    <3>4. Top(p).dir # Nil /\ Top(p).path # <<>>
      BY <1>2, <2>1 DEF FrameOK
    <3> HIDE DEF f
    <3>5. f \in Good
      BY <2>3, <3>2, <3>3, <3>4 DEF Good, FrameOK
    <3> QED BY <1>1, <1>2, <1>5, <2>1, <3>1, <3>5, StackSteps DEF f
  <2> QED BY <2>2, <2>4, <2>5
<1>10. CASE CpEntry(p)
  <2>1. Tree /\ Top(p).at \in {"cp_type", "cp_follow"}
    BY <1>10 DEF CpEntry, At
  <2>2. \/ Throw(p)
        \/ GoTo(p, "cp_follow") /\ Continue
        \/ \E t : CopyEntry(p, Top(p).entry, t) /\ Continue
    BY <1>10, Zenon DEF CpEntry
  <2>3. Top(p).entry \in Names /\ Top(p).dir # Nil /\ Top(p).path # <<>>
    BY <1>2, <2>1 DEF FrameOK
  <2>4. CASE GoTo(p, "cp_follow") /\ Continue
    <3> DEFINE f == [Top(p) EXCEPT !.at = "cp_follow"]
    <3>1. f \in Frames
      BY <1>2, FrameAt DEF Steps
    <3>2. f.at = "cp_follow" /\ f.entry = Top(p).entry /\ f.dir = Top(p).dir /\ f.path = Top(p).path
      BY <1>2 DEF Frames
    <3>3. SetTop(p, f)
      BY <2>4 DEF GoTo
    <3> HIDE DEF f
    <3>4. f \in Good
      BY <2>3, <3>1, <3>2 DEF Good, FrameOK
    <3> QED BY <1>1, <1>2, <1>5, <2>1, <2>4, <3>3, <3>4, StackSteps
  <2> QED BY <1>1, <1>4, <1>5, <2>1, <2>2, <2>3, <2>4, CopyTypes
<1>11. CASE CpEnd(p)
  BY <1>1, <1>3, <1>5, <1>11 DEF CpEnd
<1>12. CASE CpSource(p)
  <2> DEFINE i == Stat(Top(p).from)
  <2>1. Tree /\ Top(p).at = "cp_source" /\ Top(p).path # <<>>
    BY <1>2, <1>12 DEF CpSource, At, FrameOK
  <2>2. CASE i # Nil
    <3> DEFINE f == [Top(p) EXCEPT !.at = "cp_file", !.src = i]
    <3>1. SetTop(p, f) /\ Continue
      BY <1>12, <2>2 DEF CpSource
    <3>2. i \in Refs
      BY <1>2, LstatIs, DerefType DEF Stat, Lstat
    <3>3. f \in Frames
      BY <1>2, <3>2, FrameSource DEF Steps
    <3>4. f.at = "cp_file" /\ f.path = Top(p).path /\ f.src = i
      BY <1>2 DEF Frames
    <3> HIDE DEF f
    <3>5. f \in Good
      BY <2>1, <2>2, <3>3, <3>4 DEF Good, FrameOK
    <3> QED BY <1>1, <1>2, <1>5, <2>1, <3>1, <3>5, StackSteps
  <2>3. CASE i = Nil
    BY <1>1, <1>4, <1>5, <1>12, <2>1, <2>3 DEF CpSource
  <2> QED BY <2>2, <2>3
<1>13. CASE CpFile(p)
  <2> DEFINE to == Top(p).path
             path == IF Top(p).new THEN to ELSE Target(to)
             i == Stat(to)
             readable == TypeOf(Top(p).src) = "file"
             text == IF readable /\ Top(p).src # i THEN node[Top(p).src].text ELSE ""
             done == IF readable THEN Return(p) ELSE GoTo(p, "cp_undo") /\ Continue
  <2>1. Top(p).at = "cp_file"
    BY <1>13 DEF CpFile, At
  <2>2. \/ Vacant(path) /\ Make(path, File(text)) /\ done
        \/ TypeOf(i) = "file" /\ node' = [node EXCEPT ![i] = File(text)] /\ done
        \/ Throw(p) /\ Tree
    BY <1>13 DEF CpFile, Creatable
  <2>3. path \in Seq(Names)
    BY <1>2, TargetIs
  <2>4. i \in Refs
    BY <1>2, LstatIs, DerefType DEF Stat, Lstat
  <2>5. text \in Texts
    <3>1. "" \in Texts
      BY CommandsAssumption
    <3>2. readable => node[Top(p).src].text \in Texts
      BY <1>2, InodeKinds DEF TypeOf
    <3> HIDE DEF i
    <3> QED BY <3>1, <3>2
  <2>6. done => CallsOf(Good, stack', result')
    <3>1. CASE readable
      BY <1>3, <3>1
    <3>2. CASE ~readable
      BY <1>1, <1>2, <1>6, <2>1, <3>2, StackSteps DEF GoTo
    <3> QED BY <3>1, <3>2
  <2>7. File(text) \in Inodes /\ File(text).type = "file"
    BY <2>5, NewInodes
  <2> HIDE DEF path, i, text, done
  <2>8. CASE Vacant(path) /\ Make(path, File(text)) /\ done
    <3>1. TreeOK(node')
      BY <1>2, <2>3, <2>7, <2>8, MakeAdds, AddsKeepsTree, VacantIs
    <3> QED BY <1>1, <2>6, <2>8, <3>1
  <2>9. CASE TypeOf(i) = "file" /\ node' = [node EXCEPT ![i] = File(text)] /\ done
    BY <1>1, <1>2, <2>4, <2>5, <2>6, <2>9, WriteKeepsTree
  <2>10. CASE Throw(p) /\ Tree
    BY <1>1, <1>4, <1>5, <2>10
  <2> QED BY <2>2, <2>8, <2>9, <2>10
<1>14. CASE CpUndo(p)
  <2>1. Top(p).path # <<>>
    BY <1>2, <1>14 DEF CpUndo, At, FrameOK
  <2>2. CallsOf(Good, stack', result')
    BY <1>1, <1>2, <1>14, StackSteps DEF CpUndo
  <2>3. node' = IF TypeOf(Lstat(Top(p).path)) \in {"file", "link"} THEN Unlink(Top(p).path) ELSE node
    BY <1>14 DEF CpUndo
  <2>4. TypeOf(Lstat(Top(p).path)) \in {"file", "link"} => Removable(Top(p).path)
    BY DEF Removable
  <2> QED BY <1>1, <1>2, <2>1, <2>2, <2>3, <2>4, UnlinkTypes
<1> QED BY <1>7, <1>8, <1>9, <1>10, <1>11, <1>12, <1>13, <1>14 DEF Cp

(* ... and of mv. *)
LEMMA MvTypes ==
  ASSUME TypeOK, NEW p \in Procs, Mv(p) \/ Rename(p)
  PROVE  TreeOK(node') /\ CallsOf(Good, stack', result') /\ Given
<1>1. result[p] = "run" /\ Given
  BY DEF Mv, Rename, At
<1>2. /\ CallsOf(Good, stack, result)
      /\ Top(p) \in Good /\ Top(p) \in Frames /\ FrameOK(Top(p))
      /\ Top(p).path \in Seq(Names) /\ Top(p).from \in Seq(Names)
      /\ node \in [Ids -> Inodes] /\ TreeOK(node)
  BY <1>1, TopIs
<1>3. Return(p) => CallsOf(Good, stack', result')
  BY <1>1, <1>2, StackSteps
<1>4. Throw(p) => CallsOf(Good, stack', result')
  BY <1>1, ThrowTypes
<1>5. Tree => TreeOK(node')
  BY <1>2 DEF Tree
<1>6. CASE Mv(p)
  <2>1. Tree /\ Top(p).at = "mv"
    BY <1>6 DEF Mv, At
  <2>2. Throw(p) \/ (SetTop(p, [Top(p) EXCEPT !.at = "rename"]) /\ Continue)
    BY <1>6 DEF Mv, GoTo
  <2>3. [Top(p) EXCEPT !.at = "rename"] \in Good
    BY <1>2, <2>1, GoToTypes DEF Steps
  <2> QED BY <1>1, <1>2, <1>4, <1>5, <2>1, <2>2, <2>3, StackSteps
<1>7. CASE Rename(p)
  <2> DEFINE from == Top(p).from
             to == Top(p).path
             i == Lstat(from)
             j == Lstat(to)
  <2>1. Top(p).path # <<>>
    BY <1>2, <1>7 DEF Rename, At, FrameOK
  <2>2. \/ Return(p) /\ Tree
        \/ i # j /\ Renames(i, j, from, to) /\ node' = Release(Moved(from, to), j) /\ Return(p)
        \/ Throw(p) /\ Tree
    BY <1>7 DEF Rename, Moved
  <2>3. CASE i # j /\ Renames(i, j, from, to) /\ node' = Release(Moved(from, to), j) /\ Return(p)
    <3>1. TreeOK(node')
      BY <1>2, <2>1, <2>3, RenameKeepsTree
    <3> QED BY <1>1, <1>3, <2>3, <3>1
  <2> QED BY <1>1, <1>3, <1>4, <1>5, <2>2, <2>3
<1> QED BY <1>6, <1>7

(* Where the commands begin. *)
LEMMA SceneIs ==
  ASSUME Init
  PROVE  /\ fs \in Support /\ cmd \in [Procs -> Commands] /\ TreeOK(node) /\ before = node
         /\ \A p \in Procs : ~Idle(p) => cmd[p].path # <<>>
         /\ \A i \in Ids \ {Root} : node[i].type # "none" => Linked(node, i)
BY CommandsAssumption DEF Init, Idle

(* The first call of a command is well-formed. *)
LEMMA FirstTypes ==
  ASSUME NEW c \in Commands, c.op # "none", c.path # <<>>
  PROVE  First(c) \in Good
<1>1. c.op \in Ops /\ c.path \in Seq(Names) /\ c.from \in Seq(Names)
  BY DEF Commands
<1>2. CASE c.op = "mkdir"
  BY <1>1, <1>2, NewFrameTypes DEF First, Steps
<1>3. CASE c.op \in {"mkdir_p", "try_mkdir_p", "touch"}
  <2>1. First(c) = Frame(c.op, c.path) /\ c.op \in Steps
    BY <1>3 DEF First, Steps
  <2> QED BY <1>1, <1>3, <2>1, NewFrameTypes
<1>4. CASE c.op \in {"rmdir", "rmdir_f"}
  <2>1. First(c) = Frame("rmdir", c.path)
    BY <1>4 DEF First
  <2> QED BY <1>1, <2>1, NewFrameTypes DEF Steps
<1>5. CASE c.op \in {"rm", "rm_f", "rm_r"}
  <2>1. First(c) = Frame("rm", c.path)
    BY <1>5 DEF First
  <2> QED BY <1>1, <2>1, NewFrameTypes DEF Steps
<1>6. CASE c.op = "auto_rm"
  <2>1. First(c) = [Frame("try_rmdir_r", c.path) EXCEPT !.ignore = TRUE]
    BY <1>6 DEF First
  <2> QED BY <1>1, <2>1, NewFrameTypes DEF Steps
<1>7. CASE c.op \in {"ln", "ln_s"}
  <2>1. First(c) = Copying("target", c.from, c.path)
    BY <1>7 DEF First
  <2> QED BY <1>1, <2>1, NewFrameTypes DEF Steps
<1>8. CASE c.op \in {"cp", "cp_r", "mv"}
  <2>1. PICK at \in {"cp_source", "cpdir", "mv"} : First(c) = Copying(at, c.from, c.path)
    BY <1>8 DEF First
  <2>2. at \in Steps
    BY DEF Steps
  <2> QED BY <1>1, <2>1, <2>2, NewFrameTypes
<1> QED BY <1>1, <1>2, <1>3, <1>4, <1>5, <1>6, <1>7, <1>8 DEF Ops

(* TypeOK holds at first, ... *)
LEMMA InitTypes ==
  ASSUME Init
  PROVE  TypeOK
<1>1. fs \in Support /\ cmd \in [Procs -> Commands] /\ TreeOK(node) /\ TreeOK(before)
  BY SceneIs
<1>2. held \in [Procs -> BOOLEAN]
  <2>1. held = [p \in Procs |-> Effect(cmd[p])]
    BY DEF Init
  <2>2. ASSUME NEW p \in Procs PROVE Effect(cmd[p]) \in BOOLEAN
    BY DEF Effect, DirExists, IsDirIn
  <2> QED BY <2>1, <2>2
<1>3. stack = [p \in Procs |-> IF Idle(p) THEN <<>> ELSE <<First(cmd[p])>>]
      /\ result = [p \in Procs |-> IF Idle(p) THEN "ok" ELSE "run"]
  BY DEF Init
<1>4. ASSUME NEW p \in Procs
      PROVE  stack[p] \in Seq(Good) /\ (result[p] = "run" <=> stack[p] # <<>>)
  <2>1. CASE Idle(p)
    BY <1>3, <2>1
  <2>2. CASE ~Idle(p)
    <3>1. First(cmd[p]) \in Good
      <4>1. cmd[p] \in Commands /\ cmd[p].path # <<>> /\ cmd[p].op # "none"
        BY <1>1, <2>2, SceneIs DEF Idle
      <4> QED BY <4>1, FirstTypes
    <3>2. stack[p] = <<First(cmd[p])>> /\ result[p] = "run"
      BY <1>3, <2>2
    <3> QED BY <3>1, <3>2
  <2> QED BY <2>1, <2>2
<1>5. CallsOf(Good, stack, result)
  <2>1. stack \in [Procs -> Seq(Good)]
    BY <1>3, <1>4
  <2>2. result \in [Procs -> {"run", "ok", "fail"}]
    BY <1>3
  <2> QED BY <1>4, <2>1, <2>2 DEF CallsOf
<1> QED BY <1>1, <1>2, <1>5, TypedCalls DEF Typed

(* ... and every step keeps it. *)
LEMMA StepTypes ==
  ASSUME TypeOK, NEW p \in Procs, Step(p)
  PROVE  TypeOK' /\ Given
<1>1. TreeOK(node') /\ CallsOf(Good, stack', result') /\ Given
  BY MakeDirTypes, RemoveEntryTypes, TouchFileTypes, LnTypes, CpTypes, MvTypes, Zenon DEF Step
<1>2. TreeOK(node)' /\ CallsOf(Good, stack, result)'
  <2>1. TreeOK(node)' <=> TreeOK(node')
    BY DEF TreeOK, Linked
  <2>2. CallsOf(Good, stack, result)' <=> CallsOf(Good, stack', result')
    BY DEF CallsOf
  <2> QED BY <1>1, <2>1, <2>2
<1>3. /\ fs' \in Support /\ cmd' \in [Procs -> Commands]
      /\ TreeOK(before)' /\ held' \in [Procs -> BOOLEAN]
  BY <1>1, GivenTypes
<1>4. TypeOK'
  <2>1. TypeOK' <=> Typed'
    BY TypedCalls, PTL
  <2> QED BY <1>2, <1>3, <2>1 DEF Typed
<1> QED BY <1>1, <1>4

(* Whatever the commands do to the tree at the same time, it stays a       *)
(* tree: no directory names an inode that was released with its last       *)
(* name, no entry leads to the root; and readdir() is only called on a     *)
(* stream that opendir() has opened.                                       *)
THEOREM TypeCorrect == Spec => []TypeOK
<1>1. Init => TypeOK
  BY InitTypes
<1>2. TypeOK /\ [Next]_vars => TypeOK'
  <2> SUFFICES ASSUME TypeOK, [Next]_vars PROVE TypeOK'
    OBVIOUS
  <2>1. CASE \E p \in Procs : Step(p)
    BY <2>1, StepTypes
  <2>2. CASE UNCHANGED vars
    BY <2>2 DEF vars, TypeOK, TreeOK, Linked
  <2> QED BY <2>1, <2>2 DEF Next, AllDone
<1> QED BY <1>1, <1>2, PTL DEF Spec

-----------------------------------------------------------------------------
(* What is found in a tree that is changed: stable and kept entries. *)

(* What can be found: inodes with a name. *)
Live(f, i) == i = Root \/ Linked(f, i)

(* What can be found in f is the same in g or was removed, ... *)
Stable(f, g) ==
  \A i \in Ids :
    Live(f, i) =>
      \/ g[i] = NoInode
      \/ /\ g[i].type = f[i].type
         /\ f[i].type = "link" => g[i] = f[i]
         /\ f[i].type = "dir" => \A n \in Names : g[i].sub[n] = f[i].sub[n] \/ f[i].sub[n] = Nil \/ g[i].sub[n] = Nil

(* ... or is still there, too. *)
Kept(f, g) ==
  \A i \in Ids :
    Live(f, i) =>
      /\ g[i].type = f[i].type
      /\ f[i].type = "link" => g[i] = f[i]
      /\ f[i].type = "dir" => \A n \in Names : f[i].sub[n] = Nil \/ g[i].sub[n] = f[i].sub[n]

(* What is kept is stable. *)
LEMMA KeptStable ==
  ASSUME NEW f, NEW g, Kept(f, g) PROVE Stable(f, g)
BY DEF Kept, Stable

(* Of what both find, one finds nothing or both the same: an entry, ... *)
LEMMA StableChild ==
  ASSUME NEW f \in [Ids -> Inodes], NEW g \in [Ids -> Inodes], Stable(f, g), NEW i \in Refs, i = Nil \/ Live(f, i)
  PROVE  /\ TypeIn(g, i) \in {TypeIn(f, i), "none"}
         /\ TypeIn(g, i) = "link" => g[i] = f[i]
         /\ \A n \in Names : ChildIn(f, i, n) = Nil \/ ChildIn(g, i, n) = Nil \/ ChildIn(g, i, n) = ChildIn(f, i, n)
<1>1. CASE i = Nil
  BY <1>1, NilLeadsNowhere
<1>2. CASE i # Nil
  <2>1. i \in Ids /\ Live(f, i)
    BY <1>2 DEF Refs
  <2>2. TypeIn(f, i) = f[i].type /\ TypeIn(g, i) = g[i].type
    BY <1>2 DEF TypeIn
  <2>3. CASE g[i] = NoInode
    BY <2>2, <2>3 DEF NoInode, ChildIn
  <2>4. CASE g[i] # NoInode
    BY <2>1, <2>2, <2>4 DEF Stable, ChildIn
  <2> QED BY <2>3, <2>4
<1> QED BY <1>1, <1>2

(* ... a path without symlinks, ... *)
LEMMA StableDown ==
  ASSUME NEW f \in [Ids -> Inodes], NEW g \in [Ids -> Inodes], Stable(f, g)
  PROVE  \A q \in Seq(Names) : Down(f, q) = Nil \/ Down(g, q) = Nil \/ Down(g, q) = Down(f, q)
<1> DEFINE T == {q \in Seq(Names) : Down(f, q) = Nil \/ Down(g, q) = Nil \/ Down(g, q) = Down(f, q)}
<1>1. <<>> \in T
  BY DownIs
<1>2. ASSUME NEW q \in Seq(Names), NEW n \in Names, q \in T PROVE Append(q, n) \in T
  <2>1. Append(q, n) \in Seq(Names)
    BY AppendParts
  <2>2. /\ Down(f, Append(q, n)) = ChildIn(f, Down(f, q), n)
        /\ Down(g, Append(q, n)) = ChildIn(g, Down(g, q), n)
        /\ Down(f, q) \in Refs
    BY DownIs
  <2>3. CASE Down(f, q) = Nil \/ Down(g, q) = Nil
    BY <2>1, <2>2, <2>3, NilLeadsNowhere
  <2>4. CASE Down(g, q) = Down(f, q)
    <3>1. Down(f, q) = Nil \/ Live(f, Down(f, q))
      BY FoundLinked DEF Live
    <3> QED BY <2>1, <2>2, <2>4, <3>1, StableChild
  <2> QED BY <1>2, <2>3, <2>4
<1> HIDE DEF T
<1>3. \A q \in Seq(Names) : q \in T
  BY <1>1, <1>2, PathInduction
<1> QED BY <1>3 DEF T

(* ... a symlink, ... *)
LEMMA StableDeref ==
  ASSUME NEW f \in [Ids -> Inodes], NEW g \in [Ids -> Inodes], Stable(f, g), NEW i \in Refs, i = Nil \/ Live(f, i)
  PROVE  \/ TypeIn(f, DerefIn(f, i)) = "none"
         \/ TypeIn(g, DerefIn(g, i)) = "none"
         \/ DerefIn(g, i) = DerefIn(f, i) /\ (i = Nil \/ Live(f, DerefIn(f, i)))
<1>1. TypeIn(g, i) \in {TypeIn(f, i), "none"} /\ (TypeIn(g, i) = "link" => g[i] = f[i])
  BY StableChild
<1>2. CASE TypeIn(g, i) = "none"
  BY <1>2 DEF DerefIn
<1>3. CASE TypeIn(g, i) # "none" /\ TypeIn(f, i) # "link"
  BY <1>1, <1>3 DEF DerefIn
<1>4. CASE TypeIn(g, i) # "none" /\ TypeIn(f, i) = "link"
  <2> DEFINE a == Down(f, f[i].to)
             b == Down(g, f[i].to)
  <2>1. TypeIn(g, i) = "link" /\ g[i] = f[i] /\ f[i].to \in Seq(Names)
    BY <1>1, <1>4, InodeKinds
  <2>2. /\ DerefIn(f, i) = IF TypeIn(f, a) = "link" THEN Nil ELSE a
        /\ DerefIn(g, i) = IF TypeIn(g, b) = "link" THEN Nil ELSE b
    BY <1>4, <2>1 DEF DerefIn
  <2>3. a = Nil \/ b = Nil \/ b = a
    BY <2>1, StableDown
  <2>4. a \in Refs /\ (a = Nil \/ Live(f, a))
    BY <2>1, DownIs, FoundLinked DEF Live
  <2> HIDE DEF a, b
  <2>5. CASE a = Nil \/ b = Nil
    BY <2>2, <2>5, NilLeadsNowhere
  <2>6. CASE a = b /\ a # Nil
    <3>1. TypeIn(g, a) \in {TypeIn(f, a), "none"}
      BY <2>4, StableChild
    <3> QED BY <2>2, <2>4, <2>6, <3>1, NilLeadsNowhere
  <2> QED BY <2>3, <2>5, <2>6
<1> QED BY <1>2, <1>3, <1>4

(* ... any path, ... *)
LEMMA StableLstat ==
  ASSUME NEW f \in [Ids -> Inodes], NEW g \in [Ids -> Inodes], Stable(f, g)
  PROVE  \A q \in Seq(Names) : LstatIn(f, q) = Nil \/ LstatIn(g, q) = Nil \/ LstatIn(g, q) = LstatIn(f, q)
<1> DEFINE T == {q \in Seq(Names) : LstatIn(f, q) = Nil \/ LstatIn(g, q) = Nil \/ LstatIn(g, q) = LstatIn(f, q)}
<1>1. <<>> \in T
  BY LstatIs
<1>2. ASSUME NEW q \in Seq(Names), NEW n \in Names, q \in T PROVE Append(q, n) \in T
  <2> DEFINE d == DerefIn(f, LstatIn(f, q))
             e == DerefIn(g, LstatIn(g, q))
  <2>1. Append(q, n) \in Seq(Names)
    BY AppendParts
  <2>2. /\ LstatIn(f, Append(q, n)) = ChildIn(f, d, n)
        /\ LstatIn(g, Append(q, n)) = ChildIn(g, e, n)
        /\ LstatIn(f, q) \in Refs /\ d \in Refs
    BY LstatIs, DerefType
  <2>3. CASE LstatIn(f, q) = Nil \/ LstatIn(g, q) = Nil
    BY <2>1, <2>2, <2>3, NilLeadsNowhere
  <2>4. CASE LstatIn(g, q) = LstatIn(f, q)
    <3>1. LstatIn(f, q) = Nil \/ Live(f, LstatIn(f, q))
      BY FoundLinked DEF Live
    <3>2. TypeIn(f, d) = "none" \/ TypeIn(g, e) = "none" \/ e = d
      BY <2>2, <2>4, <3>1, StableDeref
    <3>3. d = Nil \/ Live(f, d)
      BY FoundLinked DEF Live
    <3>4. CASE TypeIn(f, d) = "none" \/ TypeIn(g, e) = "none"
      BY <2>1, <2>2, <3>4 DEF ChildIn
    <3>5. CASE e = d
      BY <2>1, <2>2, <3>3, <3>5, StableChild
    <3> QED BY <3>2, <3>4, <3>5
  <2> QED BY <1>2, <2>3, <2>4
<1> HIDE DEF T
<1>3. \A q \in Seq(Names) : q \in T
  BY <1>1, <1>2, PathInduction
<1> QED BY <1>3 DEF T

(* What was kept is found as before: an entry, ... *)
LEMMA KeptChild ==
  ASSUME NEW f \in [Ids -> Inodes], NEW g \in [Ids -> Inodes], Kept(f, g), NEW i \in Refs, i = Nil \/ Live(f, i)
  PROVE  /\ TypeIn(g, i) = TypeIn(f, i)
         /\ TypeIn(f, i) = "link" => g[i] = f[i]
         /\ \A n \in Names : ChildIn(f, i, n) # Nil => ChildIn(g, i, n) = ChildIn(f, i, n)
<1>1. CASE i = Nil
  BY <1>1, NilLeadsNowhere
<1>2. CASE i # Nil
  <2>1. i \in Ids /\ Live(f, i)
    BY <1>2 DEF Refs
  <2> QED BY <1>2, <2>1 DEF Kept, TypeIn, ChildIn
<1> QED BY <1>1, <1>2

(* ... a path without symlinks, ... *)
LEMMA KeptDown ==
  ASSUME NEW f \in [Ids -> Inodes], NEW g \in [Ids -> Inodes], Kept(f, g)
  PROVE  \A q \in Seq(Names) : Down(f, q) # Nil => Down(g, q) = Down(f, q)
<1> DEFINE T == {q \in Seq(Names) : Down(f, q) # Nil => Down(g, q) = Down(f, q)}
<1>1. <<>> \in T
  BY DownIs
<1>2. ASSUME NEW q \in Seq(Names), NEW n \in Names, q \in T PROVE Append(q, n) \in T
  <2>1. Append(q, n) \in Seq(Names)
    BY AppendParts
  <2>2. /\ Down(f, Append(q, n)) = ChildIn(f, Down(f, q), n)
        /\ Down(g, Append(q, n)) = ChildIn(g, Down(g, q), n)
        /\ Down(f, q) \in Refs
    BY DownIs
  <2>3. SUFFICES ASSUME ChildIn(f, Down(f, q), n) # Nil
                 PROVE  ChildIn(g, Down(g, q), n) = ChildIn(f, Down(f, q), n)
    BY <2>1, <2>2
  <2>4. Down(f, q) # Nil
    BY <2>3 DEF ChildIn, TypeIn
  <2>5. Down(g, q) = Down(f, q)
    BY <1>2, <2>4
  <2>6. Live(f, Down(f, q))
    BY <2>4, FoundLinked DEF Live
  <2> QED BY <2>2, <2>3, <2>5, <2>6, KeptChild
<1> HIDE DEF T
<1>3. \A q \in Seq(Names) : q \in T
  BY <1>1, <1>2, PathInduction
<1> QED BY <1>3 DEF T

(* ... a symlink, ... *)
LEMMA KeptDeref ==
  ASSUME NEW f \in [Ids -> Inodes], NEW g \in [Ids -> Inodes], Kept(f, g),
         NEW i \in Refs, i = Nil \/ Live(f, i), DerefIn(f, i) # Nil
  PROVE  DerefIn(g, i) = DerefIn(f, i)
<1>1. TypeIn(g, i) = TypeIn(f, i) /\ (TypeIn(f, i) = "link" => g[i] = f[i])
  BY KeptChild
<1>2. CASE TypeIn(f, i) # "link"
  BY <1>1, <1>2 DEF DerefIn
<1>3. CASE TypeIn(f, i) = "link"
  <2>1. f[i].to \in Seq(Names)
    BY <1>3, InodeKinds
  <2>2. TypeIn(f, Down(f, f[i].to)) # "link" /\ DerefIn(f, i) = Down(f, f[i].to)
    BY <1>3 DEF DerefIn
  <2>3. Down(g, f[i].to) = Down(f, f[i].to)
    BY <2>1, <2>2, KeptDown
  <2>4. Down(f, f[i].to) \in Refs /\ Live(f, Down(f, f[i].to))
    BY <2>1, <2>2, DownIs, FoundLinked DEF Live
  <2>5. TypeIn(g, Down(f, f[i].to)) = TypeIn(f, Down(f, f[i].to))
    BY <2>4, KeptChild
  <2> QED BY <1>1, <1>3, <2>2, <2>3, <2>5 DEF DerefIn
<1> QED BY <1>2, <1>3

(* ... any path, with the symlink at its end followed or not. *)
LEMMA KeptLstat ==
  ASSUME NEW f \in [Ids -> Inodes], NEW g \in [Ids -> Inodes], Kept(f, g)
  PROVE  \A q \in Seq(Names) : LstatIn(f, q) # Nil => LstatIn(g, q) = LstatIn(f, q)
<1> DEFINE T == {q \in Seq(Names) : LstatIn(f, q) # Nil => LstatIn(g, q) = LstatIn(f, q)}
<1>1. <<>> \in T
  BY LstatIs
<1>2. ASSUME NEW q \in Seq(Names), NEW n \in Names, q \in T PROVE Append(q, n) \in T
  <2> DEFINE d == DerefIn(f, LstatIn(f, q))
  <2>1. Append(q, n) \in Seq(Names)
    BY AppendParts
  <2>2. /\ LstatIn(f, Append(q, n)) = ChildIn(f, d, n)
        /\ LstatIn(g, Append(q, n)) = ChildIn(g, DerefIn(g, LstatIn(g, q)), n)
        /\ LstatIn(f, q) \in Refs /\ d \in Refs
    BY LstatIs, DerefType
  <2>3. SUFFICES ASSUME ChildIn(f, d, n) # Nil
                 PROVE  ChildIn(g, DerefIn(g, LstatIn(g, q)), n) = ChildIn(f, d, n)
    BY <2>1, <2>2
  <2>4. d # Nil /\ LstatIn(f, q) # Nil
    BY <2>3, NilLeadsNowhere
  <2>5. LstatIn(g, q) = LstatIn(f, q)
    BY <1>2, <2>4
  <2>6. Live(f, LstatIn(f, q)) /\ Live(f, d)
    BY <2>4, FoundLinked DEF Live
  <2>7. DerefIn(g, LstatIn(f, q)) = d
    BY <2>2, <2>4, <2>6, KeptDeref
  <2> QED BY <2>2, <2>3, <2>5, <2>6, <2>7, KeptChild
<1> HIDE DEF T
<1>3. \A q \in Seq(Names) : q \in T
  BY <1>1, <1>2, PathInduction
<1> QED BY <1>3 DEF T

(* ... and what is at the path, a symlink followed. *)
LEMMA KeptStat ==
  ASSUME NEW f \in [Ids -> Inodes], NEW g \in [Ids -> Inodes], Kept(f, g),
         NEW q \in Seq(Names), DerefIn(f, LstatIn(f, q)) # Nil
  PROVE  /\ LstatIn(g, q) = LstatIn(f, q)
         /\ DerefIn(g, LstatIn(g, q)) = DerefIn(f, LstatIn(f, q))
<1>1. LstatIn(f, q) # Nil /\ LstatIn(f, q) \in Refs
  BY LstatIs, NilLeadsNowhere
<1>2. Live(f, LstatIn(f, q))
  BY <1>1, FoundLinked DEF Live
<1> QED BY <1>1, <1>2, KeptLstat, KeptDeref

(* A tree that stays as it is keeps everything, ... *)
LEMMA KeptRefl ==
  ASSUME NEW f PROVE Kept(f, f)
BY DEF Kept

(* ... and so does a new entry, ... *)
LEMMA AddsKept ==
  ASSUME NEW path, NEW i, NEW g, NEW what, Adds(g, path, i, what)
  PROVE  Kept(node, g)
<1> DEFINE d == Parent(path)
<1>1. ASSUME NEW j \in Ids, Live(node, j)
      PROVE  /\ g[j].type = node[j].type
             /\ node[j].type = "link" => g[j] = node[j]
             /\ node[j].type = "dir" => \A n \in Names : node[j].sub[n] = Nil \/ g[j].sub[n] = node[j].sub[n]
  <2>1. j # i
    BY <1>1 DEF Live, Adds
  <2>2. CASE j = d
    <3>1. node[d].type = "dir" /\ g[d].type = "dir" /\ node[d].sub[Last(path)] = Nil
          /\ \A n \in Names : g[d].sub[n] = IF n = Last(path) THEN i ELSE node[d].sub[n]
      BY DEF Adds
    <3> QED BY <2>2, <3>1
  <2>3. CASE j # d
    <3>1. g[j] = node[j]
      BY <2>1, <2>3 DEF Adds
    <3> QED BY <3>1
  <2> QED BY <2>2, <2>3
<1> QED BY <1>1 DEF Kept

(* ... another name, ... *)
LEMMA PutKept ==
  ASSUME node \in [Ids -> Inodes], NEW path \in Seq(Names), Vacant(path), NEW i \in Refs
  PROVE  Kept(node, Put(path, i)) /\ Put(path, i) \in [Ids -> Inodes]
<1> DEFINE d == Parent(path)
           g == Put(path, i)
<1>1. d \in Ids /\ node[d].type = "dir" /\ node[d].sub[Last(path)] = Nil /\ Last(path) \in Names
  BY VacantIs
<1>2. /\ g \in [Ids -> Inodes] /\ g[d].type = "dir"
      /\ \A n \in Names : g[d].sub[n] = IF n = Last(path) THEN i ELSE node[d].sub[n]
      /\ \A j \in Ids \ {d} : g[j] = node[j]
  BY <1>1, PutIs
<1> HIDE DEF g, d
<1>3. Kept(node, g)
  BY <1>1, <1>2 DEF Kept
<1> QED BY <1>2, <1>3 DEF g

(* ... and a new content. *)
LEMMA WriteKept ==
  ASSUME node \in [Ids -> Inodes], NEW i \in Refs, TypeOf(i) = "file", NEW t \in Texts
  PROVE  Kept(node, [node EXCEPT ![i] = File(t)])
<1> DEFINE g == [node EXCEPT ![i] = File(t)]
<1>1. i \in Ids /\ node[i].type = "file"
  BY InodeKinds DEF TypeOf
<1>2. File(t).type = "file"
  BY NewInodes
<1>3. g[i].type = "file" /\ \A j \in Ids \ {i} : g[j] = node[j]
  BY <1>1, <1>2
<1> HIDE DEF g
<1>4. Kept(node, g)
  BY <1>1, <1>3 DEF Kept
<1> QED BY <1>4 DEF g

(* Removing an entry is stable. *)
LEMMA RemovesStable ==
  ASSUME NEW path, NEW g, Removes(g, path)
  PROVE  Stable(node, g)
<1> DEFINE d == Parent(path)
           x == Lstat(path)
<1>1. /\ d \in Ids /\ x \in Ids /\ d # x
      /\ node[d].type = "dir" /\ g[d].type = "dir"
      /\ \A n \in Names : g[d].sub[n] = IF n = Last(path) THEN Nil ELSE node[d].sub[n]
      /\ g[x] = node[x] \/ g[x] = NoInode
      /\ \A j \in Ids \ {d, x} : g[j] = node[j]
  BY DEF Removes
<1> HIDE DEF d, x
<1> QED BY <1>1 DEF Stable

(* An entry that was just made is found: as it is, through the parent ... *)
LEMMA MadeIsFound ==
  ASSUME node \in [Ids -> Inodes], NEW g \in [Ids -> Inodes], Kept(node, g),
         NEW path \in Seq(Names), path # <<>>, NEW i \in Refs, i # Nil,
         Parent(path) \in Ids, g[Parent(path)].type = "dir", g[Parent(path)].sub[Last(path)] = i
  PROVE  LstatIn(g, path) = i
<1> DEFINE d == Parent(path)
<1>1. Front(path) \in Seq(Names) /\ Last(path) \in Names
  BY FrontLast
<1>2. d = DerefIn(node, LstatIn(node, Front(path))) /\ d # Nil
  BY CommandsAssumption DEF Parent, Stat, Lstat
<1>3. DerefIn(g, LstatIn(g, Front(path))) = d
  BY <1>1, <1>2, KeptStat
<1>4. LstatIn(g, path) = ChildIn(g, d, Last(path))
  BY <1>1, <1>3, EntryIs
<1> QED BY <1>2, <1>4 DEF ChildIn, TypeIn

(* What was added is found at its path, ... *)
LEMMA AddedIsFound ==
  ASSUME node \in [Ids -> Inodes], NEW path \in Seq(Names), path # <<>>,
         NEW i, NEW g, NEW what, Adds(g, path, i, what)
  PROVE  LstatIn(g, path) = i /\ i \in Ids /\ i \in Refs /\ i # Nil /\ g \in [Ids -> Inodes] /\ g[i] = what
<1>1. Last(path) \in Names
  BY FrontLast
<1>2. /\ i \in Ids /\ g \in [Ids -> Inodes] /\ g[i] = what
      /\ Parent(path) \in Ids /\ g[Parent(path)].type = "dir" /\ g[Parent(path)].sub[Last(path)] = i
  BY <1>1 DEF Adds
<1>3. i \in Refs /\ i # Nil
  BY <1>2, CommandsAssumption DEF Refs
<1> QED BY <1>2, <1>3, AddsKept, MadeIsFound

(* ... and so is another name. *)
LEMMA PutIsFound ==
  ASSUME node \in [Ids -> Inodes], NEW path \in Seq(Names), Vacant(path), NEW i \in Refs, i # Nil
  PROVE  LstatIn(Put(path, i), path) = i
<1>1. path # <<>> /\ Parent(path) \in Ids /\ node[Parent(path)].type = "dir" /\ Last(path) \in Names
  BY VacantIs
<1>2. Put(path, i)[Parent(path)].type = "dir" /\ Put(path, i)[Parent(path)].sub[Last(path)] = i
  BY <1>1, PutIs
<1>3. Kept(node, Put(path, i)) /\ Put(path, i) \in [Ids -> Inodes]
  BY PutKept
<1> HIDE DEF Put
<1> QED BY <1>1, <1>2, <1>3, MadeIsFound

(* ... or, a file, through a symlink. *)
LEMMA FileIsFound ==
  ASSUME node \in [Ids -> Inodes], NEW path \in Seq(Names), Creatable(path, Target(path)),
         NEW t \in Texts, NEW i, NEW g, Adds(g, Target(path), i, File(t))
  PROVE  TypeIn(g, DerefIn(g, LstatIn(g, path))) = "file"
<1> DEFINE to == Target(path)
<1>1. to \in Seq(Names) /\ Vacant(to) /\ (path = to \/ Parent(to) = Down(node, Front(to)))
  BY TargetIs DEF Creatable
<1>2. to # <<>> /\ Front(to) \in Seq(Names) /\ Last(to) \in Names /\ Append(Front(to), Last(to)) = to
  BY <1>1, VacantIs, FrontLast
<1>3. /\ LstatIn(g, to) = i /\ i \in Ids /\ i \in Refs /\ i # Nil /\ g \in [Ids -> Inodes]
      /\ g[i] = File(t) /\ Kept(node, g)
  BY <1>1, <1>2, AddedIsFound, AddsKept
<1>4. TypeIn(g, i) = "file"
  BY <1>3, NewInodes DEF TypeIn
<1>5. CASE path = to
  BY <1>3, <1>4, <1>5, DerefIs
<1>6. CASE path # to
  <2> DEFINE l == Lstat(path)
             d == Parent(to)
  <2>1. TypeIn(node, l) = "link" /\ to = node[l].to
    BY <1>6 DEF Target, TypeOf
  <2>2. l = LstatIn(node, path) /\ l \in Refs
    BY LstatIs DEF Lstat
  <2>3. l # Nil
    BY <2>1, NilLeadsNowhere
  <2>4. Live(node, l)
    BY <2>2, <2>3, FoundLinked DEF Live
  <2>5. LstatIn(g, path) = l
    BY <1>3, <2>2, <2>3, KeptLstat
  <2>6. TypeIn(g, l) = "link" /\ g[l] = node[l]
    BY <1>3, <2>1, <2>2, <2>4, KeptChild
  <2>7. d = Down(node, Front(to)) /\ d # Nil /\ g[d].type = "dir" /\ g[d].sub[Last(to)] = i
    BY <1>1, <1>2, <1>6, CommandsAssumption DEF Adds
  <2> HIDE DEF l, d
  <2>8. Down(g, Front(to)) = d
    BY <1>2, <1>3, <2>7, KeptDown
  <2>9. Down(g, to) = i
    <3>1. Down(g, to) = ChildIn(g, d, Last(to))
      BY <1>2, <1>3, <2>8, DownIs
    <3> QED BY <2>7, <3>1 DEF ChildIn, TypeIn
  <2>10. DerefIn(g, l) = i
    BY <1>4, <2>1, <2>6, <2>9 DEF DerefIn
  <2> QED BY <1>4, <2>5, <2>10
<1> QED BY <1>5, <1>6

(* An entry that was just removed is gone. *)
LEMMA RemovedIsNil ==
  ASSUME node \in [Ids -> Inodes], NEW path \in Seq(Names), path # <<>>, NEW g, Removes(g, path)
  PROVE  LstatIn(g, path) = Nil
<1> DEFINE d == Parent(path)
           e == DerefIn(g, LstatIn(g, Front(path)))
<1>1. /\ g \in [Ids -> Inodes] /\ node[d].type = "dir" /\ d \in Ids /\ g[d].sub[Last(path)] = Nil
      /\ Front(path) \in Seq(Names) /\ Last(path) \in Names
  BY FrontLast DEF Removes
<1>2. d = DerefIn(node, LstatIn(node, Front(path))) /\ d # Nil /\ TypeIn(node, d) = "dir"
  BY <1>1, CommandsAssumption DEF Parent, Stat, Lstat, TypeIn
<1>3. SUFFICES ASSUME LstatIn(g, path) # Nil PROVE FALSE
  OBVIOUS
<1>4. e \in Ids /\ g[e].type = "dir" /\ g[e].sub[Last(path)] = LstatIn(g, path)
  BY <1>1, <1>3, EntryIs
<1>5. e # Nil /\ TypeIn(g, e) = "dir"
  BY <1>4, CommandsAssumption DEF TypeIn
<1>6. LstatIn(g, Front(path)) # Nil /\ LstatIn(node, Front(path)) # Nil
  BY <1>2, <1>5, NilLeadsNowhere
<1>7. Stable(node, g)
  BY RemovesStable
<1>8. LstatIn(g, Front(path)) = LstatIn(node, Front(path))
  BY <1>1, <1>6, <1>7, StableLstat
<1>9. LstatIn(node, Front(path)) \in Refs /\ Live(node, LstatIn(node, Front(path)))
  BY <1>1, <1>6, LstatIs, FoundLinked DEF Live
<1>10. e = d
  BY <1>1, <1>2, <1>5, <1>7, <1>8, <1>9, StableDeref
<1> QED BY <1>1, <1>3, <1>4, <1>10

-----------------------------------------------------------------------------
(* What the steps of all commands but mv do to the calls and to the tree. *)

(* The calls of a command that moves nothing. *)
Moving == {"mv", "rename"}

(* What a step of such a call does to the calls of its process ... *)
StepForm(p) ==
  \/ \E f \in Good : f.at \notin Moving /\ SetTop(p, f) /\ Continue
  \/ \E f, g \in Good :
       /\ f.at \notin Moving /\ g.at \notin Moving
       /\ stack' = [stack EXCEPT ![p] = Append(Front(@), f) \o <<g>>] /\ Continue
  \/ Return(p)
  \/ Fail(p)

(* The innermost call goes on, ... *)
LEMMA FormSet ==
  ASSUME TypeOK, TypeOK', NEW p \in Procs, result[p] = "run", NEW f, f.at \notin Moving, SetTop(p, f), Continue
  PROVE  StepForm(p)
<1>1. CallsOf(Good, stack, result) /\ CallsOf(Good, stack, result)'
  BY TypedCalls, PTL DEF Typed
<1>2. CallsOf(Good, stack', result')
  BY <1>1 DEF CallsOf
<1>3. f \in Good
  BY <1>1, <1>2, SetFrames
<1> QED BY <1>3, Zenon DEF StepForm

(* ... calls another one, ... *)
LEMMA FormCall ==
  ASSUME TypeOK, TypeOK', NEW p \in Procs, result[p] = "run",
         NEW f, NEW g, f.at \notin Moving, g.at \notin Moving,
         stack' = [stack EXCEPT ![p] = Append(Front(@), f) \o <<g>>], Continue
  PROVE  StepForm(p)
<1>1. CallsOf(Good, stack, result) /\ CallsOf(Good, stack, result)'
  BY TypedCalls, PTL DEF Typed
<1>2. CallsOf(Good, stack', result')
  BY <1>1 DEF CallsOf
<1>3. f \in Good /\ g \in Good
  BY <1>1, <1>2, SetFrames
<1> QED BY <1>3, Zenon DEF StepForm

LEMMA FormGoTo ==
  ASSUME TypeOK, TypeOK', NEW p \in Procs, result[p] = "run",
         NEW at, at \notin Moving, GoTo(p, at), Continue
  PROVE  StepForm(p)
<1> DEFINE f == [Top(p) EXCEPT !.at = at]
<1>1. Top(p) \in Frames
  BY TopIs
<1>2. f.at = at /\ SetTop(p, f)
  BY <1>1 DEF Frames, GoTo
<1> HIDE DEF f
<1> QED BY <1>2, FormSet

(* ... or throws. *)
LEMMA FormThrow ==
  ASSUME TypeOK, TypeOK', NEW p \in Procs, result[p] = "run", Throw(p)
  PROVE  StepForm(p)
<1>1. CASE Top(p).ignore /\ Top(p).at \in Iterating
  <2>1. SetTop(p, Closed(Top(p))) /\ Continue
    BY <1>1 DEF Throw, CloseDir, Closed
  <2>2. Top(p) \in Frames
    BY TopIs
  <2>3. Closed(Top(p)).at = "rmdir"
    BY <2>2 DEF Closed, Frames
  <2> QED BY <2>1, <2>3, FormSet DEF Moving
<1>2. CASE ~(Top(p).ignore /\ Top(p).at \in Iterating)
  BY <1>2, Zenon DEF Throw, StepForm
<1> QED BY <1>1, <1>2

(* ... and to the tree. *)
LEMMA TreeStable ==
  ASSUME Tree PROVE Stable(node, node')
BY KeptRefl, KeptStable DEF Tree

(* A new entry is found, and all else is kept. *)
LEMMA MakeStable ==
  ASSUME TypeOK, NEW path \in Seq(Names), Vacant(path), NEW what \in Inodes, Make(path, what)
  PROVE  /\ Kept(node, node') /\ Stable(node, node')
         /\ LstatIn(node', path) # Nil
         /\ what.type # "link" => TypeIn(node', DerefIn(node', LstatIn(node', path))) = what.type
<1>1. node \in [Ids -> Inodes] /\ path # <<>>
  BY VacantIs DEF TypeOK, TreeOK
<1>2. PICK i \in Ids : Adds(node', path, i, what)
  BY <1>1, MakeAdds
<1>3. LstatIn(node', path) = i /\ i \in Refs /\ i # Nil /\ node' \in [Ids -> Inodes] /\ node'[i] = what
  BY <1>1, <1>2, AddedIsFound
<1>4. Kept(node, node')
  BY <1>2, AddsKept
<1>5. ASSUME what.type # "link" PROVE TypeIn(node', DerefIn(node', i)) = what.type
  <2>1. TypeIn(node', i) = what.type
    BY <1>3 DEF TypeIn
  <2> QED BY <1>3, <1>5, <2>1, DerefIs
<1> QED BY <1>3, <1>4, <1>5, KeptStable

(* A removed entry is not found. *)
LEMMA UnlinkStable ==
  ASSUME TypeOK, NEW path \in Seq(Names), path # <<>>, Removable(path), node' = Unlink(path)
  PROVE  Stable(node, node') /\ LstatIn(node', path) = Nil
<1>1. TreeOK(node) /\ node \in [Ids -> Inodes]
  BY DEF TypeOK, TreeOK
<1>2. Removes(node', path)
  BY <1>1, UnlinkRemoves
<1> QED BY <1>1, <1>2, RemovesStable, RemovedIsNil

-----------------------------------------------------------------------------
(* Group after group of actions. *)
LEMMA MakeDirForm ==
  ASSUME TypeOK, TypeOK', NEW p \in Procs, MakeDir(p)
  PROVE  StepForm(p) /\ Stable(node, node')
<1>1. result[p] = "run"
  BY DEF MakeDir, MkdirP, TryMkdirP, TryMkdir, AlreadyExists, At
<1>2. Top(p) \in Frames /\ Top(p).path \in Seq(Names)
  BY <1>1, TopIs
<1>3. Return(p) => StepForm(p)
  BY Zenon DEF StepForm
<1>4. Throw(p) => StepForm(p)
  BY <1>1, FormThrow
<1>5. ASSUME NEW at, at \notin Moving, NEW path, CallFrom(p, "mkdir", Frame(at, path)), Continue
      PROVE  StepForm(p)
  <2> DEFINE f == [Top(p) EXCEPT !.at = "mkdir"]
             g == Frame(at, path)
  <2>1. f.at = "mkdir" /\ g.at = at
    BY <1>2 DEF Frames, Frame
  <2>2. stack' = [stack EXCEPT ![p] = Append(Front(@), f) \o <<g>>]
    BY <1>5 DEF CallFrom
  <2> HIDE DEF f, g
  <2> QED BY <1>1, <1>5, <2>1, <2>2, FormCall DEF Moving
<1>6. CASE MkdirP(p)
  <2>1. Tree /\ (Return(p) \/ (CallFrom(p, "mkdir", Frame("mkdir_p", Front(Top(p).path))) /\ Continue))
    BY <1>6, Zenon DEF MkdirP
  <2> QED BY <1>3, <1>5, <2>1, TreeStable DEF Moving
<1>7. CASE TryMkdirP(p)
  <2>1. Tree /\ Continue
    BY <1>7 DEF TryMkdirP
  <2>2. GoTo(p, "mkdir") \/ CallFrom(p, "mkdir", Frame("try_mkdir_p", Front(Top(p).path)))
    BY <1>7 DEF TryMkdirP
  <2>3. "mkdir" \notin Moving /\ "try_mkdir_p" \notin Moving
    BY DEF Moving
  <2> QED BY <1>1, <1>5, <2>1, <2>2, <2>3, TreeStable, FormGoTo
<1>8. CASE TryMkdir(p)
  <2>1. CASE Vacant(Top(p).path)
    <3>1. Make(Top(p).path, EmptyDir) /\ Return(p)
      BY <1>8, <2>1 DEF TryMkdir
    <3> QED BY <1>2, <1>3, <2>1, <3>1, MakeStable, NewInodes
  <2>2. CASE ~Vacant(Top(p).path)
    <3>1. Tree /\ (Throw(p) \/ (GoTo(p, "exists") /\ Continue))
      BY <1>8, <2>2 DEF TryMkdir
    <3>2. "exists" \notin Moving
      BY DEF Moving
    <3> QED BY <1>1, <1>4, <3>1, <3>2, TreeStable, FormGoTo
  <2> QED BY <2>1, <2>2
<1>9. CASE AlreadyExists(p)
  <2>1. Tree /\ (Return(p) \/ Throw(p))
    BY <1>9 DEF AlreadyExists
  <2> QED BY <1>3, <1>4, <2>1, TreeStable
<1> QED BY <1>6, <1>7, <1>8, <1>9 DEF MakeDir

LEMMA TouchFileForm ==
  ASSUME TypeOK, TypeOK', NEW p \in Procs, TouchFile(p)
  PROVE  StepForm(p) /\ Stable(node, node')
<1>1. result[p] = "run"
  BY DEF TouchFile, Touch, Utimes, CreateFile, At
<1>2. Top(p) \in Frames /\ Top(p).path \in Seq(Names) /\ node \in [Ids -> Inodes]
  BY <1>1, TopIs
<1>3. Return(p) => StepForm(p)
  BY Zenon DEF StepForm
<1>4. Throw(p) => StepForm(p)
  BY <1>1, FormThrow
<1>5. CASE Touch(p)
  <2>1. Tree /\ (Throw(p) \/ \E at \in {"utimes", "create"} : GoTo(p, at) /\ Continue)
    BY <1>5 DEF Touch
  <2>2. \A at \in {"utimes", "create"} : at \notin Moving
    BY DEF Moving
  <2> QED BY <1>1, <1>4, <2>1, <2>2, TreeStable, FormGoTo
<1>6. CASE Utimes(p)
  <2>1. Tree /\ (Return(p) \/ Throw(p))
    BY <1>6 DEF Utimes
  <2> QED BY <1>3, <1>4, <2>1, TreeStable
<1>7. CASE CreateFile(p)
  <2> DEFINE path == Target(Top(p).path)
  <2>1. path \in Seq(Names)
    BY <1>2, TargetIs
  <2>2. CASE Creatable(Top(p).path, path)
    <3>1. Make(path, File("")) /\ Return(p)
      BY <1>7, <2>2 DEF CreateFile
    <3>2. File("") \in Inodes
      BY NewInodes, CommandsAssumption
    <3> HIDE DEF path
    <3>3. Vacant(path)
      BY <2>2 DEF Creatable
    <3> QED BY <1>3, <2>1, <3>1, <3>2, <3>3, MakeStable
  <2>3. CASE ~Creatable(Top(p).path, path)
    <3>1. Tree /\ (Return(p) \/ Throw(p))
      BY <1>7, <2>3 DEF CreateFile
    <3> QED BY <1>3, <1>4, <3>1, TreeStable
  <2> QED BY <2>2, <2>3
<1> QED BY <1>5, <1>6, <1>7 DEF TouchFile

LEMMA LnForm ==
  ASSUME TypeOK, TypeOK', NEW p \in Procs, Ln(p)
  PROVE  StepForm(p) /\ Stable(node, node')
<1>1. result[p] = "run"
  BY DEF Ln, LinkTarget, MkSymlink, MkHardlink, At
<1>2. /\ Top(p) \in Frames /\ Top(p).path \in Seq(Names) /\ Top(p).from \in Seq(Names)
      /\ node \in [Ids -> Inodes]
  BY <1>1, TopIs
<1>3. Return(p) => StepForm(p)
  BY Zenon DEF StepForm
<1>4. Throw(p) => StepForm(p)
  BY <1>1, FormThrow
<1>5. \A at \in {"symlink", "link", "cpdir"} : GoTo(p, at) /\ Continue => StepForm(p)
  <2>1. \A at \in {"symlink", "link", "cpdir"} : at \notin Moving
    BY DEF Moving
  <2> QED BY <1>1, <2>1, FormGoTo
<1>6. CASE LinkTarget(p)
  <2>1. Tree /\ (Throw(p) \/ \E at \in {"symlink", "link", "cpdir"} : GoTo(p, at) /\ Continue)
    BY <1>6 DEF LinkTarget
  <2> QED BY <1>4, <1>5, <2>1, TreeStable
<1>7. CASE MkSymlink(p)
  <2>1. CASE ~Vacant(Top(p).path)
    BY <1>4, <1>7, <2>1, TreeStable DEF MkSymlink
  <2>2. CASE Vacant(Top(p).path) /\ ~fs.symlinks
    BY <1>5, <1>7, <2>2, TreeStable DEF MkSymlink
  <2>3. CASE Vacant(Top(p).path) /\ ~(~fs.symlinks)
    <3>1. Make(Top(p).path, Link(Top(p).from)) /\ Return(p)
      BY <1>7, <2>3 DEF MkSymlink
    <3>2. Link(Top(p).from) \in Inodes
      BY <1>2, NewInodes
    <3> QED BY <1>2, <1>3, <2>3, <3>1, <3>2, MakeStable
  <2> QED BY <2>1, <2>2, <2>3
<1>8. CASE MkHardlink(p)
  <2> DEFINE i == Lstat(Top(p).from)
             path == Top(p).path
  <2>1. CASE i = Nil \/ ~Vacant(path)
    BY <1>4, <1>8, <2>1, TreeStable DEF MkHardlink
  <2>2. CASE i # Nil /\ Vacant(path) /\ (TypeOf(i) = "dir" \/ ~fs.hardlinks)
    BY <1>5, <1>8, <2>2, TreeStable DEF MkHardlink
  <2>3. CASE ~(i = Nil \/ ~Vacant(path)) /\ ~(i # Nil /\ Vacant(path) /\ (TypeOf(i) = "dir" \/ ~fs.hardlinks))
    <3>1. node' = Put(path, i) /\ Return(p)
      BY <1>8, <2>3 DEF MkHardlink
    <3>2. Vacant(path) /\ i \in Refs /\ path \in Seq(Names)
      BY <1>2, <2>3, LstatIs DEF Lstat
    <3> HIDE DEF i, path
    <3> QED BY <1>2, <1>3, <3>1, <3>2, PutKept, KeptStable
  <2> QED BY <2>1, <2>2, <2>3
<1> QED BY <1>6, <1>7, <1>8 DEF Ln

LEMMA DisposeForm ==
  ASSUME TypeOK, TypeOK', NEW p \in Procs, result[p] = "run", NEW n \in Names, NEW t, Dispose(p, n, t), Continue
  PROVE  StepForm(p)
<1> DEFINE seen == [Top(p) EXCEPT !.seen = @ \cup {n}, !.entry = Nil, !.at = "next"]
           at == IF t = "dir" THEN "open" ELSE "unlink"
           call == [Frame(at, Entry(Top(p), n)) EXCEPT !.ignore = Top(p).ignore]
<1>1. Top(p) \in Frames
  BY TopIs
<1>2. seen.at = "next" /\ call.at \in {"open", "unlink"}
  BY <1>1 DEF Frames, Frame
<1>3. stack' = [stack EXCEPT ![p] = Append(Front(@), seen) \o <<call>>]
  BY Zenon DEF Dispose
<1> HIDE DEF seen, call
<1> QED BY <1>2, <1>3, FormCall DEF Moving

LEMMA RemoveEntryForm ==
  ASSUME TypeOK, TypeOK', NEW p \in Procs, RemoveEntry(p)
  PROVE  StepForm(p) /\ Stable(node, node')
<1>1. result[p] = "run"
  BY DEF RemoveEntry, TryRmdir, Rm, RmFile, TryRmdirR, OpenDir, NextEntry, EntryType, EndOfDir, UnlinkEntry, At
<1>2. Top(p) \in Frames /\ Top(p).path \in Seq(Names) /\ FrameOK(Top(p)) /\ node \in [Ids -> Inodes]
  BY <1>1, TopIs
<1>3. Return(p) => StepForm(p)
  BY Zenon DEF StepForm
<1>4. Throw(p) => StepForm(p)
  BY <1>1, FormThrow
<1>5. \A at \in {"try_rmdir_r", "rmfile", "open"} : GoTo(p, at) /\ Continue => StepForm(p)
  <2>1. \A at \in {"try_rmdir_r", "rmfile", "open"} : at \notin Moving
    BY DEF Moving
  <2> QED BY <1>1, <2>1, FormGoTo
<1>6. CASE TryRmdir(p)
  <2>1. Top(p).path # <<>>
    BY <1>2, <1>6 DEF TryRmdir, At, FrameOK
  <2>2. CASE TypeOf(Lstat(Top(p).path)) = "dir" /\ Empty(Lstat(Top(p).path))
    <3>1. node' = Unlink(Top(p).path) /\ Return(p)
      BY <1>6, <2>2 DEF TryRmdir
    <3>2. Removable(Top(p).path)
      BY <2>2 DEF Removable
    <3> QED BY <1>2, <1>3, <2>1, <3>1, <3>2, UnlinkStable
  <2>3. CASE ~(TypeOf(Lstat(Top(p).path)) = "dir" /\ Empty(Lstat(Top(p).path)))
    <3>1. Tree /\ (Return(p) \/ Throw(p))
      BY <1>6, <2>3 DEF TryRmdir
    <3> QED BY <1>3, <1>4, <3>1, TreeStable
  <2> QED BY <2>2, <2>3
<1>7. CASE Rm(p)
  <2>1. Tree /\ (Throw(p) \/ \E at \in {"try_rmdir_r", "rmfile", "open"} : GoTo(p, at) /\ Continue)
    BY <1>7 DEF Rm
  <2> QED BY <1>4, <1>5, <2>1, TreeStable
<1>8. CASE RmFile(p)
  <2>1. Top(p).path # <<>>
    BY <1>2, <1>8 DEF RmFile, At, FrameOK
  <2>2. CASE TypeOf(Lstat(Top(p).path)) \in {"file", "link"}
    <3>1. node' = Unlink(Top(p).path) /\ Return(p)
      BY <1>8, <2>2 DEF RmFile
    <3>2. Removable(Top(p).path)
      BY <2>2 DEF Removable
    <3> QED BY <1>2, <1>3, <2>1, <3>1, <3>2, UnlinkStable
  <2>3. CASE ~(TypeOf(Lstat(Top(p).path)) \in {"file", "link"})
    <3>1. Tree /\ (Return(p) \/ Throw(p))
      BY <1>8, <2>3 DEF RmFile
    <3> QED BY <1>3, <1>4, <3>1, TreeStable
  <2> QED BY <2>2, <2>3
<1>9. CASE TryRmdirR(p)
  <2>1. Tree /\ (Return(p) \/ \E at \in {"try_rmdir_r", "rmfile", "open"} : GoTo(p, at) /\ Continue)
    BY <1>9 DEF TryRmdirR
  <2> QED BY <1>3, <1>5, <2>1, TreeStable
<1>10. CASE OpenDir(p)
  <2>1. Tree
    BY <1>10 DEF OpenDir
  <2>2. CASE DirExists(Top(p).path)
    <3> DEFINE f == Opened(p, "next", Top(p).path)
    <3>1. SetTop(p, f) /\ Continue
      BY <1>10, <2>2 DEF OpenDir
    <3>2. f.at = "next"
      BY <1>2, OpenedTypes DEF Steps
    <3> HIDE DEF f
    <3> QED BY <1>1, <2>1, <3>1, <3>2, TreeStable, FormSet DEF Moving
  <2>3. CASE ~DirExists(Top(p).path)
    BY <1>4, <1>10, <2>1, <2>3, TreeStable DEF OpenDir
  <2> QED BY <2>2, <2>3
<1>11. CASE NextEntry(p)
  <2>1. Tree /\ Continue
    BY <1>11 DEF NextEntry
  <2>2. PICK e \in Entries(Top(p)) :
          IF fs.types THEN Dispose(p, e[1], e[2])
                      ELSE SetTop(p, [Top(p) EXCEPT !.at = "type", !.entry = e[1]])
    BY <1>11 DEF NextEntry
  <2>3. e[1] \in Names
    BY DEF Entries
  <2>4. CASE fs.types
    BY <1>1, <2>1, <2>2, <2>3, <2>4, TreeStable, DisposeForm
  <2>5. CASE ~fs.types
    <3> DEFINE f == [Top(p) EXCEPT !.at = "type", !.entry = e[1]]
    <3>1. f.at = "type"
      BY <1>2 DEF Frames
    <3>2. SetTop(p, f)
      BY <2>2, <2>5
    <3> HIDE DEF f
    <3> QED BY <1>1, <2>1, <3>1, <3>2, TreeStable, FormSet DEF Moving
  <2> QED BY <2>4, <2>5
<1>12. CASE EntryType(p)
  <2>1. Tree /\ Top(p).at = "type"
    BY <1>12 DEF EntryType, At
  <2>2. Top(p).entry \in Names
    BY <1>2, <2>1 DEF FrameOK
  <2>3. Throw(p) \/ \E t : Dispose(p, Top(p).entry, t) /\ Continue
    BY <1>12 DEF EntryType
  <2> QED BY <1>1, <1>4, <2>1, <2>2, <2>3, TreeStable, DisposeForm
<1>13. CASE EndOfDir(p)
  <2>1. Tree /\ Continue /\ SetTop(p, Closed(Top(p)))
    BY <1>13 DEF EndOfDir, CloseDir, Closed
  <2>2. Closed(Top(p)).at = "rmdir"
    BY <1>2 DEF Closed, Frames
  <2> QED BY <1>1, <2>1, <2>2, TreeStable, FormSet DEF Moving
<1>14. CASE UnlinkEntry(p)
  <2>1. Top(p).path # <<>>
    BY <1>2, <1>14 DEF UnlinkEntry, At, FrameOK
  <2>2. CASE TypeOf(Lstat(Top(p).path)) \in {"file", "link"}
    <3>1. node' = Unlink(Top(p).path) /\ Return(p)
      BY <1>14, <2>2 DEF UnlinkEntry
    <3>2. Removable(Top(p).path)
      BY <2>2 DEF Removable
    <3> QED BY <1>2, <1>3, <2>1, <3>1, <3>2, UnlinkStable
  <2>3. CASE ~(TypeOf(Lstat(Top(p).path)) \in {"file", "link"})
    <3>1. Tree /\ (Return(p) \/ Throw(p))
      BY <1>14, <2>3 DEF UnlinkEntry
    <3> QED BY <1>3, <1>4, <3>1, TreeStable
  <2> QED BY <2>2, <2>3
<1> QED BY <1>6, <1>7, <1>8, <1>9, <1>10, <1>11, <1>12, <1>13, <1>14 DEF RemoveEntry

(* What the copy of a file does. *)
LEMMA CpFileIs ==
  ASSUME TypeOK, NEW p \in Procs, CpFile(p)
  PROVE  LET to == Top(p).path
             done == Return(p) \/ (GoTo(p, "cp_undo") /\ Continue)
         IN  \/ Kept(node, node') /\ node' \in [Ids -> Inodes] /\ LstatIn(node', to) # Nil /\ done
             \/ Throw(p) /\ Tree
<1>1. result[p] = "run" /\ Top(p).at = "cp_file"
  BY DEF CpFile, At
<1>2. /\ Top(p) \in Frames /\ Top(p).path \in Seq(Names) /\ Top(p).src \in Refs
      /\ node \in [Ids -> Inodes] /\ TreeOK(node)
  BY <1>1, TopIs
<1> DEFINE to == Top(p).path
           path == IF Top(p).new THEN to ELSE Target(to)
           i == Stat(to)
           readable == TypeOf(Top(p).src) = "file"
           text == IF readable /\ Top(p).src # i THEN node[Top(p).src].text ELSE ""
           done == Return(p) \/ (GoTo(p, "cp_undo") /\ Continue)
<1>3. \/ Creatable(to, path) /\ Make(path, File(text)) /\ done
      \/ TypeOf(i) = "file" /\ node' = [node EXCEPT ![i] = File(text)] /\ done
      \/ Throw(p) /\ Tree
  BY DEF CpFile
<1>4. path \in Seq(Names)
  BY <1>2, TargetIs
<1>5. i \in Refs /\ i = DerefIn(node, LstatIn(node, to))
  BY <1>2, LstatIs, DerefType DEF Stat, Lstat
<1>6. text \in Texts
  <2>1. "" \in Texts
    BY CommandsAssumption
  <2>2. readable => node[Top(p).src].text \in Texts
    BY <1>2, InodeKinds DEF TypeOf
  <2> HIDE DEF i
  <2> QED BY <2>1, <2>2
<1>7. path = to \/ LstatIn(node, to) # Nil
  <2>1. TypeOf(Lstat(to)) = "link" => LstatIn(node, to) # Nil
    BY NilLeadsNowhere DEF TypeOf, Lstat
  <2> QED BY <2>1 DEF Target
<1> HIDE DEF path, i, text, done
<1>8. CASE Creatable(to, path) /\ Make(path, File(text)) /\ done
  <2>1. Vacant(path)
    BY <1>8 DEF Creatable
  <2>2. File(text) \in Inodes
    BY <1>6, NewInodes
  <2>3. Kept(node, node') /\ LstatIn(node', path) # Nil
    BY <1>4, <1>8, <2>1, <2>2, MakeStable
  <2>4. node' \in [Ids -> Inodes]
    BY <1>2, <1>4, <1>8, <2>1, <2>2, MakeAdds DEF Adds
  <2>5. LstatIn(node', to) # Nil
    BY <1>2, <1>7, <2>3, <2>4, KeptLstat
  <2> QED BY <1>8, <2>3, <2>4, <2>5 DEF done
<1>9. CASE TypeOf(i) = "file" /\ node' = [node EXCEPT ![i] = File(text)] /\ done
  <2>1. Kept(node, node') /\ node' \in [Ids -> Inodes]
    BY <1>2, <1>5, <1>6, <1>9, WriteKept, WriteKeepsTree DEF TreeOK
  <2>2. LstatIn(node, to) # Nil
    BY <1>5, <1>9, NilLeadsNowhere DEF TypeOf
  <2>3. LstatIn(node', to) # Nil
    BY <1>2, <2>1, <2>2, KeptLstat
  <2> QED BY <1>9, <2>1, <2>3 DEF done
<1> QED BY <1>3, <1>8, <1>9

LEMMA CopyForm ==
  ASSUME TypeOK, TypeOK', NEW p \in Procs, result[p] = "run", NEW n, NEW t, CopyEntry(p, n, t), Continue
  PROVE  StepForm(p)
<1> DEFINE f == [Top(p) EXCEPT !.at = "cp_next", !.entry = Nil, !.seen = @ \cup {n}]
           at == IF t = "dir" THEN "cpdir" ELSE "cp_source"
           g == [Copying(at, Append(Top(p).from, n), Append(Top(p).path, n)) EXCEPT !.new = TRUE]
<1>1. Top(p) \in Frames
  BY TopIs
<1>2. stack' = [stack EXCEPT ![p] = Append(Front(@), f) \o <<g>>]
  BY Zenon DEF CopyEntry
<1>3. f.at = "cp_next" /\ g.at \in {"cpdir", "cp_source"}
  BY <1>1 DEF Frames, Frame, Copying
<1> HIDE DEF f, g
<1> QED BY <1>2, <1>3, FormCall DEF Moving

LEMMA CpForm ==
  ASSUME TypeOK, TypeOK', NEW p \in Procs, Cp(p)
  PROVE  StepForm(p) /\ Stable(node, node')
<1>1. result[p] = "run"
  BY DEF Cp, CpDir, CpOpenDir, CpNext, CpEntry, CpEnd, CpSource, CpFile, CpUndo, At
<1>2. /\ Top(p) \in Frames /\ Top(p).path \in Seq(Names) /\ Top(p).from \in Seq(Names) /\ FrameOK(Top(p))
      /\ node \in [Ids -> Inodes]
  BY <1>1, TopIs
<1>3. Return(p) => StepForm(p)
  BY Zenon DEF StepForm
<1>4. Throw(p) => StepForm(p)
  BY <1>1, FormThrow
<1>5. CASE CpDir(p)
  <2> DEFINE f == [Top(p) EXCEPT !.at = "cp_open"]
             g == [Frame("mkdir", Top(p).path) EXCEPT !.new = TRUE]
  <2>1. Tree /\ Continue /\ CallFrom(p, "cp_open", g)
    BY <1>5 DEF CpDir
  <2>2. stack' = [stack EXCEPT ![p] = Append(Front(@), f) \o <<g>>]
    BY <2>1 DEF CallFrom
  <2>3. f.at = "cp_open" /\ g.at = "mkdir"
    BY <1>2 DEF Frames, Frame
  <2> HIDE DEF f, g
  <2> QED BY <1>1, <2>1, <2>2, <2>3, TreeStable, FormCall DEF Moving
<1>6. CASE CpOpenDir(p)
  <2>1. Tree
    BY <1>6 DEF CpOpenDir
  <2>2. CASE DirExists(Top(p).from)
    <3> DEFINE f == Opened(p, "cp_next", Top(p).from)
    <3>1. SetTop(p, f) /\ Continue
      BY <1>6, <2>2 DEF CpOpenDir
    <3>2. f.at = "cp_next"
      BY <1>2, OpenedTypes DEF Steps
    <3> HIDE DEF f
    <3> QED BY <1>1, <2>1, <3>1, <3>2, TreeStable, FormSet DEF Moving
  <2>3. CASE ~DirExists(Top(p).from)
    BY <1>4, <1>6, <2>1, <2>3, TreeStable DEF CpOpenDir
  <2> QED BY <2>2, <2>3
<1>7. CASE CpNext(p)
  <2>1. Tree /\ Continue
    BY <1>7 DEF CpNext
  <2>2. PICK e \in Entries(Top(p)) :
          IF fs.types /\ e[2] # "link"
          THEN CopyEntry(p, e[1], e[2])
          ELSE SetTop(p, [Top(p) EXCEPT !.at = IF fs.types THEN "cp_follow" ELSE "cp_type", !.entry = e[1]])
    BY <1>7 DEF CpNext
  <2>3. CASE CopyEntry(p, e[1], e[2])
    BY <1>1, <2>1, <2>3, TreeStable, CopyForm
  <2>4. CASE \E at \in {"cp_type", "cp_follow"} : SetTop(p, [Top(p) EXCEPT !.at = at, !.entry = e[1]])
    <3>1. PICK at \in {"cp_type", "cp_follow"} : SetTop(p, [Top(p) EXCEPT !.at = at, !.entry = e[1]])
      BY <2>4
    <3> DEFINE f == [Top(p) EXCEPT !.at = at, !.entry = e[1]]
    <3>2. f.at = at /\ SetTop(p, f)
      BY <1>2, <3>1 DEF Frames
    <3> HIDE DEF f
    <3> QED BY <1>1, <2>1, <3>2, TreeStable, FormSet DEF Moving
  <2> QED BY <2>2, <2>3, <2>4
<1>8. CASE CpEntry(p)
  <2>1. Tree
    BY <1>8 DEF CpEntry
  <2>2. \/ Throw(p)
        \/ GoTo(p, "cp_follow") /\ Continue
        \/ \E t : CopyEntry(p, Top(p).entry, t) /\ Continue
    BY <1>8, Zenon DEF CpEntry
  <2>3. GoTo(p, "cp_follow") /\ Continue => StepForm(p)
    <3>1. "cp_follow" \notin Moving
      BY DEF Moving
    <3> QED BY <1>1, <3>1, FormGoTo
  <2> QED BY <1>1, <1>4, <2>1, <2>2, <2>3, TreeStable, CopyForm
<1>9. CASE CpEnd(p)
  BY <1>3, <1>9, TreeStable DEF CpEnd
<1>10. CASE CpSource(p)
  <2> DEFINE i == Stat(Top(p).from)
             f == [Top(p) EXCEPT !.at = "cp_file", !.src = i]
  <2>1. Tree /\ (Throw(p) \/ (SetTop(p, f) /\ Continue))
    BY <1>10 DEF CpSource
  <2>2. f.at = "cp_file"
    BY <1>2 DEF Frames
  <2> HIDE DEF f
  <2> QED BY <1>1, <1>4, <2>1, <2>2, TreeStable, FormSet DEF Moving
<1>11. CASE CpFile(p)
  <2>1. \/ Kept(node, node') /\ (Return(p) \/ (GoTo(p, "cp_undo") /\ Continue))
        \/ Throw(p) /\ Tree
    BY <1>11, CpFileIs
  <2>2. "cp_undo" \notin Moving
    BY DEF Moving
  <2> QED BY <1>1, <1>3, <1>4, <2>1, <2>2, TreeStable, KeptStable, FormGoTo
<1>12. CASE CpUndo(p)
  <2>1. Top(p).path # <<>> /\ Fail(p)
    BY <1>2, <1>12 DEF CpUndo, At, FrameOK
  <2>2. StepForm(p)
    BY <2>1, Zenon DEF StepForm
  <2>3. CASE TypeOf(Lstat(Top(p).path)) \in {"file", "link"}
    <3>1. node' = Unlink(Top(p).path)
      BY <1>12, <2>3 DEF CpUndo
    <3>2. Removable(Top(p).path)
      BY <2>3 DEF Removable
    <3> QED BY <1>2, <2>1, <2>2, <3>1, <3>2, UnlinkStable
  <2>4. CASE ~(TypeOf(Lstat(Top(p).path)) \in {"file", "link"})
    <3>1. Tree
      BY <1>12, <2>4 DEF CpUndo, Tree
    <3> QED BY <2>2, <3>1, TreeStable
  <2> QED BY <2>3, <2>4
<1> QED BY <1>5, <1>6, <1>7, <1>8, <1>9, <1>10, <1>11, <1>12 DEF Cp

(* All steps but those of mv. *)
LEMMA StepForms ==
  ASSUME TypeOK, TypeOK', NEW p \in Procs, Step(p), ~Mv(p), ~Rename(p)
  PROVE  StepForm(p) /\ Stable(node, node')
BY MakeDirForm, RemoveEntryForm, TouchFileForm, LnForm, CpForm DEF Step
=============================================================================
