-------------------------- MODULE InodeTableProofs --------------------------
(***************************************************************************)
(* What the inode locks and the gate do for the inode table, for any       *)
(* number of threads, inodes, shards and inodes per block, any size of the *)
(* cache and any mix of the operations, readers without a lock included.   *)
(*                                                                         *)
(* The argument: the owner of an inode is the thread that holds its lock,  *)
(* or that has the exclusive guard; there is one at most.  What an owner   *)
(* has read of its inode is what the table holds, unless the inode has     *)
(* been put back (reverted).  A thread's remaining accesses are            *)
(* disciplined: whatever it is still to write, it owns and has read, or    *)
(* will own before it reads it and read before it writes it.               *)
(***************************************************************************)
EXTENDS InodeTable, FiniteSetTheorems, SequenceTheorems, TLAPS

-----------------------------------------------------------------------------
(* Programs *)

Locks == {Access("lock", s) : s \in 0 .. (Shards - 1)}

Accesses ==
    {Shared, Exclusive, Namespace, Commit} \cup Locks
    \cup {Read(i) : i \in Inodes} \cup {Write(i) : i \in Inodes}
    \cup {StageInode(i) : i \in Inodes}

Programs == Seq(Accesses)

LEMMA AccessFacts ==
    /\ \A o, n : Access(o, n).op = o /\ Access(o, n).n = n
    /\ \A a \in Accesses :
        /\ a = Access(a.op, a.n)
        /\ a.op = "guard" => a.n \in {"shared", "exclusive"}
        /\ a.op \in {"read", "write", "stage"} => a.n \in Inodes
        /\ a.op = "lock" => a.n \in 0 .. (Shards - 1)
  BY DEF Accesses, Access, Shared, Exclusive, Namespace, Commit, Locks, Read, Write, StageInode

\* The shards that a list of locks names.
Named(L) == {L[k].n : k \in 1 .. Len(L)}

\* lock_inode_mutations takes the shards of its inodes.
LocksOf(L, ids) ==
    L \in Seq(Locks) /\ Named(L) = {inode_mutation_lock_index(i) : i \in ids}

\* An ascending list of a set of one or two shards exists.
Ascending(S, f) ==
    /\ f \in [1 .. Cardinality(S) -> S]
    /\ \A k, l \in 1 .. Cardinality(S) : k < l => f[k] < f[l]

Image(f, n) == {f[k] : k \in 1 .. n}

LEMMA AscendingExists ==
    ASSUME NEW a \in Nat, NEW b \in Nat
    PROVE  /\ Cardinality({a, b}) \in 1 .. 2
           /\ \E f : Ascending({a, b}, f)
  <1>1. CASE a = b
    <2>1. {a, b} = {a} /\ Cardinality({a}) = 1
      BY <1>1, FS_Singleton
    <2>2. Ascending({a}, [k \in 1 .. 1 |-> a])
      BY <2>1 DEF Ascending
    <2> QED
      BY <2>1, <2>2
  <1>2. CASE a # b
    <2>1. Cardinality({a, b}) = 2
      <3>1. IsFiniteSet({a}) /\ Cardinality({a}) = 1 /\ {a, b} = {a} \cup {b} /\ b \notin {a}
        BY <1>2, FS_Singleton
      <3> QED
        BY <3>1, FS_AddElement
    <2> DEFINE lo == IF a < b THEN a ELSE b
               hi == IF a < b THEN b ELSE a
               f == [k \in 1 .. 2 |-> IF k = 1 THEN lo ELSE hi]
    <2>2. lo \in {a, b} /\ hi \in {a, b} /\ lo < hi
      BY <1>2
    <2> HIDE DEF lo, hi
    <2>3. f \in [1 .. 2 -> {a, b}] /\ f[1] = lo /\ f[2] = hi
      BY <2>2
    <2> HIDE DEF f
    <2>4. \A k, l \in 1 .. 2 : k < l => k = 1 /\ l = 2
      OBVIOUS
    <2>5. Ascending({a, b}, f)
      BY <2>1, <2>2, <2>3, <2>4 DEF Ascending
    <2> QED
      BY <2>1, <2>5
  <1> QED
    BY <1>1, <1>2

\* An ascending list of one or two shards has them all.
LEMMA AscendingHasAll ==
    ASSUME NEW a \in Nat, NEW b \in Nat, NEW S, S = {a, b}, NEW f, Ascending(S, f)
    PROVE  Image(f, Cardinality(S)) = S
  <1>0. Ascending({a, b}, f)
    OBVIOUS
  <1>1. CASE a = b
    <2>1. {a, b} = {a} /\ Cardinality({a}) = 1
      BY <1>1, FS_Singleton
    <2>2. f[1] \in {a}
      <3>1. Ascending({a}, f)
        BY <1>0, <2>1
      <3>2. f \in [1 .. 1 -> {a}]
        BY <2>1, <3>1 DEF Ascending
      <3> QED
        BY <3>2
    <2>3. 1 .. 1 = {1}
      OBVIOUS
    <2> QED
      BY <2>1, <2>2, <2>3 DEF Image
  <1>2. CASE a # b
    <2>1. Cardinality({a, b}) = 2
      <3>1. IsFiniteSet({a}) /\ Cardinality({a}) = 1 /\ {a, b} = {a} \cup {b} /\ b \notin {a}
        BY <1>2, FS_Singleton
      <3> QED
        BY <3>1, FS_AddElement
    <2>2. f[1] \in {a, b} /\ f[2] \in {a, b} /\ f[1] < f[2]
      <3>1. f \in [1 .. 2 -> {a, b}] /\ \A k, l \in 1 .. 2 : k < l => f[k] < f[l]
        BY <1>0, <2>1 DEF Ascending
      <3> QED
        BY <3>1
    <2>3. 1 .. 2 = {1, 2} /\ f[1] # f[2]
      BY <2>2
    <2> QED
      BY <2>1, <2>2, <2>3 DEF Image
  <1> QED
    BY <1>1, <1>2

LEMMA ShardIndex ==
    \A i \in Inodes : inode_mutation_lock_index(i) \in 0 .. (Shards - 1)
  BY InodeAssumption DEF inode_mutation_lock_index

LEMMA TakesItsLocks ==
    ASSUME NEW i \in Inodes, NEW j \in Inodes, NEW ids, ToSet(ids) = {i, j}
    PROVE  LocksOf(lock_inode_mutations(ids), {i, j})
  <1> DEFINE a == inode_mutation_lock_index(i)
             b == inode_mutation_lock_index(j)
             S == {inode_mutation_lock_index(x) : x \in ToSet(ids)}
             n == Cardinality(S)
             f == CHOOSE f \in [1 .. n -> S] : \A k, l \in 1 .. n : k < l => f[k] < f[l]
             L == [k \in 1 .. n |-> Access("lock", f[k])]
  <1>1. a \in 0 .. (Shards - 1) /\ b \in 0 .. (Shards - 1) /\ a \in Nat /\ b \in Nat
    BY ShardIndex
  <1>2. S = {a, b}
    OBVIOUS
  <1>3. lock_inode_mutations(ids) = L
    BY DEF lock_inode_mutations
  <1> HIDE DEF a, b, S
  <1>4. n \in 1 .. 2 /\ \E g : Ascending(S, g)
    BY <1>1, <1>2, AscendingExists
  <1>5. Ascending(S, f)
    BY <1>4 DEF Ascending
  <1> HIDE DEF f
  <1>6. Image(f, n) = S
    BY <1>1, <1>2, <1>5, AscendingHasAll
  <1>7. \A k \in 1 .. n : f[k] \in 0 .. (Shards - 1)
    BY <1>1, <1>2, <1>6 DEF Image
  <1> HIDE DEF n
  <1>8. L \in [1 .. n -> Locks] /\ \A k \in 1 .. n : L[k].n = f[k]
    BY <1>7, AccessFacts DEF Locks
  <1> HIDE DEF L
  <1>9. L \in Seq(Locks) /\ Len(L) = n
    BY <1>4, <1>8, SeqDef, LenProperties
  <1>10. Named(L) = S
    BY <1>6, <1>8, <1>9 DEF Named, Image
  <1>11. S = {inode_mutation_lock_index(x) : x \in {i, j}}
    BY <1>2 DEF a, b
  <1> QED
    BY <1>3, <1>9, <1>10, <1>11 DEF LocksOf

-----------------------------------------------------------------------------
(* The operations *)

\* A program of mode m (no guard is "none") that updates the inodes of g: what it
\* writes it has read under the inode's lock, what it stages it has read, and it
\* commits last.
Sound(q, m, g) ==
    /\ q \in Programs /\ (m # "none" => q # <<>> /\ q[1] = Access("guard", m))
    /\ \A k \in 1 .. Len(q) :
        /\ q[k].op = "guard" => k = 1
        /\ q[k].op = "write" =>
               /\ m = "shared"
               /\ \E j \in 1 .. k - 1 :
                      /\ q[j] = Read(q[k].n)
                      /\ \E l \in 1 .. j - 1 :
                             q[l] = Access("lock", inode_mutation_lock_index(q[k].n))
               /\ \A l \in 1 .. Len(q) : q[l] = q[k] => l = k
        /\ q[k].op = "stage" =>
               /\ m = "exclusive" /\ q[k].n \in g /\ q[Len(q)].op = "commit"
               /\ \E j \in 1 .. k - 1 : q[j] = Read(q[k].n)
        /\ q[k].op = "commit" => m = "exclusive" /\ k = Len(q)
    /\ \A i \in g : i \in Inodes /\ \E k \in 1 .. Len(q) : q[k] \in {Write(i), StageInode(i)}

LEMMA Parts ==
    ASSUME NEW A \in Programs, NEW L \in Seq(Locks), NEW B \in Programs
    PROVE  /\ (A \o L) \o B \in Programs
           /\ Len((A \o L) \o B) = Len(A) + Len(L) + Len(B)
           /\ Len(A) \in Nat /\ Len(L) \in Nat /\ Len(B) \in Nat
           /\ \A k \in 1 .. Len(A) : ((A \o L) \o B)[k] = A[k]
           /\ \A k \in 1 .. Len(L) : ((A \o L) \o B)[Len(A) + k] = L[k] /\ L[k] \in Locks
           /\ \A k \in 1 .. Len(B) : ((A \o L) \o B)[Len(A) + Len(L) + k] = B[k]
  <1>1. L \in Programs
    BY SeqMonotonic DEF Programs, Accesses
  <1>2. /\ A \o L \in Programs /\ Len(A \o L) = Len(A) + Len(L)
        /\ \A k \in 1 .. Len(A) + Len(L) : (A \o L)[k] = IF k <= Len(A) THEN A[k] ELSE L[k - Len(A)]
    BY <1>1, ConcatProperties DEF Programs
  <1> DEFINE C == A \o L
  <1> HIDE DEF C
  <1>3. /\ C \o B \in Programs /\ Len(C \o B) = Len(C) + Len(B)
        /\ \A k \in 1 .. Len(C) + Len(B) : (C \o B)[k] = IF k <= Len(C) THEN C[k] ELSE B[k - Len(C)]
    BY <1>2, ConcatProperties DEF Programs, C
  <1>4. Len(A) \in Nat /\ Len(L) \in Nat /\ Len(B) \in Nat /\ \A k \in 1 .. Len(L) : L[k] \in Locks
    BY ElementOfSeq, LenProperties DEF Programs
  <1>5. Len(C) = Len(A) + Len(L)
    BY <1>2 DEF C
  <1>6. /\ \A k \in 1 .. Len(A) : (C \o B)[k] = A[k]
        /\ \A k \in 1 .. Len(L) : (C \o B)[Len(A) + k] = L[k]
        /\ \A k \in 1 .. Len(B) : (C \o B)[Len(A) + Len(L) + k] = B[k]
    BY <1>2, <1>3, <1>4, <1>5 DEF C
  <1> QED
    BY <1>3, <1>4, <1>5, <1>6 DEF C

\* A list of locks holds the lock of each inode it was made for, and nothing else.
LEMMA InList ==
    ASSUME NEW ids, NEW L, LocksOf(L, ids)
    PROVE  /\ L \in Seq(Locks)
           /\ \A k \in 1 .. Len(L) : L[k].op = "lock"
           /\ \A i \in ids : \E k \in 1 .. Len(L) :
                  L[k] = Access("lock", inode_mutation_lock_index(i))
  <1>1. \A k \in 1 .. Len(L) : L[k] \in Locks
    BY ElementOfSeq DEF LocksOf
  <1>2. \A a \in Locks : a.op = "lock" /\ a = Access("lock", a.n)
    BY DEF Locks, Access
  <1>3. ASSUME NEW i \in ids
        PROVE \E k \in 1 .. Len(L) : L[k] = Access("lock", inode_mutation_lock_index(i))
    <2>1. PICK k \in 1 .. Len(L) : L[k].n = inode_mutation_lock_index(i)
      BY DEF LocksOf, Named
    <2> QED
      BY <1>1, <1>2, <2>1
  <1> QED
    BY <1>1, <1>2, <1>3 DEF LocksOf

LEMMA ToSets ==
    \A i, j : ToSet(<<i>>) = {i} /\ ToSet(<<i, j>>) = {i, j}
  BY DEF ToSet

LEMMA SetattrSound ==
    ASSUME NEW i \in Inodes
    PROVE  Sound(setattr(i), "shared", {i})
  <1> DEFINE L == lock_inode_mutations(<<i>>)
             A == <<Shared>>
             B == <<Read(i), Write(i)>>
             q == (A \o L) \o B
             n == Len(L)
  <1>1. LocksOf(L, {i})
    BY ToSets, TakesItsLocks
  <1> HIDE DEF L
  <1>2. A \in Programs /\ B \in Programs
    BY DEF Programs, Accesses
  <1>3. /\ q \in Programs /\ n \in Nat /\ Len(q) = n + 3
        /\ q[1] = Shared /\ q[n + 2] = Read(i) /\ q[n + 3] = Write(i)
        /\ \A k \in 1 .. n : q[k + 1] = L[k] /\ q[k + 1].op = "lock"
    BY <1>1, <1>2, InList, Parts
  <1> HIDE DEF A, B, q, n
  <1>4. \A k \in 1 .. n + 3 : k = 1 \/ k = n + 2 \/ k = n + 3 \/ q[k].op = "lock"
    <2>1. ASSUME NEW k \in 1 .. n + 3, k # 1, k # n + 2, k # n + 3 PROVE q[k].op = "lock"
      <3>1. k - 1 \in 1 .. n /\ (k - 1) + 1 = k
        BY <1>3, <2>1
      <3> QED
        BY <1>3, <3>1
    <2> QED
      BY <2>1
  <1>5. PICK l \in 1 .. n : q[l + 1] = Access("lock", inode_mutation_lock_index(i))
    BY <1>1, <1>3, InList DEF n
  <1>6. ASSUME NEW k \in 1 .. Len(q)
        PROVE  /\ q[k].op = "guard" => k = 1
               /\ q[k].op = "write" => k = n + 3
               /\ q[k].op \notin {"stage", "commit"}
    BY <1>3, <1>4 DEF Access, Shared, Read, Write
  <1>7. q[n + 3].n = i /\ q[1] = Access("guard", "shared") /\ q # <<>>
    BY <1>3 DEF Access, Write, Shared
  <1>8. n + 2 \in 1 .. (n + 3) - 1 /\ l + 1 \in 1 .. (n + 2) - 1
    BY <1>3
  <1>9. \A k \in 1 .. Len(q) : q[k] = q[n + 3] => k = n + 3
    BY <1>3, <1>6 DEF Access, Write
  <1>10. setattr(i) = q
    BY DEF setattr, q, A, B, L
  <1>11. /\ \E j \in 1 .. (n + 3) - 1 :
                /\ q[j] = Read(i)
                /\ \E m \in 1 .. j - 1 : q[m] = Access("lock", inode_mutation_lock_index(i))
         /\ \E k \in 1 .. Len(q) : q[k] \in {Write(i), StageInode(i)}
    BY <1>3, <1>5, <1>8
  <1>12. Sound(q, "shared", {i})
    BY <1>3, <1>6, <1>7, <1>9, <1>11 DEF Sound
  <1> QED
    BY <1>10, <1>12

LEMMA MkdirSound ==
    ASSUME NEW p \in Inodes
    PROVE  Sound(mkdir(p), "shared", {p})
  <1> DEFINE L == lock_inode_mutations(<<p>>)
             A == <<Shared, Namespace>>
             B == <<Read(p), Write(p)>>
             q == (A \o L) \o B
             n == Len(L)
  <1>1. LocksOf(L, {p})
    BY ToSets, TakesItsLocks
  <1> HIDE DEF L
  <1>2. A \in Programs /\ B \in Programs
    BY DEF Programs, Accesses
  <1>3. /\ q \in Programs /\ n \in Nat /\ Len(q) = n + 4
        /\ q[1] = Shared /\ q[2] = Namespace
        /\ q[n + 3] = Read(p) /\ q[n + 4] = Write(p)
        /\ \A k \in 1 .. n : q[k + 2] = L[k] /\ q[k + 2].op = "lock"
    <2>1. Len(A) = 2 /\ A[1] = Shared /\ A[2] = Namespace
      OBVIOUS
    <2>2. Len(B) = 2 /\ B[1] = Read(p) /\ B[2] = Write(p)
      OBVIOUS
    <2> HIDE DEF A, B
    <2>3. /\ Len(L) \in Nat /\ \A k \in 1 .. Len(L) : L[k].op = "lock"
          /\ q \in Programs /\ Len(q) = Len(A) + Len(L) + Len(B)
          /\ \A k \in 1 .. Len(A) : q[k] = A[k]
          /\ \A k \in 1 .. Len(L) : q[Len(A) + k] = L[k]
          /\ \A k \in 1 .. Len(B) : q[Len(A) + Len(L) + k] = B[k]
      BY <1>1, <1>2, InList, Parts
    <2> HIDE DEF q
    <2>4. \A k \in 1 .. n : q[k + 2] = L[k] /\ q[k + 2].op = "lock"
      BY <2>1, <2>3
    <2>5. q[1] = Shared /\ q[2] = Namespace
      BY <2>1, <2>3
    <2>6. \A k \in 1 .. 2 : q[n + 2 + k] = B[k]
      BY <2>1, <2>2, <2>3
    <2>7. q[n + 3] = Read(p) /\ q[n + 4] = Write(p)
      BY <2>2, <2>3, <2>6
    <2> QED
      BY <2>1, <2>2, <2>3, <2>4, <2>5, <2>7
  <1> HIDE DEF A, B, q
  <1>4. \A k \in 1 .. n + 4 :
            k \in 1 .. 2 \/ k \in n + 3 .. n + 4 \/ q[k].op = "lock"
    <2>1. ASSUME NEW k \in 1 .. n + 4, k \notin 1 .. 2, k \notin n + 3 .. n + 4
          PROVE q[k].op = "lock"
      <3>1. k - 2 \in 1 .. n /\ (k - 2) + 2 = k
        BY <1>3, <2>1
      <3> QED
        BY <1>3, <3>1
    <2> QED
      BY <2>1
  <1>5. \A i \in {p} : \E l \in 1 .. n :
            q[l + 2] = Access("lock", inode_mutation_lock_index(i))
    <2>1. \A i \in {p} : \E l \in 1 .. n : L[l] = Access("lock", inode_mutation_lock_index(i))
      BY <1>1, InList
    <2> QED
      BY <1>3, <2>1
  <1> HIDE DEF n
  <1>6. ASSUME NEW k \in 1 .. Len(q)
        PROVE  /\ q[k].op = "guard" => k = 1
               /\ q[k].op = "write" => k = n + 4
               /\ q[k].op # "stage"
               /\ q[k].op # "commit"
    BY <1>3, <1>4 DEF Access, Shared, Exclusive, Namespace, Read, Write, StageInode, Commit
  <1>7. /\ q[n + 4].n = p /\ n + 4 \in 1 .. Len(q)
        /\ \E j \in 1 .. (n + 4) - 1 :
               /\ q[j] = Read(p)
               /\ \E l \in 1 .. j - 1 : q[l] = Access("lock", inode_mutation_lock_index(p))
        /\ \A l \in 1 .. Len(q) : q[l] = q[n + 4] => l = n + 4
    <2>1. PICK l \in 1 .. n : q[l + 2] = Access("lock", inode_mutation_lock_index(p))
      BY <1>5
    <2>2. n + 3 \in 1 .. (n + 4) - 1 /\ l + 2 \in 1 .. (n + 3) - 1
      BY <1>3
    <2>3. \A m \in 1 .. Len(q) : q[m] = q[n + 4] => m = n + 4
      BY <1>3, <1>6 DEF Access, Write
    <2>4. q[n + 4].n = p /\ n + 4 \in 1 .. Len(q) /\ q[n + 3] = Read(p)
      BY <1>3 DEF Access, Write
    <2> QED
      BY <2>1, <2>2, <2>3, <2>4
  <1>8. q # <<>> /\ q[1] = Access("guard", "shared")
    BY <1>3 DEF Shared, Exclusive
  <1>9. \A i \in {p} : i \in Inodes /\ \E k \in 1 .. Len(q) : q[k] \in {Write(i), StageInode(i)}
    BY <1>3, <1>7
  <1>10. Sound(q, "shared", {p})
    BY <1>3, <1>6, <1>7, <1>8, <1>9 DEF Sound
  <1>11. mkdir(p) = q
    BY DEF mkdir, q, A, B, L
  <1> QED
    BY <1>10, <1>11

LEMMA RenameExchangeSound ==
    ASSUME NEW p \in Inodes, NEW c \in Inodes, p # c
    PROVE  Sound(rename_exchange(p, c), "shared", {p, c})
  <1> DEFINE L == lock_inode_mutations(<<p, c>>)
             A == <<Shared, Namespace, Read(p), Read(c)>>
             B == <<Read(p), Read(c), Write(p), Write(c)>>
             q == (A \o L) \o B
             n == Len(L)
  <1>1. LocksOf(L, {p, c})
    BY ToSets, TakesItsLocks
  <1> HIDE DEF L
  <1>2. A \in Programs /\ B \in Programs
    BY DEF Programs, Accesses
  <1>3. /\ q \in Programs /\ n \in Nat /\ Len(q) = n + 8
        /\ q[1] = Shared /\ q[2] = Namespace /\ q[3] = Read(p) /\ q[4] = Read(c)
        /\ q[n + 5] = Read(p) /\ q[n + 6] = Read(c) /\ q[n + 7] = Write(p) /\ q[n + 8] = Write(c)
        /\ \A k \in 1 .. n : q[k + 4] = L[k] /\ q[k + 4].op = "lock"
    <2>1. Len(A) = 4 /\ A[1] = Shared /\ A[2] = Namespace /\ A[3] = Read(p) /\ A[4] = Read(c)
      OBVIOUS
    <2>2. Len(B) = 4 /\ B[1] = Read(p) /\ B[2] = Read(c) /\ B[3] = Write(p) /\ B[4] = Write(c)
      OBVIOUS
    <2> HIDE DEF A, B
    <2>3. /\ Len(L) \in Nat /\ \A k \in 1 .. Len(L) : L[k].op = "lock"
          /\ q \in Programs /\ Len(q) = Len(A) + Len(L) + Len(B)
          /\ \A k \in 1 .. Len(A) : q[k] = A[k]
          /\ \A k \in 1 .. Len(L) : q[Len(A) + k] = L[k]
          /\ \A k \in 1 .. Len(B) : q[Len(A) + Len(L) + k] = B[k]
      BY <1>1, <1>2, InList, Parts
    <2> HIDE DEF q
    <2>4. \A k \in 1 .. n : q[k + 4] = L[k] /\ q[k + 4].op = "lock"
      BY <2>1, <2>3
    <2>5. q[1] = Shared /\ q[2] = Namespace /\ q[3] = Read(p) /\ q[4] = Read(c)
      BY <2>1, <2>3
    <2>6. \A k \in 1 .. 4 : q[n + 4 + k] = B[k]
      BY <2>1, <2>2, <2>3
    <2>7. q[n + 5] = Read(p) /\ q[n + 6] = Read(c) /\ q[n + 7] = Write(p) /\ q[n + 8] = Write(c)
      BY <2>2, <2>3, <2>6
    <2> QED
      BY <2>1, <2>2, <2>3, <2>4, <2>5, <2>7
  <1> HIDE DEF A, B, q
  <1>4. \A k \in 1 .. n + 8 :
            k \in 1 .. 4 \/ k \in n + 5 .. n + 8 \/ q[k].op = "lock"
    <2>1. ASSUME NEW k \in 1 .. n + 8, k \notin 1 .. 4, k \notin n + 5 .. n + 8
          PROVE q[k].op = "lock"
      <3>1. k - 4 \in 1 .. n /\ (k - 4) + 4 = k
        BY <1>3, <2>1
      <3> QED
        BY <1>3, <3>1
    <2> QED
      BY <2>1
  <1>5. \A i \in {p, c} : \E l \in 1 .. n :
            q[l + 4] = Access("lock", inode_mutation_lock_index(i))
    <2>1. \A i \in {p, c} : \E l \in 1 .. n : L[l] = Access("lock", inode_mutation_lock_index(i))
      BY <1>1, InList
    <2> QED
      BY <1>3, <2>1
  <1> HIDE DEF n
  <1>6. ASSUME NEW k \in 1 .. Len(q)
        PROVE  /\ q[k].op = "guard" => k = 1
               /\ q[k].op = "write" => k = n + 7 \/ k = n + 8
               /\ q[k].op # "stage"
               /\ q[k].op # "commit"
    BY <1>3, <1>4 DEF Access, Shared, Exclusive, Namespace, Read, Write, StageInode, Commit
  <1>7. /\ q[n + 7].n = p /\ n + 7 \in 1 .. Len(q)
        /\ \E j \in 1 .. (n + 7) - 1 :
               /\ q[j] = Read(p)
               /\ \E l \in 1 .. j - 1 : q[l] = Access("lock", inode_mutation_lock_index(p))
        /\ \A l \in 1 .. Len(q) : q[l] = q[n + 7] => l = n + 7
    <2>1. PICK l \in 1 .. n : q[l + 4] = Access("lock", inode_mutation_lock_index(p))
      BY <1>5
    <2>2. n + 5 \in 1 .. (n + 7) - 1 /\ l + 4 \in 1 .. (n + 5) - 1
      BY <1>3
    <2>3. \A m \in 1 .. Len(q) : q[m] = q[n + 7] => m = n + 7
      BY <1>3, <1>6 DEF Access, Write
    <2>4. q[n + 7].n = p /\ n + 7 \in 1 .. Len(q) /\ q[n + 5] = Read(p)
      BY <1>3 DEF Access, Write
    <2> QED
      BY <2>1, <2>2, <2>3, <2>4
  <1>8. /\ q[n + 8].n = c /\ n + 8 \in 1 .. Len(q)
        /\ \E j \in 1 .. (n + 8) - 1 :
               /\ q[j] = Read(c)
               /\ \E l \in 1 .. j - 1 : q[l] = Access("lock", inode_mutation_lock_index(c))
        /\ \A l \in 1 .. Len(q) : q[l] = q[n + 8] => l = n + 8
    <2>1. PICK l \in 1 .. n : q[l + 4] = Access("lock", inode_mutation_lock_index(c))
      BY <1>5
    <2>2. n + 6 \in 1 .. (n + 8) - 1 /\ l + 4 \in 1 .. (n + 6) - 1
      BY <1>3
    <2>3. \A m \in 1 .. Len(q) : q[m] = q[n + 8] => m = n + 8
      BY <1>3, <1>6 DEF Access, Write
    <2>4. q[n + 8].n = c /\ n + 8 \in 1 .. Len(q) /\ q[n + 6] = Read(c)
      BY <1>3 DEF Access, Write
    <2> QED
      BY <2>1, <2>2, <2>3, <2>4
  <1>9. q # <<>> /\ q[1] = Access("guard", "shared")
    BY <1>3 DEF Shared, Exclusive
  <1>10. \A i \in {p, c} : i \in Inodes /\ \E k \in 1 .. Len(q) : q[k] \in {Write(i), StageInode(i)}
    BY <1>3, <1>7, <1>8
  <1>11. Sound(q, "shared", {p, c})
    BY <1>3, <1>6, <1>7, <1>8, <1>9, <1>10 DEF Sound
  <1>12. rename_exchange(p, c) = q
    BY DEF rename_exchange, q, A, B, L
  <1> QED
    BY <1>11, <1>12

LEMMA RmdirSound ==
    ASSUME NEW p \in Inodes, NEW c \in Inodes, p # c
    PROVE  Sound(rmdir(p, c), "exclusive", {p, c})
  <1> DEFINE L == lock_inode_mutations(<<p, c>>)
             A == <<Exclusive, Namespace, Read(p)>>
             B == <<Read(p), Read(c), StageInode(p), StageInode(c), Commit>>
             q == (A \o L) \o B
             n == Len(L)
  <1>1. LocksOf(L, {p, c})
    BY ToSets, TakesItsLocks
  <1> HIDE DEF L
  <1>2. A \in Programs /\ B \in Programs
    BY DEF Programs, Accesses
  <1>3. /\ q \in Programs /\ n \in Nat /\ Len(q) = n + 8
        /\ q[1] = Exclusive /\ q[2] = Namespace /\ q[3] = Read(p)
        /\ q[n + 4] = Read(p) /\ q[n + 5] = Read(c) /\ q[n + 6] = StageInode(p) /\ q[n + 7] = StageInode(c) /\ q[n + 8] = Commit
        /\ \A k \in 1 .. n : q[k + 3] = L[k] /\ q[k + 3].op = "lock"
    <2>1. Len(A) = 3 /\ A[1] = Exclusive /\ A[2] = Namespace /\ A[3] = Read(p)
      OBVIOUS
    <2>2. Len(B) = 5 /\ B[1] = Read(p) /\ B[2] = Read(c) /\ B[3] = StageInode(p) /\ B[4] = StageInode(c) /\ B[5] = Commit
      OBVIOUS
    <2> HIDE DEF A, B
    <2>3. /\ Len(L) \in Nat /\ \A k \in 1 .. Len(L) : L[k].op = "lock"
          /\ q \in Programs /\ Len(q) = Len(A) + Len(L) + Len(B)
          /\ \A k \in 1 .. Len(A) : q[k] = A[k]
          /\ \A k \in 1 .. Len(L) : q[Len(A) + k] = L[k]
          /\ \A k \in 1 .. Len(B) : q[Len(A) + Len(L) + k] = B[k]
      BY <1>1, <1>2, InList, Parts
    <2> HIDE DEF q
    <2>4. \A k \in 1 .. n : q[k + 3] = L[k] /\ q[k + 3].op = "lock"
      BY <2>1, <2>3
    <2>5. q[1] = Exclusive /\ q[2] = Namespace /\ q[3] = Read(p)
      BY <2>1, <2>3
    <2>6. \A k \in 1 .. 5 : q[n + 3 + k] = B[k]
      BY <2>1, <2>2, <2>3
    <2>7. q[n + 4] = Read(p) /\ q[n + 5] = Read(c) /\ q[n + 6] = StageInode(p) /\ q[n + 7] = StageInode(c) /\ q[n + 8] = Commit
      BY <2>2, <2>3, <2>6
    <2> QED
      BY <2>1, <2>2, <2>3, <2>4, <2>5, <2>7
  <1> HIDE DEF A, B, q
  <1>4. \A k \in 1 .. n + 8 :
            k \in 1 .. 3 \/ k \in n + 4 .. n + 8 \/ q[k].op = "lock"
    <2>1. ASSUME NEW k \in 1 .. n + 8, k \notin 1 .. 3, k \notin n + 4 .. n + 8
          PROVE q[k].op = "lock"
      <3>1. k - 3 \in 1 .. n /\ (k - 3) + 3 = k
        BY <1>3, <2>1
      <3> QED
        BY <1>3, <3>1
    <2> QED
      BY <2>1
  <1>5. \A i \in {p, c} : \E l \in 1 .. n :
            q[l + 3] = Access("lock", inode_mutation_lock_index(i))
    <2>1. \A i \in {p, c} : \E l \in 1 .. n : L[l] = Access("lock", inode_mutation_lock_index(i))
      BY <1>1, InList
    <2> QED
      BY <1>3, <2>1
  <1> HIDE DEF n
  <1>6. ASSUME NEW k \in 1 .. Len(q)
        PROVE  /\ q[k].op = "guard" => k = 1
               /\ q[k].op # "write"
               /\ q[k].op = "stage" => k = n + 6 \/ k = n + 7
               /\ q[k].op = "commit" => k = n + 8
    BY <1>3, <1>4 DEF Access, Shared, Exclusive, Namespace, Read, Write, StageInode, Commit
  <1>7. /\ q[n + 6].n = p /\ n + 6 \in 1 .. Len(q)
        /\ \E j \in 1 .. (n + 6) - 1 : q[j] = Read(p)
    BY <1>3 DEF Access, StageInode
  <1>8. /\ q[n + 7].n = c /\ n + 7 \in 1 .. Len(q)
        /\ \E j \in 1 .. (n + 7) - 1 : q[j] = Read(c)
    BY <1>3 DEF Access, StageInode
  <1>9. q # <<>> /\ q[1] = Access("guard", "exclusive") /\ q[Len(q)].op = "commit"
    BY <1>3 DEF Shared, Exclusive, Commit, Access
  <1>10. \A i \in {p, c} : i \in Inodes /\ \E k \in 1 .. Len(q) : q[k] \in {Write(i), StageInode(i)}
    BY <1>3, <1>7, <1>8
  <1>11. Sound(q, "exclusive", {p, c})
    BY <1>3, <1>6, <1>7, <1>8, <1>9, <1>10 DEF Sound
  <1>12. rmdir(p, c) = q
    BY DEF rmdir, q, A, B, L
  <1> QED
    BY <1>11, <1>12

LEMMA GetattrSound ==
    ASSUME NEW i \in Inodes
    PROVE  Sound(getattr(i), "none", {})
  <1> DEFINE q == <<Read(i)>>
  <1>1. q \in Programs /\ Len(q) = 1 /\ q[1] = Read(i) /\ q[1].op = "read"
    BY AccessFacts DEF Programs, Accesses, Read
  <1> HIDE DEF q
  <1>2. \A k \in 1 .. Len(q) : q[k].op = "read"
    BY <1>1
  <1>3. Sound(q, "none", {})
    BY <1>1, <1>2 DEF Sound
  <1> QED
    BY <1>3 DEF getattr, q

\* Every call is sound, in one mode or another.
LEMMA CallsAreSound ==
    ASSUME NEW c \in Calls
    PROVE  \E m \in {"none", "shared", "exclusive"} :
               Sound(Program(c[1], c[2], c[3]), m, Goal(c[1], c[2], c[3]))
  <1> DEFINE i == c[2]
             j == c[3]
  <1>1. c[1] \in AllKinds /\ i \in Inodes /\ j \in Inodes
        /\ (c[1] \in {"rename_exchange", "rmdir"} <=> i # j)
    BY InodeAssumption DEF Calls
  <1> HIDE DEF i, j
  <1>2. CASE c[1] = "setattr"
    BY <1>1, <1>2, SetattrSound DEF Program, Goal, i, j
  <1>3. CASE c[1] = "getattr"
    BY <1>1, <1>3, GetattrSound DEF Program, Goal, i, j
  <1>4. CASE c[1] = "mkdir"
    BY <1>1, <1>4, MkdirSound DEF Program, Goal, i, j
  <1>5. CASE c[1] = "rename_exchange"
    BY <1>1, <1>5, RenameExchangeSound DEF Program, Goal, i, j
  <1>6. CASE c[1] = "rmdir"
    BY <1>1, <1>6, RmdirSound DEF Program, Goal, i, j
  <1> QED
    BY <1>1, <1>2, <1>3, <1>4, <1>5, <1>6 DEF AllKinds

-----------------------------------------------------------------------------
(* The inductive invariant *)

Shape ==
    /\ DOMAIN cache \subseteq Inodes
    /\ DOMAIN lock = 0 .. (Shards - 1)
    /\ DOMAIN held = Threads /\ DOMAIN prog = Threads /\ DOMAIN sub = Threads
    /\ DOMAIN snap = Threads /\ DOMAIN blk = Threads /\ DOMAIN staged = Threads
    /\ DOMAIN goal = Threads /\ DOMAIN status = Threads

\* GateExclusion, in terms of the guards.
Exclusion ==
    \A t, u \in Threads : held[t] = "exclusive" /\ u # t => held[u] = "none"

Holds(t, i) == lock[inode_mutation_lock_index(i)] = t

\* The thread that may change inode i.
Owner(t, i) == held[t] = "exclusive" \/ (held[t] = "shared" /\ Holds(t, i))

\* What t has read of i is what the table holds, or i has been put back.
Have(t, i) == i \in DOMAIN snap[t] /\ (snap[t][i] = disk[i] \/ i \in reverted)

\* t has a guard of mode m, or takes it next.
Mode(t, m) ==
    held[t] = m \/ (held[t] = "none" /\ prog[t] # <<>> /\ prog[t][1] = Access("guard", m))

\* When it comes to its j-th access, t owns i.
OwnsAt(t, i, j) ==
    \/ Mode(t, "exclusive")
    \/ /\ Mode(t, "shared")
       /\ \/ Holds(t, i)
          \/ \E l \in 1 .. j - 1 : prog[t][l] = Access("lock", inode_mutation_lock_index(i))

\* When it comes to its k-th access, t has read i as its owner.
ReadBefore(t, i, k) ==
    \/ Owner(t, i) /\ Have(t, i)
    \/ \E j \in 1 .. k - 1 : prog[t][j] = Read(i) /\ OwnsAt(t, i, j)

GuardFirst(t, k) == prog[t][k].op = "guard" => k = 1 /\ held[t] = "none"

WriteReady(t, k) ==
    prog[t][k].op = "write" =>
        /\ Mode(t, "shared")
        /\ k > 1 \/ sub[t] # "written" => ReadBefore(t, prog[t][k].n, k)
        /\ \A l \in 1 .. Len(prog[t]) : prog[t][l] = prog[t][k] => l = k

StageReady(t, k) ==
    prog[t][k].op = "stage" =>
        /\ Mode(t, "exclusive") /\ prog[t][k].n \in goal[t]
        /\ prog[t][Len(prog[t])].op = "commit"
        /\ ReadBefore(t, prog[t][k].n, k)

CommitLast(t, k) ==
    prog[t][k].op = "commit" => Mode(t, "exclusive") /\ k = Len(prog[t])

Disciplined(t) ==
    \A k \in 1 .. Len(prog[t]) :
        GuardFirst(t, k) /\ WriteReady(t, k) /\ StageReady(t, k) /\ CommitLast(t, k)

\* Where t is within its first access, and what it knows there.
InRead(t) ==
    /\ prog[t] # <<>> /\ prog[t][1].op = "read"
    /\ \/ sub[t] = "miss"
       \/ /\ sub[t] = "fetched" /\ prog[t][1].n \in DOMAIN snap[t]
          /\ Owner(t, prog[t][1].n) => Have(t, prog[t][1].n)

InWrite(t) ==
    /\ prog[t] # <<>> /\ prog[t][1].op = "write"
    /\ Owner(t, prog[t][1].n) /\ prog[t][1].n \in DOMAIN snap[t]
    /\ \/ /\ sub[t] = "read"
          /\ DOMAIN blk[t] = {j \in Inodes : table_block(j) = table_block(prog[t][1].n)}
       \/ /\ sub[t] = "written"
          /\ \/ disk[prog[t][1].n] = snap[t][prog[t][1].n] \cup {t}
             \/ prog[t][1].n \in reverted

Placed(t) == sub[t] = "top" \/ InRead(t) \/ InWrite(t)

\* The staged images: the table, with the thread's own updates.
StagedOK(t) ==
    /\ DOMAIN staged[t] # {} =>
           held[t] = "exclusive" /\ prog[t] # <<>> /\ prog[t][Len(prog[t])].op = "commit"
    /\ \A b \in DOMAIN staged[t] :
        /\ DOMAIN staged[t][b] = {j \in Inodes : table_block(j) = b}
        /\ \A j \in DOMAIN staged[t][b] :
            \/ staged[t][b][j] = disk[j]
            \/ j \in goal[t] /\ staged[t][b][j] = disk[j] \cup {t}
            \/ j \in reverted

Kept(t, i) == t \in disk[i] \/ i \in reverted

Pending(t, i) ==
    \/ \E k \in 1 .. Len(prog[t]) : prog[t][k] \in {Write(i), StageInode(i)}
    \/ table_block(i) \in DOMAIN staged[t] /\ t \in staged[t][table_block(i)][i]

GoalOK(t) ==
    /\ goal[t] \subseteq Inodes
    /\ status[t] # "again" => \A i \in goal[t] : Kept(t, i) \/ Pending(t, i)

Alive(t) ==
    /\ prog[t] \in Programs /\ held[t] \in {"none", "shared", "exclusive"}
    /\ status[t] # "run" => prog[t] = <<>> /\ held[t] = "none"

ThreadOK(t) == Alive(t) /\ Placed(t) /\ Disciplined(t) /\ StagedOK(t) /\ GoalOK(t)

IInv ==
    /\ Shape /\ Exclusion /\ CacheCoherent
    /\ \A t \in Threads : ThreadOK(t)

-----------------------------------------------------------------------------
(* What a step of one thread does to the others *)

LEMMA OneOwner ==
    ASSUME Exclusion, NEW t \in Threads, NEW u \in Threads, t # u,
           NEW i, Owner(t, i), Owner(u, i)
    PROVE  FALSE
  BY DEF Exclusion, Owner, Holds

\* A step of another thread, as u sees it.
Apart(u) ==
    /\ prog'[u] = prog[u] /\ sub'[u] = sub[u] /\ snap'[u] = snap[u] /\ blk'[u] = blk[u]
    /\ staged'[u] = staged[u] /\ goal'[u] = goal[u] /\ status'[u] = status[u]
    /\ held'[u] = held[u]
    /\ \A s \in 0 .. (Shards - 1) : lock'[s] = u <=> lock[s] = u
    /\ reverted \subseteq reverted'
    /\ \A i \in Inodes :
        disk'[i] = disk[i] \/ i \in reverted' \/ (disk[i] \subseteq disk'[i] /\ ~Owner(u, i))

LEMMA HeadOf ==
    ASSUME NEW q \in Programs, q # <<>>
    PROVE  /\ Len(q) \in Nat \ {0} /\ Head(q) = q[1] /\ q[1] \in Accesses
           /\ Tail(q) \in Programs /\ Len(Tail(q)) = Len(q) - 1
           /\ \A k \in 1 .. Len(q) - 1 : Tail(q)[k] = q[k + 1]
           /\ \A k \in 1 .. Len(q) : q[k] \in Accesses
  <1>1. Len(q) \in Nat /\ Len(q) # 0
    BY EmptySeq, LenProperties DEF Programs
  <1>2. \A k \in 1 .. Len(q) : q[k] \in Accesses
    BY ElementOfSeq DEF Programs
  <1>3. /\ Tail(q) \in Programs /\ Head(q) = q[1]
        /\ Len(Tail(q)) = Len(q) - 1 /\ \A k \in 1 .. Len(q) - 1 : Tail(q)[k] = q[k + 1]
    BY HeadTailProperties DEF Programs
  <1> QED
    BY <1>1, <1>2, <1>3

LEMMA OthersKept ==
    ASSUME Shape, NEW u \in Threads, ThreadOK(u), Apart(u)
    PROVE  ThreadOK(u)'
  <1>1. /\ \A i \in Inodes : Holds(u, i)' <=> Holds(u, i)
        /\ \A i \in Inodes : Owner(u, i)' <=> Owner(u, i)
    BY ShardIndex DEF Apart, Holds, Owner
  <1>2. \A i \in Inodes : Owner(u, i) /\ Have(u, i) => Have(u, i)'
    BY DEF Apart, Have
  <1>3. \A m : Mode(u, m)' <=> Mode(u, m)
    BY DEF Apart, Mode
  <1>4. \A k \in 1 .. Len(prog[u]) : prog[u][k] \in Accesses
    BY HeadOf DEF ThreadOK, Alive
  <1>5. \A i \in Inodes : \A j : OwnsAt(u, i, j)' <=> OwnsAt(u, i, j)
    BY <1>1, <1>3 DEF OwnsAt, Apart
  <1>6. \A i \in Inodes : \A k : ReadBefore(u, i, k) => ReadBefore(u, i, k)'
    <2> SUFFICES ASSUME NEW i \in Inodes, NEW k, ReadBefore(u, i, k) PROVE ReadBefore(u, i, k)'
      OBVIOUS
    <2>1. prog'[u] = prog[u]
      BY DEF Apart
    <2> QED
      BY <1>1, <1>2, <1>5, <2>1 DEF ReadBefore
  <1>7. Alive(u)'
    BY DEF Apart, ThreadOK, Alive
  <1>8. Placed(u)'
    <2>1. CASE sub[u] = "top"
      BY <2>1 DEF Apart, Placed
    <2>2. CASE InRead(u)
      <3>1. prog[u][1].n \in Inodes
        BY <1>4, <2>2, AccessFacts, HeadOf DEF InRead, ThreadOK, Alive
      <3> QED
        BY <1>1, <1>2, <2>2, <3>1 DEF Apart, Placed, InRead
    <2>3. CASE InWrite(u)
      <3>1. prog[u][1].n \in Inodes
        BY <1>4, <2>3, AccessFacts, HeadOf DEF InWrite, ThreadOK, Alive
      <3> QED
        BY <1>1, <1>2, <2>3, <3>1 DEF Apart, Placed, InWrite
    <2> QED
      BY <2>1, <2>2, <2>3 DEF ThreadOK, Placed
  <1>9. Disciplined(u)'
    <2> SUFFICES ASSUME NEW k \in 1 .. Len(prog[u])
                 PROVE  (GuardFirst(u, k) /\ WriteReady(u, k) /\ StageReady(u, k) /\ CommitLast(u, k))'
      BY DEF Disciplined, Apart
    <2>1. GuardFirst(u, k) /\ WriteReady(u, k) /\ StageReady(u, k) /\ CommitLast(u, k)
      BY DEF ThreadOK, Disciplined
    <2>2. prog[u][k].op \in {"write", "stage"} => prog[u][k].n \in Inodes
      BY <1>4, AccessFacts
    <2>3. GuardFirst(u, k)' /\ CommitLast(u, k)'
      BY <1>3, <2>1 DEF GuardFirst, CommitLast, Apart
    <2>4. WriteReady(u, k)'
      BY <1>3, <1>6, <2>1, <2>2 DEF WriteReady, Apart
    <2>5. StageReady(u, k)'
      BY <1>3, <1>6, <2>1, <2>2 DEF StageReady, Apart
    <2> QED
      BY <2>3, <2>4, <2>5
  <1>10. StagedOK(u)'
    <2>1. /\ DOMAIN staged[u] # {} =>
                 held[u] = "exclusive" /\ prog[u] # <<>> /\ prog[u][Len(prog[u])].op = "commit"
          /\ \A b \in DOMAIN staged[u] : DOMAIN staged[u][b] = {j \in Inodes : table_block(j) = b}
      BY DEF ThreadOK, StagedOK
    <2>2. ASSUME NEW b \in DOMAIN staged[u], NEW j \in DOMAIN staged[u][b]
          PROVE  \/ staged[u][b][j] = disk'[j]
                 \/ j \in goal[u] /\ staged[u][b][j] = disk'[j] \cup {u}
                 \/ j \in reverted'
      <3>1. j \in Inodes /\ Owner(u, j)
        BY <2>1 DEF Owner
      <3>2. disk'[j] = disk[j] \/ j \in reverted'
        BY <3>1 DEF Apart
      <3> QED
        BY <3>2 DEF Apart, ThreadOK, StagedOK
    <2> QED
      BY <2>1, <2>2 DEF StagedOK, Apart
  <1>11. GoalOK(u)'
    <2>1. goal[u] \subseteq Inodes
      BY DEF ThreadOK, GoalOK
    <2>2. \A i \in goal[u] : Kept(u, i) => Kept(u, i)'
      BY <2>1 DEF Kept, Apart
    <2>3. \A i \in goal[u] : Pending(u, i) => Pending(u, i)'
      BY DEF Pending, Apart
    <2> QED
      BY <2>1, <2>2, <2>3 DEF ThreadOK, GoalOK, Apart
  <1> QED
    BY <1>7, <1>8, <1>9, <1>10, <1>11 DEF ThreadOK

-----------------------------------------------------------------------------
(* What a step does to its own thread *)

\* What the step that completes an access must leave to the accesses behind it.
Carries(t) ==
    /\ held'[t] = IF prog[t][1].op = "guard" THEN prog[t][1].n ELSE held[t]
    /\ \A i \in Inodes : Holds(t, i) => Holds(t, i)'
    /\ prog[t][1].op = "lock" => lock'[prog[t][1].n] = t
    /\ \A i \in Inodes :
        /\ Owner(t, i)
        /\ prog[t][1] = Read(i) \/ (Have(t, i) /\ prog[t][1] # Write(i))
        => Have(t, i)'

LEMMA Advance ==
    ASSUME Shape, NEW t \in Threads, ThreadOK(t), prog[t] # <<>>, Done(t), Carries(t)
    PROVE  Alive(t)' /\ Placed(t)' /\ Disciplined(t)'
  <1> DEFINE q == prog[t]
  <1>1. /\ q \in Programs /\ Len(q) \in Nat \ {0} /\ q[1] \in Accesses
        /\ prog'[t] = Tail(q) /\ Tail(q) \in Programs /\ Len(Tail(q)) = Len(q) - 1
        /\ \A k \in 1 .. Len(q) - 1 : Tail(q)[k] = q[k + 1]
        /\ \A k \in 1 .. Len(q) : q[k] \in Accesses
    BY HeadOf DEF ThreadOK, Alive, Done, Shape
  <1>2. sub'[t] = "top" /\ goal' = goal /\ status' = status /\ status[t] = "run"
    BY DEF Done, Shape, ThreadOK, Alive
  <1>3. q[1].op = "guard" => held[t] = "none"
    BY <1>1 DEF ThreadOK, Disciplined, GuardFirst
  <1>4. Alive(t)'
    <2>1. held'[t] \in {"none", "shared", "exclusive"}
      BY <1>1, AccessFacts DEF Carries, ThreadOK, Alive
    <2> QED
      BY <1>1, <1>2, <2>1 DEF Alive
  <1>5. Placed(t)'
    BY <1>2 DEF Placed
  <1>6. \A m \in {"shared", "exclusive"} : Mode(t, m) => held'[t] = m
    BY <1>3 DEF Mode, Carries, Access
  <1>7. \A i \in Inodes : Owner(t, i) => Owner(t, i)'
    BY <1>3 DEF Owner, Carries
  <1>8. \A i \in Inodes : \A k \in 2 .. Len(q) :
            ReadBefore(t, i, k) /\ q[1] # Write(i) => ReadBefore(t, i, k - 1)'
    <2> SUFFICES ASSUME NEW i \in Inodes, NEW k \in 2 .. Len(q), ReadBefore(t, i, k), q[1] # Write(i)
                 PROVE  ReadBefore(t, i, k - 1)'
      OBVIOUS
    <2>1. CASE Owner(t, i) /\ Have(t, i)
      BY <1>7, <2>1 DEF ReadBefore, Carries
    <2>2. ASSUME NEW j \in 1 .. k - 1, q[j] = Read(i), OwnsAt(t, i, j), j = 1
          PROVE  ReadBefore(t, i, k - 1)'
      <3>1. q[1].op = "read"
        BY <2>2, AccessFacts DEF Read
      <3>2. Owner(t, i)
        BY <2>2, <3>1 DEF OwnsAt, Mode, Owner, Access
      <3> QED
        BY <1>7, <2>2, <3>2 DEF ReadBefore, Carries
    <2>3. ASSUME NEW j \in 1 .. k - 1, q[j] = Read(i), OwnsAt(t, i, j), j # 1
          PROVE  ReadBefore(t, i, k - 1)'
      <3>1. j - 1 \in 1 .. (k - 1) - 1 /\ j - 1 \in 1 .. Len(q) - 1 /\ (j - 1) + 1 = j
        BY <1>1, <2>3
      <3>2. prog'[t][j - 1] = Read(i)
        BY <1>1, <2>3, <3>1
      <3>3. OwnsAt(t, i, j - 1)'
        <4>1. CASE Mode(t, "exclusive")
          BY <1>6, <4>1 DEF OwnsAt, Mode
        <4>2. CASE Mode(t, "shared") /\ Holds(t, i)
          BY <1>6, <4>2 DEF OwnsAt, Mode, Carries
        <4>3. ASSUME Mode(t, "shared"), NEW l \in 1 .. j - 1,
                     q[l] = Access("lock", inode_mutation_lock_index(i))
              PROVE  OwnsAt(t, i, j - 1)'
          <5>1. CASE l = 1
            <6>1. q[1].op = "lock" /\ q[1].n = inode_mutation_lock_index(i)
              BY <4>3, <5>1, AccessFacts
            <6> QED
              BY <1>6, <4>3, <6>1 DEF OwnsAt, Mode, Carries, Holds
          <5>2. CASE l # 1
            <6>1. l - 1 \in 1 .. (j - 1) - 1 /\ l - 1 \in 1 .. Len(q) - 1 /\ (l - 1) + 1 = l
              BY <1>1, <5>2
            <6>2. prog'[t][l - 1] = q[l]
              BY <1>1, <6>1
            <6> QED
              BY <1>6, <4>3, <6>1, <6>2 DEF OwnsAt, Mode
          <5> QED
            BY <5>1, <5>2
        <4> QED
          BY <2>3, <4>1, <4>2, <4>3 DEF OwnsAt
      <3> QED
        BY <3>1, <3>2, <3>3 DEF ReadBefore
    <2> QED
      BY <2>1, <2>2, <2>3 DEF ReadBefore
  <1>9. Disciplined(t)'
    <2> SUFFICES ASSUME NEW m \in 1 .. Len(prog'[t])
                 PROVE  (GuardFirst(t, m) /\ WriteReady(t, m) /\ StageReady(t, m) /\ CommitLast(t, m))'
      BY DEF Disciplined
    <2> DEFINE k == m + 1
    <2>1. k \in 2 .. Len(q) /\ k - 1 = m /\ prog'[t][m] = q[k] /\ k # 1 /\ m \in 1 .. Len(q) - 1
      BY <1>1
    <2> HIDE DEF k
    <2>2. GuardFirst(t, k) /\ WriteReady(t, k) /\ StageReady(t, k) /\ CommitLast(t, k)
      BY <2>1 DEF ThreadOK, Disciplined
    <2>3. q[k].op \in {"write", "stage"} => q[k].n \in Inodes
      BY <1>1, <2>1, AccessFacts
    <2>4. GuardFirst(t, m)'
      BY <2>1, <2>2 DEF GuardFirst
    <2>5. CommitLast(t, m)'
      BY <1>1, <1>6, <2>1, <2>2 DEF CommitLast, Mode
    <2>6. WriteReady(t, m)'
      <3> SUFFICES ASSUME q[k].op = "write" PROVE WriteReady(t, m)'
        BY <2>1 DEF WriteReady
      <3>0. PICK i \in Inodes : i = q[k].n
        BY <2>3
      <3>1. Mode(t, "shared") /\ ReadBefore(t, i, k)
            /\ \A l \in 1 .. Len(q) : q[l] = q[k] => l = k
        BY <2>1, <2>2, <3>0 DEF WriteReady
      <3>2. q[1] # Write(i)
        <4>1. q[k] = Write(i)
          BY <1>1, <2>1, <3>0, AccessFacts DEF Write
        <4> QED
          BY <1>1, <2>1, <3>1, <4>1
      <3>3. ASSUME NEW l \in 1 .. Len(prog'[t]), prog'[t][l] = q[k] PROVE l = m
        <4>1. l + 1 \in 1 .. Len(q) /\ q[l + 1] = q[k]
          BY <1>1, <3>3
        <4> QED
          BY <2>1, <3>1, <4>1
      <3>4. Mode(t, "shared")'
        BY <1>6, <3>1 DEF Mode
      <3>5. ReadBefore(t, i, m)'
        BY <1>8, <2>1, <3>1, <3>2
      <3> QED
        BY <2>1, <3>0, <3>3, <3>4, <3>5 DEF WriteReady
    <2>7. StageReady(t, m)'
      <3> SUFFICES ASSUME q[k].op = "stage" PROVE StageReady(t, m)'
        BY <2>1 DEF StageReady
      <3>0. PICK i \in Inodes : i = q[k].n
        BY <2>3
      <3>1. /\ Mode(t, "exclusive") /\ i \in goal[t] /\ ReadBefore(t, i, k)
            /\ q[Len(q)].op = "commit"
        BY <2>2, <3>0 DEF StageReady
      <3>2. q[1].op # "write"
        BY <1>1, <3>1 DEF ThreadOK, Disciplined, WriteReady, Mode, Access
      <3>3. q[1] # Write(i)
        BY <3>2, AccessFacts DEF Write
      <3>4. Mode(t, "exclusive")'
        BY <1>6, <3>1 DEF Mode
      <3>5. ReadBefore(t, i, m)'
        BY <1>8, <2>1, <3>1, <3>3
      <3>6. prog'[t][Len(prog'[t])].op = "commit"
        BY <1>1, <2>1, <3>1
      <3> QED
        BY <1>2, <2>1, <3>0, <3>1, <3>4, <3>5, <3>6 DEF StageReady
    <2> QED
      BY <2>4, <2>5, <2>6, <2>7
  <1> QED
    BY <1>4, <1>5, <1>9

\* The step that completes an access leaves the updates still to come.
LEMMA GoalAdvance ==
    ASSUME Shape, NEW t \in Threads, ThreadOK(t), prog[t] # <<>>, Done(t),
           \A i \in Inodes : Kept(t, i) => Kept(t, i)',
           \A i \in goal[t] :
               prog[t][1] \in {Write(i), StageInode(i)} => Kept(t, i)' \/ Pending(t, i)',
           \A i \in goal[t] :
               table_block(i) \in DOMAIN staged[t] /\ t \in staged[t][table_block(i)][i]
               => table_block(i) \in DOMAIN staged'[t] /\ t \in staged'[t][table_block(i)][i]
    PROVE  GoalOK(t)'
  <1> DEFINE q == prog[t]
  <1>1. /\ Len(q) \in Nat \ {0} /\ prog'[t] = Tail(q) /\ Len(Tail(q)) = Len(q) - 1
        /\ \A k \in 1 .. Len(q) - 1 : Tail(q)[k] = q[k + 1]
    BY HeadOf DEF ThreadOK, Alive, Done, Shape
  <1>2. goal' = goal /\ status' = status /\ goal[t] \subseteq Inodes
    BY DEF Done, ThreadOK, GoalOK
  <1>3. \A k \in 2 .. Len(q) : k - 1 \in 1 .. Len(prog'[t]) /\ prog'[t][k - 1] = q[k]
    <2> SUFFICES ASSUME NEW k \in 2 .. Len(q)
                 PROVE  k - 1 \in 1 .. Len(prog'[t]) /\ prog'[t][k - 1] = q[k]
      OBVIOUS
    <2>1. k - 1 \in 1 .. Len(q) - 1 /\ (k - 1) + 1 = k
      BY <1>1
    <2> QED
      BY <1>1, <2>1
  <1>4. ASSUME NEW i \in goal[t], Pending(t, i) PROVE Kept(t, i)' \/ Pending(t, i)'
    <2>1. ASSUME NEW k \in 1 .. Len(q), q[k] \in {Write(i), StageInode(i)}, k # 1
          PROVE Pending(t, i)'
      <3>1. k \in 2 .. Len(q)
        BY <1>1, <2>1
      <3> QED
        BY <1>3, <2>1, <3>1 DEF Pending
    <2>2. CASE table_block(i) \in DOMAIN staged[t] /\ t \in staged[t][table_block(i)][i]
      BY <2>2 DEF Pending
    <2> QED
      BY <1>4, <2>1, <2>2 DEF Pending
  <1> QED
    BY <1>2, <1>4 DEF ThreadOK, GoalOK

\* It leaves the staged images too, unless it stages one or ends the commit.
LEMMA StagedAdvance ==
    ASSUME Shape, NEW t \in Threads, ThreadOK(t), prog[t] # <<>>, Done(t), Carries(t),
           disk' = disk, reverted \subseteq reverted', staged' = staged,
           prog[t][1].op = "commit" => DOMAIN staged[t] = {}
    PROVE  StagedOK(t)'
  <1>1. /\ Len(prog[t]) \in Nat \ {0} /\ prog'[t] = Tail(prog[t])
        /\ Len(Tail(prog[t])) = Len(prog[t]) - 1
        /\ \A k \in 1 .. Len(prog[t]) - 1 : Tail(prog[t])[k] = prog[t][k + 1]
    BY HeadOf DEF ThreadOK, Alive, Done, Shape
  <1>2. ASSUME DOMAIN staged[t] # {}
        PROVE  /\ held'[t] = "exclusive" /\ prog'[t] # <<>>
               /\ prog'[t][Len(prog'[t])].op = "commit"
    <2>1. held[t] = "exclusive" /\ prog[t][Len(prog[t])].op = "commit" /\ Len(prog[t]) # 1
      BY <1>2 DEF ThreadOK, StagedOK
    <2>2. prog[t][1].op # "guard"
      BY <1>1, <2>1 DEF ThreadOK, Disciplined, GuardFirst
    <2>3. PICK n \in Nat \ {0} : Len(prog[t]) = n + 1
      <3>1. \A m : m \in Nat \ {0} /\ m # 1 => \E n \in Nat \ {0} : m = n + 1
        <4>1. ASSUME NEW m, m \in Nat \ {0}, m # 1 PROVE \E n \in Nat \ {0} : m = n + 1
          <5>1. m - 1 \in Nat \ {0} /\ m = (m - 1) + 1
            BY <4>1
          <5> QED
            BY <5>1
        <4> QED
          BY <4>1
      <3> QED
        BY <1>1, <2>1, <3>1
    <2>4. prog'[t][Len(prog'[t])] = prog[t][Len(prog[t])]
      BY <1>1, <2>3
    <2>5. prog'[t] # <<>>
      <3>1. Len(prog'[t]) = n
        BY <1>1, <2>3
      <3>2. Len(<<>>) = 0
        BY EmptySeq
      <3> QED
        BY <2>3, <3>1, <3>2
    <2> QED
      BY <2>1, <2>2, <2>4, <2>5 DEF Carries
  <1> QED
    BY <1>2 DEF ThreadOK, StagedOK, Done

\* The cache, when one thread moves.
LEMMA CacheKept ==
    ASSUME CacheCoherent, NEW t \in Threads, reverted \subseteq reverted',
           \A u \in Threads \ {t} : prog'[u] = prog[u] /\ sub'[u] = sub[u] /\ goal'[u] = goal[u],
           \A i \in DOMAIN cache' :
               \/ cache'[i] = disk'[i] \/ i \in reverted' \/ Writing(t, i)'
               \/ /\ i \in DOMAIN cache /\ cache'[i] = cache[i] /\ disk'[i] = disk[i]
                  /\ ~Writing(t, i)
    PROVE  CacheCoherent'
  <1>1. \A u \in Threads \ {t} : \A i : Writing(u, i) => Writing(u, i)'
    BY DEF Writing, At, Arg
  <1> QED
    BY <1>1 DEF CacheCoherent

-----------------------------------------------------------------------------
(* The steps *)

\* What a thread at an access knows of it.
LEMMA HeadAt ==
    ASSUME NEW t, ThreadOK(t), NEW o, NEW s, At(t, o, s)
    PROVE  /\ prog[t] # <<>> /\ sub[t] = s /\ prog[t] \in Programs
           /\ prog[t][1].op = o /\ prog[t][1].n = Arg(t) /\ prog[t][1] = Access(o, Arg(t))
           /\ Len(prog[t]) \in Nat \ {0} /\ 1 \in 1 .. Len(prog[t])
           /\ o = "guard" => Arg(t) \in {"shared", "exclusive"}
           /\ o = "lock" => Arg(t) \in 0 .. (Shards - 1)
           /\ o \in {"read", "write", "stage"} => Arg(t) \in Inodes
  <1>1. prog[t] \in Programs /\ prog[t] # <<>>
    BY DEF ThreadOK, Alive, At
  <1>2. /\ Len(prog[t]) \in Nat \ {0} /\ Head(prog[t]) = prog[t][1] /\ prog[t][1] \in Accesses
    BY <1>1, HeadOf
  <1> QED
    BY <1>1, <1>2, AccessFacts DEF At, Arg

LEMMA Assemble ==
    ASSUME IInv, NEW t \in Threads, Shape', Exclusion', CacheCoherent', ThreadOK(t)',
           \A u \in Threads \ {t} : Apart(u)
    PROVE  IInv'
  <1>1. \A u \in Threads \ {t} : ThreadOK(u)'
    BY OthersKept DEF IInv
  <1> QED
    BY <1>1 DEF IInv

\* A step that only moves its thread on to the next access, past one that is not an update.
LEMMA DoneKeeps ==
    ASSUME IInv, NEW t \in Threads, prog[t] # <<>>, Done(t), Carries(t),
           prog[t][1].op \notin {"write", "stage"},
           prog[t][1].op = "commit" => DOMAIN staged[t] = {},
           disk' = disk, staged' = staged, blk' = blk, reverted \subseteq reverted',
           DOMAIN held' = Threads, DOMAIN snap' = Threads,
           \A u \in Threads \ {t} : held'[u] = held[u] /\ snap'[u] = snap[u],
           DOMAIN lock' = 0 .. (Shards - 1),
           \A u \in Threads \ {t}, s \in 0 .. (Shards - 1) : lock'[s] = u <=> lock[s] = u,
           Exclusion', DOMAIN cache' \subseteq Inodes, CacheCoherent'
    PROVE  IInv'
  <1>1. Shape /\ ThreadOK(t)
    BY DEF IInv
  <1>2. Shape'
    BY <1>1 DEF Shape, Done
  <1>3. Alive(t)' /\ Placed(t)' /\ Disciplined(t)'
    BY <1>1, Advance
  <1>4. StagedOK(t)'
    BY <1>1, StagedAdvance
  <1>5. GoalOK(t)'
    <2>1. \A i \in Inodes : Kept(t, i) => Kept(t, i)'
      BY DEF Kept
    <2>2. \A i : prog[t][1] \notin {Write(i), StageInode(i)}
      BY DEF Write, StageInode, Access
    <2> QED
      BY <1>1, <2>1, <2>2, GoalAdvance
  <1>6. \A u \in Threads \ {t} : Apart(u)
    BY <1>1 DEF Apart, Done, Shape
  <1> QED
    BY <1>2, <1>3, <1>4, <1>5, <1>6, Assemble DEF ThreadOK

\* The cache is left alone by a step of a thread that completes no write.
LEMMA CacheSame ==
    ASSUME IInv, NEW t \in Threads, cache' = cache, disk' = disk, reverted' = reverted,
           goal' = goal, \A i : ~Writing(t, i),
           \A u \in Threads \ {t} : prog'[u] = prog[u] /\ sub'[u] = sub[u]
    PROVE  CacheCoherent'
  BY CacheKept DEF IInv

LEMMA NotWriting ==
    ASSUME NEW t, NEW o, NEW s, At(t, o, s), o # "commit", o # "write" \/ s # "written"
    PROVE  \A i : ~Writing(t, i)
  BY DEF Writing, At

LEMMA GuardKeeps ==
    ASSUME IInv, NEW t \in Threads, Guard(t)
    PROVE  IInv'
  <1>1. /\ Shape /\ ThreadOK(t) /\ At(t, "guard", "top") /\ \A i : ~Writing(t, i)
    BY NotWriting DEF IInv, Guard
  <1>2. /\ prog[t] # <<>> /\ sub[t] = "top" /\ prog[t][1].op = "guard"
        /\ prog[t][1].n = Arg(t) /\ 1 \in 1 .. Len(prog[t]) /\ Arg(t) \in {"shared", "exclusive"}
    BY <1>1, HeadAt
  <1>3. held[t] = "none"
    BY <1>1, <1>2 DEF ThreadOK, Disciplined, GuardFirst
  <1>4. CacheCoherent'
    BY <1>1, CacheSame DEF Guard, Done, Shape
  <1>5. CASE /\ IF Arg(t) = "shared" THEN \A u \in Threads : held[u] # "exclusive"
                ELSE \A u \in Threads : held[u] = "none"
             /\ held' = [held EXCEPT ![t] = Arg(t)]
             /\ Done(t)
    <2>1. Carries(t)
      BY <1>1, <1>2, <1>3, <1>5 DEF Carries, Guard, Shape, Holds, Have, Owner, local
    <2>2. Exclusion'
      BY <1>1, <1>2, <1>5 DEF Exclusion, IInv, Shape
    <2> QED
      BY <1>1, <1>2, <1>4, <1>5, <2>1, <2>2, DoneKeeps DEF Guard, Shape, local
  <1>6. CASE /\ prog' = [prog EXCEPT ![t] = <<>>]
             /\ status' = [status EXCEPT ![t] = "again"]
             /\ UNCHANGED <<held, sub, goal>>
    <2>1. Shape' /\ Exclusion'
      BY <1>1, <1>6 DEF Shape, Exclusion, IInv, Guard, local
    <2>2. <<>> \in Programs /\ Len(<<>>) = 0
      BY EmptySeq DEF Programs
    <2>3. prog'[t] = <<>> /\ status'[t] = "again" /\ sub'[t] = "top" /\ held'[t] = "none"
          /\ staged' = staged /\ goal' = goal
      BY <1>1, <1>2, <1>3, <1>6 DEF Shape, Guard, local
    <2>4. ThreadOK(t)'
      <3>1. Alive(t)' /\ Placed(t)'
        BY <2>2, <2>3 DEF Alive, Placed
      <3>2. Disciplined(t)'
        BY <2>2, <2>3 DEF Disciplined
      <3>3. DOMAIN staged[t] = {}
        BY <1>1, <1>3 DEF ThreadOK, StagedOK
      <3>4. StagedOK(t)' /\ GoalOK(t)'
        BY <1>1, <2>3, <3>3 DEF ThreadOK, StagedOK, GoalOK
      <3> QED
        BY <3>1, <3>2, <3>4 DEF ThreadOK
    <2>5. \A u \in Threads \ {t} : Apart(u)
      BY <1>1, <1>6 DEF Apart, Guard, Shape, local
    <2> QED
      BY <1>4, <2>1, <2>4, <2>5, Assemble
  <1> QED
    BY <1>5, <1>6 DEF Guard

LEMMA LockNamespaceKeeps ==
    ASSUME IInv, NEW t \in Threads, LockNamespace(t)
    PROVE  IInv'
  <1>1. /\ Shape /\ ThreadOK(t) /\ At(t, "namespace", "top") /\ \A i : ~Writing(t, i)
    BY NotWriting DEF IInv, LockNamespace
  <1>2. prog[t] # <<>> /\ prog[t][1].op = "namespace"
    BY <1>1, HeadAt
  <1>3. CacheCoherent'
    BY <1>1, CacheSame DEF LockNamespace, Done, Shape
  <1>4. Carries(t)
    BY <1>2 DEF Carries, LockNamespace, Holds, Have, local, Read, Access
  <1>5. Exclusion'
    BY DEF Exclusion, IInv, LockNamespace
  <1> QED
    BY <1>1, <1>2, <1>3, <1>4, <1>5, DoneKeeps DEF LockNamespace, Shape, local

LEMMA LockShardKeeps ==
    ASSUME IInv, NEW t \in Threads, LockShard(t)
    PROVE  IInv'
  <1>1. /\ Shape /\ ThreadOK(t) /\ At(t, "lock", "top") /\ \A i : ~Writing(t, i)
    BY NotWriting DEF IInv, LockShard
  <1>2. /\ prog[t] # <<>> /\ prog[t][1].op = "lock"
        /\ prog[t][1].n = Arg(t) /\ Arg(t) \in 0 .. (Shards - 1)
    BY <1>1, HeadAt
  <1>3. CacheCoherent'
    BY <1>1, CacheSame DEF LockShard, Done, Shape
  <1>4. Carries(t)
    <2>1. \A i \in Inodes : Holds(t, i) => Holds(t, i)'
      BY <1>1, ShardIndex DEF Holds, LockShard, Shape
    <2>2. lock'[Arg(t)] = t
      BY <1>1, <1>2 DEF LockShard, Shape
    <2>3. \A i : prog[t][1] # Read(i)
      BY <1>2 DEF Read, Access
    <2>4. \A i \in Inodes : Have(t, i) => Have(t, i)'
      BY DEF Have, LockShard, local
    <2> QED
      BY <1>2, <2>1, <2>2, <2>3, <2>4 DEF Carries, LockShard
  <1>5. Exclusion'
    BY DEF Exclusion, IInv, LockShard
  <1>6. \A u \in Threads \ {t}, s \in 0 .. (Shards - 1) : lock'[s] = u <=> lock[s] = u
    BY <1>1, <1>2, InodeAssumption DEF LockShard, Shape
  <1>7. DOMAIN lock' = 0 .. (Shards - 1)
    BY <1>1 DEF LockShard, Shape
  <1> QED
    BY <1>1, <1>2, <1>3, <1>4, <1>5, <1>6, <1>7, DoneKeeps DEF LockShard, Shape, local

\* A step within an access.
LEMMA InsideKeeps ==
    ASSUME IInv, NEW t \in Threads, prog[t] # <<>>, NEW s, Inside(t, s),
           s = "written" \/ sub[t] # "written",
           UNCHANGED <<lock, held, staged>>, reverted \subseteq reverted',
           DOMAIN snap' = Threads, DOMAIN blk' = Threads,
           \A i \in Inodes :
               /\ Kept(t, i) => Kept(t, i)'
               /\ Owner(t, i) /\ Have(t, i) /\ ~(s = "written" /\ prog[t][1] = Write(i))
                  => Have(t, i)',
           Placed(t)', StagedOK(t)', DOMAIN cache' \subseteq Inodes, CacheCoherent',
           \A u \in Threads \ {t} : Apart(u)
    PROVE  IInv'
  <1>1. Shape /\ ThreadOK(t)
    BY DEF IInv
  <1>2. /\ prog' = prog /\ goal' = goal /\ status' = status /\ sub'[t] = s
        /\ held' = held /\ lock' = lock /\ staged' = staged
    BY <1>1 DEF Inside, Shape
  <1>3. Shape' /\ Exclusion'
    BY <1>1, <1>2 DEF Shape, Inside, Exclusion, IInv
  <1>4. Alive(t)'
    BY <1>1, <1>2 DEF ThreadOK, Alive
  <1>5. /\ \A i : Owner(t, i)' <=> Owner(t, i)
        /\ \A m : Mode(t, m)' <=> Mode(t, m)
        /\ \A i, j : OwnsAt(t, i, j)' <=> OwnsAt(t, i, j)
    BY <1>2 DEF Owner, Holds, Mode, OwnsAt
  <1>6. ASSUME NEW i \in Inodes, NEW k, ReadBefore(t, i, k), ~(s = "written" /\ prog[t][1] = Write(i))
        PROVE ReadBefore(t, i, k)'
    <2>1. Owner(t, i)' <=> Owner(t, i)
      BY <1>5
    <2>2. \A j : OwnsAt(t, i, j)' <=> OwnsAt(t, i, j)
      BY <1>5
    <2> QED
      BY <1>2, <1>6, <2>1, <2>2 DEF ReadBefore
  <1>7. Disciplined(t)'
    <2> SUFFICES ASSUME NEW k \in 1 .. Len(prog[t])
                 PROVE  (GuardFirst(t, k) /\ WriteReady(t, k) /\ StageReady(t, k) /\ CommitLast(t, k))'
      BY <1>2 DEF Disciplined
    <2>1. GuardFirst(t, k) /\ WriteReady(t, k) /\ StageReady(t, k) /\ CommitLast(t, k)
      BY <1>1 DEF ThreadOK, Disciplined
    <2>2. \A l \in 1 .. Len(prog[t]) : prog[t][l] \in Accesses
      BY <1>1, HeadOf DEF ThreadOK, Alive
    <2>3. GuardFirst(t, k)' /\ CommitLast(t, k)'
      BY <1>2, <1>5, <2>1 DEF GuardFirst, CommitLast
    <2>4. WriteReady(t, k)'
      <3> SUFFICES ASSUME prog[t][k].op = "write" PROVE WriteReady(t, k)'
        BY <1>2 DEF WriteReady
      <3>1. PICK i \in Inodes : i = prog[t][k].n /\ prog[t][k] = Write(i)
        BY <2>2, AccessFacts DEF Write
      <3>2. /\ Mode(t, "shared") /\ \A l \in 1 .. Len(prog[t]) : prog[t][l] = prog[t][k] => l = k
            /\ k > 1 \/ sub[t] # "written" => ReadBefore(t, i, k)
        BY <2>1, <3>1 DEF WriteReady
      <3>3. k > 1 \/ s # "written" => ReadBefore(t, i, k)'
        <4>1. CASE k > 1
          <5>1. prog[t][1] # Write(i)
            BY <3>1, <3>2, <4>1
          <5> QED
            BY <1>6, <3>2, <4>1, <5>1
        <4>2. CASE s # "written"
          BY <1>6, <3>2, <4>2
        <4> QED
          BY <4>1, <4>2
      <3>4. Mode(t, "shared")'
        BY <1>5, <3>2
      <3> QED
        BY <1>2, <3>1, <3>2, <3>3, <3>4 DEF WriteReady
    <2>5. StageReady(t, k)'
      <3> SUFFICES ASSUME prog[t][k].op = "stage" PROVE StageReady(t, k)'
        BY <1>2 DEF StageReady
      <3>1. PICK i \in Inodes : i = prog[t][k].n
        BY <2>2, AccessFacts
      <3>2. /\ Mode(t, "exclusive") /\ i \in goal[t] /\ prog[t][Len(prog[t])].op = "commit"
            /\ ReadBefore(t, i, k)
        BY <2>1, <3>1 DEF StageReady
      <3>3. prog[t][1] # Write(i)
        <4>1. 1 \in 1 .. Len(prog[t])
          BY <1>1, HeadOf DEF ThreadOK, Alive
        <4>2. prog[t][1].op # "write"
          BY <1>1, <3>2, <4>1 DEF ThreadOK, Disciplined, WriteReady, Mode, Access
        <4> QED
          BY <4>2 DEF Write, Access
      <3>4. Mode(t, "exclusive")' /\ ReadBefore(t, i, k)'
        BY <1>5, <1>6, <3>2, <3>3
      <3> QED
        BY <1>2, <3>1, <3>2, <3>4 DEF StageReady
    <2> QED
      BY <2>3, <2>4, <2>5
  <1>8. GoalOK(t)'
    <2>1. \A i \in Inodes : Pending(t, i)' <=> Pending(t, i)
      BY <1>2 DEF Pending
    <2> QED
      BY <1>1, <1>2, <2>1 DEF ThreadOK, GoalOK
  <1>9. ThreadOK(t)'
    BY <1>4, <1>7, <1>8 DEF ThreadOK
  <1> QED
    BY <1>3, <1>9, Assemble

\* An inode that a thread owns is not being written by another.
LEMMA OwnedIsQuiet ==
    ASSUME IInv, NEW t \in Threads, NEW i \in Inodes, Owner(t, i), ~Writing(t, i)
    PROVE  \A u \in Threads : ~Writing(u, i)
  <1> SUFFICES ASSUME NEW u \in Threads, Writing(u, i) PROVE FALSE
    OBVIOUS
  <1>1. ThreadOK(u) /\ u # t
    BY DEF IInv
  <1>2. CASE At(u, "write", "written") /\ Arg(u) = i
    <2>1. sub[u] = "written" /\ prog[u][1].n = i
      BY <1>1, <1>2, HeadAt
    <2>2. Owner(u, i)
      BY <1>1, <2>1 DEF ThreadOK, Placed, InRead, InWrite
    <2> QED
      BY <1>1, <2>2, OneOwner DEF IInv
  <1>3. CASE At(u, "commit", "top")
    <2>1. prog[u][1].op = "commit" /\ 1 \in 1 .. Len(prog[u])
      BY <1>1, <1>3, HeadAt
    <2>2. Mode(u, "exclusive")
      BY <1>1, <2>1 DEF ThreadOK, Disciplined, CommitLast
    <2>3. Owner(u, i)
      BY <2>1, <2>2 DEF Mode, Owner, Access
    <2> QED
      BY <1>1, <2>3, OneOwner DEF IInv
  <1> QED
    BY <1>2, <1>3 DEF Writing

LEMMA LookupKeeps ==
    ASSUME IInv, NEW t \in Threads, Lookup(t)
    PROVE  IInv'
  <1>1. /\ Shape /\ ThreadOK(t) /\ At(t, "read", "top") /\ \A i : ~Writing(t, i)
    BY NotWriting DEF IInv, Lookup
  <1>2. /\ prog[t] # <<>> /\ prog[t][1].op = "read" /\ sub[t] = "top"
        /\ prog[t][1] = Access("read", Arg(t)) /\ Arg(t) \in Inodes
    BY <1>1, HeadAt
  <1>3. /\ disk' = disk /\ cache' = cache /\ reverted' = reverted
        /\ lock' = lock /\ namespace' = namespace /\ held' = held
    BY DEF Lookup, locks
  <1>4. CacheCoherent'
    BY <1>1, <1>3, CacheSame DEF Lookup, Done, Inside, Shape
  <1>5. Exclusion'
    BY <1>3 DEF Exclusion, IInv
  <1>6. CASE Arg(t) \in DOMAIN cache /\ Keep(t, cache[Arg(t)]) /\ Done(t)
    <2>1. /\ snap'[t] = Put(snap[t], Arg(t), cache[Arg(t)]) /\ blk' = blk /\ staged' = staged
          /\ DOMAIN snap' = Threads /\ \A u \in Threads \ {t} : snap'[u] = snap[u]
      BY <1>1, <1>6 DEF Keep, Shape
    <2>2. Carries(t)
      <3>1. ASSUME NEW i \in Inodes, Owner(t, i), prog[t][1] = Read(i) PROVE Have(t, i)'
        <4>1. i = Arg(t)
          BY <1>2, <3>1 DEF Read, Access
        <4>2. cache[i] = disk[i] \/ i \in reverted
          BY <1>1, <1>6, <3>1, <4>1, OwnedIsQuiet DEF IInv, CacheCoherent
        <4> QED
          BY <1>3, <2>1, <4>1, <4>2 DEF Have, Put
      <3>2. ASSUME NEW i \in Inodes, Have(t, i), prog[t][1] # Read(i) PROVE Have(t, i)'
        <4>1. i # Arg(t)
          BY <1>2, <3>2 DEF Read
        <4> QED
          BY <1>3, <2>1, <3>2, <4>1 DEF Have, Put
      <3> QED
        BY <1>2, <1>3, <3>1, <3>2 DEF Carries, Holds
    <2> QED
      BY <1>1, <1>2, <1>3, <1>4, <1>5, <1>6, <2>1, <2>2, DoneKeeps DEF Shape
  <1>7. CASE Arg(t) \notin DOMAIN cache /\ UNCHANGED local /\ Inside(t, "miss")
    <2>1. Placed(t)'
      BY <1>1, <1>2, <1>7 DEF Placed, InRead, Inside, Shape
    <2>2. StagedOK(t)'
      BY <1>1, <1>3, <1>7 DEF StagedOK, ThreadOK, local, Inside
    <2>3. \A u \in Threads \ {t} : Apart(u)
      BY <1>1, <1>3, <1>7 DEF Apart, local, Inside, Shape
    <2>4. \A i \in Inodes : (Kept(t, i) => Kept(t, i)') /\ (Have(t, i) => Have(t, i)')
      BY <1>3, <1>7 DEF Kept, Have, local
    <2> QED
      BY <1>1, <1>2, <1>3, <1>4, <1>7, <2>1, <2>2, <2>3, <2>4, InsideKeeps DEF Shape, local
  <1> QED
    BY <1>6, <1>7 DEF Lookup

LEMMA FetchKeeps ==
    ASSUME IInv, NEW t \in Threads, Fetch(t)
    PROVE  IInv'
  <1>1. /\ Shape /\ ThreadOK(t) /\ At(t, "read", "miss") /\ \A i : ~Writing(t, i)
    BY NotWriting DEF IInv, Fetch
  <1>2. /\ prog[t] # <<>> /\ prog[t][1].op = "read" /\ sub[t] = "miss"
        /\ prog[t][1].n = Arg(t) /\ Arg(t) \in Inodes
    BY <1>1, HeadAt
  <1>3. /\ disk' = disk /\ cache' = cache /\ reverted' = reverted
        /\ lock' = lock /\ namespace' = namespace /\ held' = held
        /\ Inside(t, "fetched") /\ blk' = blk /\ staged' = staged
        /\ prog' = prog /\ sub'[t] = "fetched" /\ goal' = goal
    BY <1>1 DEF Fetch, locks, Keep, Inside, Shape
  <1>4. /\ snap'[t] = Put(snap[t], Arg(t), disk[Arg(t)])
        /\ DOMAIN snap' = Threads /\ \A u \in Threads \ {t} : snap'[u] = snap[u]
    BY <1>1 DEF Keep, Shape, Fetch
  <1>5. CacheCoherent'
    BY <1>1, <1>3, CacheSame DEF Inside, Shape
  <1>6. \A i \in Inodes : (Kept(t, i) => Kept(t, i)') /\ (Have(t, i) => Have(t, i)')
    BY <1>3, <1>4 DEF Kept, Have, Put
  <1>7. Placed(t)'
    <2>1. Have(t, Arg(t))'
      <3>1. PICK i \in Inodes : i = Arg(t)
        BY <1>2
      <3>2. Have(t, i)'
        BY <1>3, <1>4, <3>1 DEF Have, Put
      <3>3. Arg(t)' = Arg(t)
        BY <1>3 DEF Arg
      <3> QED
        BY <3>1, <3>2, <3>3
    <2>2. InRead(t)'
      BY <1>2, <1>3, <1>4, <2>1 DEF InRead, Have, Put, Arg
    <2> QED
      BY <2>2 DEF Placed
  <1>8. StagedOK(t)'
    BY <1>1, <1>3 DEF StagedOK, ThreadOK
  <1>9. \A u \in Threads \ {t} : Apart(u)
    BY <1>1, <1>3, <1>4 DEF Apart, Inside, Shape
  <1> QED
    BY <1>1, <1>2, <1>3, <1>4, <1>5, <1>6, <1>7, <1>8, <1>9, InsideKeeps DEF Shape

LEMMA InsertKeeps ==
    ASSUME IInv, NEW t \in Threads, Insert(t)
    PROVE  IInv'
  <1>1. /\ Shape /\ ThreadOK(t) /\ At(t, "read", "fetched") /\ \A i : ~Writing(t, i)
    BY NotWriting DEF IInv, Insert
  <1>2. /\ prog[t] # <<>> /\ prog[t][1].op = "read" /\ sub[t] = "fetched"
        /\ prog[t][1] = Access("read", Arg(t)) /\ prog[t][1].n = Arg(t) /\ Arg(t) \in Inodes
    BY <1>1, HeadAt
  <1>3. /\ disk' = disk /\ reverted \subseteq reverted'
        /\ lock' = lock /\ held' = held /\ snap' = snap /\ blk' = blk /\ staged' = staged
        /\ Done(t)
        /\ snap[t][Arg(t)] = disk[Arg(t)] \/ Arg(t) \in reverted'
    BY DEF Insert, locks, local
  <1>4. /\ DOMAIN cache' \subseteq DOMAIN cache \cup {Arg(t)}
        /\ cache'[Arg(t)] = snap[t][Arg(t)]
        /\ \A i \in DOMAIN cache' \ {Arg(t)} : i \in DOMAIN cache /\ cache'[i] = cache[i]
    BY DEF Insert, Put, NoEntries
  <1>5. CacheCoherent'
    <2>1. \A u \in Threads \ {t} : prog'[u] = prog[u] /\ sub'[u] = sub[u] /\ goal'[u] = goal[u]
      BY <1>1, <1>3 DEF Done, Shape
    <2>2. \A i \in DOMAIN cache' :
            \/ cache'[i] = disk'[i] \/ i \in reverted' \/ Writing(t, i)'
            \/ /\ i \in DOMAIN cache /\ cache'[i] = cache[i] /\ disk'[i] = disk[i]
               /\ ~Writing(t, i)
      BY <1>1, <1>3, <1>4
    <2> QED
      BY <1>3, <2>1, <2>2, CacheKept DEF IInv
  <1>6. Exclusion'
    BY <1>3 DEF Exclusion, IInv
  <1>7. Carries(t)
    <2>1. ASSUME NEW i \in Inodes, Owner(t, i), prog[t][1] = Read(i) PROVE Have(t, i)
      <3>1. InRead(t) /\ i = prog[t][1].n
        BY <1>1, <1>2, <2>1 DEF ThreadOK, Placed, InWrite, Read, Access
      <3> QED
        BY <1>2, <2>1, <3>1 DEF InRead
    <2>2. \A i \in Inodes : Have(t, i) => Have(t, i)'
      BY <1>3 DEF Have
    <2> QED
      BY <1>2, <1>3, <2>1, <2>2 DEF Carries, Holds
  <1>8. DOMAIN cache' \subseteq Inodes
    BY <1>1, <1>2, <1>4 DEF Shape
  <1> QED
    BY <1>1, <1>2, <1>3, <1>5, <1>6, <1>7, <1>8, DoneKeeps DEF Shape

\* A write is of an inode that its thread owns and has read.
LEMMA WriteHead ==
    ASSUME IInv, NEW t \in Threads, NEW s, At(t, "write", s)
    PROVE  /\ prog[t] # <<>> /\ prog[t][1] = Write(Arg(t)) /\ prog[t][1].op = "write"
           /\ prog[t][1].n = Arg(t) /\ Arg(t) \in Inodes /\ sub[t] = s
           /\ Owner(t, Arg(t)) /\ held[t] = "shared" /\ DOMAIN staged[t] = {}
           /\ s # "written" => Have(t, Arg(t))
  <1>1. ThreadOK(t)
    BY DEF IInv
  <1>2. /\ prog[t] # <<>> /\ prog[t][1] = Write(Arg(t)) /\ prog[t][1].op = "write"
        /\ prog[t][1].n = Arg(t) /\ Arg(t) \in Inodes /\ sub[t] = s /\ 1 \in 1 .. Len(prog[t])
    BY <1>1, HeadAt DEF Write
  <1>3. WriteReady(t, 1)
    BY <1>1, <1>2 DEF ThreadOK, Disciplined
  <1>4. held[t] = "shared"
    BY <1>2, <1>3 DEF WriteReady, Mode, Access
  <1>5. DOMAIN staged[t] = {}
    BY <1>1, <1>4 DEF ThreadOK, StagedOK
  <1>6. s # "written" => Owner(t, Arg(t)) /\ Have(t, Arg(t))
    <2> SUFFICES ASSUME s # "written" PROVE Owner(t, Arg(t)) /\ Have(t, Arg(t))
      OBVIOUS
    <2>1. ReadBefore(t, Arg(t), 1)
      BY <1>2, <1>3 DEF WriteReady
    <2> QED
      BY <2>1 DEF ReadBefore
  <1>7. s = "written" => Owner(t, Arg(t))
    BY <1>1, <1>2 DEF ThreadOK, Placed, InRead, InWrite
  <1> QED
    BY <1>2, <1>4, <1>5, <1>6, <1>7

LEMMA ReadBlockKeeps ==
    ASSUME IInv, NEW t \in Threads, ReadBlock(t)
    PROVE  IInv'
  <1>1. /\ Shape /\ ThreadOK(t) /\ At(t, "write", "top") /\ \A i : ~Writing(t, i)
    BY NotWriting DEF IInv, ReadBlock
  <1>2. /\ prog[t] # <<>> /\ prog[t][1].op = "write" /\ prog[t][1].n = Arg(t)
        /\ sub[t] = "top" /\ Owner(t, Arg(t)) /\ Have(t, Arg(t)) /\ Arg(t) \in Inodes
    BY <1>1, WriteHead
  <1>3. /\ disk' = disk /\ cache' = cache /\ reverted' = reverted
        /\ lock' = lock /\ held' = held /\ snap' = snap /\ staged' = staged
        /\ Inside(t, "read") /\ prog' = prog /\ sub'[t] = "read" /\ goal' = goal
        /\ blk'[t] = Block(table_block(Arg(t))) /\ DOMAIN blk' = Threads
        /\ \A u \in Threads \ {t} : blk'[u] = blk[u]
    BY <1>1 DEF ReadBlock, locks, Inside, Shape
  <1>4. CacheCoherent'
    BY <1>1, <1>3, CacheSame DEF Inside, Shape
  <1>5. \A i \in Inodes : (Kept(t, i) => Kept(t, i)') /\ (Have(t, i) => Have(t, i)')
    BY <1>3 DEF Kept, Have
  <1>6. Placed(t)'
    <2>1. Owner(t, prog[t][1].n)' <=> Owner(t, prog[t][1].n)
      BY <1>3 DEF Owner, Holds
    <2>2. InWrite(t)'
      BY <1>2, <1>3, <2>1 DEF InWrite, Have, Block, Owner, Holds
    <2> QED
      BY <2>2 DEF Placed
  <1>7. StagedOK(t)'
    BY <1>1, <1>3 DEF StagedOK, ThreadOK
  <1>8. \A u \in Threads \ {t} : Apart(u)
    BY <1>1, <1>3 DEF Apart, Inside, Shape
  <1> QED
    BY <1>1, <1>2, <1>3, <1>4, <1>5, <1>6, <1>7, <1>8, InsideKeeps DEF Shape

LEMMA WriteBlockKeeps ==
    ASSUME IInv, NEW t \in Threads, WriteBlock(t)
    PROVE  IInv'
  <1>1. /\ Shape /\ ThreadOK(t) /\ At(t, "write", "read") /\ \A i : ~Writing(t, i)
    BY NotWriting DEF IInv, WriteBlock
  <1>2. PICK n \in Inodes : n = Arg(t)
    BY <1>1, HeadAt
  <1>3. /\ prog[t] # <<>> /\ prog[t][1] = Write(n) /\ prog[t][1].op = "write" /\ prog[t][1].n = n
        /\ sub[t] = "read" /\ Owner(t, n) /\ Have(t, n) /\ DOMAIN staged[t] = {}
    BY <1>1, <1>2, WriteHead
  <1>4. /\ cache' = cache /\ lock' = lock /\ held' = held /\ snap' = snap /\ staged' = staged
        /\ Inside(t, "written") /\ prog' = prog /\ sub'[t] = "written" /\ goal' = goal
        /\ DOMAIN blk' = Threads /\ \A u \in Threads \ {t} : blk'[u] = blk[u]
        /\ \A u \in Threads \ {t} : sub'[u] = sub[u]
    BY <1>1 DEF WriteBlock, locks, Inside, Shape
  <1>5. /\ reverted \subseteq reverted'
        /\ disk'[n] = snap[t][n] \cup {t}
        /\ \A i \in Inodes \ {n} : disk'[i] = disk[i] \/ i \in reverted'
    BY <1>2 DEF WriteBlock, WithBlock, Put, Changed
  <1>6. disk[n] \subseteq disk'[n] \/ n \in reverted'
    BY <1>3, <1>5 DEF Have
  <1>7. CacheCoherent'
    <2>1. Writing(t, n)'
      BY <1>2, <1>3, <1>4 DEF Writing, At, Arg, WriteBlock
    <2>2. \A i \in DOMAIN cache' :
            \/ cache'[i] = disk'[i] \/ i \in reverted' \/ Writing(t, i)'
            \/ /\ i \in DOMAIN cache /\ cache'[i] = cache[i] /\ disk'[i] = disk[i]
               /\ ~Writing(t, i)
      BY <1>1, <1>4, <1>5, <2>1 DEF Shape
    <2> QED
      BY <1>4, <1>5, <2>2, CacheKept DEF IInv
  <1>8. \A i \in Inodes : Kept(t, i) => Kept(t, i)'
    BY <1>5, <1>6 DEF Kept
  <1>9. \A i \in Inodes : Have(t, i) /\ prog[t][1] # Write(i) => Have(t, i)'
    BY <1>3, <1>4, <1>5 DEF Have
  <1>10. Placed(t)'
    <2>1. Owner(t, n)'
      BY <1>3, <1>4 DEF Owner, Holds
    <2>2. InWrite(t)'
      BY <1>3, <1>4, <1>5, <2>1 DEF InWrite, Have, Owner, Holds
    <2> QED
      BY <2>2 DEF Placed
  <1>11. StagedOK(t)'
    BY <1>1, <1>3, <1>4 DEF StagedOK, ThreadOK
  <1>12. ASSUME NEW u \in Threads \ {t} PROVE Apart(u)
    <2>1. ~Owner(u, n)
      BY <1>3, OneOwner DEF IInv
    <2> QED
      BY <1>1, <1>4, <1>5, <1>6, <2>1 DEF Apart, Inside, Shape
  <1> QED
    BY <1>1, <1>3, <1>4, <1>5, <1>7, <1>8, <1>9, <1>10, <1>11, <1>12, InsideKeeps DEF Shape

LEMMA UpdateCacheKeeps ==
    ASSUME IInv, NEW t \in Threads, UpdateCache(t)
    PROVE  IInv'
  <1>1. /\ Shape /\ ThreadOK(t) /\ At(t, "write", "written")
    BY DEF IInv, UpdateCache
  <1>2. PICK n \in Inodes : n = Arg(t)
    BY <1>1, HeadAt
  <1>3. /\ prog[t] # <<>> /\ prog[t][1] = Write(n) /\ prog[t][1].op = "write" /\ prog[t][1].n = n
        /\ sub[t] = "written" /\ Owner(t, n) /\ DOMAIN staged[t] = {}
    BY <1>1, <1>2, WriteHead
  <1>4. /\ disk' = disk /\ lock' = lock /\ held' = held /\ snap' = snap /\ staged' = staged
        /\ blk' = blk /\ Done(t) /\ reverted' = reverted
    BY DEF UpdateCache, locks, local
  <1>5. disk[n] = snap[t][n] \cup {t} \/ n \in reverted
    BY <1>1, <1>3 DEF ThreadOK, Placed, InRead, InWrite
  <1>6. /\ DOMAIN cache' = DOMAIN cache
        /\ \A i \in DOMAIN cache : cache'[i] = IF i = n THEN snap[t][n] \cup {t} ELSE cache[i]
    BY <1>2 DEF UpdateCache, Put, Changed
  <1>7. CacheCoherent'
    <2>1. \A i : Writing(t, i) => i = n
      BY <1>2, <1>3 DEF Writing, At, Arg
    <2>2. \A i \in DOMAIN cache' :
            \/ cache'[i] = disk'[i] \/ i \in reverted' \/ Writing(t, i)'
            \/ /\ i \in DOMAIN cache /\ cache'[i] = cache[i] /\ disk'[i] = disk[i]
               /\ ~Writing(t, i)
      BY <1>4, <1>5, <1>6, <2>1
    <2>3. \A u \in Threads \ {t} : prog'[u] = prog[u] /\ sub'[u] = sub[u] /\ goal'[u] = goal[u]
      BY <1>1, <1>4 DEF Done, Shape
    <2> QED
      BY <1>4, <2>2, <2>3, CacheKept DEF IInv
  <1>8. Carries(t)
    <2>1. \A i : prog[t][1] # Read(i)
      BY <1>3 DEF Read, Access
    <2> QED
      BY <1>3, <1>4, <2>1 DEF Carries, Holds, Have
  <1>9. Alive(t)' /\ Placed(t)' /\ Disciplined(t)'
    BY <1>1, <1>3, <1>4, <1>8, Advance
  <1>10. StagedOK(t)'
    BY <1>1, <1>3, <1>4, <1>8, StagedAdvance
  <1>11. GoalOK(t)'
    <2>1. \A i \in Inodes : Kept(t, i) => Kept(t, i)'
      BY <1>4 DEF Kept
    <2>2. \A i : prog[t][1] \in {Write(i), StageInode(i)} => i = n
      BY <1>3 DEF Write, StageInode, Access
    <2>3. Kept(t, n)'
      BY <1>4, <1>5 DEF Kept
    <2> QED
      BY <1>1, <1>3, <1>4, <2>1, <2>2, <2>3, GoalAdvance
  <1>12. Shape' /\ Exclusion' /\ \A u \in Threads \ {t} : Apart(u)
    BY <1>1, <1>4, <1>6 DEF Shape, Exclusion, IInv, Apart, Done
  <1> QED
    BY <1>7, <1>9, <1>10, <1>11, <1>12, Assemble DEF ThreadOK

-----------------------------------------------------------------------------
(* Transactions *)

LEMMA StageKeeps ==
    ASSUME IInv, NEW t \in Threads, Stage(t)
    PROVE  IInv'
  <1>1. /\ Shape /\ ThreadOK(t) /\ At(t, "stage", "top") /\ \A i : ~Writing(t, i)
    BY NotWriting DEF IInv, Stage
  <1>2. PICK n \in Inodes : n = Arg(t)
    BY <1>1, HeadAt
  <1>3. /\ prog[t] # <<>> /\ prog[t][1] = StageInode(n) /\ prog[t][1].op = "stage"
        /\ prog[t][1].n = n /\ 1 \in 1 .. Len(prog[t]) /\ Len(prog[t]) \in Nat
    BY <1>1, <1>2, HeadAt DEF StageInode
  <1>4. /\ held[t] = "exclusive" /\ Have(t, n) /\ n \in goal[t]
        /\ prog[t][Len(prog[t])].op = "commit" /\ Len(prog[t]) # 1
    <2>1. StageReady(t, 1)
      BY <1>1, <1>3 DEF ThreadOK, Disciplined
    <2>2. ReadBefore(t, n, 1) /\ Mode(t, "exclusive")
      BY <1>3, <2>1 DEF StageReady
    <2> QED
      BY <1>3, <2>1, <2>2 DEF StageReady, ReadBefore, Mode, Access
  <1>5. PICK b : b = table_block(n)
    OBVIOUS
  <1>6. PICK image : image = IF b \in DOMAIN staged[t] THEN staged[t][b] ELSE Block(b)
    OBVIOUS
  <1>7. /\ staged'[t] = Put(staged[t], b, Put(image, n, snap[t][n] \cup {t}))
        /\ DOMAIN staged' = Threads /\ \A u \in Threads \ {t} : staged'[u] = staged[u]
    BY <1>1, <1>2, <1>5, <1>6 DEF Stage, Shape, Changed
  <1>8. /\ disk' = disk /\ cache' = cache /\ lock' = lock /\ held' = held /\ snap' = snap
        /\ blk' = blk /\ Done(t) /\ reverted' = reverted /\ goal' = goal
    BY DEF Stage, locks, Done
  <1>9. /\ DOMAIN image = {j \in Inodes : table_block(j) = b}
        /\ \A j \in DOMAIN image : \/ image[j] = disk[j]
                                   \/ j \in goal[t] /\ image[j] = disk[j] \cup {t}
                                   \/ j \in reverted
    BY <1>1, <1>6 DEF ThreadOK, StagedOK, Block
  <1>10. CacheCoherent'
    BY <1>1, <1>8, CacheSame DEF Done, Shape
  <1>11. Carries(t)
    <2>1. \A i : prog[t][1] # Read(i)
      BY <1>3 DEF Read, Access
    <2> QED
      BY <1>3, <1>8, <2>1 DEF Carries, Holds, Have
  <1>12. Alive(t)' /\ Placed(t)' /\ Disciplined(t)'
    BY <1>1, <1>3, <1>8, <1>11, Advance
  <1>13. StagedOK(t)'
    <2>1. /\ prog'[t] = Tail(prog[t]) /\ Len(Tail(prog[t])) = Len(prog[t]) - 1
          /\ \A k \in 1 .. Len(prog[t]) - 1 : Tail(prog[t])[k] = prog[t][k + 1]
      BY <1>1, <1>3, <1>8, HeadOf DEF ThreadOK, Alive, Done, Shape
    <2>2. PICK m \in Nat \ {0} : Len(prog[t]) = m + 1
      <3>1. \A k : k \in Nat /\ 1 \in 1 .. k /\ k # 1 => \E m \in Nat \ {0} : k = m + 1
        <4>1. ASSUME NEW k, k \in Nat, 1 \in 1 .. k, k # 1 PROVE \E m \in Nat \ {0} : k = m + 1
          <5>1. k - 1 \in Nat \ {0} /\ k = (k - 1) + 1
            BY <4>1
          <5> QED
            BY <5>1
        <4> QED
          BY <4>1
      <3> QED
        BY <1>3, <1>4, <3>1
    <2>3. prog'[t] # <<>> /\ prog'[t][Len(prog'[t])].op = "commit"
      <3>1. Len(prog'[t]) = m /\ prog'[t][m] = prog[t][Len(prog[t])]
        BY <2>1, <2>2
      <3>2. Len(<<>>) = 0
        BY EmptySeq
      <3> QED
        BY <1>4, <2>2, <3>1, <3>2
    <2>4. ASSUME NEW c \in DOMAIN staged'[t], c # b
          PROVE  c \in DOMAIN staged[t] /\ staged'[t][c] = staged[t][c]
      BY <1>7, <2>4 DEF Put
    <2>5. /\ DOMAIN staged'[t][b] = {j \in Inodes : table_block(j) = b}
          /\ \A j \in DOMAIN staged'[t][b] :
               \/ staged'[t][b][j] = disk[j]
               \/ j \in goal[t] /\ staged'[t][b][j] = disk[j] \cup {t}
               \/ j \in reverted
      <3>1. staged'[t][b] = Put(image, n, snap[t][n] \cup {t})
        BY <1>7 DEF Put
      <3>2. snap[t][n] = disk[n] \/ n \in reverted
        BY <1>4 DEF Have
      <3>3. DOMAIN Put(image, n, snap[t][n] \cup {t}) = {j \in Inodes : table_block(j) = b}
        BY <1>5, <1>9 DEF Put
      <3> QED
        BY <1>4, <1>9, <3>1, <3>2, <3>3 DEF Put
    <2>6. \A c \in DOMAIN staged'[t] :
             /\ DOMAIN staged'[t][c] = {j \in Inodes : table_block(j) = c}
             /\ \A j \in DOMAIN staged'[t][c] :
                  \/ staged'[t][c][j] = disk[j]
                  \/ j \in goal[t] /\ staged'[t][c][j] = disk[j] \cup {t}
                  \/ j \in reverted
      <3> SUFFICES ASSUME NEW c \in DOMAIN staged'[t]
                   PROVE  /\ DOMAIN staged'[t][c] = {j \in Inodes : table_block(j) = c}
                          /\ \A j \in DOMAIN staged'[t][c] :
                               \/ staged'[t][c][j] = disk[j]
                               \/ j \in goal[t] /\ staged'[t][c][j] = disk[j] \cup {t}
                               \/ j \in reverted
        OBVIOUS
      <3>1. CASE c = b
        BY <2>5, <3>1
      <3>2. CASE c # b
        BY <1>1, <2>4, <3>2 DEF ThreadOK, StagedOK
      <3> QED
        BY <3>1, <3>2
    <2> QED
      BY <1>4, <1>8, <2>3, <2>6 DEF StagedOK
  <1>14. GoalOK(t)'
    <2>1. \A i \in Inodes : Kept(t, i) => Kept(t, i)'
      BY <1>8 DEF Kept
    <2>2. \A i : prog[t][1] \in {Write(i), StageInode(i)} => i = n
      BY <1>3 DEF Write, StageInode, Access
    <2>3. Pending(t, n)'
      BY <1>5, <1>7 DEF Pending, Put
    <2>4. ASSUME NEW i \in goal[t], table_block(i) \in DOMAIN staged[t],
                 t \in staged[t][table_block(i)][i]
          PROVE  table_block(i) \in DOMAIN staged'[t] /\ t \in staged'[t][table_block(i)][i]
      <3>1. CASE table_block(i) # b
        BY <1>7, <2>4, <3>1 DEF Put
      <3>2. CASE table_block(i) = b /\ i # n
        <4>1. i \in Inodes
          BY <1>1 DEF ThreadOK, GoalOK
        <4>2. i \in DOMAIN image /\ image[i] = staged[t][b][i]
          BY <1>6, <1>9, <2>4, <3>2, <4>1
        <4>3. staged'[t][b] = Put(image, n, snap[t][n] \cup {t}) /\ b \in DOMAIN staged'[t]
          BY <1>7 DEF Put
        <4>4. staged'[t][b][i] = image[i]
          BY <3>2, <4>2, <4>3 DEF Put
        <4> QED
          BY <2>4, <3>2, <4>2, <4>3, <4>4
      <3>3. CASE i = n
        BY <1>5, <1>7, <3>3 DEF Put
      <3> QED
        BY <3>1, <3>2, <3>3
    <2> QED
      BY <1>1, <1>3, <1>8, <2>1, <2>2, <2>3, <2>4, GoalAdvance
  <1>15. Shape' /\ Exclusion' /\ \A u \in Threads \ {t} : Apart(u)
    BY <1>1, <1>7, <1>8 DEF Shape, Exclusion, IInv, Apart, Done
  <1> QED
    BY <1>10, <1>12, <1>13, <1>14, <1>15, Assemble DEF ThreadOK

\* A commit is the last access of a thread that has the filesystem to itself.
LEMMA CommitHead ==
    ASSUME IInv, NEW t \in Threads, At(t, "commit", "top")
    PROVE  /\ prog[t] # <<>> /\ prog[t][1].op = "commit" /\ sub[t] = "top"
           /\ held[t] = "exclusive" /\ Len(prog[t]) = 1
  <1>1. /\ ThreadOK(t) /\ prog[t] # <<>> /\ prog[t][1].op = "commit" /\ sub[t] = "top"
        /\ 1 \in 1 .. Len(prog[t])
    BY HeadAt DEF IInv
  <1>2. CommitLast(t, 1)
    BY <1>1 DEF ThreadOK, Disciplined
  <1> QED
    BY <1>1, <1>2 DEF CommitLast, Mode, Access

LEMMA WriteHomeKeeps ==
    ASSUME IInv, NEW t \in Threads, WriteHome(t)
    PROVE  IInv'
  <1>1. Shape /\ ThreadOK(t) /\ At(t, "commit", "top")
    BY DEF IInv, WriteHome
  <1>2. /\ prog[t] # <<>> /\ prog[t][1].op = "commit" /\ sub[t] = "top"
        /\ held[t] = "exclusive" /\ Len(prog[t]) = 1
    BY <1>1, CommitHead
  <1>3. PICK b \in DOMAIN staged[t] :
            /\ disk' = WithBlock(staged[t][b])
            /\ staged' = [staged EXCEPT ![t] = [c \in DOMAIN @ \ {b} |-> @[c]]]
    BY DEF WriteHome
  <1>4. /\ cache' = cache /\ lock' = lock /\ held' = held /\ prog' = prog /\ sub' = sub
        /\ snap' = snap /\ blk' = blk /\ goal' = goal /\ status' = status /\ reverted' = reverted
    BY DEF WriteHome, locks
  <1>5. /\ DOMAIN staged' = Threads /\ DOMAIN staged'[t] = DOMAIN staged[t] \ {b}
        /\ \A c \in DOMAIN staged[t] \ {b} : staged'[t][c] = staged[t][c]
        /\ \A u \in Threads \ {t} : staged'[u] = staged[u]
    BY <1>1, <1>3 DEF Shape
  <1>6. /\ DOMAIN staged[t][b] = {j \in Inodes : table_block(j) = b}
        /\ \A j \in DOMAIN staged[t][b] : \/ staged[t][b][j] = disk[j]
                                          \/ j \in goal[t] /\ staged[t][b][j] = disk[j] \cup {t}
                                          \/ j \in reverted
    BY <1>1 DEF ThreadOK, StagedOK
  <1>7. \A i \in Inodes :
            disk'[i] = IF table_block(i) = b THEN staged[t][b][i] ELSE disk[i]
    BY <1>3, <1>6 DEF WithBlock
  <1>8. \A i \in Inodes :
            disk'[i] = disk[i] \/ (i \in goal[t] /\ disk'[i] = disk[i] \cup {t}) \/ i \in reverted
    BY <1>6, <1>7
  <1>9. CacheCoherent'
    <2>1. \A i \in goal[t] : Writing(t, i)'
      BY <1>1, <1>4 DEF Writing, At
    <2>2. \A i \in Inodes \ goal[t] : ~Writing(t, i)
      BY <1>2 DEF Writing, At
    <2>3. \A i \in DOMAIN cache' :
            \/ cache'[i] = disk'[i] \/ i \in reverted' \/ Writing(t, i)'
            \/ /\ i \in DOMAIN cache /\ cache'[i] = cache[i] /\ disk'[i] = disk[i]
               /\ ~Writing(t, i)
      BY <1>1, <1>4, <1>8, <2>1, <2>2 DEF Shape
    <2> QED
      BY <1>4, <2>3, CacheKept DEF IInv
  <1>10. ASSUME NEW u \in Threads \ {t} PROVE Apart(u)
    <2>1. \A i \in Inodes : ~Owner(u, i)
      BY <1>2 DEF IInv, Exclusion, Owner
    <2> QED
      BY <1>4, <1>5, <1>8, <2>1 DEF Apart
  <1>11. Alive(t)' /\ Placed(t)'
    BY <1>1, <1>2, <1>4 DEF ThreadOK, Alive, Placed
  <1>12. Disciplined(t)'
    <2>1. \A k \in 1 .. Len(prog[t]) : k = 1
      BY <1>2
    <2> QED
      BY <1>2, <1>4, <2>1 DEF Disciplined, GuardFirst, WriteReady, StageReady, CommitLast, Mode
  <1>13. StagedOK(t)'
    <2>1. ASSUME NEW c \in DOMAIN staged'[t]
          PROVE  /\ DOMAIN staged'[t][c] = {j \in Inodes : table_block(j) = c}
                 /\ \A j \in DOMAIN staged'[t][c] :
                      \/ staged'[t][c][j] = disk'[j]
                      \/ j \in goal[t] /\ staged'[t][c][j] = disk'[j] \cup {t}
                      \/ j \in reverted
      <3>1. c \in DOMAIN staged[t] /\ c # b /\ staged'[t][c] = staged[t][c]
        BY <1>5
      <3>2. \A j \in DOMAIN staged[t][c] : disk'[j] = disk[j]
        BY <1>1, <1>7, <3>1 DEF ThreadOK, StagedOK
      <3> QED
        BY <1>1, <3>1, <3>2 DEF ThreadOK, StagedOK
    <2> QED
      BY <1>2, <1>4, <2>1 DEF StagedOK
  <1>14. GoalOK(t)'
    <2>1. goal[t] \subseteq Inodes
      BY <1>1 DEF ThreadOK, GoalOK
    <2>2. ASSUME NEW i \in goal[t], Kept(t, i) PROVE Kept(t, i)'
      BY <1>4, <1>8, <2>1, <2>2 DEF Kept
    <2>3. ASSUME NEW i \in goal[t], Pending(t, i) PROVE Kept(t, i)' \/ Pending(t, i)'
      <3>1. \A k \in 1 .. Len(prog[t]) : prog[t][k] \notin {Write(i), StageInode(i)}
        BY <1>2 DEF Write, StageInode, Access
      <3>2. table_block(i) \in DOMAIN staged[t] /\ t \in staged[t][table_block(i)][i]
        BY <2>3, <3>1 DEF Pending
      <3>3. CASE table_block(i) = b
        BY <1>7, <2>1, <3>2, <3>3 DEF Kept
      <3>4. CASE table_block(i) # b
        BY <1>5, <3>2, <3>4 DEF Pending
      <3> QED
        BY <3>3, <3>4
    <2> QED
      BY <1>1, <1>4, <2>1, <2>2, <2>3 DEF ThreadOK, GoalOK
  <1>15. Shape' /\ Exclusion'
    BY <1>1, <1>4, <1>5 DEF Shape, Exclusion, IInv
  <1> QED
    BY <1>9, <1>10, <1>11, <1>12, <1>13, <1>14, <1>15, Assemble DEF ThreadOK

LEMMA PublishKeeps ==
    ASSUME IInv, NEW t \in Threads, Publish(t)
    PROVE  IInv'
  <1>1. Shape /\ ThreadOK(t) /\ At(t, "commit", "top")
    BY DEF IInv, Publish
  <1>2. /\ prog[t] # <<>> /\ prog[t][1].op = "commit" /\ held[t] = "exclusive"
    BY <1>1, CommitHead
  <1>3. DOMAIN staged[t] = {}
    <2>1. DOMAIN <<>> = {}
      OBVIOUS
    <2> QED
      BY <2>1 DEF Publish
  <1>4. /\ disk' = disk /\ lock' = lock /\ held' = held /\ snap' = snap /\ staged' = staged
        /\ blk' = blk /\ Done(t) /\ reverted' = reverted
    BY DEF Publish, locks, local
  <1>5. \A i \in DOMAIN cache' : i \in DOMAIN cache /\ cache'[i] = cache[i] /\ i \notin goal[t]
    BY DEF Publish
  <1>6. CacheCoherent'
    <2>1. \A i \in Inodes \ goal[t] : ~Writing(t, i)
      BY <1>1, <1>2 DEF Writing, At
    <2>2. \A u \in Threads \ {t} : prog'[u] = prog[u] /\ sub'[u] = sub[u] /\ goal'[u] = goal[u]
      BY <1>1, <1>4 DEF Done, Shape
    <2>3. \A i \in DOMAIN cache' :
            i \in DOMAIN cache /\ cache'[i] = cache[i] /\ disk'[i] = disk[i] /\ ~Writing(t, i)
      BY <1>1, <1>4, <1>5, <2>1 DEF Shape
    <2> QED
      BY <1>4, <2>2, <2>3, CacheKept DEF IInv
  <1>7. Carries(t)
    BY <1>2, <1>4 DEF Carries, Holds, Have, Read, Access
  <1>8. Exclusion'
    BY <1>4 DEF Exclusion, IInv
  <1>9. DOMAIN cache' \subseteq Inodes
    BY <1>1, <1>5 DEF Shape
  <1> QED
    BY <1>1, <1>2, <1>3, <1>4, <1>6, <1>7, <1>8, <1>9, DoneKeeps DEF Shape

LEMMA ReturnKeeps ==
    ASSUME IInv, NEW t \in Threads, Return(t)
    PROVE  IInv'
  <1>1. Shape /\ ThreadOK(t) /\ prog[t] = <<>>
    BY DEF IInv, Return
  <1>2. /\ disk' = disk /\ cache' = cache /\ prog' = prog /\ sub' = sub /\ blk' = blk
        /\ staged' = staged /\ goal' = goal /\ reverted' = reverted
        /\ DOMAIN status' = Threads /\ status'[t] = "ok" /\ status[t] = "run"
        /\ \A u \in Threads \ {t} : status'[u] = status[u]
        /\ DOMAIN held' = Threads /\ held'[t] = "none"
        /\ \A u \in Threads \ {t} : held'[u] = held[u]
        /\ DOMAIN snap' = Threads /\ \A u \in Threads \ {t} : snap'[u] = snap[u]
        /\ DOMAIN lock' = 0 .. (Shards - 1)
    BY <1>1 DEF Return, Shape
  <1>3. \A u \in Threads \ {t}, s \in 0 .. (Shards - 1) : lock'[s] = u <=> lock[s] = u
    BY <1>1, InodeAssumption DEF Return, Shape
  <1>4. Shape' /\ Exclusion'
    BY <1>1, <1>2 DEF Shape, Exclusion, IInv
  <1>5. CacheCoherent'
    <2>1. \A i : ~Writing(t, i)
      BY <1>1 DEF Writing, At
    <2> QED
      BY <1>2, <2>1, CacheSame
  <1>6. DOMAIN staged[t] = {} /\ sub[t] = "top" /\ Len(prog[t]) = 0
    BY <1>1, EmptySeq DEF ThreadOK, StagedOK, Placed, InRead, InWrite
  <1>7. Alive(t)' /\ Placed(t)'
    BY <1>1, <1>2, <1>6 DEF ThreadOK, Alive, Placed
  <1>8. Disciplined(t)' /\ StagedOK(t)'
    BY <1>2, <1>6 DEF Disciplined, StagedOK
  <1>9. GoalOK(t)'
    <2>1. \A i \in Inodes : (Kept(t, i) => Kept(t, i)') /\ (Pending(t, i) => Pending(t, i)')
      BY <1>2 DEF Kept, Pending
    <2> QED
      BY <1>1, <1>2, <2>1 DEF ThreadOK, GoalOK
  <1>10. \A u \in Threads \ {t} : Apart(u)
    BY <1>2, <1>3 DEF Apart
  <1> QED
    BY <1>4, <1>5, <1>7, <1>8, <1>9, <1>10, Assemble DEF ThreadOK

-----------------------------------------------------------------------------
(* The theorems *)

\* A thread that has not begun its operation is disciplined.
LEMMA SoundIsDisciplined ==
    ASSUME NEW t, NEW m \in {"none", "shared", "exclusive"}, Sound(prog[t], m, goal[t]),
           held[t] = "none", sub[t] = "top", DOMAIN staged[t] = {}, status[t] = "run"
    PROVE  ThreadOK(t)
  <1>1. prog[t] \in Programs /\ Alive(t)
    BY DEF Sound, Alive
  <1>2. m # "none" => Mode(t, m)
    BY DEF Sound, Mode
  <1>3. Disciplined(t)
    <2> SUFFICES ASSUME NEW k \in 1 .. Len(prog[t])
                 PROVE  GuardFirst(t, k) /\ WriteReady(t, k) /\ StageReady(t, k) /\ CommitLast(t, k)
      BY DEF Disciplined
    <2>1. GuardFirst(t, k)
      BY DEF GuardFirst, Sound
    <2>2. WriteReady(t, k)
      <3> SUFFICES ASSUME prog[t][k].op = "write" PROVE WriteReady(t, k)
        BY DEF WriteReady
      <3> DEFINE n == prog[t][k].n
      <3>1. /\ m = "shared" /\ \A l \in 1 .. Len(prog[t]) : prog[t][l] = prog[t][k] => l = k
            /\ \E j \in 1 .. k - 1 :
                  /\ prog[t][j] = Read(n)
                  /\ \E l \in 1 .. j - 1 : prog[t][l] = Access("lock", inode_mutation_lock_index(n))
        BY DEF Sound
      <3>2. ReadBefore(t, n, k)
        BY <1>2, <3>1 DEF ReadBefore, OwnsAt
      <3> QED
        BY <1>2, <3>1, <3>2 DEF WriteReady
    <2>3. StageReady(t, k)
      <3> SUFFICES ASSUME prog[t][k].op = "stage" PROVE StageReady(t, k)
        BY DEF StageReady
      <3> DEFINE n == prog[t][k].n
      <3>1. /\ m = "exclusive" /\ n \in goal[t] /\ prog[t][Len(prog[t])].op = "commit"
            /\ \E j \in 1 .. k - 1 : prog[t][j] = Read(n)
        BY DEF Sound
      <3>2. ReadBefore(t, n, k)
        BY <1>2, <3>1 DEF ReadBefore, OwnsAt
      <3> QED
        BY <1>2, <3>1, <3>2 DEF StageReady
    <2>4. CommitLast(t, k)
      BY <1>2 DEF CommitLast, Sound
    <2> QED
      BY <2>1, <2>2, <2>3, <2>4
  <1>4. GoalOK(t)
    BY DEF GoalOK, Pending, Sound
  <1>5. Placed(t) /\ StagedOK(t)
    BY DEF Placed, StagedOK
  <1> QED
    BY <1>1, <1>3, <1>4, <1>5 DEF ThreadOK

LEMMA InitIInv == Init => IInv
  <1> SUFFICES ASSUME Init PROVE IInv
    OBVIOUS
  <1>1. Shape
    BY DEF Init, Shape, NoEntries
  <1>2. Exclusion /\ CacheCoherent
    BY DEF Init, Exclusion, CacheCoherent, NoEntries
  <1>3. ASSUME NEW t \in Threads PROVE ThreadOK(t)
    <2>1. PICK call \in [Threads -> Calls] :
              /\ prog = [u \in Threads |-> Program(call[u][1], call[u][2], call[u][3])]
              /\ goal = [u \in Threads |-> Goal(call[u][1], call[u][2], call[u][3])]
      BY DEF Init
    <2>2. PICK m \in {"none", "shared", "exclusive"} : Sound(prog[t], m, goal[t])
      BY <2>1, CallsAreSound
    <2>3. held[t] = "none" /\ sub[t] = "top" /\ staged[t] = <<>> /\ status[t] = "run"
      BY DEF Init
    <2>4. DOMAIN <<>> = {}
      OBVIOUS
    <2> QED
      BY <2>2, <2>3, <2>4, SoundIsDisciplined
  <1> QED
    BY <1>1, <1>2, <1>3 DEF IInv

LEMMA NextIInv == IInv /\ [Next]_vars => IInv'
  <1> SUFFICES ASSUME IInv, [Next]_vars PROVE IInv'
    OBVIOUS
  <1>1. CASE UNCHANGED vars
    <2>1. Shape' /\ Exclusion' /\ CacheCoherent'
      BY <1>1 DEF IInv, vars, locks, local, Shape, Exclusion, CacheCoherent, Writing, At, Arg
    <2>2. \A u \in Threads : Apart(u)
      BY <1>1 DEF vars, locks, local, Apart
    <2> QED
      BY <2>1, <2>2, OthersKept DEF IInv
  <1>2. ASSUME NEW t \in Threads, Step(t) PROVE IInv'
    <2>1. CASE Guard(t) \/ LockNamespace(t) \/ LockShard(t)
      BY <2>1, GuardKeeps, LockNamespaceKeeps, LockShardKeeps
    <2>2. CASE Lookup(t) \/ Fetch(t) \/ Insert(t)
      BY <2>2, LookupKeeps, FetchKeeps, InsertKeeps
    <2>3. CASE ReadBlock(t) \/ WriteBlock(t) \/ UpdateCache(t)
      BY <2>3, ReadBlockKeeps, WriteBlockKeeps, UpdateCacheKeeps
    <2>4. CASE Stage(t) \/ WriteHome(t) \/ Publish(t) \/ Return(t)
      BY <2>4, StageKeeps, WriteHomeKeeps, PublishKeeps, ReturnKeeps
    <2> QED
      BY <1>2, <2>1, <2>2, <2>3, <2>4 DEF Step
  <1> QED
    BY <1>1, <1>2 DEF Next, Quiet

LEMMA Invariance == Spec => []IInv
  BY InitIInv, NextIInv, PTL DEF Spec

\* Whatever operations of whatever kinds run on whatever inodes: an update that has
\* returned is in the table, unless its inode was put back by a write of a neighbour
\* in its block (write_inode_without_csum, rw.rs:180) or by a lock-free reader's
\* cache insertion (read_inode, rw.rs:149).
THEOREM OnlyRevertedUpdatesAreLostHolds == Spec => []OnlyRevertedUpdatesAreLost
  <1>1. IInv => OnlyRevertedUpdatesAreLost
    <2> SUFFICES ASSUME IInv, NEW t \in Threads, status[t] = "ok", NEW i \in goal[t]
                 PROVE  t \in disk[i] \/ i \in reverted
      BY DEF OnlyRevertedUpdatesAreLost
    <2>1. Kept(t, i) \/ Pending(t, i)
      BY DEF IInv, ThreadOK, GoalOK
    <2>2. prog[t] = <<>>
      BY DEF IInv, ThreadOK, Alive
    <2>3. DOMAIN staged[t] = {}
      BY <2>2 DEF IInv, ThreadOK, StagedOK
    <2>4. ~Pending(t, i)
      BY <2>2, <2>3, EmptySeq DEF Pending
    <2> QED
      BY <2>1, <2>4 DEF Kept
  <1> QED
    BY <1>1, Invariance, PTL

\* Whatever operations run: a cached inode is what the table holds, unless its update
\* is between the write and the cache access, or the inode was put back as above
\* (InodeCache::insert and update, mod.rs:43-60; publish, journal.rs:390).
THEOREM CacheCoherentHolds == Spec => []CacheCoherent
  <1>1. IInv => CacheCoherent
    BY DEF IInv
  <1> QED
    BY <1>1, Invariance, PTL
=============================================================================
