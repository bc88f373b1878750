-------------------------- MODULE NamespaceProofs --------------------------
(***************************************************************************)
(* Until a failure leaves a "name" (Trusted), for any names, any number of *)
(* inodes and any sequence of operations, failed and stopped ones          *)
(* included: no name leads to a free or an orphaned inode, the directories *)
(* form a tree whose link counts are those of its names, no operation but  *)
(* rename_exchange loses a name it was not asked to change, and one that   *)
(* fails without poison leaves every name as it was, but for two writes.   *)
(* After a "name" none of this is claimed: MCLinkRollback.cfg shows what   *)
(* is then lost.                                                           *)
(*                                                                         *)
(* Removing the last name of an inode takes it off the tree, and the code  *)
(* decides by the link count whether a name is the last one.  So the       *)
(* invariant is about link counts: on a mount that still takes mutations   *)
(* no count is below the number of names, a directory has one name, and    *)
(* its "..", if it has a name, is where that name is.  An operation that   *)
(* fails or stops half way leaves at least live names.  That ".." leads to *)
(* the root is the work of check_ancestor_cycle.                           *)
(*                                                                         *)
(* What a step does to the names follows from the writes of its operation: *)
(* each write, and each state a failed write can leave, is compared with   *)
(* the state the operation began in (WritesFrom).                          *)
(***************************************************************************)
EXTENDS Namespace, FiniteSetTheorems, FunctionTheorems, SequenceTheorems,
        WellFoundedInduction, TLAPS

-----------------------------------------------------------------------------
(* What check_ancestor_cycle looks at: the directories from d up to the    *)
(* root are the smallest set that has d in it and, with a directory other  *)
(* than the root, its "..".  The code follows ".." for as many steps as    *)
(* there are inodes; that is enough because a set that still grows after k *)
(* steps has more than k members.                                          *)

\* The ".." of every inode is an inode or none.
Parents(f) == \A i \in Inodes : f.inode[i].dotdot \in Inodes \cup {None}

\* S and the parents of its members.
Upward(f, S) == S \cup ({f.inode[a].dotdot : a \in S \ {Root}} \ {None})

Closed(f, S) == \A i \in S : i # Root /\ f.inode[i].dotdot # None => f.inode[i].dotdot \in S

\* u lists the directories within k steps from d, for each k up to N.
Ascent(f, d, u, N) == u = [k \in 0 .. N |-> IF k = 0 THEN {d} ELSE Upward(f, u[k - 1])]

\* Induction over the naturals, for a set.
LEMMA SetInduction ==
    ASSUME NEW S, 0 \in S, \A n \in Nat : n \in S => n + 1 \in S
    PROVE  \A n \in Nat : n \in S
  <1> DEFINE R == OpToRel(<, Nat)
             B == Nat \ S
  <1>1. IsWellFoundedOn(R, Nat)
    BY NatLessThanWellFounded
  <1>2. \A x, y \in Nat : y < x => <<y, x>> \in R
    BY DEF OpToRel
  <1> HIDE DEF R
  <1> SUFFICES ASSUME B # {} PROVE FALSE
    OBVIOUS
  <1>3. B \subseteq Nat
    OBVIOUS
  <1>4. PICK x \in B : \A y \in B : ~(<<y, x>> \in R)
    <2> HIDE DEF B
    <2> QED
      BY <1>1, <1>3, WFMin
  <1>5. x \in Nat /\ x # 0
    OBVIOUS
  <1>6. x - 1 \in Nat /\ x - 1 < x /\ (x - 1) + 1 = x
    BY <1>5
  <1>7. x - 1 \notin B
    BY <1>2, <1>4, <1>5, <1>6
  <1> QED
    BY <1>6, <1>7

\* An ascent of every height exists.
LEMMA AscentExists ==
    ASSUME NEW f, NEW d
    PROVE  \A N \in Nat : \E u : Ascent(f, d, u, N)
  <1> DEFINE S == {N \in Nat : \E u : Ascent(f, d, u, N)}
  <1>1. 0 \in S
    <2> DEFINE u == [k \in 0 .. 0 |-> {d}]
    <2>1. u = [k \in 0 .. 0 |-> IF k = 0 THEN {d} ELSE Upward(f, u[k - 1])]
      OBVIOUS
    <2>2. Ascent(f, d, u, 0)
      BY <2>1 DEF Ascent
    <2> QED
      BY <2>2
  <1>2. ASSUME NEW n \in Nat, n \in S PROVE n + 1 \in S
    <2>1. PICK u : Ascent(f, d, u, n)
      BY <1>2
    <2>2. \A k \in 0 .. n : u[k] = IF k = 0 THEN {d} ELSE Upward(f, u[k - 1])
      BY <2>1 DEF Ascent
    <2> DEFINE top == Upward(f, u[n])
               v == [k \in 0 .. n + 1 |-> IF k = n + 1 THEN top ELSE u[k]]
               w == [k \in 0 .. n + 1 |-> IF k = 0 THEN {d} ELSE Upward(f, v[k - 1])]
    <2>3. ASSUME NEW k \in 0 .. n + 1 PROVE v[k] = w[k]
      <3>1. CASE k = n + 1
        <4>1. v[k] = top /\ n \in 0 .. n + 1 /\ n # n + 1 /\ k - 1 = n /\ k # 0
          BY <3>1
        <4>2. v[n] = u[n]
          BY <4>1
        <4> QED
          BY <4>1, <4>2
      <3>2. CASE k # n + 1
        <4>1. k \in 0 .. n /\ v[k] = u[k]
          BY <3>2
        <4>2. CASE k = 0
          BY <2>2, <4>1, <4>2
        <4>3. CASE k # 0
          <5>1. k - 1 \in 0 .. n + 1 /\ k - 1 # n + 1
            BY <4>1, <4>3
          <5>2. v[k - 1] = u[k - 1]
            BY <5>1
          <5> QED
            BY <2>2, <4>1, <4>3, <5>2
        <4> QED
          BY <4>2, <4>3
      <3> QED
        BY <3>1, <3>2
    <2>4. v = w
      BY <2>3
    <2>5. Ascent(f, d, v, n + 1)
      BY <2>4 DEF Ascent
    <2> HIDE DEF v
    <2> QED
      BY <2>5
  <1> HIDE DEF S
  <1>3. \A N \in Nat : N \in S
    BY <1>1, <1>2, SetInduction
  <1> QED
    BY <1>3 DEF S

\* Ancestors is the end of one.
LEMMA AncestorsAscend ==
    ASSUME NEW f, NEW d
    PROVE  \E u : Ancestors(f, d) = u[MaxInode] /\ Ascent(f, d, u, MaxInode)
  <1> DEFINE P(u) == u = [k \in 0 .. MaxInode |->
                            IF k = 0 THEN {d}
                            ELSE u[k - 1] \cup ({f.inode[a].dotdot : a \in u[k - 1] \ {Root}} \ {None})]
             up == CHOOSE u : P(u)
  <1>1. \E u : P(u)
    <2>1. PICK u : Ascent(f, d, u, MaxInode)
      BY AscentExists, NamespaceAssumption
    <2>2. P(u)
      BY <2>1 DEF Ascent, Upward
    <2> QED
      BY <2>2
  <1>2. P(up)
    BY <1>1
  <1>3. Ascent(f, d, up, MaxInode)
    BY <1>2 DEF Ascent, Upward
  <1>4. Ancestors(f, d) = up[MaxInode]
    BY DEF Ancestors
  <1> QED
    BY <1>3, <1>4

\* They contain d and with a directory its parent.
LEMMA AncestorsClosed ==
    ASSUME NEW f, NEW d \in Inodes, Parents(f)
    PROVE  d \in Ancestors(f, d) /\ Closed(f, Ancestors(f, d)) /\ Ancestors(f, d) \subseteq Inodes
  <1>1. PICK u : Ancestors(f, d) = u[MaxInode] /\ Ascent(f, d, u, MaxInode)
    BY AncestorsAscend
  <1>2. MaxInode \in Nat /\ \A k \in 0 .. MaxInode : u[k] = IF k = 0 THEN {d} ELSE Upward(f, u[k - 1])
    BY <1>1, NamespaceAssumption DEF Ascent
  <1>3. IsFiniteSet(Inodes) /\ Cardinality(Inodes) = MaxInode
    <2>1. IsFiniteSet(1 .. MaxInode) /\ Cardinality(1 .. MaxInode) = IF 1 > MaxInode THEN 0 ELSE MaxInode - 1 + 1
      BY <1>2, FS_Interval
    <2> QED
      BY <2>1, NamespaceAssumption DEF Inodes
  <1> DEFINE Full(k) == Closed(f, u[k]) \/ Cardinality(u[k]) >= k + 1
             S == {k \in Nat : k <= MaxInode => d \in u[k] /\ u[k] \subseteq Inodes /\ Full(k)}
  <1>4. 0 \in S
    <2>1. u[0] = {d}
      BY <1>2
    <2>2. Cardinality({d}) = 1
      BY FS_Singleton
    <2> QED
      BY <2>1, <2>2
  <1>5. ASSUME NEW k \in Nat, k \in S PROVE k + 1 \in S
    <2> SUFFICES ASSUME k + 1 <= MaxInode
                 PROVE  d \in u[k + 1] /\ u[k + 1] \subseteq Inodes /\ Full(k + 1)
      OBVIOUS
    <2>1. k <= MaxInode /\ k + 1 \in 0 .. MaxInode /\ (k + 1) - 1 = k /\ k + 1 # 0
      BY <1>2
    <2>2. d \in u[k] /\ u[k] \subseteq Inodes /\ Full(k)
      BY <1>5, <2>1
    <2>3. u[k + 1] = Upward(f, u[k])
      BY <1>2, <2>1
    <2>4. u[k] \subseteq u[k + 1] /\ u[k + 1] \subseteq Inodes
      BY <2>2, <2>3 DEF Upward, Parents
    <2>5. CASE Closed(f, u[k])
      <3>1. u[k + 1] = u[k]
        BY <2>3, <2>5 DEF Upward, Closed
      <3> QED
        BY <2>2, <2>5, <3>1
    <2>6. CASE ~Closed(f, u[k])
      <3>1. u[k + 1] # u[k]
        BY <2>3, <2>6 DEF Upward, Closed
      <3>2. Cardinality(u[k]) >= k + 1
        BY <2>2, <2>6
      <3>3. IsFiniteSet(u[k]) /\ IsFiniteSet(u[k + 1])
        BY <1>3, <2>2, <2>4, FS_Subset
      <3>4. Cardinality(u[k]) \in Nat /\ Cardinality(u[k + 1]) \in Nat
        BY <3>3, FS_CardinalityType
      <3>5. Cardinality(u[k]) <= Cardinality(u[k + 1]) /\ Cardinality(u[k]) # Cardinality(u[k + 1])
        BY <2>4, <3>1, <3>3, FS_Subset
      <3>6. Cardinality(u[k + 1]) >= (k + 1) + 1
        BY <3>2, <3>4, <3>5
      <3> QED
        BY <2>2, <2>4, <3>6
    <2> QED
      BY <2>5, <2>6
  <1> HIDE DEF S
  <1>6. MaxInode \in S
    BY <1>2, <1>4, <1>5, SetInduction
  <1>7. d \in u[MaxInode] /\ u[MaxInode] \subseteq Inodes /\ Full(MaxInode)
    BY <1>2, <1>6 DEF S
  <1>8. Cardinality(u[MaxInode]) <= MaxInode /\ Cardinality(u[MaxInode]) \in Nat
    BY <1>3, <1>7, FS_Subset, FS_CardinalityType
  <1> QED
    BY <1>1, <1>2, <1>7, <1>8

\* They are in every such set.
LEMMA AncestorsLeast ==
    ASSUME NEW f, NEW d, NEW T, d \in T, Closed(f, T)
    PROVE  Ancestors(f, d) \subseteq T
  <1>1. PICK u : Ancestors(f, d) = u[MaxInode] /\ Ascent(f, d, u, MaxInode)
    BY AncestorsAscend
  <1>2. MaxInode \in Nat /\ \A k \in 0 .. MaxInode : u[k] = IF k = 0 THEN {d} ELSE Upward(f, u[k - 1])
    BY <1>1, NamespaceAssumption DEF Ascent
  <1> DEFINE S == {k \in Nat : k <= MaxInode => u[k] \subseteq T}
  <1>3. 0 \in S
    BY <1>2
  <1>4. ASSUME NEW k \in Nat, k \in S PROVE k + 1 \in S
    <2> SUFFICES ASSUME k + 1 <= MaxInode PROVE u[k + 1] \subseteq T
      OBVIOUS
    <2>1. k <= MaxInode /\ k + 1 \in 0 .. MaxInode /\ (k + 1) - 1 = k /\ k + 1 # 0
      BY <1>2
    <2>2. u[k] \subseteq T
      BY <1>4, <2>1
    <2>3. u[k + 1] = Upward(f, u[k])
      BY <1>2, <2>1
    <2> QED
      BY <2>2, <2>3 DEF Upward, Closed
  <1> HIDE DEF S
  <1>5. MaxInode \in S
    BY <1>2, <1>3, <1>4, SetInduction
  <1> QED
    BY <1>1, <1>2, <1>5 DEF S

-----------------------------------------------------------------------------
(* Loops of directories *)

\* Following ".." from a member of S stays in S and never meets the root.
Loop(f, S) == S # {} /\ \A i \in S : i # Root /\ f.inode[i].dotdot \in S

\* D are directories whose parents are in D too, or the root, and have no loop.
Treelike(f, D) ==
    /\ D \subseteq Inodes \ {Root}
    /\ \A i \in D : f.inode[i].dotdot \in D \cup {Root}
    /\ \A S \in SUBSET D : ~Loop(f, S)

\* The root has no other ancestors.
LEMMA RootIsTop ==
    ASSUME NEW f
    PROVE  Ancestors(f, Root) \subseteq {Root}
  <1> DEFINE T == {Root}
  <1>1. Root \in T /\ Closed(f, T)
    BY DEF Closed
  <1> HIDE DEF T
  <1>2. Ancestors(f, Root) \subseteq T
    BY <1>1, AncestorsLeast
  <1> QED
    BY <1>2 DEF T

\* Without a loop every way up ends at the root.
LEMMA ReachesRoot ==
    ASSUME NEW f, Parents(f), NEW D, Treelike(f, D), NEW i \in D
    PROVE  Root \in Ancestors(f, i)
  <1> DEFINE A == Ancestors(f, i)
             T == D \cup {Root}
  <1>1. D \subseteq Inodes \ {Root} /\ None \notin Inodes /\ Root # None /\ \A j \in D : f.inode[j].dotdot \in T
    BY DEF Treelike, Inodes, None, Root
  <1>2. i \in T /\ Closed(f, T)
    BY <1>1 DEF Closed
  <1>3. i \in A /\ Closed(f, A)
    BY <1>1, AncestorsClosed
  <1>4. A \subseteq T
    <2> HIDE DEF T, A
    <2> QED
      BY <1>2, AncestorsLeast DEF A
  <1> HIDE DEF A
  <1>5. ASSUME Root \notin A PROVE FALSE
    <2>1. A \in SUBSET D
      BY <1>4, <1>5
    <2>2. Loop(f, A)
      BY <1>1, <1>3, <2>1 DEF Loop, Closed
    <2> QED
      BY <2>1, <2>2 DEF Treelike
  <1> QED
    BY <1>5 DEF A

\* No directory is above its own parent.
LEMMA NotBelowItself ==
    ASSUME NEW f, Parents(f), NEW D, Treelike(f, D), NEW b \in D, NEW e, f.inode[b].dotdot = e
    PROVE  b \notin Ancestors(f, e)
  <1> SUFFICES ASSUME b \in Ancestors(f, e) PROVE FALSE
    OBVIOUS
  <1> DEFINE L == {i \in D : b \in Ancestors(f, i)}
  <1>1. /\ D \subseteq Inodes \ {Root} /\ None \notin Inodes /\ Root \in Inodes
        /\ \A j \in D : f.inode[j].dotdot \in D \cup {Root}
    BY NamespaceAssumption DEF Treelike, Inodes, None, Root
  <1>2. b # Root /\ b \notin Ancestors(f, Root)
    BY <1>1, RootIsTop
  <1>3. e \in L
    BY <1>1, <1>2
  <1>4. ASSUME NEW i \in L PROVE i # Root /\ f.inode[i].dotdot \in L
    <2> DEFINE p == f.inode[i].dotdot
    <2>1. i \in D /\ i # Root /\ p \in D \cup {Root} /\ p \in Inodes /\ b \in Ancestors(f, i)
      BY <1>1
    <2>2. CASE i = b
      BY <1>3, <2>1, <2>2
    <2>3. CASE i # b
      <3> DEFINE T == {i} \cup Ancestors(f, p)
      <3>1. p \in Ancestors(f, p) /\ Closed(f, Ancestors(f, p))
        BY <2>1, AncestorsClosed
      <3>2. i \in T /\ Closed(f, T)
        BY <3>1 DEF Closed
      <3> HIDE DEF T
      <3>3. Ancestors(f, i) \subseteq T
        BY <3>2, AncestorsLeast
      <3>4. b \in Ancestors(f, p)
        BY <2>1, <2>3, <3>3 DEF T
      <3>5. p \in D
        BY <1>2, <2>1, <3>4
      <3> QED
        BY <2>1, <3>4, <3>5
    <2> QED
      BY <2>2, <2>3
  <1>5. Loop(f, L) /\ L \in SUBSET D
    BY <1>3, <1>4 DEF Loop
  <1> QED
    BY <1>5 DEF Treelike

\* Directory a, if it is one of D, is no ancestor of d or e.
NotAbove(f, D, a, d, e) == a \in D => a \notin Ancestors(f, d) /\ a \notin Ancestors(f, e)

\* In g the parent of a is e, and that of x is d.
Reparented(f, g, E, a, x, d, e) ==
    \A i \in E : g.inode[i].dotdot = IF i = a THEN e ELSE IF i = x THEN d ELSE f.inode[i].dotdot

\* A directory that is moved to where it is no ancestor closes no loop.
LEMMA MoveMakesNoLoop ==
    ASSUME NEW f, NEW g, Parents(f), NEW D, Treelike(f, D), NEW E \in SUBSET D,
           NEW a, NEW x, NEW d \in Inodes, NEW e \in Inodes,
           NotAbove(f, D, a, d, e), NotAbove(f, D, x, d, e), Reparented(f, g, E, a, x, d, e)
    PROVE  \A S \in SUBSET E : ~Loop(g, S)
  <1> SUFFICES ASSUME NEW S \in SUBSET E, Loop(g, S) PROVE FALSE
    OBVIOUS
  <1>1. S # {} /\ S \subseteq D /\ \A i \in S : i # Root /\ g.inode[i].dotdot \in S
    BY DEF Loop
  <1>2. D \subseteq Inodes /\ None \notin Inodes
    BY DEF Treelike, Inodes, None
  \* From a place in the loop that is not above a or x the way up is a loop of f.
  <1>3. ASSUME NEW q \in Inodes, q \in S, a \in D => a \notin Ancestors(f, q), x \in D => x \notin Ancestors(f, q)
        PROVE  FALSE
    <2> DEFINE A == Ancestors(f, q)
               T == S \cap A
    <2>1. q \in A /\ Closed(f, A)
      BY AncestorsClosed
    <2> HIDE DEF A
    <2>2. ASSUME NEW i \in T PROVE i # Root /\ f.inode[i].dotdot \in T
      <3>1. i \in S /\ i \in D /\ i \in E /\ i \in A
        BY <1>1
      <3>2. i # a /\ i # x
        BY <1>3, <3>1 DEF A
      <3>3. g.inode[i].dotdot = f.inode[i].dotdot
        BY <3>1, <3>2 DEF Reparented
      <3>4. i # Root /\ f.inode[i].dotdot \in S /\ f.inode[i].dotdot # None
        BY <1>1, <1>2, <3>1, <3>3
      <3> QED
        BY <2>1, <3>1, <3>4 DEF Closed
    <2>3. T # {} /\ T \in SUBSET D
      BY <1>1, <1>3, <2>1
    <2> HIDE DEF T
    <2>4. Loop(f, T)
      BY <2>2, <2>3 DEF Loop
    <2> QED
      BY <2>3, <2>4 DEF Treelike
  <1>4. CASE a \in S
    <2>1. e \in S
      BY <1>1, <1>4 DEF Reparented
    <2> QED
      BY <1>3, <2>1 DEF NotAbove
  <1>5. CASE a \notin S /\ x \in S
    <2>1. d \in S
      BY <1>1, <1>5 DEF Reparented
    <2> QED
      BY <1>3, <2>1 DEF NotAbove
  <1>6. CASE a \notin S /\ x \notin S
    <2>1. Loop(f, S)
      BY <1>1, <1>6 DEF Loop, Reparented
    <2> QED
      BY <1>1, <2>1 DEF Treelike
  <1> QED
    BY <1>4, <1>5, <1>6

-----------------------------------------------------------------------------
(* Records of the filesystem *)

Targets == Inodes \cup {None}

InodeRecords ==
    [kind : {"free", "file", "dir"}, nlink : Int, dotdot : Targets, entry : [Names -> Targets]]

FileSystems == [inode : [Inodes -> InodeRecords], orphans : SUBSET Inodes]

Damage == {"name", "count"}

\* The places that lead to inode i, and the names in directory i that lead to directories.
PlacesOf(f, i) == {p \in Inodes \X Names : f.inode[p[1]].entry[p[2]] = i}
DirNames(f, i) == {n \in Names : f.inode[i].entry[n] # None /\ is_dir(f, f.inode[i].entry[n])}

NameCount(f, i) == Cardinality(PlacesOf(f, i))
DirCount(f, i) == Cardinality(DirNames(f, i))

Named(f, i) == \E d \in Inodes, n \in Names : f.inode[d].entry[n] = i

NamedDirs(f) == {i \in Inodes : is_dir(f, i) /\ Named(f, i)}

\* Every name is in a directory that is linked, and leads to an inode that is linked.
Live(f) ==
    \A d \in Inodes, n \in Names : f.inode[d].entry[n] # None =>
        d \in Dirs(f) /\ f.inode[d].entry[n] \in Linked(f)

LeadsToDir(f, c) == c # None /\ is_dir(f, c)

\* Directory c has the name n in d and no other, and ".." is there.
PlacedAt(f, c, d, n) ==
    /\ c # Root /\ f.inode[c].dotdot = d
    /\ \A e \in Inodes, m \in Names : f.inode[e].entry[m] = c => e = d /\ m = n

\* A directory has one name; the root has none.
OneName(f) ==
    \A d \in Inodes, n \in Names :
        LeadsToDir(f, f.inode[d].entry[n]) => PlacedAt(f, f.inode[d].entry[n], d, n)

\* A link count that follows the names; a failure h may have left it too high.
Fits(h, nlink, exact) == nlink >= exact /\ (h = {} => nlink = exact)

Counted(f, h) ==
    /\ \A i \in Inodes : ~is_dir(f, i) => Fits(h, f.inode[i].nlink, NameCount(f, i))
    /\ \A i \in Inodes : (i = Root \/ Named(f, i)) /\ is_dir(f, i) =>
            Fits(h, f.inode[i].nlink, 2 + DirCount(f, i))

Sound(f, h) ==
    /\ Live(f) /\ OneName(f) /\ Counted(f, h) /\ Treelike(f, NamedDirs(f))
    /\ Root \in Dirs(f)
    /\ \A i \in f.orphans : f.inode[i].kind # "free" /\ f.inode[i].nlink = 0

\* A mount that takes mutations and has no name from a failure.
Undamaged == Mutable /\ Trusted

IInv ==
    /\ fs \in FileSystems /\ poisoned \in BOOLEAN /\ stopped \in BOOLEAN /\ harm \subseteq Damage
    /\ "name" \notin harm => Live(fs)
    /\ Undamaged => Sound(fs, harm)

-----------------------------------------------------------------------------
(* The writes of one field *)

\* g is f with entry n of directory d leading to c.
Entered(f, g, d, n, c) ==
    /\ g \in FileSystems /\ g.orphans = f.orphans
    /\ \A i \in Inodes : /\ g.inode[i].kind = f.inode[i].kind
                         /\ g.inode[i].nlink = f.inode[i].nlink
                         /\ g.inode[i].dotdot = f.inode[i].dotdot
    /\ \A i \in Inodes, m \in Names :
           g.inode[i].entry[m] = IF i = d /\ m = n THEN c ELSE f.inode[i].entry[m]

\* g is f with k links more at inode c.
Relinked(f, g, c, k) ==
    /\ g \in FileSystems /\ g.orphans = f.orphans
    /\ \A i \in Inodes : /\ g.inode[i].kind = f.inode[i].kind
                         /\ g.inode[i].nlink = f.inode[i].nlink + IF i = c THEN k ELSE 0
                         /\ g.inode[i].dotdot = f.inode[i].dotdot
                         /\ g.inode[i].entry = f.inode[i].entry

\* g is f with p as the parent of directory c.
Dotted(f, g, c, p) ==
    /\ g \in FileSystems /\ g.orphans = f.orphans
    /\ \A i \in Inodes : /\ g.inode[i].kind = f.inode[i].kind
                         /\ g.inode[i].nlink = f.inode[i].nlink
                         /\ g.inode[i].dotdot = IF i = c THEN p ELSE f.inode[i].dotdot
                         /\ g.inode[i].entry = f.inode[i].entry

\* g is f with an inode c of this kind that holds nothing.
Remade(f, g, c, kind) ==
    /\ g \in FileSystems /\ g.orphans = f.orphans
    /\ \A i \in Inodes : i # c => g.inode[i] = f.inode[i]
    /\ g.inode[c].kind = kind /\ g.inode[c].nlink = 0 /\ g.inode[c].entry = Nothing

\* The root is an inode, and no inode is None.
LEMMA Numbers == Root \in Inodes /\ None \notin Inodes /\ Targets = Inodes \cup {None} /\ Root # None
  BY NamespaceAssumption DEF Inodes, Root, None, Targets

\* The parts of a file system.
LEMMA Parts ==
    ASSUME NEW f \in FileSystems
    PROVE  /\ f.inode \in [Inodes -> InodeRecords] /\ f.orphans \in SUBSET Inodes
           /\ \A i \in Inodes : /\ f.inode[i] \in InodeRecords
                                /\ f.inode[i].kind \in {"free", "file", "dir"} /\ f.inode[i].nlink \in Int
                                /\ f.inode[i].dotdot \in Targets /\ f.inode[i].entry \in [Names -> Targets]
           /\ \A i \in Inodes, n \in Names : f.inode[i].entry[n] \in Targets
  <1>1. f.inode \in [Inodes -> InodeRecords] /\ f.orphans \in SUBSET Inodes
    BY DEF FileSystems
  <1>2. \A i \in Inodes : f.inode[i] \in InodeRecords
    BY <1>1
  <1>3. \A i \in Inodes : /\ f.inode[i].kind \in {"free", "file", "dir"} /\ f.inode[i].nlink \in Int
                          /\ f.inode[i].dotdot \in Targets /\ f.inode[i].entry \in [Names -> Targets]
    BY <1>2 DEF InodeRecords
  <1> QED
    BY <1>1, <1>2, <1>3

\* An inode of a file system is replaced.
LEMMA InodeReplaced ==
    ASSUME NEW f \in FileSystems, NEW c \in Inodes, NEW r \in InodeRecords
    PROVE  /\ [f EXCEPT !.inode[c] = r] \in FileSystems
           /\ [f EXCEPT !.inode[c] = r].orphans = f.orphans
           /\ \A i \in Inodes : [f EXCEPT !.inode[c] = r].inode[i] = IF i = c THEN r ELSE f.inode[i]
  <1> DEFINE g == [f EXCEPT !.inode[c] = r]
  <1>1. g = [inode |-> [f.inode EXCEPT ![c] = r], orphans |-> f.orphans]
    BY DEF FileSystems
  <1>2. [f.inode EXCEPT ![c] = r] \in [Inodes -> InodeRecords]
    BY Parts
  <1>3. g \in FileSystems
    BY <1>1, <1>2, Parts DEF FileSystems
  <1>4. g.inode = [f.inode EXCEPT ![c] = r] /\ g.orphans = f.orphans
    BY <1>1
  <1> HIDE DEF g
  <1>5. \A i \in Inodes : g.inode[i] = IF i = c THEN r ELSE f.inode[i]
    BY <1>4, Parts
  <1> QED
    BY <1>3, <1>4, <1>5 DEF g

\* SetEntry writes one entry.
LEMMA Enters ==
    ASSUME NEW f \in FileSystems, NEW d \in Inodes, NEW n \in Names, NEW c \in Targets
    PROVE  Entered(f, SetEntry(f, d, n, c), d, n, c)
  <1> DEFINE r == [f.inode[d] EXCEPT !.entry = [f.inode[d].entry EXCEPT ![n] = c]]
             g == SetEntry(f, d, n, c)
  <1>1. f.inode[d] \in InodeRecords /\ f.inode[d].entry \in [Names -> Targets]
    BY Parts
  <1>2. /\ r \in InodeRecords /\ r.kind = f.inode[d].kind /\ r.nlink = f.inode[d].nlink
        /\ r.dotdot = f.inode[d].dotdot /\ r.entry = [f.inode[d].entry EXCEPT ![n] = c]
    BY <1>1 DEF InodeRecords
  <1>3. g = [f EXCEPT !.inode[d] = r]
    BY DEF SetEntry
  <1> HIDE DEF r, g
  <1>4. g \in FileSystems /\ g.orphans = f.orphans /\ \A i \in Inodes : g.inode[i] = IF i = d THEN r ELSE f.inode[i]
    BY <1>2, <1>3, InodeReplaced
  <1>5. \A m \in Names : r.entry[m] = IF m = n THEN c ELSE f.inode[d].entry[m]
    BY <1>1, <1>2
  <1>6. Entered(f, g, d, n, c)
    BY <1>2, <1>4, <1>5 DEF Entered
  <1> QED
    BY <1>6 DEF g

\* AddLinks writes one count.
LEMMA Relinks ==
    ASSUME NEW f \in FileSystems, NEW c \in Inodes, NEW k \in Int
    PROVE  Relinked(f, AddLinks(f, c, k), c, k)
  <1> DEFINE r == [f.inode[c] EXCEPT !.nlink = f.inode[c].nlink + k]
             g == AddLinks(f, c, k)
  <1>1. f.inode[c] \in InodeRecords /\ \A i \in Inodes : f.inode[i].nlink \in Int
    BY Parts
  <1>2. /\ r \in InodeRecords /\ r.kind = f.inode[c].kind /\ r.nlink = f.inode[c].nlink + k
        /\ r.dotdot = f.inode[c].dotdot /\ r.entry = f.inode[c].entry
    BY <1>1 DEF InodeRecords
  <1>3. g = [f EXCEPT !.inode[c] = r]
    BY DEF AddLinks
  <1> HIDE DEF r, g
  <1>4. g \in FileSystems /\ g.orphans = f.orphans /\ \A i \in Inodes : g.inode[i] = IF i = c THEN r ELSE f.inode[i]
    BY <1>2, <1>3, InodeReplaced
  <1>5. Relinked(f, g, c, k)
    BY <1>1, <1>2, <1>4 DEF Relinked
  <1> QED
    BY <1>5 DEF g

\* SetDotdot writes one parent.
LEMMA Dots ==
    ASSUME NEW f \in FileSystems, NEW c \in Inodes, NEW p \in Targets
    PROVE  Dotted(f, SetDotdot(f, c, p), c, p)
  <1> DEFINE r == [f.inode[c] EXCEPT !.dotdot = p]
             g == SetDotdot(f, c, p)
  <1>1. f.inode[c] \in InodeRecords
    BY Parts
  <1>2. /\ r \in InodeRecords /\ r.kind = f.inode[c].kind /\ r.nlink = f.inode[c].nlink
        /\ r.dotdot = p /\ r.entry = f.inode[c].entry
    BY <1>1 DEF InodeRecords
  <1>3. g = [f EXCEPT !.inode[c] = r]
    BY DEF SetDotdot
  <1> HIDE DEF r, g
  <1>4. g \in FileSystems /\ g.orphans = f.orphans /\ \A i \in Inodes : g.inode[i] = IF i = c THEN r ELSE f.inode[i]
    BY <1>2, <1>3, InodeReplaced
  <1>5. Dotted(f, g, c, p)
    BY <1>2, <1>4 DEF Dotted
  <1> QED
    BY <1>5 DEF g

\* An inode is freed, or made anew.
LEMMA Remakes ==
    ASSUME NEW f \in FileSystems, NEW c \in Inodes, NEW kind \in {"file", "dir"}
    PROVE  /\ Remade(f, free_inode(f, c), c, "free")
           /\ Remade(f, [f EXCEPT !.inode[c] = NewInode(kind)], c, kind)
  <1>1. FreeInode = [kind |-> "free", nlink |-> 0, dotdot |-> None, entry |-> Nothing]
    BY DEF FreeInode
  <1>2. NewInode(kind) = [kind |-> kind, nlink |-> 0, dotdot |-> None, entry |-> Nothing]
    BY <1>1 DEF NewInode
  <1>3. Nothing \in [Names -> Targets] /\ None \in Targets
    BY DEF Nothing, Targets
  <1>4. FreeInode \in InodeRecords /\ NewInode(kind) \in InodeRecords
    BY <1>1, <1>2, <1>3 DEF InodeRecords
  <1>5. FreeInode.kind = "free" /\ FreeInode.nlink = 0 /\ FreeInode.entry = Nothing
    BY <1>1
  <1>6. NewInode(kind).kind = kind /\ NewInode(kind).nlink = 0 /\ NewInode(kind).entry = Nothing
    BY <1>2
  <1>7. Remade(f, [f EXCEPT !.inode[c] = FreeInode], c, "free")
    BY <1>4, <1>5, InodeReplaced DEF Remade
  <1>8. Remade(f, [f EXCEPT !.inode[c] = NewInode(kind)], c, kind)
    BY <1>4, <1>6, InodeReplaced DEF Remade
  <1> QED
    BY <1>7, <1>8 DEF free_inode

-----------------------------------------------------------------------------
(* Live names *)

\* An entry that is removed, or leads to a linked inode.
LEMMA LiveEntered ==
    ASSUME NEW f \in FileSystems, NEW g, NEW d \in Dirs(f), NEW n \in Names, NEW c,
           Live(f), Entered(f, g, d, n, c), c \in Linked(f) \cup {None}
    PROVE  Live(g) /\ Linked(g) = Linked(f) /\ Dirs(g) = Dirs(f)
  <1>1. Linked(g) = Linked(f) /\ Dirs(g) = Dirs(f)
    BY DEF Entered, Linked, Dirs, is_dir
  <1>2. \A i \in Inodes, m \in Names : g.inode[i].entry[m] = IF i = d /\ m = n THEN c ELSE f.inode[i].entry[m]
    BY DEF Entered
  <1> QED
    BY <1>1, <1>2 DEF Live

\* A count that does not fall to zero.
LEMMA LiveRelinked ==
    ASSUME NEW f \in FileSystems, NEW g, NEW c \in Inodes, NEW k \in Int,
           Live(f), Relinked(f, g, c, k), c \in Linked(f) => f.inode[c].nlink + k > 0
    PROVE  Live(g) /\ Linked(f) \subseteq Linked(g) /\ Dirs(f) \subseteq Dirs(g)
  <1>1. \A i \in Inodes : f.inode[i].nlink \in Int
    BY Parts
  <1>2. Linked(f) \subseteq Linked(g)
    BY <1>1 DEF Relinked, Linked
  <1>3. Dirs(f) \subseteq Dirs(g)
    BY <1>2 DEF Relinked, Dirs, is_dir, Linked
  <1> QED
    BY <1>2, <1>3 DEF Live, Relinked

\* Parents have no part in it.
LEMMA LiveDotted ==
    ASSUME NEW f \in FileSystems, NEW g, NEW c, NEW p, Live(f), Dotted(f, g, c, p)
    PROVE  Live(g) /\ Linked(g) = Linked(f) /\ Dirs(g) = Dirs(f)
  <1>1. Linked(g) = Linked(f) /\ Dirs(g) = Dirs(f)
    BY DEF Dotted, Linked, Dirs, is_dir
  <1> QED
    BY <1>1 DEF Live, Dotted

\* An inode without a name is freed or made anew.
LEMMA LiveRemade ==
    ASSUME NEW f \in FileSystems, NEW g, NEW c \in Inodes, NEW kind,
           Live(f), Remade(f, g, c, kind), ~Named(f, c)
    PROVE  Live(g) /\ ~Named(g, c) /\ Linked(f) \ {c} \subseteq Linked(g) /\ Dirs(f) \ {c} \subseteq Dirs(g)
  <1>1. Linked(f) \ {c} \subseteq Linked(g) /\ Dirs(f) \ {c} \subseteq Dirs(g)
    BY DEF Remade, Linked, Dirs, is_dir
  <1>2. \A n \in Names : g.inode[c].entry[n] = None
    BY DEF Remade, Nothing
  <1>3. \A i \in Inodes, n \in Names : i # c => g.inode[i].entry[n] = f.inode[i].entry[n]
    BY DEF Remade
  <1>4. None # c
    BY Numbers
  <1> QED
    BY <1>1, <1>2, <1>3, <1>4 DEF Live, Named

-----------------------------------------------------------------------------
(* Counting names *)

\* Names are finitely many.
LEMMA Finite ==
    ASSUME NEW f, NEW i
    PROVE  /\ IsFiniteSet(PlacesOf(f, i)) /\ NameCount(f, i) \in Nat
           /\ IsFiniteSet(DirNames(f, i)) /\ DirCount(f, i) \in Nat
  <1>1. IsFiniteSet(Inodes) /\ IsFiniteSet(Names)
    BY NamespaceAssumption, FS_Interval DEF Inodes
  <1>2. IsFiniteSet(Inodes \X Names)
    BY <1>1, FS_Product
  <1>3. PlacesOf(f, i) \subseteq Inodes \X Names /\ DirNames(f, i) \subseteq Names
    BY DEF PlacesOf, DirNames
  <1>4. IsFiniteSet(PlacesOf(f, i)) /\ IsFiniteSet(DirNames(f, i))
    BY <1>1, <1>2, <1>3, FS_Subset
  <1> QED
    BY <1>4, FS_CardinalityType DEF NameCount, DirCount

\* An inode has a name exactly when it is counted.
LEMMA NamedIsCounted ==
    ASSUME NEW f, NEW i
    PROVE  Named(f, i) <=> NameCount(f, i) > 0
  <1>1. IsFiniteSet(PlacesOf(f, i)) /\ NameCount(f, i) \in Nat
    BY Finite
  <1>2. NameCount(f, i) = 0 <=> PlacesOf(f, i) = {}
    BY <1>1, FS_EmptySet DEF NameCount
  <1>3. Named(f, i) <=> PlacesOf(f, i) # {}
    <2>1. ASSUME Named(f, i) PROVE PlacesOf(f, i) # {}
      <3>1. PICK d \in Inodes, n \in Names : f.inode[d].entry[n] = i
        BY <2>1 DEF Named
      <3>2. <<d, n>> \in PlacesOf(f, i)
        BY <3>1 DEF PlacesOf
      <3> QED
        BY <3>2
    <2>2. ASSUME PlacesOf(f, i) # {} PROVE Named(f, i)
      BY <2>2 DEF PlacesOf, Named
    <2> QED
      BY <2>1, <2>2
  <1> QED
    BY <1>1, <1>2, <1>3

One(b) == IF b THEN 1 ELSE 0

\* A set that loses or gains one member, or neither.
LEMMA OneMore ==
    ASSUME NEW S, NEW T, NEW x, IsFiniteSet(S), T \ {x} = S \ {x}
    PROVE  Cardinality(T) = Cardinality(S) - One(x \in S) + One(x \in T)
  <1>1. IsFiniteSet(S \ {x}) /\ Cardinality(S \ {x}) = Cardinality(S) - One(x \in S)
    <2>1. CASE x \in S
      BY <2>1, FS_RemoveElement DEF One
    <2>2. CASE x \notin S
      <3>1. S \ {x} = S /\ Cardinality(S) \in Nat
        BY <2>2, FS_CardinalityType
      <3> QED
        BY <2>2, <3>1 DEF One
    <2> QED
      BY <2>1, <2>2
  <1>2. Cardinality(S \ {x}) \in Nat
    BY <1>1, FS_CardinalityType
  <1>3. Cardinality(T) = Cardinality(S \ {x}) + One(x \in T)
    <2>1. CASE x \in T
      <3>1. T = (S \ {x}) \cup {x} /\ x \notin S \ {x}
        BY <2>1
      <3>2. Cardinality((S \ {x}) \cup {x}) = Cardinality(S \ {x}) + 1
        BY <1>1, <3>1, FS_AddElement
      <3> QED
        BY <2>1, <3>1, <3>2 DEF One
    <2>2. CASE x \notin T
      <3>1. T = S \ {x}
        BY <2>2
      <3> QED
        BY <1>2, <2>2, <3>1 DEF One
    <2> QED
      BY <2>1, <2>2
  <1> QED
    BY <1>1, <1>3

\* As far as kinds and names go, g is f with entry n of directory d leading to c.
Leads(f, g, d, n, c) ==
    /\ g \in FileSystems
    /\ \A i \in Inodes : g.inode[i].kind = f.inode[i].kind
    /\ \A i \in Inodes, m \in Names :
           g.inode[i].entry[m] = IF i = d /\ m = n THEN c ELSE f.inode[i].entry[m]

\* Writing an entry moves one name from its old to its new inode.
LEMMA EnteredCounts ==
    ASSUME NEW f \in FileSystems, NEW g, NEW d \in Inodes, NEW n \in Names, NEW c,
           Leads(f, g, d, n, c), NEW i \in Inodes
    PROVE  /\ NameCount(g, i) = NameCount(f, i) - One(i = f.inode[d].entry[n]) + One(i = c)
           /\ DirCount(g, i) = DirCount(f, i) +
                IF i = d THEN One(LeadsToDir(f, c)) - One(LeadsToDir(f, f.inode[d].entry[n])) ELSE 0
  <1> DEFINE o == f.inode[d].entry[n]
  <1>1. \A j \in Inodes, m \in Names : g.inode[j].entry[m] = IF j = d /\ m = n THEN c ELSE f.inode[j].entry[m]
    BY DEF Leads
  <1>2. PlacesOf(g, i) \ {<<d, n>>} = PlacesOf(f, i) \ {<<d, n>>}
    BY <1>1 DEF PlacesOf
  <1>3. (<<d, n>> \in PlacesOf(f, i) <=> i = o) /\ (<<d, n>> \in PlacesOf(g, i) <=> i = c)
    BY <1>1 DEF PlacesOf
  <1>4. NameCount(g, i) = NameCount(f, i) - One(i = o) + One(i = c)
    <2>1. Cardinality(PlacesOf(g, i)) = Cardinality(PlacesOf(f, i))
              - One(<<d, n>> \in PlacesOf(f, i)) + One(<<d, n>> \in PlacesOf(g, i))
      BY <1>2, Finite, OneMore
    <2> QED
      BY <1>3, <2>1 DEF NameCount, One
  <1>5. \A x \in Targets : LeadsToDir(g, x) <=> LeadsToDir(f, x)
    BY DEF Leads, LeadsToDir, is_dir, Targets
  <1>6. \A j \in Inodes, m \in Names : g.inode[j].entry[m] \in Targets /\ f.inode[j].entry[m] \in Targets
    BY Parts DEF Leads
  <1>7. /\ DirNames(f, i) = {m \in Names : LeadsToDir(f, f.inode[i].entry[m])}
        /\ DirNames(g, i) = {m \in Names : LeadsToDir(f, g.inode[i].entry[m])}
    <2>1. DirNames(g, i) = {m \in Names : LeadsToDir(g, g.inode[i].entry[m])}
      BY DEF DirNames, LeadsToDir
    <2>2. DirNames(f, i) = {m \in Names : LeadsToDir(f, f.inode[i].entry[m])}
      BY DEF DirNames, LeadsToDir
    <2> QED
      BY <1>5, <1>6, <2>1, <2>2
  <1>8. CASE i # d
    <2>1. DirNames(g, i) = DirNames(f, i)
      BY <1>1, <1>7, <1>8
    <2> QED
      BY <1>4, <1>8, <2>1, Finite DEF DirCount
  <1>9. CASE i = d
    <2>1. DirNames(g, i) \ {n} = DirNames(f, i) \ {n}
      BY <1>1, <1>7, <1>9
    <2>2. (n \in DirNames(f, i) <=> LeadsToDir(f, o)) /\ (n \in DirNames(g, i) <=> LeadsToDir(f, c))
      BY <1>1, <1>7, <1>9
    <2>3. Cardinality(DirNames(g, i)) = Cardinality(DirNames(f, i))
              - One(n \in DirNames(f, i)) + One(n \in DirNames(g, i))
      BY <2>1, Finite, OneMore
    <2>4. Cardinality(DirNames(f, i)) \in Nat
      BY Finite DEF DirCount
    <2> QED
      BY <1>4, <1>9, <2>2, <2>3, <2>4 DEF DirCount, One
  <1> QED
    BY <1>8, <1>9

\* The counts after d's name came to lead to c instead of o.
CountsAfter(f, g, d, o, c) ==
    \A i \in Inodes :
        /\ NameCount(g, i) = NameCount(f, i) - One(i = o) + One(i = c)
        /\ DirCount(g, i) = DirCount(f, i) +
             IF i = d THEN One(LeadsToDir(f, c)) - One(LeadsToDir(f, o)) ELSE 0

LEMMA CountsAfterLeads ==
    ASSUME NEW f \in FileSystems, NEW g, NEW d \in Inodes, NEW n \in Names, NEW c, NEW o,
           Leads(f, g, d, n, c), o = f.inode[d].entry[n]
    PROVE  CountsAfter(f, g, d, o, c)
  <1> SUFFICES ASSUME NEW i \in Inodes
               PROVE  /\ NameCount(g, i) = NameCount(f, i) - One(i = f.inode[d].entry[n]) + One(i = c)
                      /\ DirCount(g, i) = DirCount(f, i) +
                           IF i = d THEN One(LeadsToDir(f, c)) - One(LeadsToDir(f, f.inode[d].entry[n])) ELSE 0
    BY DEF CountsAfter
  <1> QED
    BY EnteredCounts

\* Other writes leave the names.
LEMMA SameCounts ==
    ASSUME NEW f \in FileSystems, NEW g \in FileSystems,
           \A i \in Inodes : g.inode[i].kind = f.inode[i].kind /\ g.inode[i].entry = f.inode[i].entry,
           NEW i \in Inodes
    PROVE  NameCount(g, i) = NameCount(f, i) /\ DirCount(g, i) = DirCount(f, i) /\ (Named(g, i) <=> Named(f, i))
  <1>1. PlacesOf(g, i) = PlacesOf(f, i)
    BY DEF PlacesOf
  <1>2. \A m \in Names : f.inode[i].entry[m] \in Targets /\ g.inode[i].entry[m] = f.inode[i].entry[m]
    BY Parts
  <1>3. DirNames(g, i) = DirNames(f, i)
    <2>1. \A x \in Targets : LeadsToDir(g, x) <=> LeadsToDir(f, x)
      BY DEF LeadsToDir, is_dir, Targets
    <2>2. /\ DirNames(f, i) = {m \in Names : LeadsToDir(f, f.inode[i].entry[m])}
          /\ DirNames(g, i) = {m \in Names : LeadsToDir(g, g.inode[i].entry[m])}
      BY DEF DirNames, LeadsToDir
    <2> QED
      BY <1>2, <2>1, <2>2
  <1> QED
    BY <1>1, <1>3 DEF NameCount, DirCount, Named

\* So does freeing or making an inode that has no name and holds none.
LEMMA RemadeCounts ==
    ASSUME NEW f \in FileSystems, NEW g, NEW c \in Inodes, NEW kind, Remade(f, g, c, kind), ~Named(f, c),
           \A n \in Names : f.inode[c].entry[n] = None, NEW i \in Inodes
    PROVE  NameCount(g, i) = NameCount(f, i) /\ DirCount(g, i) = DirCount(f, i) /\ (Named(g, i) <=> Named(f, i))
  <1>1. \A j \in Inodes, m \in Names : /\ g.inode[j].entry[m] = f.inode[j].entry[m]
                                       /\ f.inode[j].entry[m] \in Targets /\ f.inode[j].entry[m] # c
    <2>1. \A m \in Names : g.inode[c].entry[m] = None
      BY DEF Remade, Nothing
    <2>2. \A j \in Inodes, m \in Names : f.inode[j].entry[m] \in Targets /\ f.inode[j].entry[m] # c
      BY Parts DEF Named
    <2> QED
      BY <2>1, <2>2 DEF Remade
  <1>2. \A j \in Inodes : j # c => g.inode[j].kind = f.inode[j].kind
    BY DEF Remade
  <1>3. PlacesOf(g, i) = PlacesOf(f, i)
    BY <1>1 DEF PlacesOf
  <1>4. DirNames(g, i) = DirNames(f, i)
    <2>1. \A x \in Targets : x # c => (LeadsToDir(g, x) <=> LeadsToDir(f, x))
      BY <1>2 DEF LeadsToDir, is_dir, Targets
    <2>2. /\ DirNames(f, i) = {m \in Names : LeadsToDir(f, f.inode[i].entry[m])}
          /\ DirNames(g, i) = {m \in Names : LeadsToDir(g, g.inode[i].entry[m])}
      BY DEF DirNames, LeadsToDir
    <2> QED
      BY <1>1, <2>1, <2>2
  <1> QED
    BY <1>1, <1>3, <1>4 DEF NameCount, DirCount, Named

-----------------------------------------------------------------------------
(* Rows of writes *)

\* What a failed write may leave: with a name that leads to a freed inode nothing more
\* is said; else the names are live, and without poison the file system is sound.
Tolerable(x, h) ==
    "name" \notin x.harm => Live(x.fs) /\ (x.poisoned = FALSE => Sound(x.fs, h \cup x.harm))

Lefts == [fs : FileSystems, poisoned : BOOLEAN, harm : SUBSET Damage]

SafeWrites(h) ==
    {w \in [fs : FileSystems, failed : SUBSET Lefts] :
        Live(w.fs) /\ \A x \in w.failed : Tolerable(x, h)}

\* An operation whose writes are safe and whose end is sound keeps the invariant, however
\* it ends.
LEMMA RunsSafely ==
    ASSUME IInv, Undamaged, NEW row \in Seq(SafeWrites(harm)), row # <<>>,
           Sound(row[Len(row)].fs, harm), Runs(row)
    PROVE  IInv'
  <1>1. Len(row) \in Nat \ {0} /\ \A k \in 1 .. Len(row) : row[k] \in SafeWrites(harm)
    BY ElementOfSeq, EmptySeq
  <1>2. DOMAIN row = 1 .. Len(row)
    BY LenProperties
  <1>3. \A k \in 1 .. Len(row) : /\ row[k].fs \in FileSystems /\ row[k].failed \subseteq Lefts /\ Live(row[k].fs)
                                 /\ \A x \in row[k].failed : Tolerable(x, harm)
    BY <1>1 DEF SafeWrites
  <1>4. poisoned = FALSE /\ stopped = FALSE /\ "name" \notin harm /\ harm \subseteq Damage
    BY DEF IInv, Undamaged, Mutable, Trusted
  <1>5. CASE Completes(row)
    <2>1. fs' = row[Len(row)].fs /\ UNCHANGED <<poisoned, stopped, harm>>
      BY <1>5 DEF Completes
    <2>2. fs' \in FileSystems /\ Live(fs')
      BY <1>1, <1>3, <2>1
    <2> QED
      BY <1>4, <2>1, <2>2 DEF IInv
  <1>6. CASE Fails(row)
    <2>1. PICK k \in 1 .. Len(row) : \E x \in row[k].failed :
              fs' = x.fs /\ poisoned' = x.poisoned /\ harm' = harm \cup x.harm
      BY <1>2, <1>6 DEF Fails
    <2>2. PICK x \in row[k].failed : fs' = x.fs /\ poisoned' = x.poisoned /\ harm' = harm \cup x.harm
      BY <2>1
    <2>3. x.fs \in FileSystems /\ x.poisoned \in BOOLEAN /\ x.harm \subseteq Damage /\ Tolerable(x, harm)
      BY <1>3 DEF Lefts
    <2>4. stopped' = FALSE
      BY <1>4, <1>6 DEF Fails
    <2>5. "name" \notin harm' => "name" \notin x.harm
      BY <2>2
    <2>6. "name" \notin harm' => Live(fs')
      BY <2>2, <2>3, <2>5 DEF Tolerable
    <2>7. Undamaged' => Sound(fs', harm')
      <3>1. Undamaged' => x.poisoned = FALSE /\ "name" \notin x.harm
        BY <2>2, <2>3, <2>5 DEF Undamaged, Mutable, Trusted
      <3> QED
        BY <2>2, <2>3, <3>1 DEF Tolerable
    <2> QED
      BY <1>4, <2>2, <2>3, <2>4, <2>6, <2>7 DEF IInv
  <1>7. CASE Stops(row)
    <2>1. PICK k \in 1 .. Len(row) - 1 : fs' = row[k].fs
      BY <1>7 DEF Stops
    <2>2. stopped' = TRUE /\ UNCHANGED <<poisoned, harm>>
      BY <1>7 DEF Stops
    <2>3. fs' \in FileSystems /\ Live(fs')
      BY <1>1, <1>3, <2>1
    <2> QED
      BY <1>4, <2>2, <2>3 DEF IInv, Undamaged, Mutable, Trusted
  <1> QED
    BY <1>5, <1>6, <1>7 DEF Runs

\* The parts of what is left.
LEMMA LeftParts ==
    ASSUME NEW f \in FileSystems, NEW p \in BOOLEAN, NEW H \in SUBSET Damage
    PROVE  /\ Left(f, p, H) \in Lefts
           /\ Left(f, p, H).fs = f /\ Left(f, p, H).poisoned = p /\ Left(f, p, H).harm = H
  <1>1. Left(f, p, H) = [fs |-> f, poisoned |-> p, harm |-> H]
    BY DEF Left
  <1>2. Left(f, p, H) \in Lefts
    BY <1>1 DEF Lefts
  <1>3. Left(f, p, H).fs = f /\ Left(f, p, H).poisoned = p /\ Left(f, p, H).harm = H
    BY <1>1
  <1> QED
    BY <1>2, <1>3

\* What is left without harm and without poison must be sound.
LEMMA CleanIsTolerable ==
    ASSUME NEW f \in FileSystems, NEW h, Sound(f, h)
    PROVE  Clean(f) \in Lefts /\ Tolerable(Clean(f), h) /\ Clean(f).fs = f /\ Live(f)
  <1>1. /\ Clean(f) \in Lefts /\ Clean(f).fs = f /\ Clean(f).harm = {}
    <2>1. \A H \in SUBSET Damage : /\ Left(f, FALSE, H) \in Lefts /\ Left(f, FALSE, H).fs = f
                                   /\ Left(f, FALSE, H).harm = H
      BY LeftParts
    <2>2. \E H \in SUBSET Damage : H = {}
      OBVIOUS
    <2> QED
      BY <2>1, <2>2 DEF Clean
  <1>2. Live(f) /\ h \cup {} = h
    BY DEF Sound
  <1> QED
    BY <1>1, <1>2 DEF Tolerable

\* Of a poisoned mount only live names are asked.
LEMMA PoisonIsTolerable ==
    ASSUME NEW f \in FileSystems, NEW h, Live(f)
    PROVE  Left(f, TRUE, {}) \in Lefts /\ Tolerable(Left(f, TRUE, {}), h) /\ Left(f, TRUE, {}).fs = f
  <1>1. /\ Left(f, TRUE, {}) \in Lefts /\ Left(f, TRUE, {}).fs = f
        /\ Left(f, TRUE, {}).poisoned = TRUE /\ Left(f, TRUE, {}).harm = {}
    <2>1. \A H \in SUBSET Damage : /\ Left(f, TRUE, H) \in Lefts /\ Left(f, TRUE, H).fs = f
                                   /\ Left(f, TRUE, H).poisoned = TRUE /\ Left(f, TRUE, H).harm = H
      BY LeftParts
    <2>2. \E H \in SUBSET Damage : H = {}
      OBVIOUS
    <2> QED
      BY <2>1, <2>2
  <1> QED
    BY <1>1 DEF Tolerable

\* A count left too high.
LEMMA CountIsTolerable ==
    ASSUME NEW f \in FileSystems, NEW h, Sound(f, h \cup {"count"})
    PROVE  /\ Left(f, FALSE, {"count"}) \in Lefts /\ Tolerable(Left(f, FALSE, {"count"}), h)
           /\ Left(f, FALSE, {"count"}).fs = f
  <1>1. /\ Left(f, FALSE, {"count"}) \in Lefts /\ Left(f, FALSE, {"count"}).fs = f
        /\ Left(f, FALSE, {"count"}).harm = {"count"}
    <2>1. {"count"} \in SUBSET Damage
      BY DEF Damage
    <2> QED
      BY <2>1, LeftParts
  <1>2. Live(f)
    BY DEF Sound
  <1> QED
    BY <1>1, <1>2 DEF Tolerable

\* A name left without its inode.
LEMMA NameIsTolerable ==
    ASSUME NEW f \in FileSystems, NEW h, NEW p \in BOOLEAN
    PROVE  /\ Left(f, p, {"name"}) \in Lefts /\ Tolerable(Left(f, p, {"name"}), h)
           /\ Left(f, p, {"name"}).harm = {"name"}
  <1>1. {"name"} \in SUBSET Damage
    BY DEF Damage
  <1>2. Left(f, p, {"name"}) \in Lefts /\ Left(f, p, {"name"}).harm = {"name"}
    BY <1>1, LeftParts
  <1> QED
    BY <1>2 DEF Tolerable

\* A write that may leave any of F.
LEMMA WriteIsSafe ==
    ASSUME NEW f \in FileSystems, NEW h, Live(f), NEW F, F \subseteq Lefts, \A x \in F : Tolerable(x, h)
    PROVE  W(f, F) \in SafeWrites(h) /\ W(f, F).fs = f /\ W(f, F).failed = F
  <1>1. W(f, F) = [fs |-> f, failed |-> F] /\ W(f, F).fs = f /\ W(f, F).failed = F
    BY DEF W
  <1> QED
    BY <1>1 DEF SafeWrites

\* poison_on_error around a write between two file systems with live names.
LEMMA GuardedIsSafe ==
    ASSUME NEW f \in FileSystems, NEW g \in FileSystems, NEW h, Live(f), Live(g)
    PROVE  Guarded(f, g) \in SafeWrites(h) /\ Guarded(f, g).fs = g
  <1> DEFINE F == Poisons({f, g})
  <1>1. F = {Left(f, TRUE, {}), Left(g, TRUE, {})}
    BY DEF Poisons
  <1>2. F \subseteq Lefts /\ \A x \in F : Tolerable(x, h)
    BY <1>1, PoisonIsTolerable
  <1> HIDE DEF F
  <1>3. W(g, F) \in SafeWrites(h) /\ W(g, F).fs = g
    BY <1>2, WriteIsSafe
  <1> QED
    BY <1>3 DEF Guarded, F

-----------------------------------------------------------------------------
(* Sound file systems *)

\* The counts change as the names do.
Balanced(f, g) ==
    /\ \A i \in Inodes : is_dir(g, i) <=> is_dir(f, i)
    /\ \A i \in Inodes : ~is_dir(f, i) =>
           g.inode[i].nlink - NameCount(g, i) = f.inode[i].nlink - NameCount(f, i)
    /\ \A i \in Inodes : is_dir(f, i) /\ (i = Root \/ Named(g, i)) =>
           /\ i = Root \/ Named(f, i)
           /\ g.inode[i].nlink - DirCount(g, i) = f.inode[i].nlink - DirCount(f, i)

LEMMA BalancedIsCounted ==
    ASSUME NEW f \in FileSystems, NEW g \in FileSystems, NEW h, Counted(f, h), Balanced(f, g)
    PROVE  Counted(g, h)
  <1>1. \A i \in Inodes : f.inode[i].nlink \in Int /\ g.inode[i].nlink \in Int
    BY Parts
  <1>2. \A i \in Inodes : /\ NameCount(f, i) \in Nat /\ NameCount(g, i) \in Nat
                          /\ DirCount(f, i) \in Nat /\ DirCount(g, i) \in Nat
    BY Finite
  <1>3. ASSUME NEW i \in Inodes, ~is_dir(g, i) PROVE Fits(h, g.inode[i].nlink, NameCount(g, i))
    <2>1. /\ g.inode[i].nlink - NameCount(g, i) = f.inode[i].nlink - NameCount(f, i)
          /\ Fits(h, f.inode[i].nlink, NameCount(f, i))
      BY <1>3 DEF Balanced, Counted
    <2> QED
      BY <1>1, <1>2, <2>1 DEF Fits
  <1>4. ASSUME NEW i \in Inodes, is_dir(g, i), i = Root \/ Named(g, i)
        PROVE  Fits(h, g.inode[i].nlink, 2 + DirCount(g, i))
    <2>1. /\ g.inode[i].nlink - DirCount(g, i) = f.inode[i].nlink - DirCount(f, i)
          /\ Fits(h, f.inode[i].nlink, 2 + DirCount(f, i))
      BY <1>4 DEF Balanced, Counted
    <2> QED
      BY <1>1, <1>2, <2>1 DEF Fits
  <1> QED
    BY <1>3, <1>4 DEF Counted

\* A tree stays one when no parent in it changes.
LEMMA TreelikeKept ==
    ASSUME NEW f, NEW g, NEW D, Treelike(f, D), \A i \in D : g.inode[i].dotdot = f.inode[i].dotdot
    PROVE  Treelike(g, D)
  <1>1. \A S \in SUBSET D : Loop(g, S) => Loop(f, S)
    BY DEF Loop
  <1> QED
    BY <1>1 DEF Treelike

\* The directories that have names keep names, kinds and parents.
LEMMA OneNameSame ==
    ASSUME NEW f \in FileSystems, NEW g, OneName(f),
           \A i \in Inodes, m \in Names : g.inode[i].entry[m] = f.inode[i].entry[m],
           \A i \in Inodes : Named(f, i) =>
               g.inode[i].kind = f.inode[i].kind /\ g.inode[i].dotdot = f.inode[i].dotdot
    PROVE  OneName(g)
  <1> SUFFICES ASSUME NEW d \in Inodes, NEW n \in Names, LeadsToDir(g, g.inode[d].entry[n])
               PROVE  PlacedAt(g, g.inode[d].entry[n], d, n)
    BY DEF OneName
  <1> DEFINE c == f.inode[d].entry[n]
  <1>1. c = g.inode[d].entry[n] /\ c \in Inodes
    BY Parts DEF LeadsToDir, Targets
  <1>2. Named(f, c)
    BY <1>1 DEF Named
  <1>3. g.inode[c].kind = f.inode[c].kind /\ g.inode[c].dotdot = f.inode[c].dotdot
    BY <1>1, <1>2
  <1>4. PlacedAt(f, c, d, n)
    BY <1>1, <1>3 DEF OneName, LeadsToDir, is_dir
  <1> QED
    BY <1>1, <1>3, <1>4 DEF PlacedAt

LEMMA TreelikeSame ==
    ASSUME NEW f \in FileSystems, NEW g, Treelike(f, NamedDirs(f)),
           \A i \in Inodes, m \in Names : g.inode[i].entry[m] = f.inode[i].entry[m],
           \A i \in Inodes : Named(f, i) =>
               g.inode[i].kind = f.inode[i].kind /\ g.inode[i].dotdot = f.inode[i].dotdot
    PROVE  Treelike(g, NamedDirs(g))
  <1>1. \A i \in Inodes : Named(g, i) <=> Named(f, i)
    BY DEF Named
  <1>2. NamedDirs(g) = NamedDirs(f) /\ \A i \in NamedDirs(f) : g.inode[i].dotdot = f.inode[i].dotdot
    BY <1>1 DEF NamedDirs, is_dir
  <1> DEFINE D == NamedDirs(f)
  <1>3. Treelike(f, D) /\ \A i \in D : g.inode[i].dotdot = f.inode[i].dotdot
    BY <1>2
  <1> HIDE DEF D
  <1>4. Treelike(g, D)
    BY <1>3, TreelikeKept
  <1> QED
    BY <1>2, <1>4 DEF D

\* More damage allows more.
LEMMA SoundWeaker ==
    ASSUME NEW f, NEW h, NEW H, Sound(f, h)
    PROVE  Sound(f, h \cup H)
  BY DEF Sound, Counted, Fits

\* One link too many.
LEMMA SoundMore ==
    ASSUME NEW f \in FileSystems, NEW g, NEW c \in Inodes, NEW h, Sound(f, h),
           Relinked(f, g, c, 1), c \notin f.orphans
    PROVE  Sound(g, h \cup {"count"}) /\ Live(g)
  <1>1. \A i \in Inodes : f.inode[i].nlink \in Int
    BY Parts
  <1>2. /\ g \in FileSystems /\ g.orphans = f.orphans
        /\ \A i \in Inodes : /\ g.inode[i].kind = f.inode[i].kind /\ g.inode[i].entry = f.inode[i].entry
                             /\ g.inode[i].dotdot = f.inode[i].dotdot
                             /\ g.inode[i].nlink >= f.inode[i].nlink
                             /\ i # c => g.inode[i].nlink = f.inode[i].nlink
    BY <1>1 DEF Relinked
  <1>3. \A i \in Inodes : /\ NameCount(g, i) = NameCount(f, i) /\ DirCount(g, i) = DirCount(f, i)
                          /\ Named(g, i) <=> Named(f, i)
    BY <1>2, SameCounts
  <1>4. \A i \in Inodes : /\ NameCount(f, i) \in Nat /\ DirCount(f, i) \in Nat /\ g.inode[i].nlink \in Int
    BY <1>2, Finite, Parts
  <1>5. Live(g) /\ Dirs(f) \subseteq Dirs(g)
    <2>1. c \in Linked(f) => f.inode[c].nlink + 1 > 0
      BY <1>1 DEF Linked
    <2> QED
      BY <2>1, LiveRelinked DEF Sound
  <1>6. OneName(g) /\ Treelike(g, NamedDirs(g))
    BY <1>2, OneNameSame, TreelikeSame DEF Sound
  <1>7. Counted(g, h \cup {"count"})
    <2>1. \A i \in Inodes : is_dir(g, i) <=> is_dir(f, i)
      BY <1>2 DEF is_dir
    <2>2. h \cup {"count"} # {}
      OBVIOUS
    <2> QED
      BY <1>1, <1>2, <1>3, <1>4, <2>1, <2>2 DEF Sound, Counted, Fits
  <1>8. f.orphans \subseteq Inodes
    BY Parts
  <1> QED
    BY <1>2, <1>5, <1>6, <1>7, <1>8 DEF Sound

\* An inode nobody knows of.
Detached(f, c) ==
    c # Root /\ c \notin f.orphans /\ ~Named(f, c) /\ \A n \in Names : f.inode[c].entry[n] = None

\* It may be freed, or made anew.
LEMMA SoundRemade ==
    ASSUME NEW f \in FileSystems, NEW g, NEW c \in Inodes, NEW kind, NEW h, Sound(f, h),
           Remade(f, g, c, kind), Detached(f, c)
    PROVE  Sound(g, h) /\ Detached(g, c)
  <1>1. /\ Live(g) /\ ~Named(g, c) /\ Dirs(f) \ {c} \subseteq Dirs(g)
    BY LiveRemade DEF Sound, Detached
  <1>2. \A i \in Inodes : /\ NameCount(g, i) = NameCount(f, i) /\ DirCount(g, i) = DirCount(f, i)
                          /\ Named(g, i) <=> Named(f, i)
    BY RemadeCounts DEF Detached
  <1>3. \A n \in Names : g.inode[c].entry[n] = None
    BY DEF Remade, Nothing
  <1>4. Root \in Dirs(g)
    BY <1>1 DEF Sound, Detached
  <1>5. \A i \in g.orphans : g.inode[i].kind # "free" /\ g.inode[i].nlink = 0
    BY Parts DEF Sound, Remade, Detached
  <1>6. \A i \in Inodes, m \in Names : g.inode[i].entry[m] = f.inode[i].entry[m] /\ f.inode[i].entry[m] \in Targets \ {c}
    <2>1. \A i \in Inodes, m \in Names : f.inode[i].entry[m] \in Targets \ {c}
      BY Parts DEF Detached, Named
    <2> QED
      BY <1>3, <2>1 DEF Remade, Detached
  <1>7. OneName(g) /\ Treelike(g, NamedDirs(g))
    BY <1>6, OneNameSame, TreelikeSame DEF Sound, Remade, Detached
  <1>8. Counted(g, h)
    <2>1. \A i \in Inodes : i # c => g.inode[i] = f.inode[i]
      BY DEF Remade
    <2>2. NameCount(g, c) = 0 /\ g.inode[c].nlink = 0
      BY <1>1, NamedIsCounted, Finite DEF Remade
    <2>3. ASSUME NEW i \in Inodes, ~is_dir(g, i) PROVE Fits(h, g.inode[i].nlink, NameCount(g, i))
      <3>1. CASE i = c
        BY <2>2, <3>1 DEF Fits
      <3>2. CASE i # c
        BY <1>2, <2>1, <2>3, <3>2 DEF Sound, Counted, is_dir
      <3> QED
        BY <3>1, <3>2
    <2>4. ASSUME NEW i \in Inodes, is_dir(g, i), i = Root \/ Named(g, i)
          PROVE  Fits(h, g.inode[i].nlink, 2 + DirCount(g, i))
      <3>1. i # c
        BY <1>1, <2>4 DEF Detached
      <3> QED
        BY <1>2, <2>1, <2>4, <3>1 DEF Sound, Counted, is_dir
    <2> QED
      BY <2>3, <2>4 DEF Counted
  <1> QED
    BY <1>1, <1>3, <1>4, <1>5, <1>7, <1>8 DEF Sound, Detached, Remade

\* A directory without a name gets its ".." or its links.
LEMMA SoundDetached ==
    ASSUME NEW f \in FileSystems, NEW g, NEW c \in Inodes, NEW p, NEW k \in Nat, NEW h, Sound(f, h),
           Detached(f, c), is_dir(f, c), Dotted(f, g, c, p) \/ Relinked(f, g, c, k)
    PROVE  Sound(g, h) /\ Detached(g, c) /\ is_dir(g, c)
  <1>1. /\ g \in FileSystems /\ g.orphans = f.orphans
        /\ \A i \in Inodes : /\ g.inode[i].kind = f.inode[i].kind /\ g.inode[i].entry = f.inode[i].entry
                             /\ i # c => g.inode[i].dotdot = f.inode[i].dotdot /\ g.inode[i].nlink = f.inode[i].nlink
    <2>1. \A i \in Inodes : f.inode[i].nlink \in Int
      BY Parts
    <2> QED
      BY <2>1 DEF Dotted, Relinked
  <1>2. Live(g) /\ Dirs(f) \subseteq Dirs(g)
    <2>1. CASE Dotted(f, g, c, p)
      BY <2>1, LiveDotted DEF Sound
    <2>2. CASE Relinked(f, g, c, k)
      <3>1. c \in Linked(f) => f.inode[c].nlink + k > 0
        BY Parts DEF Linked
      <3> QED
        BY <2>2, <3>1, LiveRelinked DEF Sound
    <2> QED
      BY <2>1, <2>2
  <1>3. \A i \in Inodes : /\ NameCount(g, i) = NameCount(f, i) /\ DirCount(g, i) = DirCount(f, i)
                          /\ Named(g, i) <=> Named(f, i)
    BY <1>1, SameCounts
  <1>4. \A i \in Inodes : is_dir(g, i) <=> is_dir(f, i)
    BY <1>1 DEF is_dir
  <1>5. OneName(g) /\ Treelike(g, NamedDirs(g))
    BY <1>1, OneNameSame, TreelikeSame DEF Sound, Detached
  <1>6. Counted(g, h)
    <2>1. ASSUME NEW i \in Inodes, ~is_dir(g, i) PROVE Fits(h, g.inode[i].nlink, NameCount(g, i))
      <3>1. i # c
        BY <1>4, <2>1
      <3> QED
        BY <1>1, <1>3, <1>4, <2>1, <3>1 DEF Sound, Counted
    <2>2. ASSUME NEW i \in Inodes, is_dir(g, i), i = Root \/ Named(g, i)
          PROVE  Fits(h, g.inode[i].nlink, 2 + DirCount(g, i))
      <3>1. i # c
        BY <1>3, <2>2 DEF Detached
      <3> QED
        BY <1>1, <1>3, <1>4, <2>2, <3>1 DEF Sound, Counted
    <2> QED
      BY <2>1, <2>2 DEF Counted
  <1>7. \A i \in g.orphans : g.inode[i].kind # "free" /\ g.inode[i].nlink = 0
    BY <1>1, Parts DEF Sound, Detached
  <1>8. Detached(g, c)
    BY <1>1, <1>3 DEF Detached
  <1> QED
    BY <1>2, <1>4, <1>5, <1>6, <1>7, <1>8 DEF Sound

-----------------------------------------------------------------------------
(* Putting rows together *)

\* A row of safe writes that ends in g.
RowTo(row, h, g) == row \in Seq(SafeWrites(h)) /\ row # <<>> /\ row[Len(row)].fs = g

\* Nothing that a failure in the row leaves knows inode c, but for a harmed name.
Forgets(row, c) ==
    \A k \in 1 .. Len(row) : \A x \in row[k].failed : "name" \notin x.harm => Detached(x.fs, c)

LEMMA OneWrite ==
    ASSUME NEW h, NEW a \in SafeWrites(h)
    PROVE  <<a>> \in Seq(SafeWrites(h)) /\ RowTo(<<a>>, h, a.fs)
  <1>1. <<a>> \in Seq(SafeWrites(h)) /\ <<a>> # <<>> /\ Len(<<a>>) = 1 /\ <<a>>[1] = a
    OBVIOUS
  <1> QED
    BY <1>1 DEF RowTo

LEMMA TwoWrites ==
    ASSUME NEW h, NEW a \in SafeWrites(h), NEW b \in SafeWrites(h)
    PROVE  <<a, b>> \in Seq(SafeWrites(h)) /\ RowTo(<<a, b>>, h, b.fs)
  <1>1. <<a, b>> \in Seq(SafeWrites(h)) /\ <<a, b>> # <<>> /\ Len(<<a, b>>) = 2 /\ <<a, b>>[2] = b
    OBVIOUS
  <1> QED
    BY <1>1 DEF RowTo

LEMMA Joined ==
    ASSUME NEW h, NEW s \in Seq(SafeWrites(h)), NEW t, NEW g, RowTo(t, h, g)
    PROVE  RowTo(s \o t, h, g)
  <1>1. t \in Seq(SafeWrites(h)) /\ t # <<>> /\ t[Len(t)].fs = g
    BY DEF RowTo
  <1>2. Len(s) \in Nat /\ Len(t) \in Nat /\ Len(t) > 0
    BY <1>1, LenProperties, EmptySeq
  <1>3. /\ s \o t \in Seq(SafeWrites(h)) /\ Len(s \o t) = Len(s) + Len(t)
        /\ \A i \in 1 .. Len(s) + Len(t) : (s \o t)[i] = IF i <= Len(s) THEN s[i] ELSE t[i - Len(s)]
    BY <1>1, ConcatProperties
  <1>4. (s \o t)[Len(s) + Len(t)] = t[Len(t)]
    BY <1>2, <1>3
  <1>5. s \o t # <<>>
    BY <1>2, <1>3, EmptySeq
  <1> QED
    BY <1>1, <1>3, <1>4, <1>5 DEF RowTo

\* After a failure the new inode is freed, or stays.
LEMMA OrFreeIsSafe ==
    ASSUME NEW h, NEW row, NEW g, NEW c \in Inodes, RowTo(row, h, g), Forgets(row, c)
    PROVE  RowTo(OrFree(row, c), h, g)
  <1> DEFINE freed(x) == [x EXCEPT !.fs = free_inode(x.fs, c)]
             all(F) == UNION {{freed(x), x} : x \in F}
             out == OrFree(row, c)
  <1>1. /\ row \in Seq(SafeWrites(h)) /\ row # <<>> /\ row[Len(row)].fs = g
        /\ DOMAIN row = 1 .. Len(row) /\ Len(row) \in Nat /\ Len(row) > 0
    BY LenProperties, EmptySeq DEF RowTo
  <1>2. out = [k \in 1 .. Len(row) |-> [row[k] EXCEPT !.failed = all(row[k].failed)]]
    BY <1>1 DEF OrFree
  <1>3. ASSUME NEW k \in 1 .. Len(row)
        PROVE  out[k] \in SafeWrites(h) /\ out[k].fs = row[k].fs
    <2> DEFINE F == row[k].failed
    <2>1. row[k] \in SafeWrites(h)
      BY <1>1, ElementOfSeq
    <2>2. row[k] \in [fs : FileSystems, failed : SUBSET Lefts] /\ Live(row[k].fs)
          /\ F \subseteq Lefts /\ \A x \in F : Tolerable(x, h)
      BY <2>1 DEF SafeWrites
    <2>3. ASSUME NEW x \in F PROVE freed(x) \in Lefts /\ Tolerable(freed(x), h)
      <3>1. x \in Lefts /\ Tolerable(x, h) /\ ("name" \notin x.harm => Detached(x.fs, c))
        BY <2>2 DEF Forgets
      <3>2. x.fs \in FileSystems
        BY <3>1 DEF Lefts
      <3>3. Remade(x.fs, free_inode(x.fs, c), c, "free")
        BY <3>2, Remakes
      <3>4. free_inode(x.fs, c) \in FileSystems
        BY <3>3 DEF Remade
      <3>5. /\ freed(x) \in Lefts /\ freed(x).fs = free_inode(x.fs, c)
            /\ freed(x).harm = x.harm /\ freed(x).poisoned = x.poisoned
        BY <3>1, <3>4 DEF Lefts
      <3>6. ASSUME "name" \notin x.harm
            PROVE  /\ Live(free_inode(x.fs, c))
                   /\ x.poisoned = FALSE => Sound(free_inode(x.fs, c), h \cup x.harm)
        <4>1. Detached(x.fs, c) /\ Live(x.fs)
          BY <3>1, <3>6 DEF Tolerable
        <4>2. Live(free_inode(x.fs, c))
          BY <3>2, <3>3, <4>1, LiveRemade DEF Detached
        <4>3. ASSUME x.poisoned = FALSE PROVE Sound(free_inode(x.fs, c), h \cup x.harm)
          <5>1. Sound(x.fs, h \cup x.harm)
            BY <3>1, <3>6, <4>3 DEF Tolerable
          <5> QED
            BY <3>2, <3>3, <4>1, <5>1, SoundRemade
        <4> QED
          BY <4>2, <4>3
      <3> HIDE DEF freed
      <3> QED
        BY <3>5, <3>6 DEF Tolerable
    <2> HIDE DEF freed, F
    <2>4. all(F) \subseteq Lefts /\ \A x \in all(F) : Tolerable(x, h)
      BY <2>2, <2>3
    <2> HIDE DEF all
    <2>5. out[k] = [row[k] EXCEPT !.failed = all(F)]
      BY <1>2 DEF F
    <2>6. /\ out[k] \in [fs : FileSystems, failed : SUBSET Lefts]
          /\ out[k].fs = row[k].fs /\ out[k].failed = all(F)
      BY <2>2, <2>4, <2>5
    <2> QED
      BY <2>2, <2>4, <2>6 DEF SafeWrites
  <1> HIDE DEF all, freed, out
  <1>4. /\ out \in [1 .. Len(row) -> SafeWrites(h)]
    <2>1. out = [k \in 1 .. Len(row) |-> out[k]]
      BY <1>2
    <2> QED
      BY <1>3, <2>1
  <1>5. out \in Seq(SafeWrites(h)) /\ Len(out) = Len(row)
    BY <1>1, <1>4
  <1>6. out # <<>>
    BY <1>1, <1>5, EmptySeq
  <1>7. out[Len(out)].fs = g
    BY <1>1, <1>3, <1>5
  <1>8. RowTo(out, h, g)
    BY <1>5, <1>6, <1>7 DEF RowTo
  <1> QED
    BY <1>8 DEF out

-----------------------------------------------------------------------------
(* Names for files *)

\* A file gets one more name and one more link; if it was an orphan it is none now.
LEMMA FileNamed ==
    ASSUME NEW f \in FileSystems, NEW g \in FileSystems, NEW h, Sound(f, h),
           NEW d \in Dirs(f), NEW n \in Names, NEW c \in Inodes, f.inode[d].entry[n] = None,
           f.inode[c].kind = "file", g.orphans = f.orphans \ {c}, Leads(f, g, d, n, c),
           \A i \in Inodes : /\ g.inode[i].dotdot = f.inode[i].dotdot
                             /\ g.inode[i].nlink = f.inode[i].nlink + IF i = c THEN 1 ELSE 0
    PROVE  Sound(g, h)
  <1>1. d \in Inodes /\ None \notin Inodes
    BY Numbers DEF Dirs, Linked
  <1>2. /\ \A i \in Inodes : g.inode[i].kind = f.inode[i].kind
        /\ \A i \in Inodes, m \in Names :
             g.inode[i].entry[m] = IF i = d /\ m = n THEN c ELSE f.inode[i].entry[m]
    BY DEF Leads
  <1>3. \A i \in Inodes : f.inode[i].nlink \in Int /\ NameCount(f, i) \in Nat /\ DirCount(f, i) \in Nat
    BY Parts, Finite
  <1>4. f.inode[c].nlink >= 0
    <2>1. Fits(h, f.inode[c].nlink, NameCount(f, c))
      BY DEF Sound, Counted, is_dir
    <2> QED
      BY <1>3, <2>1 DEF Fits
  <1>5. c \in Linked(g) /\ Linked(f) \subseteq Linked(g) /\ Dirs(f) \subseteq Dirs(g)
    <2>1. c \in Linked(g) /\ Linked(f) \subseteq Linked(g)
      BY <1>2, <1>3, <1>4 DEF Linked
    <2> QED
      BY <1>2, <2>1 DEF Dirs, is_dir, Linked
  <1>6. Live(g)
    BY <1>1, <1>2, <1>5 DEF Live, Sound
  <1>7. \A i \in Inodes : is_dir(g, i) <=> is_dir(f, i)
    BY <1>2 DEF is_dir
  <1>8. ~is_dir(f, c) /\ c # Root
    BY DEF is_dir, Sound, Dirs
  <1>9. OneName(g)
    <2> SUFFICES ASSUME NEW e \in Inodes, NEW m \in Names, LeadsToDir(g, g.inode[e].entry[m])
                 PROVE  PlacedAt(g, g.inode[e].entry[m], e, m)
      BY DEF OneName
    <2> DEFINE x == g.inode[e].entry[m]
    <2>1. x \in Inodes /\ is_dir(f, x) /\ x # c
      BY <1>7, <1>8, Parts DEF LeadsToDir, Targets
    <2>2. x = f.inode[e].entry[m]
      BY <1>2, <2>1
    <2>3. PlacedAt(f, x, e, m)
      BY <1>1, <2>1, <2>2 DEF Sound, OneName, LeadsToDir
    <2> QED
      BY <1>2, <2>1, <2>3 DEF PlacedAt
  <1>10. Balanced(f, g)
    <2>0. CountsAfter(f, g, d, None, c)
      BY <1>1, CountsAfterLeads
    <2>1. \A i \in Inodes : /\ NameCount(g, i) = NameCount(f, i) - One(i = None) + One(i = c)
                            /\ DirCount(g, i) = DirCount(f, i) +
                                 IF i = d THEN One(LeadsToDir(f, c)) - One(LeadsToDir(f, None)) ELSE 0
      BY <2>0 DEF CountsAfter
    <2>2. One(LeadsToDir(f, c)) = 0 /\ One(LeadsToDir(f, None)) = 0 /\ \A i \in Inodes : One(i = None) = 0
      BY <1>1, <1>8 DEF One, LeadsToDir
    <2>3. \A i \in Inodes : /\ NameCount(g, i) = NameCount(f, i) + IF i = c THEN 1 ELSE 0
                            /\ DirCount(g, i) = DirCount(f, i)
      BY <1>3, <2>1, <2>2 DEF One
    <2>4. \A i \in Inodes : is_dir(f, i) /\ Named(g, i) => Named(f, i)
      <3>1. \A i \in Inodes : i # c /\ Named(g, i) => Named(f, i)
        BY <1>2 DEF Named
      <3> QED
        BY <1>8, <3>1
    <2>5. \A i \in Inodes : g.inode[i].nlink - NameCount(g, i) = f.inode[i].nlink - NameCount(f, i)
      BY <1>3, <2>3
    <2>6. \A i \in Inodes : is_dir(f, i) => g.inode[i].nlink = f.inode[i].nlink
      BY <1>3, <1>8
    <2> QED
      BY <1>7, <2>3, <2>4, <2>5, <2>6 DEF Balanced
  <1>11. Counted(g, h)
    BY <1>10, BalancedIsCounted DEF Sound
  <1>12. \A i \in g.orphans : g.inode[i].kind # "free" /\ g.inode[i].nlink = 0
    BY <1>2, <1>3, Parts DEF Sound
  <1>13. Treelike(g, NamedDirs(g))
    <2>1. \A i \in Inodes : is_dir(f, i) => (Named(g, i) <=> Named(f, i))
      BY <1>1, <1>2, <1>8 DEF Named
    <2>2. NamedDirs(g) = NamedDirs(f) /\ \A i \in NamedDirs(f) : g.inode[i].dotdot = f.inode[i].dotdot
      BY <1>7, <2>1 DEF NamedDirs
    <2> DEFINE D == NamedDirs(f)
    <2>3. Treelike(f, D) /\ \A i \in D : g.inode[i].dotdot = f.inode[i].dotdot
      BY <2>2 DEF Sound
    <2> HIDE DEF D
    <2>4. Treelike(g, D)
      BY <2>3, TreelikeKept
    <2> QED
      BY <2>2, <2>4 DEF D
  <1> QED
    BY <1>5, <1>6, <1>9, <1>11, <1>12, <1>13 DEF Sound

\* The last write of link_inode and what it may leave.
LEMMA AddLastIsSafe ==
    ASSUME NEW f0 \in FileSystems, NEW f \in FileSystems, NEW h, Sound(f0, h), Live(f),
           NEW d \in Dirs(f), NEW n \in Names, NEW c \in Linked(f)
    PROVE  /\ AddLast(f0, f, d, n, c) \in SafeWrites(h)
           /\ AddLast(f0, f, d, n, c).fs = SetEntry(f, d, n, c)
           /\ Detached(f0, c) /\ Detached(f, c) =>
                \A x \in AddLast(f0, f, d, n, c).failed : "name" \notin x.harm => Detached(x.fs, c)
  <1> DEFINE g == SetEntry(f, d, n, c)
             g0 == SetEntry(f0, d, n, c)
             F == {Clean(f0), Left(g0, FALSE, {"name"}), Left(f, TRUE, {}), Left(g, TRUE, {"name"})}
  <1>1. d \in Inodes /\ c \in Inodes /\ c \in Targets
    BY DEF Dirs, Linked, Targets
  <1>2. Entered(f, g, d, n, c) /\ Entered(f0, g0, d, n, c)
    BY <1>1, Enters
  <1>3. g \in FileSystems /\ g0 \in FileSystems
    BY <1>2 DEF Entered
  <1>4. Live(g)
    BY <1>2, LiveEntered
  <1> HIDE DEF g, g0
  <1>5. F \subseteq Lefts /\ (\A x \in F : Tolerable(x, h)) /\ Clean(f0).fs = f0 /\ Left(f, TRUE, {}).fs = f
        /\ \A x \in F : x = Clean(f0) \/ x = Left(f, TRUE, {}) \/ x.harm = {"name"}
    BY <1>3, CleanIsTolerable, NameIsTolerable, PoisonIsTolerable
  <1>6. AddLast(f0, f, d, n, c) = W(g, F)
    BY DEF AddLast, g, g0
  <1> HIDE DEF F
  <1>7. W(g, F) \in SafeWrites(h) /\ W(g, F).fs = g /\ W(g, F).failed = F
    BY <1>3, <1>4, <1>5, WriteIsSafe
  <1> QED
    BY <1>5, <1>6, <1>7 DEF g

\* link_inode of a file that is no orphan.
LEMMA LinkRow ==
    ASSUME NEW f \in FileSystems, NEW h, Sound(f, h), NEW d \in Dirs(f), NEW n \in Names, NEW c \in Inodes,
           f.inode[d].entry[n] = None, f.inode[c].kind = "file", c \notin f.orphans
    PROVE  /\ \E g \in FileSystems : RowTo(link_inode(f, d, c, n), h, g) /\ Sound(g, h)
           /\ Detached(f, c) => Forgets(link_inode(f, d, c, n), c)
  <1> DEFINE up == AddLinks(f, c, 1)
             g == SetEntry(up, d, n, c)
             F == {Clean(f), Left(up, FALSE, {"count"})}
             a == W(up, F)
             b == AddLast(f, up, d, n, c)
  <1>1. Relinked(f, up, c, 1)
    BY Relinks
  <1>2. d \in Inodes /\ c \in Targets
    BY DEF Dirs, Linked, Targets
  <1>3. /\ up \in FileSystems /\ up.orphans = f.orphans
        /\ \A i \in Inodes : /\ up.inode[i].kind = f.inode[i].kind /\ up.inode[i].entry = f.inode[i].entry
                             /\ up.inode[i].dotdot = f.inode[i].dotdot
                             /\ up.inode[i].nlink = f.inode[i].nlink + IF i = c THEN 1 ELSE 0
    BY <1>1 DEF Relinked
  <1> HIDE DEF up
  <1>4. Sound(up, h \cup {"count"}) /\ Live(up)
    BY <1>1, SoundMore
  <1>5. Entered(up, g, d, n, c)
    BY <1>2, <1>3, Enters
  <1> HIDE DEF g
  <1>6. g \in FileSystems /\ Sound(g, h)
    <2>1. g \in FileSystems /\ g.orphans = f.orphans \ {c}
      BY <1>3, <1>5 DEF Entered
    <2>2. Leads(f, g, d, n, c)
      BY <1>3, <1>5 DEF Entered, Leads
    <2>3. \A i \in Inodes : /\ g.inode[i].dotdot = f.inode[i].dotdot
                            /\ g.inode[i].nlink = f.inode[i].nlink + IF i = c THEN 1 ELSE 0
      BY <1>3, <1>5 DEF Entered
    <2> QED
      BY <2>1, <2>2, <2>3, FileNamed
  <1>7. d \in Dirs(up) /\ c \in Linked(up)
    <2>1. \A i \in Inodes : f.inode[i].nlink \in Int
      BY Parts
    <2>2. f.inode[c].nlink >= 0
      <3>1. Fits(h, f.inode[c].nlink, NameCount(f, c)) /\ NameCount(f, c) \in Nat
        BY Finite DEF Sound, Counted, is_dir
      <3> QED
        BY <2>1, <3>1 DEF Fits
    <2> QED
      BY <1>3, <2>1, <2>2 DEF Dirs, Linked, is_dir
  <1>8. /\ b \in SafeWrites(h) /\ b.fs = g
        /\ Detached(f, c) /\ Detached(up, c) => \A x \in b.failed : "name" \notin x.harm => Detached(x.fs, c)
    BY <1>3, <1>4, <1>7, AddLastIsSafe DEF g
  <1>9. /\ F \subseteq Lefts /\ (\A x \in F : Tolerable(x, h))
        /\ Clean(f).fs = f /\ Left(up, FALSE, {"count"}).fs = up
    BY <1>3, <1>4, CleanIsTolerable, CountIsTolerable
  <1> DEFINE row == <<a, b>>
  <1>10. link_inode(f, d, c, n) = row
    BY DEF link_inode, up
  <1>11. a \in SafeWrites(h) /\ a.failed = F
    <2> HIDE DEF F
    <2> QED
      BY <1>3, <1>4, <1>9, WriteIsSafe
  <1> HIDE DEF a, b
  <1>12. RowTo(row, h, g)
    BY <1>8, <1>11, TwoWrites
  <1>13. Detached(f, c) => Forgets(row, c)
    <2> SUFFICES ASSUME Detached(f, c) PROVE Forgets(row, c)
      OBVIOUS
    <2>1. Detached(up, c)
      BY <1>3 DEF Detached, Named
    <2>2. \A x \in a.failed : Detached(x.fs, c)
      BY <1>9, <1>11, <2>1
    <2>3. \A x \in b.failed : "name" \notin x.harm => Detached(x.fs, c)
      BY <1>8, <2>1
    <2>4. Len(row) = 2 /\ row[1] = a /\ row[2] = b
      OBVIOUS
    <2> QED
      BY <2>2, <2>3, <2>4 DEF Forgets
  <1> QED
    BY <1>6, <1>10, <1>12, <1>13

\* A free inode is known to nobody.
LEMMA FreeIsDetached ==
    ASSUME NEW f \in FileSystems, NEW h, Sound(f, h), NEW c \in Inodes, f.inode[c].kind = "free"
    PROVE  Detached(f, c)
  <1>1. c # Root /\ c \notin f.orphans /\ c \notin Linked(f) /\ c \notin Dirs(f)
    BY DEF Sound, Dirs, Linked, is_dir
  <1>2. \A n \in Names : f.inode[c].entry[n] = None
    BY <1>1 DEF Sound, Live
  <1>3. ~Named(f, c)
    BY <1>1, Numbers DEF Sound, Live, Named
  <1> QED
    BY <1>1, <1>2, <1>3 DEF Detached

\* alloc_inode and the initialization of the new inode.
LEMMA CreateInodeIsSafe ==
    ASSUME NEW f \in FileSystems, NEW h, Sound(f, h), NEW c \in Inodes, f.inode[c].kind = "free",
           NEW kind \in {"file", "dir"}
    PROVE  /\ create_inode(f, c, kind) \in SafeWrites(h)
           /\ Remade(f, create_inode(f, c, kind).fs, c, kind)
           /\ Sound(create_inode(f, c, kind).fs, h) /\ Detached(create_inode(f, c, kind).fs, c)
  <1> DEFINE new == [f EXCEPT !.inode[c] = NewInode(kind)]
             F == {Clean(f)} \cup Poisons({new})
  <1>1. Remade(f, new, c, kind)
    BY Remakes
  <1> HIDE DEF new
  <1>2. Detached(f, c)
    BY FreeIsDetached
  <1>3. Sound(new, h) /\ Detached(new, c) /\ new \in FileSystems
    BY <1>1, <1>2, SoundRemade DEF Remade
  <1>4. F = {Clean(f), Left(new, TRUE, {})}
    BY DEF Poisons
  <1>5. Live(new)
    BY <1>3 DEF Sound
  <1>6. F \subseteq Lefts /\ \A x \in F : Tolerable(x, h)
    BY <1>3, <1>4, <1>5, CleanIsTolerable, PoisonIsTolerable
  <1>7. create_inode(f, c, kind) = W(new, F)
    BY DEF create_inode, new
  <1> HIDE DEF F
  <1>8. W(new, F) \in SafeWrites(h) /\ W(new, F).fs = new
    BY <1>3, <1>5, <1>6, WriteIsSafe
  <1> QED
    BY <1>1, <1>3, <1>7, <1>8

\* create and mknod.
LEMMA CreateRow ==
    ASSUME NEW f \in FileSystems, NEW h, Sound(f, h), NEW d \in Dirs(f), NEW n \in Names, NEW c \in Inodes,
           f.inode[d].entry[n] = None, f.inode[c].kind = "free"
    PROVE  \E g \in FileSystems : RowTo(create(f, d, n, c), h, g) /\ Sound(g, h)
  <1> DEFINE new == create_inode(f, c, "file")
             row == link_inode(new.fs, d, c, n)
  <1>1. /\ new \in SafeWrites(h) /\ Remade(f, new.fs, c, "file")
        /\ Sound(new.fs, h) /\ Detached(new.fs, c)
    BY CreateInodeIsSafe
  <1> HIDE DEF new
  <1>2. new.fs \in FileSystems /\ d # c /\ d \in Dirs(new.fs) /\ new.fs.inode[d].entry[n] = None
        /\ new.fs.inode[c].kind = "file" /\ c \notin new.fs.orphans
    BY <1>1 DEF Remade, Dirs, Linked, is_dir, Detached
  <1>3. PICK g \in FileSystems : RowTo(row, h, g) /\ Sound(g, h)
    BY <1>1, <1>2, LinkRow
  <1>4. Forgets(row, c)
    BY <1>1, <1>2, LinkRow
  <1> HIDE DEF row
  <1>5. RowTo(OrFree(row, c), h, g)
    BY <1>3, <1>4, OrFreeIsSafe
  <1>6. <<new>> \in Seq(SafeWrites(h))
    BY <1>1, OneWrite
  <1>7. RowTo(<<new>> \o OrFree(row, c), h, g)
    BY <1>5, <1>6, Joined
  <1>8. create(f, d, n, c) = <<new>> \o OrFree(row, c)
    BY DEF create, link_new_inode_or_free, new, row
  <1> QED
    BY <1>3, <1>7, <1>8

-----------------------------------------------------------------------------
(* New directories *)

\* A directory gets its name, its parent and the links of both.
LEMMA DirNamed ==
    ASSUME NEW f \in FileSystems, NEW g \in FileSystems, NEW h, Sound(f, h),
           NEW d \in Dirs(f), d = Root \/ Named(f, d), NEW n \in Names, NEW c \in Inodes, f.inode[d].entry[n] = None,
           is_dir(f, c), Detached(f, c), d # c, g.orphans = f.orphans, Leads(f, g, d, n, c),
           \A i \in Inodes : /\ g.inode[i].dotdot = IF i = c THEN d ELSE f.inode[i].dotdot
                             /\ g.inode[i].nlink = IF i = c THEN 2 ELSE f.inode[i].nlink + IF i = d THEN 1 ELSE 0
    PROVE  Sound(g, h)
  <1>1. d \in Inodes /\ None \notin Inodes
    BY Numbers DEF Dirs, Linked
  <1>2. /\ \A i \in Inodes : g.inode[i].kind = f.inode[i].kind
        /\ \A i \in Inodes, m \in Names :
             g.inode[i].entry[m] = IF i = d /\ m = n THEN c ELSE f.inode[i].entry[m]
    BY DEF Leads
  <1>3. \A i \in Inodes : f.inode[i].nlink \in Int /\ NameCount(f, i) \in Nat /\ DirCount(f, i) \in Nat
    BY Parts, Finite
  <1>4. c \in Linked(g) /\ Linked(f) \subseteq Linked(g) /\ Dirs(f) \subseteq Dirs(g)
    <2>1. c \in Linked(g) /\ Linked(f) \subseteq Linked(g)
      BY <1>2, <1>3 DEF Linked, is_dir
    <2> QED
      BY <1>2, <2>1 DEF Dirs, is_dir, Linked
  <1>5. Live(g)
    BY <1>1, <1>2, <1>4 DEF Live, Sound
  <1>6. \A i \in Inodes : is_dir(g, i) <=> is_dir(f, i)
    BY <1>2 DEF is_dir
  <1>7. \A e \in Inodes, m \in Names : f.inode[e].entry[m] # c
    BY DEF Detached, Named
  <1>8. OneName(g)
    <2> SUFFICES ASSUME NEW e \in Inodes, NEW m \in Names, LeadsToDir(g, g.inode[e].entry[m])
                 PROVE  PlacedAt(g, g.inode[e].entry[m], e, m)
      BY DEF OneName
    <2> DEFINE x == g.inode[e].entry[m]
    <2>1. x \in Inodes /\ is_dir(f, x)
      BY <1>6, Parts DEF LeadsToDir, Targets
    <2>2. CASE x = c
      BY <1>2, <1>7, <2>2 DEF PlacedAt, Detached
    <2>3. CASE x # c
      <3>1. x = f.inode[e].entry[m]
        BY <1>2, <2>3
      <3>2. PlacedAt(f, x, e, m)
        BY <1>1, <2>1, <3>1 DEF Sound, OneName, LeadsToDir
      <3> QED
        BY <1>2, <2>1, <2>3, <3>2 DEF PlacedAt
    <2> QED
      BY <2>2, <2>3
  <1>9. \A i \in Inodes : /\ NameCount(g, i) = NameCount(f, i) + IF i = c THEN 1 ELSE 0
                          /\ DirCount(g, i) = DirCount(f, i) + IF i = d THEN 1 ELSE 0
    <2>4. CountsAfter(f, g, d, None, c)
      BY <1>1, CountsAfterLeads
    <2>1. \A i \in Inodes : /\ NameCount(g, i) = NameCount(f, i) - One(i = None) + One(i = c)
                            /\ DirCount(g, i) = DirCount(f, i) +
                                 IF i = d THEN One(LeadsToDir(f, c)) - One(LeadsToDir(f, None)) ELSE 0
      BY <2>4 DEF CountsAfter
    <2>2. One(LeadsToDir(f, c)) = 1 /\ One(LeadsToDir(f, None)) = 0 /\ \A i \in Inodes : One(i = None) = 0
      BY <1>1 DEF One, LeadsToDir
    <2> QED
      BY <1>3, <2>1, <2>2 DEF One
  <1>10. DirCount(f, c) = 0
    <2>1. DirNames(f, c) = {}
      BY DEF DirNames, Detached
    <2> QED
      BY <2>1, FS_EmptySet DEF DirCount
  <1>11. Counted(g, h)
    <2>1. ASSUME NEW i \in Inodes, ~is_dir(g, i) PROVE Fits(h, g.inode[i].nlink, NameCount(g, i))
      <3>1. ~is_dir(f, i) /\ i # c /\ i # d
        BY <1>6, <2>1 DEF Dirs
      <3> QED
        BY <1>3, <1>9, <3>1 DEF Sound, Counted
    <2>2. ASSUME NEW i \in Inodes, is_dir(g, i), i = Root \/ Named(g, i)
          PROVE  Fits(h, g.inode[i].nlink, 2 + DirCount(g, i))
      <3>1. CASE i = c
        BY <1>9, <1>10, <3>1 DEF Fits
      <3>2. CASE i # c
        <4>1. is_dir(f, i) /\ (i = Root \/ Named(f, i))
          BY <1>2, <1>6, <2>2, <3>2 DEF Named
        <4>2. Fits(h, f.inode[i].nlink, 2 + DirCount(f, i))
          BY <4>1 DEF Sound, Counted
        <4> QED
          BY <1>3, <1>9, <3>2, <4>2 DEF Fits
      <3> QED
        BY <3>1, <3>2
    <2> QED
      BY <2>1, <2>2 DEF Counted
  <1>12. \A i \in g.orphans : g.inode[i].kind # "free" /\ g.inode[i].nlink = 0
    <2>1. d \notin f.orphans /\ c \notin f.orphans
      BY DEF Sound, Dirs, Linked, Detached
    <2> QED
      BY <1>2, <1>3, <2>1, Parts DEF Sound
  <1>13. Treelike(g, NamedDirs(g))
    <2> DEFINE D == NamedDirs(f)
    <2>1. NamedDirs(g) = D \cup {c} /\ c \notin D
      <3>1. \A i \in Inodes : Named(g, i) <=> Named(f, i) \/ i = c
        BY <1>1, <1>2 DEF Named
      <3> QED
        BY <1>6, <3>1 DEF NamedDirs, Detached
    <2>2. d \in D \cup {Root} /\ c # Root
      BY DEF NamedDirs, Dirs, Linked, Detached
    <2>3. Treelike(f, D) /\ D \subseteq Inodes
      BY DEF Sound, NamedDirs
    \* Nothing is in the new directory yet.
    <2>4. \A i \in D : f.inode[i].dotdot # c
      <3> SUFFICES ASSUME NEW i \in D PROVE f.inode[i].dotdot # c
        OBVIOUS
      <3>1. PICK e \in Inodes, m \in Names : f.inode[e].entry[m] = i
        BY DEF NamedDirs, Named
      <3>2. PlacedAt(f, i, e, m)
        BY <1>1, <3>1 DEF Sound, OneName, LeadsToDir, NamedDirs
      <3>3. f.inode[i].dotdot = e /\ i # None
        BY <1>1, <3>2 DEF PlacedAt, NamedDirs
      <3> QED
        BY <3>1, <3>3 DEF Detached
    <2> HIDE DEF D
    <2>5. g.inode[c].dotdot = d /\ \A i \in D : g.inode[i].dotdot = f.inode[i].dotdot
      BY <2>1, <2>3
    <2>6. \A i \in D : f.inode[i].dotdot \in D \cup {Root} /\ i # Root
      BY <2>3 DEF Treelike
    <2>7. ASSUME NEW S \in SUBSET (D \cup {c}), Loop(g, S) PROVE FALSE
      <3> DEFINE T == S \ {c}
      <3>1. S # {} /\ \A i \in S : i # Root /\ g.inode[i].dotdot \in S
        BY <2>7 DEF Loop
      <3>2. T # {}
        BY <2>5, <3>1
      <3>3. \A i \in T : i \in D /\ i # Root /\ f.inode[i].dotdot \in T
        BY <2>4, <2>5, <3>1
      <3>4. Loop(f, T) /\ T \in SUBSET D
        BY <3>2, <3>3 DEF Loop
      <3> QED
        BY <2>3, <3>4 DEF Treelike
    <2>8. Treelike(g, D \cup {c})
      BY <2>2, <2>3, <2>5, <2>6, <2>7 DEF Treelike
    <2> QED
      BY <2>1, <2>8
  <1> QED
    BY <1>4, <1>5, <1>8, <1>11, <1>12, <1>13 DEF Sound

LEMMA FourWrites ==
    ASSUME NEW h, NEW a \in SafeWrites(h), NEW b \in SafeWrites(h), NEW c \in SafeWrites(h), NEW d \in SafeWrites(h)
    PROVE  RowTo(<<a, b, c, d>>, h, d.fs)
  <1>1. /\ <<a, b, c, d>> \in Seq(SafeWrites(h)) /\ <<a, b, c, d>> # <<>> /\ Len(<<a, b, c, d>>) = 4
        /\ <<a, b, c, d>>[4] = d
    OBVIOUS
  <1> QED
    BY <1>1 DEF RowTo

\* A write that may leave one of two results.
LEMMA EitherIsSafe ==
    ASSUME NEW f \in FileSystems, NEW h, Live(f), NEW x \in Lefts, NEW y \in Lefts,
           Tolerable(x, h), Tolerable(y, h)
    PROVE  W(f, {x, y}) \in SafeWrites(h) /\ W(f, {x, y}).fs = f /\ W(f, {x, y}).failed = {x, y}
  <1> DEFINE F == {x, y}
  <1>1. F \subseteq Lefts /\ \A z \in F : Tolerable(z, h)
    OBVIOUS
  <1> HIDE DEF F
  <1>2. W(f, F) \in SafeWrites(h) /\ W(f, F).fs = f /\ W(f, F).failed = F
    BY <1>1, WriteIsSafe
  <1> QED
    BY <1>2 DEF F

\* mkdir: each of its failures leaves a directory that nobody knows.
LEMMA MkdirRow ==
    ASSUME NEW f \in FileSystems, NEW h, Sound(f, h), NEW d \in Dirs(f), d = Root \/ Named(f, d),
           NEW n \in Names, NEW c \in Inodes,
           f.inode[d].entry[n] = None, f.inode[c].kind = "free"
    PROVE  \E g \in FileSystems : RowTo(mkdir(f, d, n, c), h, g) /\ Sound(g, h)
  <1> DEFINE new == create_inode(f, c, "dir")
             nf == new.fs
             dots == SetDotdot(nf, c, d)
             parent == AddLinks(dots, d, 1)
             child == AddLinks(parent, c, 2)
             one == AddLinks(dots, c, 1)
             gone == free_inode(nf, c)
             g == SetEntry(child, d, n, c)
             wild == h \cup {"count"}
             lp == Left(parent, FALSE, {"count"})
             lc == Left(child, FALSE, {"count"})
             w2 == W(nf, {Clean(gone)} \cup Poisons({nf}))
             w3 == W(dots, {Clean(nf), Clean(dots)})
             w4 == W(parent, {Clean(dots), lp})
             w5 == W(child, {lp, lc})
             w6 == AddLast(one, child, d, n, c)
             row == <<w3, w4, w5, w6>>
  <1>1. /\ new \in SafeWrites(h) /\ Remade(f, nf, c, "dir") /\ Sound(nf, h) /\ Detached(nf, c)
    BY CreateInodeIsSafe
  <1>2. d \in Inodes /\ c \in Targets /\ d \in Targets /\ d # c /\ 1 \in Int /\ 2 \in Int
    BY DEF Dirs, Linked, Targets, is_dir
  <1>3. mkdir(f, d, n, c) = <<new, w2>> \o OrFree(row, c)
    BY DEF mkdir
  <1> HIDE DEF new
  <1>4. nf \in FileSystems /\ is_dir(nf, c) /\ nf.inode[c].nlink = 0 /\ d \in Dirs(nf) /\ nf.inode[d].entry[n] = None
    BY <1>1, <1>2 DEF Remade, is_dir, Dirs, Linked
  <1> HIDE DEF nf
  <1>5. Remade(nf, gone, c, "free") /\ Dotted(nf, dots, c, d)
    BY <1>2, <1>4, Remakes, Dots
  <1>6. gone \in FileSystems /\ dots \in FileSystems
    BY <1>5 DEF Remade, Dotted
  <1> HIDE DEF gone, dots
  <1>7. Relinked(dots, parent, d, 1) /\ Relinked(dots, one, c, 1)
    BY <1>2, <1>6, Relinks
  <1>8. parent \in FileSystems /\ one \in FileSystems
    BY <1>7 DEF Relinked
  <1> HIDE DEF parent, one
  <1>9. Relinked(parent, child, c, 2)
    BY <1>2, <1>8, Relinks
  <1>10. child \in FileSystems
    BY <1>9 DEF Relinked
  <1> HIDE DEF child
  <1>11. Entered(child, g, d, n, c)
    BY <1>2, <1>10, Enters
  <1> HIDE DEF g
  <1>12. Sound(gone, h)
    BY <1>1, <1>4, <1>5, SoundRemade
  <1>13. Sound(dots, h) /\ Detached(dots, c) /\ is_dir(dots, c)
    BY <1>1, <1>2, <1>4, <1>5, SoundDetached
  <1>14. Sound(one, h) /\ Detached(one, c)
    BY <1>6, <1>7, <1>13, SoundDetached
  <1>15. Sound(parent, wild) /\ Detached(parent, c) /\ is_dir(parent, c)
    <2>1. d \notin dots.orphans
      BY <1>1, <1>4, <1>5 DEF Dotted, Sound, Dirs, Linked
    <2>2. Sound(parent, wild)
      BY <1>2, <1>6, <1>7, <1>13, <2>1, SoundMore
    <2>3. Detached(parent, c) /\ is_dir(parent, c)
      BY <1>7, <1>13 DEF Relinked, Detached, Named, is_dir
    <2> QED
      BY <2>2, <2>3
  <1>16. Sound(child, wild) /\ Detached(child, c)
    <2> HIDE DEF wild
    <2>1. 2 \in Nat
      OBVIOUS
    <2> QED
      BY <1>8, <1>9, <1>15, <2>1, SoundDetached
  <1>17. Live(nf) /\ Live(dots) /\ Live(parent) /\ Live(child)
    BY <1>1, <1>13, <1>15, <1>16 DEF Sound
  <1>18. \A i \in Inodes : nf.inode[i].nlink \in Int
    BY <1>4, Parts
  <1>19. \A i \in Inodes : /\ child.inode[i].kind = nf.inode[i].kind /\ child.inode[i].entry = nf.inode[i].entry
                           /\ child.inode[i].dotdot = IF i = c THEN d ELSE nf.inode[i].dotdot
                           /\ child.inode[i].nlink = IF i = c THEN 2 ELSE nf.inode[i].nlink + IF i = d THEN 1 ELSE 0
    <2>1. \A i \in Inodes : /\ child.inode[i].kind = nf.inode[i].kind /\ child.inode[i].entry = nf.inode[i].entry
                            /\ child.inode[i].dotdot = IF i = c THEN d ELSE nf.inode[i].dotdot
      BY <1>5, <1>7, <1>9 DEF Dotted, Relinked
    <2>2. \A i \in Inodes : child.inode[i].nlink = (nf.inode[i].nlink + IF i = d THEN 1 ELSE 0) + IF i = c THEN 2 ELSE 0
      BY <1>5, <1>7, <1>9 DEF Dotted, Relinked
    <2> QED
      BY <1>2, <1>4, <1>18, <2>1, <2>2
  <1>20. g \in FileSystems /\ Sound(g, h)
    <2>1. g \in FileSystems /\ g.orphans = nf.orphans
      BY <1>5, <1>7, <1>9, <1>11 DEF Dotted, Relinked, Entered
    <2>2. Leads(nf, g, d, n, c)
      BY <1>11, <1>19 DEF Entered, Leads
    <2>3. \A i \in Inodes : /\ g.inode[i].dotdot = IF i = c THEN d ELSE nf.inode[i].dotdot
                            /\ g.inode[i].nlink = IF i = c THEN 2 ELSE nf.inode[i].nlink + IF i = d THEN 1 ELSE 0
      BY <1>11, <1>19 DEF Entered
    <2>4. d = Root \/ Named(nf, d)
      <3>1. Detached(f, c)
        BY FreeIsDetached
      <3> QED
        BY <1>1, <1>2, <3>1, RemadeCounts DEF Detached
    <2> QED
      BY <1>1, <1>2, <1>4, <2>1, <2>2, <2>3, <2>4, DirNamed
  <1>21. d \in Dirs(child) /\ c \in Linked(child)
    BY <1>2, <1>4, <1>18, <1>19 DEF Dirs, Linked, is_dir
  <1>22. /\ w6 \in SafeWrites(h) /\ w6.fs = g
         /\ \A x \in w6.failed : "name" \notin x.harm => Detached(x.fs, c)
    <2>1. /\ w6 \in SafeWrites(h) /\ w6.fs = SetEntry(child, d, n, c)
          /\ Detached(one, c) /\ Detached(child, c) =>
                \A x \in w6.failed : "name" \notin x.harm => Detached(x.fs, c)
      BY <1>8, <1>10, <1>14, <1>17, <1>21, AddLastIsSafe
    <2> QED
      BY <1>14, <1>16, <2>1 DEF g
  <1>23. /\ Clean(gone) \in Lefts /\ Tolerable(Clean(gone), h)
         /\ Clean(nf) \in Lefts /\ Tolerable(Clean(nf), h) /\ Clean(nf).fs = nf
         /\ Clean(dots) \in Lefts /\ Tolerable(Clean(dots), h) /\ Clean(dots).fs = dots
    BY <1>1, <1>4, <1>6, <1>12, <1>13, CleanIsTolerable
  <1>24. /\ lp \in Lefts /\ Tolerable(lp, h) /\ lp.fs = parent
         /\ lc \in Lefts /\ Tolerable(lc, h) /\ lc.fs = child
    BY <1>8, <1>10, <1>15, <1>16, CountIsTolerable
  <1> HIDE DEF lp, lc
  <1>25. w2 \in SafeWrites(h)
    <2>1. {Clean(gone)} \cup Poisons({nf}) = {Clean(gone), Left(nf, TRUE, {})}
      BY DEF Poisons
    <2>2. Left(nf, TRUE, {}) \in Lefts /\ Tolerable(Left(nf, TRUE, {}), h)
      BY <1>4, <1>17, PoisonIsTolerable
    <2>3. W(nf, {Clean(gone), Left(nf, TRUE, {})}) \in SafeWrites(h)
      BY <1>4, <1>17, <1>23, <2>2, EitherIsSafe
    <2> QED
      BY <2>1, <2>3
  <1>26. w3 \in SafeWrites(h) /\ \A x \in w3.failed : Detached(x.fs, c)
    <2>1. w3 \in SafeWrites(h) /\ w3.failed = {Clean(nf), Clean(dots)}
      BY <1>6, <1>17, <1>23, EitherIsSafe
    <2> QED
      BY <1>1, <1>13, <1>23, <2>1
  <1>27. w4 \in SafeWrites(h) /\ \A x \in w4.failed : Detached(x.fs, c)
    <2>1. w4 \in SafeWrites(h) /\ w4.failed = {Clean(dots), lp}
      BY <1>8, <1>17, <1>23, <1>24, EitherIsSafe
    <2> QED
      BY <1>13, <1>15, <1>23, <1>24, <2>1
  <1>28. w5 \in SafeWrites(h) /\ \A x \in w5.failed : Detached(x.fs, c)
    <2>1. w5 \in SafeWrites(h) /\ w5.failed = {lp, lc}
      BY <1>10, <1>17, <1>24, EitherIsSafe
    <2> QED
      BY <1>15, <1>16, <1>24, <2>1
  <1> HIDE DEF w2, w3, w4, w5, w6
  <1>29. RowTo(row, h, g)
    BY <1>22, <1>26, <1>27, <1>28, FourWrites
  <1>30. Forgets(row, c)
    <2>1. Len(row) = 4 /\ row[1] = w3 /\ row[2] = w4 /\ row[3] = w5 /\ row[4] = w6
      OBVIOUS
    <2> QED
      BY <1>22, <1>26, <1>27, <1>28, <2>1 DEF Forgets
  <1> HIDE DEF row
  <1>31. RowTo(OrFree(row, c), h, g)
    BY <1>29, <1>30, OrFreeIsSafe
  <1>32. <<new, w2>> \in Seq(SafeWrites(h))
    BY <1>1, <1>25, TwoWrites
  <1>33. RowTo(<<new, w2>> \o OrFree(row, c), h, g)
    BY <1>31, <1>32, Joined
  <1> QED
    BY <1>3, <1>20, <1>33

-----------------------------------------------------------------------------
(* Names of orphans, and names that go *)

\* Only the orphan chain is written.
LEMMA Unchained ==
    ASSUME NEW f \in FileSystems, NEW O \in SUBSET Inodes
    PROVE  [f EXCEPT !.orphans = O] \in FileSystems /\ [f EXCEPT !.orphans = O].inode = f.inode
           /\ [f EXCEPT !.orphans = O].orphans = O
  <1>1. [f EXCEPT !.orphans = O] = [inode |-> f.inode, orphans |-> O]
    BY DEF FileSystems
  <1>2. f.inode \in [Inodes -> InodeRecords]
    BY Parts
  <1> QED
    BY <1>1, <1>2 DEF FileSystems

\* One guarded write, or one transaction, between sound file systems.
LEMMA CommitRow ==
    ASSUME NEW f \in FileSystems, NEW g \in FileSystems, NEW h, Sound(f, h), Sound(g, h)
    PROVE  \E x \in FileSystems : RowTo(commit(f, g), h, x) /\ Sound(x, h)
  <1> DEFINE a == Guarded(f, g)
  <1>1. Live(f) /\ Live(g)
    BY DEF Sound
  <1>2. a \in SafeWrites(h) /\ a.fs = g
    BY <1>1, GuardedIsSafe
  <1> HIDE DEF a
  <1>3. RowTo(<<a>>, h, g)
    BY <1>2, OneWrite
  <1>4. commit(f, g) = <<a>>
    BY DEF commit, a
  <1> QED
    BY <1>3, <1>4

\* link_inode of an orphan.
LEMMA RelinkRow ==
    ASSUME NEW f \in FileSystems, NEW h, Sound(f, h), NEW d \in Dirs(f), NEW n \in Names, NEW c \in Inodes,
           f.inode[d].entry[n] = None, f.inode[c].kind = "file"
    PROVE  \E g \in FileSystems : RowTo(relink(f, d, n, c), h, g) /\ Sound(g, h)
  <1> DEFINE up == AddLinks(f, c, 1)
             named == SetEntry(up, d, n, c)
             g == [named EXCEPT !.orphans = named.orphans \ {c}]
  <1>1. Relinked(f, up, c, 1)
    BY Relinks
  <1>2. d \in Inodes /\ c \in Targets
    BY DEF Dirs, Linked, Targets
  <1>3. /\ up \in FileSystems /\ up.orphans = f.orphans
        /\ \A i \in Inodes : /\ up.inode[i].kind = f.inode[i].kind /\ up.inode[i].entry = f.inode[i].entry
                             /\ up.inode[i].dotdot = f.inode[i].dotdot
                             /\ up.inode[i].nlink = f.inode[i].nlink + IF i = c THEN 1 ELSE 0
    BY <1>1 DEF Relinked
  <1> HIDE DEF up
  <1>4. Entered(up, named, d, n, c)
    BY <1>2, <1>3, Enters
  <1> HIDE DEF named
  <1>5. named \in FileSystems /\ named.orphans = f.orphans /\ named.orphans \ {c} \in SUBSET Inodes
    <2>1. named \in FileSystems /\ named.orphans = f.orphans
      BY <1>3, <1>4 DEF Entered
    <2> QED
      BY <2>1, Parts
  <1>6. g \in FileSystems /\ g.inode = named.inode /\ g.orphans = f.orphans \ {c}
    BY <1>5, Unchained
  <1> HIDE DEF g
  <1>7. Leads(f, g, d, n, c)
    BY <1>3, <1>4, <1>6 DEF Entered, Leads
  <1>8. \A i \in Inodes : /\ g.inode[i].dotdot = f.inode[i].dotdot
                          /\ g.inode[i].nlink = f.inode[i].nlink + IF i = c THEN 1 ELSE 0
    BY <1>3, <1>4, <1>6 DEF Entered
  <1>9. Sound(g, h)
    BY <1>6, <1>7, <1>8, FileNamed
  <1>10. relink(f, d, n, c) = commit(f, g)
    BY DEF relink, g, named, up
  <1> QED
    BY <1>6, <1>9, <1>10, CommitRow

\* What the removal of a name of c from d does to names and counts.
Removal(f, g, d, c) ==
    /\ c \in Linked(f) /\ c \in Inodes /\ f.inode[c].nlink > 0
    /\ \A i \in Inodes : /\ NameCount(g, i) = NameCount(f, i) - One(i = c)
                         /\ DirCount(g, i) = DirCount(f, i) - One(i = d /\ is_dir(f, c))
                         /\ Named(g, i) => Named(f, i)
    /\ is_dir(f, c) => ~Named(g, c) /\ c # Root
    /\ (\A i \in Inodes : g.inode[i].dotdot = f.inode[i].dotdot) => OneName(g)
    /\ \A i \in Inodes, m \in Names : g.inode[i].entry[m] # None =>
           i \in Dirs(f) /\ g.inode[i].entry[m] \in Linked(f) /\ g.inode[i].entry[m] = f.inode[i].entry[m]

LEMMA EntryRemoved ==
    ASSUME NEW f \in FileSystems, NEW g, NEW h, Sound(f, h), NEW d \in Dirs(f), NEW n \in Names, NEW c,
           f.inode[d].entry[n] = c, c # None, Leads(f, g, d, n, None)
    PROVE  Removal(f, g, d, c)
  <1>1. d \in Inodes /\ None \notin Inodes
    BY Numbers DEF Dirs, Linked
  <1>2. c \in Linked(f) /\ c \in Inodes /\ f.inode[c].nlink > 0
    BY <1>1 DEF Sound, Live, Linked
  <1>3. /\ \A i \in Inodes : g.inode[i].kind = f.inode[i].kind
        /\ \A i \in Inodes, m \in Names :
             g.inode[i].entry[m] = IF i = d /\ m = n THEN None ELSE f.inode[i].entry[m]
    BY DEF Leads
  <1>4. ASSUME NEW i \in Inodes
        PROVE  /\ NameCount(g, i) = NameCount(f, i) - One(i = c)
               /\ DirCount(g, i) = DirCount(f, i) - One(i = d /\ is_dir(f, c))
    <2>1. /\ NameCount(g, i) = NameCount(f, i) - One(i = c) + One(i = None)
          /\ DirCount(g, i) = DirCount(f, i) +
                IF i = d THEN One(LeadsToDir(f, None)) - One(LeadsToDir(f, c)) ELSE 0
      <3>1. CountsAfter(f, g, d, c, None)
        BY <1>1, CountsAfterLeads
      <3> QED
        BY <3>1 DEF CountsAfter
    <2>2. One(LeadsToDir(f, None)) = 0 /\ One(i = None) = 0 /\ One(LeadsToDir(f, c)) = One(is_dir(f, c))
      BY <1>1, <1>2 DEF One, LeadsToDir
    <2>3. NameCount(f, i) \in Nat /\ DirCount(f, i) \in Nat
      BY Finite
    <2> QED
      BY <2>1, <2>2, <2>3 DEF One
  <1>5. \A i \in Inodes : Named(g, i) => Named(f, i)
    BY <1>1, <1>3 DEF Named
  <1>6. is_dir(f, c) => ~Named(g, c) /\ c # Root
    <2> SUFFICES ASSUME is_dir(f, c) PROVE ~Named(g, c) /\ c # Root
      OBVIOUS
    <2>1. PlacedAt(f, c, d, n)
      BY <1>1 DEF Sound, OneName, LeadsToDir
    <2> QED
      BY <1>1, <1>2, <1>3, <2>1 DEF PlacedAt, Named
  <1>7. ASSUME \A i \in Inodes : g.inode[i].dotdot = f.inode[i].dotdot PROVE OneName(g)
    <2> SUFFICES ASSUME NEW e \in Inodes, NEW m \in Names, LeadsToDir(g, g.inode[e].entry[m])
                 PROVE  PlacedAt(g, g.inode[e].entry[m], e, m)
      BY DEF OneName
    <2> DEFINE x == g.inode[e].entry[m]
    <2>1. x = f.inode[e].entry[m] /\ x # None /\ x \in Inodes
      BY <1>3, Parts DEF LeadsToDir, Targets
    <2>2. PlacedAt(f, x, e, m)
      BY <1>3, <2>1 DEF Sound, OneName, LeadsToDir, is_dir
    <2> QED
      BY <1>3, <1>7, <2>1, <2>2 DEF PlacedAt
  <1>8. \A i \in Inodes, m \in Names : g.inode[i].entry[m] # None =>
            i \in Dirs(f) /\ g.inode[i].entry[m] \in Linked(f) /\ g.inode[i].entry[m] = f.inode[i].entry[m]
    BY <1>3 DEF Sound, Live
  <1> QED
    BY <1>2, <1>4, <1>5, <1>6, <1>7, <1>8 DEF Removal

\* A file loses a name and a link; without links it is an orphan.
LEMMA FileUnnamed ==
    ASSUME NEW f \in FileSystems, NEW g \in FileSystems, NEW h, Sound(f, h),
           NEW d \in Dirs(f), NEW n \in Names, NEW c, f.inode[d].entry[n] = c, c # None, ~is_dir(f, c),
           Leads(f, g, d, n, None),
           \A i \in Inodes : /\ g.inode[i].dotdot = f.inode[i].dotdot
                             /\ g.inode[i].nlink = f.inode[i].nlink - IF i = c THEN 1 ELSE 0,
           g.orphans = f.orphans \/ (g.orphans = f.orphans \cup {c} /\ f.inode[c].nlink = 1)
    PROVE  Sound(g, h)
  <1>1. /\ c \in Linked(f) /\ c \in Inodes /\ f.inode[c].nlink > 0 /\ OneName(g)
        /\ \A i \in Inodes : /\ NameCount(g, i) = NameCount(f, i) - One(i = c)
                             /\ DirCount(g, i) = DirCount(f, i) - One(i = d /\ is_dir(f, c))
                             /\ Named(g, i) => Named(f, i)
        /\ \A i \in Inodes, m \in Names : g.inode[i].entry[m] # None =>
               i \in Dirs(f) /\ g.inode[i].entry[m] \in Linked(f) /\ g.inode[i].entry[m] = f.inode[i].entry[m]
    <2>1. Removal(f, g, d, c)
      BY EntryRemoved
    <2> QED
      BY <2>1 DEF Removal
  <1>2. \A i \in Inodes : /\ f.inode[i].nlink \in Int /\ NameCount(f, i) \in Nat /\ DirCount(f, i) \in Nat
                          /\ g.inode[i].kind = f.inode[i].kind
    BY Parts, Finite DEF Leads
  <1>3. \A i \in Inodes : is_dir(g, i) <=> is_dir(f, i)
    BY <1>2 DEF is_dir
  <1>4. Balanced(f, g)
    <2>1. \A i \in Inodes : One(i = d /\ is_dir(f, c)) = 0 /\ One(i = c) = IF i = c THEN 1 ELSE 0
      BY DEF One
    <2>2. \A i \in Inodes : g.inode[i].nlink - NameCount(g, i) = f.inode[i].nlink - NameCount(f, i)
      BY <1>1, <1>2, <2>1
    <2>3. \A i \in Inodes : is_dir(f, i) => g.inode[i].nlink - DirCount(g, i) = f.inode[i].nlink - DirCount(f, i)
      BY <1>1, <1>2, <2>1
    <2> QED
      BY <1>1, <1>3, <2>2, <2>3 DEF Balanced
  <1>5. Counted(g, h)
    BY <1>4, BalancedIsCounted DEF Sound
  <1>6. \A i \in Inodes : i # c => (i \in Linked(f) => i \in Linked(g)) /\ (i \in Dirs(f) => i \in Dirs(g))
    BY <1>2 DEF Linked, Dirs, is_dir
  <1>7. Named(g, c) => c \in Linked(g)
    <2> SUFFICES ASSUME Named(g, c) PROVE c \in Linked(g)
      OBVIOUS
    <2>1. NameCount(g, c) > 0 /\ NameCount(g, c) \in Nat
      BY NamedIsCounted, Finite
    <2>2. g.inode[c].nlink >= NameCount(g, c) /\ g.inode[c].nlink \in Int
      BY <1>1, <1>3, <1>5, Parts DEF Counted, Fits
    <2> QED
      BY <1>1, <1>2, <2>1, <2>2 DEF Linked
  <1>8. Live(g)
    <2> SUFFICES ASSUME NEW e \in Inodes, NEW m \in Names, g.inode[e].entry[m] # None
                 PROVE  e \in Dirs(g) /\ g.inode[e].entry[m] \in Linked(g)
      BY DEF Live
    <2>1. e \in Dirs(f) /\ e # c /\ g.inode[e].entry[m] \in Linked(f) /\ g.inode[e].entry[m] \in Inodes
      BY <1>1 DEF Dirs, Linked
    <2>2. g.inode[e].entry[m] = c => Named(g, c)
      BY DEF Named
    <2> QED
      BY <1>6, <1>7, <2>1, <2>2
  <1>9. Root \in Dirs(g)
    BY <1>6, Numbers DEF Sound, Dirs
  <1>10. \A i \in g.orphans : g.inode[i].kind # "free" /\ g.inode[i].nlink = 0
    <2>1. \A i \in f.orphans : i # c /\ i \in Inodes /\ g.inode[i].kind # "free" /\ g.inode[i].nlink = 0
      BY <1>1, <1>2, Parts DEF Sound
    <2> QED
      BY <1>1, <1>2, <2>1 DEF Linked
  <1>11. Treelike(g, NamedDirs(g))
    <2>1. \A i \in Inodes : is_dir(f, i) => (Named(g, i) <=> Named(f, i))
      BY <1>1 DEF Named, Leads
    <2>2. NamedDirs(g) = NamedDirs(f) /\ \A i \in NamedDirs(f) : g.inode[i].dotdot = f.inode[i].dotdot
      BY <1>3, <2>1 DEF NamedDirs
    <2> DEFINE D == NamedDirs(f)
    <2>3. Treelike(f, D) /\ \A i \in D : g.inode[i].dotdot = f.inode[i].dotdot
      BY <2>2 DEF Sound
    <2> HIDE DEF D
    <2>4. Treelike(g, D)
      BY <2>3, TreelikeKept
    <2> QED
      BY <2>2, <2>4 DEF D
  <1> QED
    BY <1>1, <1>5, <1>8, <1>9, <1>10, <1>11 DEF Sound

\* A directory that a caller knows counts two links and one for each directory in it.
LEMMA KnownDir ==
    ASSUME NEW f \in FileSystems, NEW h, Sound(f, h), NEW d \in Dirs(f), d = Root \/ Named(f, d),
           NEW n \in Names, LeadsToDir(f, f.inode[d].entry[n])
    PROVE  f.inode[d].nlink > 2
  <1>1. d \in Inodes /\ is_dir(f, d) /\ f.inode[d].nlink \in Int
    BY Parts DEF Dirs, Linked
  <1>2. f.inode[d].nlink >= 2 + DirCount(f, d)
    BY <1>1 DEF Sound, Counted, Fits
  <1>3. DirCount(f, d) \in Nat /\ DirCount(f, d) # 0
    <2>1. n \in DirNames(f, d)
      BY DEF DirNames, LeadsToDir
    <2> QED
      BY <2>1, Finite, FS_EmptySet DEF DirCount
  <1> QED
    BY <1>1, <1>2, <1>3

\* An empty directory loses its name, and its parent the link of its "..".
LEMMA DirUnnamed ==
    ASSUME NEW f \in FileSystems, NEW g \in FileSystems, NEW h, Sound(f, h),
           NEW d \in Dirs(f), d = Root \/ Named(f, d), NEW n \in Names, NEW c,
           f.inode[d].entry[n] = c, c # None, is_dir(f, c), dir_is_empty(f, c), Leads(f, g, d, n, None),
           \A i \in Inodes : /\ g.inode[i].dotdot = f.inode[i].dotdot
                             /\ g.inode[i].nlink = IF i = c THEN 0 ELSE f.inode[i].nlink - IF i = d THEN 1 ELSE 0,
           g.orphans = f.orphans \cup {c}
    PROVE  Sound(g, h)
  <1>1. /\ c \in Linked(f) /\ c \in Inodes /\ f.inode[c].nlink > 0 /\ OneName(g) /\ ~Named(g, c) /\ c # Root
        /\ \A i \in Inodes : /\ NameCount(g, i) = NameCount(f, i) - One(i = c)
                             /\ DirCount(g, i) = DirCount(f, i) - One(i = d /\ is_dir(f, c))
                             /\ Named(g, i) => Named(f, i)
        /\ \A i \in Inodes, m \in Names : g.inode[i].entry[m] # None =>
               i \in Dirs(f) /\ g.inode[i].entry[m] \in Linked(f) /\ g.inode[i].entry[m] = f.inode[i].entry[m]
    <2>1. Removal(f, g, d, c)
      BY EntryRemoved
    <2> QED
      BY <2>1 DEF Removal
  <1>2. \A i \in Inodes : /\ f.inode[i].nlink \in Int /\ NameCount(f, i) \in Nat /\ DirCount(f, i) \in Nat
                          /\ g.inode[i].kind = f.inode[i].kind
    BY Parts, Finite DEF Leads
  <1>3. \A i \in Inodes : is_dir(g, i) <=> is_dir(f, i)
    BY <1>2 DEF is_dir
  <1>4. \A m \in Names : f.inode[c].entry[m] = None
    BY DEF dir_is_empty, Nothing
  <1>5. d # c /\ d \in Inodes
    BY <1>4 DEF Dirs, Linked
  <1>6. f.inode[d].nlink > 2
    BY KnownDir DEF LeadsToDir
  <1>7. Balanced(f, g)
    <2>1. \A i \in Inodes : One(i = d /\ is_dir(f, c)) = (IF i = d THEN 1 ELSE 0) /\ One(i = c) = IF i = c THEN 1 ELSE 0
      BY DEF One
    <2>2. \A i \in Inodes : ~is_dir(f, i) => g.inode[i].nlink - NameCount(g, i) = f.inode[i].nlink - NameCount(f, i)
      <3>1. \A i \in Inodes : ~is_dir(f, i) => i # c /\ i # d
        BY DEF Dirs
      <3> QED
        BY <1>1, <1>2, <2>1, <3>1
    <2>3. \A i \in Inodes : i # c => g.inode[i].nlink - DirCount(g, i) = f.inode[i].nlink - DirCount(f, i)
      BY <1>1, <1>2, <2>1
    <2> QED
      BY <1>1, <1>3, <2>2, <2>3 DEF Balanced
  <1>8. Counted(g, h)
    BY <1>7, BalancedIsCounted DEF Sound
  <1>9. \A i \in Inodes : i # c => (i \in Linked(f) => i \in Linked(g)) /\ (i \in Dirs(f) => i \in Dirs(g))
    <2>1. \A i \in Inodes : i # c /\ i \in Linked(f) => i \in Linked(g)
      BY <1>2, <1>6 DEF Linked
    <2> QED
      BY <1>3, <2>1 DEF Dirs, Linked
  <1>10. Live(g)
    <2> SUFFICES ASSUME NEW e \in Inodes, NEW m \in Names, g.inode[e].entry[m] # None
                 PROVE  e \in Dirs(g) /\ g.inode[e].entry[m] \in Linked(g)
      BY DEF Live
    <2>1. e \in Dirs(f) /\ e # c /\ g.inode[e].entry[m] \in Linked(f) /\ g.inode[e].entry[m] \in Inodes
      BY <1>1, <1>4 DEF Dirs, Linked
    <2>2. g.inode[e].entry[m] # c
      BY <1>1 DEF Named
    <2> QED
      BY <1>9, <2>1, <2>2
  <1>11. Root \in Dirs(g)
    BY <1>1, <1>9, Numbers DEF Sound, Dirs
  <1>12. \A i \in g.orphans : g.inode[i].kind # "free" /\ g.inode[i].nlink = 0
    <2>1. \A i \in f.orphans : i # c /\ i # d /\ i \in Inodes /\ g.inode[i].kind # "free" /\ g.inode[i].nlink = 0
      BY <1>1, <1>2, <1>6, Parts DEF Sound
    <2> QED
      BY <1>1, <1>2, <2>1 DEF Linked
  <1>13. Treelike(g, NamedDirs(g))
    <2> DEFINE D == NamedDirs(f)
               E == D \ {c}
    <2>1. \A i \in Inodes : Named(g, i) <=> Named(f, i) /\ i # c
      <3>1. \A i \in Inodes : Named(f, i) /\ i # c => Named(g, i)
        BY DEF Named, Leads
      <3> QED
        BY <1>1, <3>1
    <2>2. NamedDirs(g) = E
      BY <1>3, <2>1 DEF NamedDirs
    <2>3. Treelike(f, D) /\ D \subseteq Inodes
      BY DEF Sound, NamedDirs
    \* Nothing is in the removed directory.
    <2>4. \A i \in D : f.inode[i].dotdot # c
      BY <1>4, Numbers DEF Sound, NamedDirs, Named, OneName, LeadsToDir, PlacedAt
    <2> HIDE DEF D
    <2>5. Treelike(f, E)
      BY <2>3, <2>4 DEF Treelike
    <2>6. \A i \in E : g.inode[i].dotdot = f.inode[i].dotdot
      BY <2>3
    <2> HIDE DEF E
    <2>7. Treelike(g, E)
      BY <2>5, <2>6, TreelikeKept
    <2> QED
      BY <2>2, <2>7
  <1> QED
    BY <1>1, <1>8, <1>10, <1>11, <1>12, <1>13 DEF Sound

\* Orphaned takes the links and puts the inode on the chain.
LEMMA Orphans ==
    ASSUME NEW f \in FileSystems, NEW c \in Inodes
    PROVE  /\ Orphaned(f, c) \in FileSystems /\ Orphaned(f, c).orphans = f.orphans \cup {c}
           /\ \A i \in Inodes : /\ Orphaned(f, c).inode[i].kind = f.inode[i].kind
                                /\ Orphaned(f, c).inode[i].nlink = IF i = c THEN 0 ELSE f.inode[i].nlink
                                /\ Orphaned(f, c).inode[i].dotdot = f.inode[i].dotdot
                                /\ Orphaned(f, c).inode[i].entry = f.inode[i].entry
  <1> DEFINE r == [f.inode[c] EXCEPT !.nlink = 0]
             k == [f EXCEPT !.inode[c] = r]
             O == f.orphans \cup {c}
             g == Orphaned(f, c)
  <1>1. f.inode[c] \in InodeRecords /\ O \in SUBSET Inodes
    BY Parts
  <1>2. /\ r \in InodeRecords /\ r.kind = f.inode[c].kind /\ r.nlink = 0
        /\ r.dotdot = f.inode[c].dotdot /\ r.entry = f.inode[c].entry
    BY <1>1 DEF InodeRecords
  <1>3. g = [k EXCEPT !.orphans = O]
    BY DEF Orphaned, FileSystems
  <1> HIDE DEF r, g, O
  <1>4. k \in FileSystems /\ \A i \in Inodes : k.inode[i] = IF i = c THEN r ELSE f.inode[i]
    BY <1>2, InodeReplaced
  <1> HIDE DEF k
  <1>5. g \in FileSystems /\ g.inode = k.inode /\ g.orphans = O
    BY <1>1, <1>3, <1>4, Unchained
  <1>6. \A i \in Inodes : g.inode[i] = IF i = c THEN r ELSE f.inode[i]
    BY <1>4, <1>5
  <1> QED
    BY <1>2, <1>5, <1>6 DEF g, O

\* unlink_inode: a transaction for the last name, else two writes.
LEMMA UnlinkRow ==
    ASSUME NEW f \in FileSystems, NEW h, Sound(f, h), NEW d \in Dirs(f), d = Root \/ Named(f, d),
           NEW n \in Names, f.inode[d].entry[n] # None,
           is_dir(f, f.inode[d].entry[n]) => dir_is_empty(f, f.inode[d].entry[n])
    PROVE  \E g \in FileSystems : RowTo(unlink_inode(f, d, n), h, g) /\ Sound(g, h)
  <1> DEFINE c == f.inode[d].entry[n]
             removed == SetEntry(f, d, n, None)
             less == IF is_dir(f, c) THEN -1 ELSE 0
             lower == AddLinks(removed, d, less)
             last == Orphaned(lower, c)
             one == AddLinks(removed, c, -1)
  <1>1. d \in Inodes /\ None \in Targets /\ None \notin Inodes
    BY Numbers DEF Dirs, Linked
  <1>2. c \in Inodes /\ c \in Linked(f)
    BY <1>1 DEF Sound, Live, Linked
  <1>3. Entered(f, removed, d, n, None)
    BY <1>1, Enters
  <1>4. /\ unlink_inode(f, d, n) =
             IF namespace_removal_is_final(f, c) THEN commit(f, last)
             ELSE << W(removed, {Clean(f), Left(removed, FALSE, {"count"})}), Guarded(removed, one) >>
    BY DEF unlink_inode, dir_find_entry
  <1>5. less \in Int /\ -1 \in Int
    OBVIOUS
  <1> HIDE DEF c, removed, less
  <1>6. removed \in FileSystems
    BY <1>3 DEF Entered
  <1>7. Relinked(removed, lower, d, less) /\ Relinked(removed, one, c, -1)
    BY <1>1, <1>2, <1>5, <1>6, Relinks
  <1> HIDE DEF lower, one
  <1>8. lower \in FileSystems /\ one \in FileSystems
    BY <1>7 DEF Relinked
  <1>9. \A i \in Inodes : f.inode[i].nlink \in Int
    BY Parts
  <1>10. CASE is_dir(f, c)
    <2>1. /\ last \in FileSystems /\ last.orphans = f.orphans \cup {c}
      BY <1>2, <1>3, <1>7, <1>8, Orphans DEF Entered, Relinked
    <2>2. \A i \in Inodes : /\ last.inode[i].kind = lower.inode[i].kind
                            /\ last.inode[i].nlink = IF i = c THEN 0 ELSE lower.inode[i].nlink
                            /\ last.inode[i].dotdot = lower.inode[i].dotdot
                            /\ last.inode[i].entry = lower.inode[i].entry
      BY <1>2, <1>8, Orphans
    <2> HIDE DEF last
    <2>3. less = -1
      BY <1>10 DEF less
    <2>4. Leads(f, last, d, n, None)
      BY <1>3, <1>7, <2>1, <2>2 DEF Leads, Entered, Relinked
    <2>5. \A i \in Inodes : /\ last.inode[i].dotdot = f.inode[i].dotdot
                            /\ last.inode[i].nlink = IF i = c THEN 0 ELSE f.inode[i].nlink - IF i = d THEN 1 ELSE 0
      BY <1>3, <1>7, <1>9, <2>2, <2>3 DEF Entered, Relinked
    <2>6. Sound(last, h)
      BY <1>2, <1>10, <2>1, <2>4, <2>5, DirUnnamed DEF c
    <2>7. unlink_inode(f, d, n) = commit(f, last)
      BY <1>4, <1>10 DEF namespace_removal_is_final
    <2> QED
      BY <2>1, <2>6, <2>7, CommitRow
  <1>11. CASE ~is_dir(f, c) /\ f.inode[c].nlink <= 1
    <2>1. /\ last \in FileSystems /\ last.orphans = f.orphans \cup {c}
      BY <1>2, <1>3, <1>7, <1>8, Orphans DEF Entered, Relinked
    <2>2. \A i \in Inodes : /\ last.inode[i].kind = lower.inode[i].kind
                            /\ last.inode[i].nlink = IF i = c THEN 0 ELSE lower.inode[i].nlink
                            /\ last.inode[i].dotdot = lower.inode[i].dotdot
                            /\ last.inode[i].entry = lower.inode[i].entry
      BY <1>2, <1>8, Orphans
    <2> HIDE DEF last
    <2>3. less = 0 /\ f.inode[c].nlink = 1
      BY <1>2, <1>9, <1>11 DEF less, Linked
    <2>4. Leads(f, last, d, n, None)
      BY <1>3, <1>7, <2>1, <2>2 DEF Leads, Entered, Relinked
    <2>5. \A i \in Inodes : /\ last.inode[i].dotdot = f.inode[i].dotdot
                            /\ last.inode[i].nlink = f.inode[i].nlink - IF i = c THEN 1 ELSE 0
      BY <1>3, <1>7, <1>9, <2>2, <2>3 DEF Entered, Relinked
    <2>6. Sound(last, h)
      BY <1>2, <1>11, <2>1, <2>3, <2>4, <2>5, FileUnnamed DEF c
    <2>7. unlink_inode(f, d, n) = commit(f, last)
      BY <1>4, <1>11 DEF namespace_removal_is_final
    <2> QED
      BY <2>1, <2>6, <2>7, CommitRow
  <1>12. CASE ~is_dir(f, c) /\ ~(f.inode[c].nlink <= 1)
    <2> DEFINE lr == Left(removed, FALSE, {"count"})
               cf == Clean(f)
               a == W(removed, {cf, lr})
               b == Guarded(removed, one)
               wild == h \cup {"count"}
    <2>1. Leads(f, one, d, n, None) /\ one.orphans = f.orphans
      BY <1>3, <1>7 DEF Leads, Entered, Relinked
    <2>2. \A i \in Inodes : /\ one.inode[i].dotdot = f.inode[i].dotdot
                            /\ one.inode[i].nlink = f.inode[i].nlink - IF i = c THEN 1 ELSE 0
      BY <1>3, <1>7, <1>9 DEF Entered, Relinked
    <2>3. Sound(one, h)
      BY <1>1, <1>2, <1>8, <1>12, <2>1, <2>2, FileUnnamed DEF c
    <2>4. Relinked(one, removed, c, 1)
      <3>1. \A i \in Inodes : removed.inode[i].nlink \in Int
        BY <1>6, Parts
      <3> QED
        BY <1>6, <1>7, <3>1 DEF Relinked
    <2>5. Sound(removed, wild) /\ Live(removed) /\ Live(one) /\ Live(f)
      <3>1. c \notin one.orphans
        BY <1>2, <2>1 DEF Sound, Linked
      <3> QED
        BY <1>2, <1>8, <2>3, <2>4, <3>1, SoundMore DEF Sound
    <2>6. lr \in Lefts /\ Tolerable(lr, h)
      BY <1>6, <2>5, CountIsTolerable
    <2>7. cf \in Lefts /\ Tolerable(cf, h)
      BY CleanIsTolerable
    <2> HIDE DEF lr, cf
    <2>8. a \in SafeWrites(h)
      BY <1>6, <2>5, <2>6, <2>7, EitherIsSafe
    <2>9. b \in SafeWrites(h) /\ b.fs = one
      BY <1>6, <1>8, <2>5, GuardedIsSafe
    <2>10. unlink_inode(f, d, n) = <<a, b>>
      BY <1>4, <1>12 DEF namespace_removal_is_final, lr, cf
    <2> HIDE DEF a, b
    <2>11. RowTo(<<a, b>>, h, one)
      BY <2>8, <2>9, TwoWrites
    <2> QED
      BY <1>8, <2>3, <2>10, <2>11
  <1> QED
    BY <1>10, <1>11, <1>12

-----------------------------------------------------------------------------
(* Moving names *)

\* Name n of directory d, which leads to a, is moved to name m of directory e, which leads
\* to b or nowhere; x is what the old name leads to then.
Renames(f, h, d, n, e, m, a, b, x) ==
    /\ f \in FileSystems /\ Sound(f, h)
    /\ d \in Dirs(f) /\ (d = Root \/ Named(f, d)) /\ n \in Names /\ f.inode[d].entry[n] = a
    /\ e \in Dirs(f) /\ (e = Root \/ Named(f, e)) /\ m \in Names /\ f.inode[e].entry[m] = b
    /\ a # None /\ a # b /\ x \in {None, b}
    /\ is_dir(f, a) /\ d # e => a \notin Ancestors(f, e)
    /\ x # None /\ is_dir(f, x) /\ d # e => x \notin Ancestors(f, d)

\* As far as kinds and names go, this has been done in g.
Renamed(f, g, d, n, e, m, a, x) ==
    /\ g \in FileSystems
    /\ \A i \in Inodes : g.inode[i].kind = f.inode[i].kind
    /\ \A i \in Inodes, k \in Names :
           g.inode[i].entry[k] = IF i = d /\ k = n THEN x ELSE IF i = e /\ k = m THEN a ELSE f.inode[i].entry[k]

\* The inodes and directories of a rename.
LEMMA RenameParts ==
    ASSUME NEW f, NEW h, NEW d, NEW n, NEW e, NEW m, NEW a, NEW b, NEW x, Renames(f, h, d, n, e, m, a, b, x)
    PROVE  /\ d \in Inodes /\ e \in Inodes /\ a \in Inodes /\ a \in Linked(f) /\ None \notin Inodes
           /\ b = None \/ (b \in Inodes /\ b \in Linked(f))
           /\ x = None \/ (x \in Inodes /\ x \in Linked(f))
           /\ ~(d = e /\ n = m) /\ x # a
           /\ is_dir(f, a) => PlacedAt(f, a, d, n)
           /\ b # None /\ is_dir(f, b) => PlacedAt(f, b, e, m)
  <1>1. d \in Inodes /\ e \in Inodes /\ None \notin Inodes
    BY Numbers DEF Renames, Dirs, Linked
  <1>2. Live(f) /\ OneName(f)
    BY DEF Renames, Sound
  <1>3. a \in Linked(f) /\ (b # None => b \in Linked(f))
    BY <1>1, <1>2 DEF Renames, Live
  <1>4. a \in Inodes /\ (b # None => b \in Inodes)
    BY <1>3 DEF Linked
  <1>5. (is_dir(f, a) => PlacedAt(f, a, d, n)) /\ (b # None /\ is_dir(f, b) => PlacedAt(f, b, e, m))
    BY <1>1, <1>2 DEF Renames, OneName, LeadsToDir
  <1>6. ~(d = e /\ n = m) /\ x # a
    BY DEF Renames
  <1> QED
    BY <1>1, <1>3, <1>4, <1>5, <1>6 DEF Renames

\* What it does to the numbers of names and of directories.
DirsMoved(f, d, e, a, b, x, i) ==
    (IF i = d THEN One(LeadsToDir(f, x)) - One(LeadsToDir(f, a)) ELSE 0)
    + (IF i = e THEN One(LeadsToDir(f, a)) - One(LeadsToDir(f, b)) ELSE 0)

LEMMA RenamedCounts ==
    ASSUME NEW f, NEW g, NEW h, NEW d, NEW n, NEW e, NEW m, NEW a, NEW b, NEW x,
           Renames(f, h, d, n, e, m, a, b, x), Renamed(f, g, d, n, e, m, a, x), NEW i \in Inodes
    PROVE  /\ NameCount(g, i) = NameCount(f, i) - One(i = b) + One(i = x)
           /\ DirCount(g, i) = DirCount(f, i) + DirsMoved(f, d, e, a, b, x, i)
  <1> DEFINE k == SetEntry(f, d, n, x)
  <1>1. /\ d \in Inodes /\ e \in Inodes /\ a \in Inodes /\ None \notin Inodes /\ ~(d = e /\ n = m) /\ x # a
        /\ x = None \/ x \in Inodes
    BY RenameParts
  <1>2. x \in Targets /\ n \in Names /\ m \in Names /\ f \in FileSystems
        /\ f.inode[d].entry[n] = a /\ f.inode[e].entry[m] = b
    BY <1>1 DEF Targets, Renames
  <1>3. Entered(f, k, d, n, x)
    BY <1>1, <1>2, Enters
  <1> HIDE DEF k
  <1>4. k \in FileSystems /\ Leads(f, k, d, n, x) /\ k.inode[e].entry[m] = b
    BY <1>1, <1>2, <1>3 DEF Entered, Leads
  <1>5. Leads(k, g, e, m, a)
    <2>1. \A j \in Inodes, q \in Names : k.inode[j].entry[q] = IF j = d /\ q = n THEN x ELSE f.inode[j].entry[q]
      BY <1>3 DEF Entered
    <2>2. \A j \in Inodes, q \in Names :
              g.inode[j].entry[q] = IF j = e /\ q = m THEN a ELSE k.inode[j].entry[q]
      BY <1>1, <2>1 DEF Renamed
    <2>3. \A j \in Inodes : g.inode[j].kind = k.inode[j].kind
      BY <1>3 DEF Entered, Renamed
    <2> QED
      BY <2>2, <2>3 DEF Leads, Renamed
  <1>6. /\ NameCount(k, i) = NameCount(f, i) - One(i = a) + One(i = x)
        /\ DirCount(k, i) = DirCount(f, i) + IF i = d THEN One(LeadsToDir(f, x)) - One(LeadsToDir(f, a)) ELSE 0
    <2>1. CountsAfter(f, k, d, a, x)
      BY <1>1, <1>2, <1>4, CountsAfterLeads
    <2> QED
      BY <1>1, <2>1 DEF CountsAfter
  <1>7. /\ NameCount(g, i) = NameCount(k, i) - One(i = b) + One(i = a)
        /\ DirCount(g, i) = DirCount(k, i) + IF i = e THEN One(LeadsToDir(k, a)) - One(LeadsToDir(k, b)) ELSE 0
    <2>1. CountsAfter(k, g, e, b, a)
      BY <1>1, <1>2, <1>4, <1>5, CountsAfterLeads
    <2> QED
      BY <1>1, <2>1 DEF CountsAfter
  <1>8. (LeadsToDir(k, a) <=> LeadsToDir(f, a)) /\ (LeadsToDir(k, b) <=> LeadsToDir(f, b))
    <2>1. b \in Targets /\ a \in Targets
      BY <1>1, <1>2, Parts DEF Targets
    <2> QED
      BY <1>3, <2>1 DEF Entered, LeadsToDir, is_dir, Targets
  <1>9. NameCount(f, i) \in Nat /\ DirCount(f, i) \in Nat
    BY Finite
  <1>10. One(LeadsToDir(k, a)) = One(LeadsToDir(f, a)) /\ One(LeadsToDir(k, b)) = One(LeadsToDir(f, b))
    BY <1>8 DEF One
  <1>11. NameCount(g, i) = NameCount(f, i) - One(i = b) + One(i = x)
    BY <1>6, <1>7, <1>9 DEF One
  <1>12. DirCount(g, i) = DirCount(f, i) + DirsMoved(f, d, e, a, b, x, i)
    BY <1>6, <1>7, <1>9, <1>10 DEF DirsMoved, One
  <1> QED
    BY <1>11, <1>12

\* The directories that were moved have their parents.
Parented(f, g, d, e, a, x) ==
    \A i \in Inodes : is_dir(f, i) =>
        g.inode[i].dotdot = IF i = a THEN e ELSE IF i = x THEN d ELSE f.inode[i].dotdot

LEMMA RenamedOnce ==
    ASSUME NEW f, NEW g, NEW h, NEW d, NEW n, NEW e, NEW m, NEW a, NEW b, NEW x,
           Renames(f, h, d, n, e, m, a, b, x), Renamed(f, g, d, n, e, m, a, x), Parented(f, g, d, e, a, x)
    PROVE  OneName(g)
  <1>1. /\ d \in Inodes /\ e \in Inodes /\ a \in Inodes /\ None \notin Inodes /\ ~(d = e /\ n = m) /\ x # a
        /\ x = None \/ (x = b /\ b \in Inodes)
        /\ is_dir(f, a) => PlacedAt(f, a, d, n)
        /\ b # None /\ is_dir(f, b) => PlacedAt(f, b, e, m)
    <2>1. x = None \/ x = b
      BY DEF Renames
    <2> QED
      BY <2>1, RenameParts
  <1>2. \A j \in Inodes, q \in Names :
            g.inode[j].entry[q] = IF j = d /\ q = n THEN x ELSE IF j = e /\ q = m THEN a ELSE f.inode[j].entry[q]
    BY DEF Renamed
  <1>3. \A j \in Inodes : is_dir(g, j) <=> is_dir(f, j)
    BY DEF Renamed, is_dir
  <1> SUFFICES ASSUME NEW p \in Inodes, NEW q \in Names, LeadsToDir(g, g.inode[p].entry[q])
               PROVE  PlacedAt(g, g.inode[p].entry[q], p, q)
    BY DEF OneName
  <1> DEFINE z == g.inode[p].entry[q]
  <1>4. z \in Inodes /\ is_dir(f, z) /\ z # None
    BY <1>3, Parts DEF Renamed, LeadsToDir, Targets
  <1>5. g.inode[z].dotdot = IF z = a THEN e ELSE IF z = x THEN d ELSE f.inode[z].dotdot
    BY <1>4 DEF Parented
  <1>6. CASE z = a
    <2>1. PlacedAt(f, a, d, n)
      BY <1>1, <1>4, <1>6
    <2>2. \A i \in Inodes, k \in Names : g.inode[i].entry[k] = a => i = e /\ k = m
      BY <1>1, <1>2, <2>1 DEF PlacedAt
    <2>3. p = e /\ q = m
      BY <1>6, <2>2
    <2> QED
      BY <1>5, <1>6, <2>1, <2>2, <2>3 DEF PlacedAt
  <1>7. CASE z # a /\ z = x
    <2>1. z = b /\ PlacedAt(f, b, e, m)
      BY <1>1, <1>4, <1>7
    <2>2. \A i \in Inodes, k \in Names : g.inode[i].entry[k] = z => i = d /\ k = n
      BY <1>1, <1>2, <1>7, <2>1 DEF PlacedAt
    <2>3. p = d /\ q = n
      BY <2>2
    <2> QED
      BY <1>5, <1>7, <2>1, <2>2, <2>3 DEF PlacedAt
  <1>8. CASE z # a /\ z # x
    <2>1. f.inode[p].entry[q] = z
      BY <1>2, <1>8
    <2>2. PlacedAt(f, z, p, q)
      BY <1>4, <2>1 DEF Renames, Sound, OneName, LeadsToDir
    <2>3. \A i \in Inodes, k \in Names : g.inode[i].entry[k] = z => f.inode[i].entry[k] = z
      BY <1>2, <1>8
    <2> QED
      BY <1>5, <1>8, <2>2, <2>3 DEF PlacedAt
  <1> QED
    BY <1>6, <1>7, <1>8

\* The link counts follow, and an inode that lost its last name is an orphan.
Rebalanced(f, g, d, e, a, b, x) ==
    /\ \A i \in Inodes : ~is_dir(f, i) => g.inode[i].nlink = f.inode[i].nlink - One(i = b) + One(i = x)
    /\ \A i \in Inodes : is_dir(f, i) /\ (i = b => x = b) =>
           g.inode[i].nlink = f.inode[i].nlink + DirsMoved(f, d, e, a, b, x, i)
    /\ b # None /\ x # b /\ is_dir(f, b) => \A k \in Names : f.inode[b].entry[k] = None
    /\ \/ g.orphans = f.orphans
       \/ g.orphans = f.orphans \cup {b} /\ b # None /\ x # b /\ g.inode[b].nlink = 0

\* The moved directories close no loop, as check_ancestor_cycle refused the moves that would.
LEMMA RenamedTree ==
    ASSUME NEW f, NEW g, NEW h, NEW d, NEW n, NEW e, NEW m, NEW a, NEW b, NEW x,
           Renames(f, h, d, n, e, m, a, b, x), Renamed(f, g, d, n, e, m, a, x),
           Parented(f, g, d, e, a, x), Rebalanced(f, g, d, e, a, b, x)
    PROVE  Treelike(g, NamedDirs(g))
  <1> DEFINE D == NamedDirs(f)
             E == NamedDirs(g)
  <1>1. /\ d \in Inodes /\ e \in Inodes /\ a \in Inodes /\ None \notin Inodes
        /\ ~(d = e /\ n = m) /\ x # a
        /\ b = None \/ b \in Inodes
        /\ is_dir(f, a) => PlacedAt(f, a, d, n)
        /\ b # None /\ is_dir(f, b) => PlacedAt(f, b, e, m)
    BY RenameParts
  <1>2. /\ f \in FileSystems /\ Sound(f, h) /\ d \in Dirs(f) /\ e \in Dirs(f) /\ x \in {None, b}
        /\ d = Root \/ Named(f, d)
        /\ e = Root \/ Named(f, e)
        /\ n \in Names /\ m \in Names /\ f.inode[d].entry[n] = a /\ f.inode[e].entry[m] = b /\ a # None /\ a # b
    BY DEF Renames
  <1>3. /\ \A i \in Inodes : is_dir(g, i) <=> is_dir(f, i)
        /\ \A i \in Inodes, k \in Names :
             g.inode[i].entry[k] = IF i = d /\ k = n THEN x ELSE IF i = e /\ k = m THEN a ELSE f.inode[i].entry[k]
    BY DEF Renamed, is_dir
  <1>4. Treelike(f, D) /\ D \subseteq Inodes /\ Parents(f)
    <2>1. Parents(f)
      BY <1>2, Parts DEF Parents, Targets
    <2> QED
      BY <1>2, <2>1 DEF Sound, NamedDirs
  <1>5. \A i \in D : i # Root /\ f.inode[i].dotdot \in D \cup {Root}
    BY <1>4 DEF Treelike
  \* The directories that stay are those that were not replaced.
  <1> DEFINE Gone(i) == i = b /\ b # None /\ x # b
  <1>6. \A i \in D : ~Gone(i) => i \in E
    <2> SUFFICES ASSUME NEW i \in D, ~Gone(i) PROVE Named(g, i)
      BY <1>3 DEF NamedDirs
    <2>1. i \in Inodes /\ \E p \in Inodes, q \in Names : f.inode[p].entry[q] = i
      BY DEF NamedDirs, Named
    <2>2. CASE i = a
      BY <1>1, <1>2, <1>3, <2>2 DEF Named
    <2>3. CASE i # a /\ i = b
      <3>1. x = b
        BY <1>1, <2>1, <2>3
      <3> QED
        BY <1>1, <1>2, <1>3, <2>3, <3>1 DEF Named
    <2>4. CASE i # a /\ i # b
      BY <1>1, <1>2, <1>3, <2>1, <2>4 DEF Named
    <2> QED
      BY <2>2, <2>3, <2>4
  <1>7. E \subseteq D
    <2>1. \A i \in Inodes, k \in Names, j \in Inodes : g.inode[i].entry[k] = j => j = a \/ j = b \/ f.inode[i].entry[k] = j
      BY <1>1, <1>2, <1>3
    <2>2. Named(f, a) /\ (b # None => Named(f, b))
      BY <1>1, <1>2 DEF Named
    <2>3. \A i \in Inodes : Named(g, i) => Named(f, i)
      BY <1>1, <2>1, <2>2 DEF Named
    <2> QED
      BY <1>3, <2>3 DEF NamedDirs
  <1>8. d \in D \cup {Root} /\ e \in D \cup {Root}
    BY <1>1, <1>2 DEF NamedDirs, Dirs
  <1>9. \A i \in D, k \in Names : Gone(i) => f.inode[i].entry[k] = None
    BY DEF Rebalanced, NamedDirs
  <1>10. ~(d \in D /\ Gone(d)) /\ ~(e \in D /\ Gone(e))
    BY <1>2, <1>9
  <1>11. \A i \in D : ~(f.inode[i].dotdot \in D /\ Gone(f.inode[i].dotdot))
    <2> SUFFICES ASSUME NEW i \in D, f.inode[i].dotdot \in D PROVE ~Gone(f.inode[i].dotdot)
      OBVIOUS
    <2>1. i \in Inodes /\ is_dir(f, i)
      BY DEF NamedDirs
    <2>2. PICK p \in Inodes, q \in Names : f.inode[p].entry[q] = i
      BY DEF NamedDirs, Named
    <2>3. f.inode[i].dotdot = p
      BY <1>1, <1>2, <2>1, <2>2 DEF Sound, OneName, LeadsToDir, PlacedAt
    <2> QED
      BY <1>1, <1>9, <2>1, <2>2, <2>3
  <1>12. \A i \in E : g.inode[i].dotdot = IF i = a THEN e ELSE IF i = x THEN d ELSE f.inode[i].dotdot
    BY <1>7 DEF Parented, NamedDirs
  <1>13. /\ a \in D => a \notin Ancestors(f, d) /\ a \notin Ancestors(f, e)
         /\ x \in D => x \notin Ancestors(f, d) /\ x \notin Ancestors(f, e)
    <2>1. ASSUME a \in D PROVE a \notin Ancestors(f, d) /\ a \notin Ancestors(f, e)
      <3>1. is_dir(f, a) /\ f.inode[a].dotdot = d
        BY <1>1, <2>1 DEF NamedDirs, PlacedAt
      <3>2. a \notin Ancestors(f, d)
        <4> HIDE DEF D
        <4> QED
          BY <1>4, <2>1, <3>1, NotBelowItself
      <3> QED
        BY <3>1, <3>2 DEF Renames
    <2>2. ASSUME x \in D PROVE x \notin Ancestors(f, d) /\ x \notin Ancestors(f, e)
      <3>1. is_dir(f, x) /\ x = b /\ b # None /\ f.inode[x].dotdot = e
        BY <1>1, <1>2, <2>2 DEF NamedDirs, PlacedAt
      <3>2. x \notin Ancestors(f, e)
        <4> HIDE DEF D
        <4> QED
          BY <1>4, <2>2, <3>1, NotBelowItself
      <3> QED
        BY <3>1, <3>2 DEF Renames
    <2> QED
      BY <2>1, <2>2
  <1> HIDE DEF D, E
  <1>14. \A S \in SUBSET E : ~Loop(g, S)
    <2>1. NotAbove(f, D, a, d, e) /\ NotAbove(f, D, x, d, e) /\ Reparented(f, g, E, a, x, d, e)
      BY <1>12, <1>13 DEF NotAbove, Reparented
    <2> QED
      BY <1>1, <1>4, <1>7, <2>1, MoveMakesNoLoop
  <1>15. \A i \in E : g.inode[i].dotdot \in E \cup {Root}
    BY <1>5, <1>6, <1>7, <1>8, <1>10, <1>11, <1>12
  <1>16. E \subseteq Inodes \ {Root}
    BY <1>4, <1>5, <1>7
  <1>17. Treelike(g, E)
    BY <1>14, <1>15, <1>16 DEF Treelike
  <1> QED
    BY <1>17 DEF E

LEMMA SoundRenamed ==
    ASSUME NEW f, NEW g, NEW h, NEW d, NEW n, NEW e, NEW m, NEW a, NEW b, NEW x,
           Renames(f, h, d, n, e, m, a, b, x), Renamed(f, g, d, n, e, m, a, x),
           Parented(f, g, d, e, a, x), Rebalanced(f, g, d, e, a, b, x)
    PROVE  Sound(g, h)
  <1>1. /\ d \in Inodes /\ e \in Inodes /\ a \in Inodes /\ a \in Linked(f) /\ None \notin Inodes
        /\ ~(d = e /\ n = m) /\ x # a
        /\ b = None \/ (b \in Inodes /\ b \in Linked(f))
        /\ x = None \/ (x \in Inodes /\ x \in Linked(f))
        /\ b # None /\ is_dir(f, b) => PlacedAt(f, b, e, m)
    BY RenameParts
  <1>2. /\ f \in FileSystems /\ Sound(f, h) /\ d \in Dirs(f) /\ e \in Dirs(f) /\ x \in {None, b}
        /\ d = Root \/ Named(f, d)
        /\ e = Root \/ Named(f, e)
        /\ n \in Names /\ m \in Names /\ f.inode[d].entry[n] = a /\ f.inode[e].entry[m] = b /\ a # None
    BY DEF Renames
  <1>3. /\ g \in FileSystems /\ \A i \in Inodes : g.inode[i].kind = f.inode[i].kind
        /\ \A i \in Inodes, k \in Names :
             g.inode[i].entry[k] = IF i = d /\ k = n THEN x ELSE IF i = e /\ k = m THEN a ELSE f.inode[i].entry[k]
    BY DEF Renamed
  <1>4. \A i \in Inodes : is_dir(g, i) <=> is_dir(f, i)
    BY <1>3 DEF is_dir
  <1>5. \A i \in Inodes : /\ f.inode[i].nlink \in Int /\ g.inode[i].nlink \in Int
                          /\ NameCount(f, i) \in Nat /\ DirCount(f, i) \in Nat
                          /\ NameCount(g, i) \in Nat /\ DirCount(g, i) \in Nat
    BY <1>2, <1>3, Parts, Finite
  <1>6. \A i \in Inodes : /\ NameCount(g, i) = NameCount(f, i) - One(i = b) + One(i = x)
                          /\ DirCount(g, i) = DirCount(f, i) + DirsMoved(f, d, e, a, b, x, i)
    BY RenamedCounts
  <1>7. \A i \in Inodes : Named(g, i) => Named(f, i)
    <2>1. \A i \in Inodes, k \in Names, j \in Inodes : g.inode[i].entry[k] = j => j = a \/ j = b \/ f.inode[i].entry[k] = j
      BY <1>1, <1>2, <1>3
    <2>2. Named(f, a) /\ (b # None => Named(f, b))
      BY <1>1, <1>2 DEF Named
    <2> QED
      BY <1>1, <2>1, <2>2 DEF Named
  \* A replaced directory has no name and no entries.
  <1>8. ASSUME b # None, x # b, is_dir(f, b)
        PROVE  ~Named(g, b) /\ b # Root /\ \A k \in Names : g.inode[b].entry[k] = None
    <2>1. b \in Inodes /\ PlacedAt(f, b, e, m) /\ x = None
      BY <1>1, <1>2, <1>8
    <2>2. \A k \in Names : f.inode[b].entry[k] = None
      BY <1>8 DEF Rebalanced
    <2>3. b # d /\ b # e
      BY <1>2, <1>8, <2>2
    <2>4. a # b
      BY DEF Renames
    <2> QED
      BY <1>1, <1>3, <2>1, <2>2, <2>3, <2>4 DEF PlacedAt, Named
  <1>9. \A i \in Inodes : is_dir(f, i) /\ (i = b => x = b) =>
            g.inode[i].nlink - DirCount(g, i) = f.inode[i].nlink - DirCount(f, i)
    <2> SUFFICES ASSUME NEW i \in Inodes, is_dir(f, i), i = b => x = b
                 PROVE  g.inode[i].nlink - DirCount(g, i) = f.inode[i].nlink - DirCount(f, i)
      OBVIOUS
    <2>1. g.inode[i].nlink = f.inode[i].nlink + DirsMoved(f, d, e, a, b, x, i)
      BY DEF Rebalanced
    <2>2. DirsMoved(f, d, e, a, b, x, i) \in Int
      BY DEF DirsMoved, One
    <2> QED
      BY <1>5, <1>6, <2>1, <2>2
  <1>10. Counted(g, h)
    <2>1. \A i \in Inodes : ~is_dir(f, i) =>
              g.inode[i].nlink - NameCount(g, i) = f.inode[i].nlink - NameCount(f, i)
      BY <1>5, <1>6 DEF Rebalanced, One
    <2>2. \A i \in Inodes : is_dir(f, i) /\ (i = Root \/ Named(g, i)) => (i = b => x = b)
      BY <1>1, <1>8
    <2>3. Balanced(f, g)
      BY <1>4, <1>7, <1>9, <2>1, <2>2 DEF Balanced
    <2> QED
      BY <1>2, <1>3, <2>3, BalancedIsCounted DEF Sound
  <1>11. ASSUME NEW i \in Linked(f), is_dir(f, i), i = b => x = b
         PROVE  i \in Dirs(g) /\ i \in Linked(g)
    <2>1. i \in Inodes /\ f.inode[i].nlink > 0 /\ f.inode[i].kind # "free"
      BY DEF Linked
    <2>2. CASE i = d \/ i = e
      <3>1. f.inode[i].nlink >= 2 + DirCount(f, i)
        BY <1>2, <1>11, <2>1, <2>2 DEF Sound, Counted, Fits
      <3>2. g.inode[i].nlink > 0
        BY <1>5, <1>9, <1>11, <2>1, <3>1
      <3> QED
        BY <1>3, <1>4, <1>11, <2>1, <3>2 DEF Dirs, Linked
    <2>3. CASE i # d /\ i # e
      <3>1. g.inode[i].nlink = f.inode[i].nlink + DirsMoved(f, d, e, a, b, x, i) /\ DirsMoved(f, d, e, a, b, x, i) = 0
        BY <1>11, <2>1, <2>3 DEF Rebalanced, DirsMoved
      <3>2. g.inode[i].nlink > 0
        BY <1>5, <2>1, <3>1
      <3> QED
        BY <1>3, <1>4, <1>11, <2>1, <3>2 DEF Dirs, Linked
    <2> QED
      BY <2>2, <2>3
  <1>12. Live(g)
    <2> SUFFICES ASSUME NEW p \in Inodes, NEW q \in Names, g.inode[p].entry[q] # None
                 PROVE  p \in Dirs(g) /\ g.inode[p].entry[q] \in Linked(g)
      BY DEF Live
    <2> DEFINE z == g.inode[p].entry[q]
    <2>1. p \in Dirs(f) /\ p \in Linked(f) /\ is_dir(f, p)
      <3>1. f.inode[p].entry[q] # None => p \in Dirs(f)
        BY <1>2 DEF Sound, Live
      <3>2. p \in Dirs(f)
        BY <1>2, <1>3, <3>1
      <3> QED
        BY <3>2 DEF Dirs
    <2>2. z \in Linked(f) /\ z \in Inodes
      <3>1. f.inode[p].entry[q] # None => f.inode[p].entry[q] \in Linked(f)
        BY <1>2 DEF Sound, Live
      <3> QED
        BY <1>1, <1>3, <3>1 DEF Linked
    <2>3. p = b => x = b
      BY <1>1, <1>8, <2>1
    <2>4. Named(g, z)
      BY DEF Named
    <2>5. CASE is_dir(f, z)
      <3>1. z = b => x = b
        BY <1>1, <1>8, <2>2, <2>4, <2>5
      <3> QED
        BY <1>11, <2>1, <2>2, <2>3, <2>5, <3>1
    <2>6. CASE ~is_dir(f, z)
      <3>1. Fits(h, g.inode[z].nlink, NameCount(g, z)) /\ NameCount(g, z) > 0
        BY <1>4, <1>10, <2>2, <2>4, <2>6, NamedIsCounted DEF Counted
      <3>2. g.inode[z].nlink > 0
        BY <1>5, <2>2, <3>1 DEF Fits
      <3>3. z \in Linked(g)
        BY <1>3, <2>2, <3>2 DEF Linked
      <3> QED
        BY <1>11, <2>1, <2>3, <3>3
    <2> QED
      BY <2>5, <2>6
  <1>13. OneName(g)
    BY RenamedOnce
  <1>14. Root \in Dirs(g)
    <2>1. Root \in Linked(f) /\ is_dir(f, Root)
      BY <1>2 DEF Sound, Dirs
    <2>2. Root = b => x = b
      BY <1>1, <1>8, <2>1 DEF Linked
    <2> QED
      BY <1>11, <2>1, <2>2
  <1>15. \A i \in g.orphans : g.inode[i].kind # "free" /\ g.inode[i].nlink = 0
    <2>1. ASSUME NEW i \in f.orphans PROVE g.inode[i].kind # "free" /\ g.inode[i].nlink = 0
      <3>1. i \in Inodes /\ f.inode[i].kind # "free" /\ f.inode[i].nlink = 0
        BY <1>2, Parts DEF Sound
      <3>2. i # d /\ i # e /\ i # b /\ i # x
        BY <1>1, <1>2, <3>1 DEF Dirs, Linked
      <3>3. DirsMoved(f, d, e, a, b, x, i) = 0 /\ One(i = b) = 0 /\ One(i = x) = 0
        BY <3>2 DEF DirsMoved, One
      <3>4. g.inode[i].nlink = 0
        BY <3>1, <3>2, <3>3 DEF Rebalanced
      <3> QED
        BY <1>3, <3>1, <3>4
    <2>2. b # None => g.inode[b].kind # "free"
      BY <1>1, <1>3 DEF Linked
    <2> QED
      BY <2>1, <2>2 DEF Rebalanced
  <1>16. Treelike(g, NamedDirs(g))
    BY RenamedTree
  <1> QED
    BY <1>10, <1>12, <1>13, <1>14, <1>15, <1>16 DEF Sound

\* Directory c, if it is one, is moved from d to e.
MovedTo(f, g, c, d, e) ==
    /\ g \in FileSystems /\ g.orphans = f.orphans
    /\ \A i \in Inodes :
           /\ g.inode[i].kind = f.inode[i].kind /\ g.inode[i].entry = f.inode[i].entry
           /\ g.inode[i].dotdot = IF MovesDir(f, c, d, e) /\ i = c THEN e ELSE f.inode[i].dotdot
           /\ g.inode[i].nlink = f.inode[i].nlink
                + IF MovesDir(f, c, d, e) THEN One(i = e) - One(i = d) ELSE 0

LEMMA Moves ==
    ASSUME NEW f \in FileSystems, NEW c \in Inodes, NEW d \in Inodes, NEW e \in Inodes
    PROVE  MovedTo(f, IF MovesDir(f, c, d, e) THEN Moved(f, c, d, e) ELSE f, c, d, e)
  <1> DEFINE dots == SetDotdot(f, c, e)
             lower == AddLinks(dots, d, -1)
             g == AddLinks(lower, e, 1)
  <1>1. e \in Targets /\ -1 \in Int /\ 1 \in Int
    BY DEF Targets
  <1>2. Dotted(f, dots, c, e)
    BY <1>1, Dots
  <1> HIDE DEF dots
  <1>3. dots \in FileSystems
    BY <1>2 DEF Dotted
  <1>4. Relinked(dots, lower, d, -1)
    BY <1>1, <1>3, Relinks
  <1> HIDE DEF lower
  <1>5. lower \in FileSystems
    BY <1>4 DEF Relinked
  <1>6. Relinked(lower, g, e, 1)
    BY <1>1, <1>5, Relinks
  <1>7. Moved(f, c, d, e) = g
    BY DEF Moved, dots, lower
  <1> HIDE DEF g
  <1>8. \A i \in Inodes : f.inode[i].nlink \in Int
    BY Parts
  <1>9. CASE MovesDir(f, c, d, e)
    <2>1. \A i \in Inodes : g.inode[i].nlink = f.inode[i].nlink + (One(i = e) - One(i = d))
      BY <1>2, <1>4, <1>6, <1>8 DEF Dotted, Relinked, One
    <2>2. \A i \in Inodes : /\ g.inode[i].kind = f.inode[i].kind /\ g.inode[i].entry = f.inode[i].entry
                            /\ g.inode[i].dotdot = IF i = c THEN e ELSE f.inode[i].dotdot
      BY <1>2, <1>4, <1>6 DEF Dotted, Relinked
    <2>3. g \in FileSystems /\ g.orphans = f.orphans
      BY <1>2, <1>4, <1>6 DEF Dotted, Relinked
    <2> QED
      BY <1>7, <1>9, <2>1, <2>2, <2>3 DEF MovedTo
  <1>10. CASE ~MovesDir(f, c, d, e)
    BY <1>8, <1>10 DEF MovedTo
  <1> QED
    BY <1>9, <1>10

LEMMA ThreeWrites ==
    ASSUME NEW h, NEW a \in SafeWrites(h), NEW b \in SafeWrites(h), NEW c \in SafeWrites(h)
    PROVE  RowTo(<<a, b, c>>, h, c.fs)
  <1>1. <<a, b, c>> \in Seq(SafeWrites(h)) /\ <<a, b, c>> # <<>> /\ Len(<<a, b, c>>) = 3 /\ <<a, b, c>>[3] = c
    OBVIOUS
  <1> QED
    BY <1>1 DEF RowTo

\* A row that leads from f to g, and may be empty.
Between(row, h, f, g) == IF row = <<>> THEN g = f ELSE RowTo(row, h, g)

LEMMA JoinedBetween ==
    ASSUME NEW h, NEW s, NEW f, RowTo(s, h, f), NEW t, NEW g, Between(t, h, f, g)
    PROVE  RowTo(s \o t, h, g)
  <1>1. s \in Seq(SafeWrites(h))
    BY DEF RowTo
  <1>2. CASE t = <<>>
    BY <1>1, <1>2, ConcatEmptySeq DEF Between
  <1>3. CASE t # <<>>
    BY <1>1, <1>3, Joined DEF Between
  <1> QED
    BY <1>2, <1>3

\* The writes that move a directory leave the names live, as its old parent had a link for it.
LEMMA MoveRowIsSafe ==
    ASSUME NEW f \in FileSystems, NEW h, Live(f), NEW c \in Inodes, NEW d \in Inodes, NEW e \in Inodes,
           MovesDir(f, c, d, e) => f.inode[d].nlink > 1
    PROVE  \E g \in FileSystems : /\ MovedTo(f, g, c, d, e) /\ Live(g)
                                  /\ Between(MoveRow(f, c, d, e), h, f, g)
  <1> DEFINE dots == SetDotdot(f, c, e)
             lower == AddLinks(dots, d, -1)
             g == AddLinks(lower, e, 1)
             a1 == Guarded(f, dots)
             a2 == Guarded(dots, lower)
             a3 == Guarded(lower, g)
  <1>1. e \in Targets /\ -1 \in Int /\ 1 \in Int
    BY DEF Targets
  <1>2. Dotted(f, dots, c, e)
    BY <1>1, Dots
  <1>3. CASE MovesDir(f, c, d, e)
    <2>1. MoveRow(f, c, d, e) = <<a1, a2, a3>>
      BY <1>3 DEF MoveRow
    <2>2. Moved(f, c, d, e) = g
      BY DEF Moved
    <2> HIDE DEF dots
    <2>3. dots \in FileSystems
      BY <1>2 DEF Dotted
    <2>4. Relinked(dots, lower, d, -1)
      BY <1>1, <2>3, Relinks
    <2> HIDE DEF lower
    <2>5. lower \in FileSystems
      BY <2>4 DEF Relinked
    <2>6. Relinked(lower, g, e, 1)
      BY <1>1, <2>5, Relinks
    <2> HIDE DEF g
    <2>7. g \in FileSystems /\ MovedTo(f, g, c, d, e)
      <3>1. MovedTo(f, g, c, d, e)
        BY <1>3, <2>2, Moves
      <3> QED
        BY <2>6, <3>1 DEF Relinked
    <2>8. \A i \in Inodes : f.inode[i].nlink \in Int /\ dots.inode[i].nlink = f.inode[i].nlink /\ lower.inode[i].nlink \in Int
      BY <1>2, <2>5, Parts DEF Dotted
    <2>9. Live(dots)
      BY <1>2, LiveDotted
    <2>10. Live(lower)
      <3>1. dots.inode[d].nlink + (-1) > 0
        BY <1>3, <2>8
      <3> QED
        BY <1>1, <2>3, <2>4, <2>9, <3>1, LiveRelinked
    <2>11. Live(g)
      <3>1. e \in Linked(lower) => lower.inode[e].nlink + 1 > 0
        BY <2>8 DEF Linked
      <3> QED
        BY <1>1, <2>5, <2>6, <2>10, <3>1, LiveRelinked
    <2>12. a1 \in SafeWrites(h) /\ a2 \in SafeWrites(h) /\ a3 \in SafeWrites(h) /\ a3.fs = g
      BY <2>3, <2>5, <2>7, <2>9, <2>10, <2>11, GuardedIsSafe
    <2> HIDE DEF a1, a2, a3
    <2>13. RowTo(<<a1, a2, a3>>, h, g) /\ <<a1, a2, a3>> # <<>>
      BY <2>12, ThreeWrites
    <2> QED
      BY <2>1, <2>7, <2>11, <2>13 DEF Between
  <1>4. CASE ~MovesDir(f, c, d, e)
    <2>1. MoveRow(f, c, d, e) = <<>>
      BY <1>4 DEF MoveRow
    <2>2. MovedTo(f, f, c, d, e)
      BY <1>4, Moves
    <2> QED
      BY <2>1, <2>2 DEF Between
  <1> QED
    BY <1>3, <1>4

\* A directory that is moved within its parent has its ".." already.
LEMMA MovedParents ==
    ASSUME NEW f, NEW h, NEW d, NEW n, NEW e, NEW m, NEW a, NEW b, NEW x, Renames(f, h, d, n, e, m, a, b, x)
    PROVE  /\ is_dir(f, a) /\ ~MovesDir(f, a, d, e) => f.inode[a].dotdot = e
           /\ b # None /\ is_dir(f, b) /\ ~MovesDir(f, b, e, d) => f.inode[b].dotdot = d
           /\ MovesDir(f, a, d, e) => f.inode[d].nlink > 2
           /\ b # None /\ MovesDir(f, b, e, d) => f.inode[e].nlink > 2
  <1>1. /\ is_dir(f, a) => PlacedAt(f, a, d, n)
        /\ b # None /\ is_dir(f, b) => PlacedAt(f, b, e, m)
    BY RenameParts
  <1>2. /\ f \in FileSystems /\ Sound(f, h) /\ d \in Dirs(f) /\ e \in Dirs(f)
        /\ d = Root \/ Named(f, d)
        /\ e = Root \/ Named(f, e)
        /\ n \in Names /\ m \in Names /\ f.inode[d].entry[n] = a /\ f.inode[e].entry[m] = b /\ a # None
    BY DEF Renames
  <1>3. MovesDir(f, a, d, e) => f.inode[d].nlink > 2
    BY <1>2, KnownDir DEF MovesDir, LeadsToDir
  <1>4. b # None /\ MovesDir(f, b, e, d) => f.inode[e].nlink > 2
    BY <1>2, KnownDir DEF MovesDir, LeadsToDir
  <1> QED
    BY <1>1, <1>3, <1>4 DEF PlacedAt, MovesDir

\* A rename to a free name.
LEMMA RenameSimpleRow ==
    ASSUME NEW f, NEW h, NEW d, NEW n, NEW e, NEW m, NEW a, Renames(f, h, d, n, e, m, a, None, None)
    PROVE  \E g \in FileSystems : RowTo(rename_simple(f, d, n, e, m), h, g) /\ Sound(g, h)
  <1> DEFINE added == SetEntry(f, e, m, a)
             removed == SetEntry(added, d, n, None)
             F == {Clean(f)} \cup Poisons({f, added})
             w1 == W(added, F)
             w2 == Guarded(added, removed)
             tail == MoveRow(removed, a, d, e)
  <1>1. /\ d \in Inodes /\ e \in Inodes /\ a \in Inodes /\ a \in Linked(f) /\ None \notin Inodes
        /\ ~(d = e /\ n = m)
    BY RenameParts
  <1>2. /\ f \in FileSystems /\ Sound(f, h) /\ Live(f) /\ d \in Dirs(f) /\ e \in Dirs(f)
        /\ n \in Names /\ m \in Names /\ f.inode[d].entry[n] = a /\ a \in Targets /\ None \in Targets
    BY <1>1 DEF Renames, Sound, Targets
  <1>3. rename_simple(f, d, n, e, m) = <<w1, w2>> \o tail
    BY <1>2 DEF rename_simple, dir_find_entry
  <1>4. Entered(f, added, e, m, a)
    BY <1>1, <1>2, Enters
  <1> HIDE DEF added
  <1>5. added \in FileSystems
    BY <1>4 DEF Entered
  <1>6. Entered(added, removed, d, n, None)
    BY <1>1, <1>2, <1>5, Enters
  <1> HIDE DEF removed
  <1>7. removed \in FileSystems
    BY <1>6 DEF Entered
  <1>8. Live(added) /\ Dirs(added) = Dirs(f)
    BY <1>1, <1>2, <1>4, LiveEntered
  <1>9. Live(removed)
    BY <1>2, <1>5, <1>6, <1>8, LiveEntered
  <1>10. w1 \in SafeWrites(h)
    <2>1. F = {Clean(f), Left(f, TRUE, {}), Left(added, TRUE, {})}
      BY DEF Poisons
    <2>2. F \subseteq Lefts /\ \A y \in F : Tolerable(y, h)
      BY <1>2, <1>5, <1>8, <2>1, CleanIsTolerable, PoisonIsTolerable
    <2> HIDE DEF F
    <2> QED
      BY <1>5, <1>8, <2>2, WriteIsSafe
  <1>11. w2 \in SafeWrites(h) /\ w2.fs = removed
    BY <1>5, <1>7, <1>8, <1>9, GuardedIsSafe
  <1> HIDE DEF w1, w2
  <1>12. RowTo(<<w1, w2>>, h, removed)
    BY <1>10, <1>11, TwoWrites
  <1>13. MovesDir(removed, a, d, e) <=> MovesDir(f, a, d, e)
    BY <1>1, <1>4, <1>6 DEF MovesDir, is_dir, Entered
  <1>14. MovesDir(removed, a, d, e) => removed.inode[d].nlink > 1
    <2>1. MovesDir(f, a, d, e) => f.inode[d].nlink > 2
      BY MovedParents
    <2>2. removed.inode[d].nlink = f.inode[d].nlink /\ f.inode[d].nlink \in Int
      BY <1>1, <1>2, <1>4, <1>6, Parts DEF Entered
    <2> QED
      BY <1>13, <2>1, <2>2
  <1>15. PICK g \in FileSystems : MovedTo(removed, g, a, d, e) /\ Between(tail, h, removed, g)
    BY <1>1, <1>7, <1>9, <1>14, MoveRowIsSafe
  <1> HIDE DEF tail
  <1>16. RowTo(<<w1, w2>> \o tail, h, g)
    <2> DEFINE s == <<w1, w2>>
    <2>1. RowTo(s, h, removed)
      BY <1>12
    <2> HIDE DEF s
    <2>2. RowTo(s \o tail, h, g)
      BY <1>15, <2>1, JoinedBetween
    <2> QED
      BY <2>2 DEF s
  <1>17. Renamed(f, g, d, n, e, m, a, None)
    BY <1>1, <1>4, <1>6, <1>15 DEF Renamed, MovedTo, Entered
  <1>18. \A i \in Inodes : /\ g.inode[i].dotdot = IF MovesDir(f, a, d, e) /\ i = a THEN e ELSE f.inode[i].dotdot
                           /\ g.inode[i].nlink = f.inode[i].nlink
                                + IF MovesDir(f, a, d, e) THEN One(i = e) - One(i = d) ELSE 0
    BY <1>4, <1>6, <1>13, <1>15 DEF MovedTo, Entered
  <1>19. Parented(f, g, d, e, a, None)
    <2>1. is_dir(f, a) /\ ~MovesDir(f, a, d, e) => f.inode[a].dotdot = e
      BY MovedParents
    <2>2. is_dir(f, a) /\ MovesDir(f, a, d, e) => g.inode[a].dotdot = e
      BY <1>1, <1>18
    <2> QED
      BY <1>1, <1>18, <2>1, <2>2 DEF Parented
  <1>20. Rebalanced(f, g, d, e, a, None, None)
    <2>1. g.orphans = f.orphans
      BY <1>4, <1>6, <1>15 DEF MovedTo, Entered
    <2>2. \A i \in Inodes : f.inode[i].nlink \in Int
      BY <1>2, Parts
    <2>3. ASSUME NEW i \in Inodes, ~is_dir(f, i)
          PROVE  g.inode[i].nlink = f.inode[i].nlink - One(i = None) + One(i = None)
      <3>1. i # d /\ i # e
        BY <1>2, <2>3 DEF Dirs
      <3> QED
        BY <1>18, <2>2, <3>1 DEF One
    <2>4. ASSUME NEW i \in Inodes
          PROVE  g.inode[i].nlink = f.inode[i].nlink + DirsMoved(f, d, e, a, None, None, i)
      <3>1. One(LeadsToDir(f, None)) = 0 /\ One(LeadsToDir(f, a)) = IF is_dir(f, a) THEN 1 ELSE 0
        BY <1>1 DEF LeadsToDir, One
      <3> QED
        BY <1>18, <2>2, <3>1 DEF DirsMoved, One, MovesDir
    <2> QED
      BY <2>1, <2>3, <2>4 DEF Rebalanced
  <1>21. Sound(g, h)
    BY <1>17, <1>19, <1>20, SoundRenamed
  <1> QED
    BY <1>3, <1>16, <1>21

\* A rename over another inode.
LEMMA RenameReplaceRow ==
    ASSUME NEW f, NEW h, NEW d, NEW n, NEW e, NEW m, NEW a, NEW b, Renames(f, h, d, n, e, m, a, b, None),
           b # None, may_replace(f, a, b)
    PROVE  \E g \in FileSystems : RowTo(rename_replace(f, d, n, e, m), h, g) /\ Sound(g, h)
  <1> DEFINE added == SetEntry(f, e, m, a)
             renamed == SetEntry(added, d, n, None)
             lower == AddLinks(renamed, e, -1)
             counted == IF is_dir(f, b) THEN lower ELSE renamed
             moved == IF MovesDir(f, a, d, e) THEN Moved(counted, a, d, e) ELSE counted
             last == Orphaned(moved, b)
             less == AddLinks(moved, b, -1)
             g == IF namespace_removal_is_final(f, b) THEN last ELSE less
  <1>1. /\ d \in Inodes /\ e \in Inodes /\ a \in Inodes /\ a \in Linked(f) /\ None \notin Inodes
        /\ ~(d = e /\ n = m) /\ b \in Inodes /\ b \in Linked(f)
    BY RenameParts
  <1>2. /\ f \in FileSystems /\ Sound(f, h) /\ d \in Dirs(f) /\ e \in Dirs(f) /\ a # b
        /\ n \in Names /\ m \in Names /\ f.inode[d].entry[n] = a /\ f.inode[e].entry[m] = b
        /\ a \in Targets /\ None \in Targets /\ -1 \in Int
    BY <1>1 DEF Renames, Sound, Targets
  <1>3. rename_replace(f, d, n, e, m) = commit(f, g)
    BY <1>2 DEF rename_replace, dir_find_entry
  <1>4. Entered(f, added, e, m, a)
    BY <1>1, <1>2, Enters
  <1> HIDE DEF added
  <1>5. added \in FileSystems
    BY <1>4 DEF Entered
  <1>6. Entered(added, renamed, d, n, None)
    BY <1>1, <1>2, <1>5, Enters
  <1> HIDE DEF renamed
  <1>7. renamed \in FileSystems
    BY <1>6 DEF Entered
  <1>8. Relinked(renamed, lower, e, -1)
    BY <1>1, <1>2, <1>7, Relinks
  <1> HIDE DEF lower
  <1>9. /\ counted \in FileSystems /\ counted.orphans = f.orphans /\ Renamed(f, counted, d, n, e, m, a, None)
        /\ \A i \in Inodes : /\ counted.inode[i].dotdot = f.inode[i].dotdot
                             /\ counted.inode[i].nlink = f.inode[i].nlink + IF is_dir(f, b) /\ i = e THEN -1 ELSE 0
    <2>1. \A i \in Inodes : f.inode[i].nlink \in Int
      BY <1>2, Parts
    <2>2. CASE is_dir(f, b)
      <3>1. counted = lower
        BY <2>2
      <3> HIDE DEF counted
      <3> QED
        BY <1>1, <1>4, <1>6, <1>8, <2>1, <2>2, <3>1 DEF Entered, Relinked, Renamed
    <2>3. CASE ~is_dir(f, b)
      <3>1. counted = renamed
        BY <2>3
      <3> HIDE DEF counted
      <3> QED
        BY <1>1, <1>4, <1>6, <1>7, <2>1, <2>3, <3>1 DEF Entered, Renamed
    <2> QED
      BY <2>2, <2>3
  <1> HIDE DEF counted
  <1>10. MovesDir(counted, a, d, e) <=> MovesDir(f, a, d, e)
    BY <1>1, <1>9 DEF MovesDir, is_dir, Renamed
  <1>11. MovedTo(counted, moved, a, d, e)
    <2>1. MovedTo(counted, IF MovesDir(counted, a, d, e) THEN Moved(counted, a, d, e) ELSE counted, a, d, e)
      BY <1>1, <1>9, Moves
    <2> QED
      BY <1>10, <2>1
  <1> HIDE DEF moved
  <1>12. /\ moved \in FileSystems /\ moved.orphans = f.orphans /\ Renamed(f, moved, d, n, e, m, a, None)
    BY <1>9, <1>11 DEF MovedTo, Renamed
  <1>13. \A i \in Inodes : /\ moved.inode[i].dotdot = IF MovesDir(f, a, d, e) /\ i = a THEN e ELSE f.inode[i].dotdot
                           /\ moved.inode[i].nlink = (f.inode[i].nlink + IF is_dir(f, b) /\ i = e THEN -1 ELSE 0)
                                + IF MovesDir(f, a, d, e) THEN One(i = e) - One(i = d) ELSE 0
    BY <1>9, <1>10, <1>11 DEF MovedTo
  <1>14. /\ last \in FileSystems /\ last.orphans = f.orphans \cup {b}
         /\ \A i \in Inodes : /\ last.inode[i].kind = moved.inode[i].kind
                              /\ last.inode[i].nlink = IF i = b THEN 0 ELSE moved.inode[i].nlink
                              /\ last.inode[i].dotdot = moved.inode[i].dotdot
                              /\ last.inode[i].entry = moved.inode[i].entry
    <2>1. last \in FileSystems /\ last.orphans = moved.orphans \cup {b}
      BY <1>1, <1>12, Orphans
    <2>2. \A i \in Inodes : /\ last.inode[i].kind = moved.inode[i].kind
                            /\ last.inode[i].nlink = IF i = b THEN 0 ELSE moved.inode[i].nlink
                            /\ last.inode[i].dotdot = moved.inode[i].dotdot
                            /\ last.inode[i].entry = moved.inode[i].entry
      BY <1>1, <1>12, Orphans
    <2> HIDE DEF last
    <2> QED
      BY <1>12, <2>1, <2>2
  <1>15. Relinked(moved, less, b, -1)
    BY <1>1, <1>2, <1>12, Relinks
  <1> HIDE DEF last, less
  <1>16. \A i \in Inodes : f.inode[i].nlink \in Int /\ moved.inode[i].nlink \in Int
    BY <1>2, <1>12, Parts
  <1>17. f.inode[b].nlink > 0 /\ (~is_dir(f, b) => moved.inode[b].nlink = f.inode[b].nlink)
    <2>1. f.inode[b].nlink > 0
      BY <1>1 DEF Linked
    <2>2. ~is_dir(f, b) => b # e /\ b # d
      BY <1>2 DEF Dirs
    <2> QED
      BY <1>1, <1>13, <1>16, <2>1, <2>2 DEF One
  <1>18. /\ g \in FileSystems /\ Renamed(f, g, d, n, e, m, a, None)
         /\ \A i \in Inodes : g.inode[i].dotdot = moved.inode[i].dotdot
         /\ \A i \in Inodes : i # b => g.inode[i].nlink = moved.inode[i].nlink
    <2>1. CASE g = last
      <3> HIDE DEF g
      <3> QED
        BY <1>12, <1>14, <2>1 DEF Renamed
    <2>2. CASE g = less
      <3> HIDE DEF g
      <3> QED
        BY <1>12, <1>15, <1>16, <2>2 DEF Renamed, Relinked
    <2> QED
      BY <2>1, <2>2
  <1>19. /\ ~is_dir(f, b) => g.inode[b].nlink = f.inode[b].nlink - 1
         /\ g.orphans = f.orphans \/ (g.orphans = f.orphans \cup {b} /\ g.inode[b].nlink = 0)
    <2>1. CASE namespace_removal_is_final(f, b)
      <3>1. g = last
        BY <2>1
      <3>2. ~is_dir(f, b) => f.inode[b].nlink = 1
        BY <1>1, <1>16, <1>17, <2>1 DEF namespace_removal_is_final
      <3> HIDE DEF g
      <3> QED
        BY <1>1, <1>14, <3>1, <3>2
    <2>2. CASE ~namespace_removal_is_final(f, b)
      <3>1. g = less
        BY <2>2
      <3> HIDE DEF g
      <3> QED
        BY <1>1, <1>12, <1>15, <1>16, <1>17, <3>1 DEF Relinked
    <2> QED
      BY <2>1, <2>2
  <1> HIDE DEF g
  <1>20. Parented(f, g, d, e, a, None)
    <2>1. is_dir(f, a) /\ ~MovesDir(f, a, d, e) => f.inode[a].dotdot = e
      BY MovedParents
    <2> QED
      BY <1>1, <1>13, <1>18, <2>1 DEF Parented
  <1>21. Rebalanced(f, g, d, e, a, b, None)
    <2>1. ASSUME NEW i \in Inodes, ~is_dir(f, i)
          PROVE  g.inode[i].nlink = f.inode[i].nlink - One(i = b) + One(i = None)
      <3>1. i # d /\ i # e /\ i # None
        BY <1>1, <1>2, <2>1 DEF Dirs
      <3>2. CASE i = b
        BY <1>16, <1>19, <2>1, <3>1, <3>2 DEF One
      <3>3. CASE i # b
        BY <1>13, <1>16, <1>18, <3>1, <3>3 DEF One
      <3> QED
        BY <3>2, <3>3
    <2>2. ASSUME NEW i \in Inodes, i # b
          PROVE  g.inode[i].nlink = f.inode[i].nlink + DirsMoved(f, d, e, a, b, None, i)
      <3>1. /\ One(LeadsToDir(f, None)) = 0 /\ One(LeadsToDir(f, a)) = One(LeadsToDir(f, b))
            /\ One(LeadsToDir(f, b)) = IF is_dir(f, b) THEN 1 ELSE 0
        BY <1>1 DEF LeadsToDir, One, may_replace
      <3>2. MovesDir(f, a, d, e) <=> is_dir(f, b) /\ d # e
        BY DEF MovesDir, may_replace
      <3> QED
        BY <1>13, <1>16, <1>18, <2>2, <3>1, <3>2 DEF DirsMoved, One
    <2>3. is_dir(f, b) => \A k \in Names : f.inode[b].entry[k] = None
      BY DEF may_replace, dir_is_empty, Nothing
    <2> QED
      BY <1>1, <1>19, <2>1, <2>2, <2>3 DEF Rebalanced
  <1>22. Sound(g, h)
    BY <1>18, <1>20, <1>21, SoundRenamed
  <1> QED
    BY <1>2, <1>3, <1>18, <1>22, CommitRow

\* rename_exchange: two entries, then the parents of the directories among them.
LEMMA ExchangeRow ==
    ASSUME NEW f, NEW h, NEW d, NEW n, NEW e, NEW m, NEW a, NEW b, Renames(f, h, d, n, e, m, a, b, b), b # None
    PROVE  \E g \in FileSystems : RowTo(exchange(f, d, n, e, m), h, g) /\ Sound(g, h)
  <1> DEFINE first == SetEntry(f, d, n, b)
             second == SetEntry(first, e, m, a)
             rowA == MoveRow(second, a, d, e)
             afterA == IF rowA = <<>> THEN second ELSE rowA[Len(rowA)].fs
             rowB == MoveRow(afterA, b, e, d)
             w1 == Guarded(f, first)
             w2 == Guarded(first, second)
             s == <<w1, w2>>
  <1>1. /\ d \in Inodes /\ e \in Inodes /\ a \in Inodes /\ a \in Linked(f) /\ None \notin Inodes
        /\ ~(d = e /\ n = m) /\ b \in Inodes /\ b \in Linked(f)
    BY RenameParts
  <1>2. /\ f \in FileSystems /\ Sound(f, h) /\ Live(f) /\ d \in Dirs(f) /\ e \in Dirs(f) /\ a # b
        /\ n \in Names /\ m \in Names /\ f.inode[d].entry[n] = a /\ f.inode[e].entry[m] = b
        /\ a \in Targets /\ b \in Targets
    BY <1>1 DEF Renames, Sound, Targets
  <1>3. exchange(f, d, n, e, m) = (s \o rowA) \o rowB
    BY <1>2 DEF exchange, dir_find_entry
  <1>4. Entered(f, first, d, n, b)
    BY <1>1, <1>2, Enters
  <1> HIDE DEF first
  <1>5. first \in FileSystems
    BY <1>4 DEF Entered
  <1>6. Entered(first, second, e, m, a)
    BY <1>1, <1>2, <1>5, Enters
  <1> HIDE DEF second
  <1>7. second \in FileSystems
    BY <1>6 DEF Entered
  <1>8. Live(first) /\ Dirs(first) = Dirs(f) /\ Linked(first) = Linked(f)
    BY <1>1, <1>2, <1>4, LiveEntered
  <1>9. Live(second)
    BY <1>1, <1>2, <1>5, <1>6, <1>8, LiveEntered
  <1>10. w1 \in SafeWrites(h) /\ w2 \in SafeWrites(h) /\ w2.fs = second
    BY <1>2, <1>5, <1>7, <1>8, <1>9, GuardedIsSafe
  <1> HIDE DEF w1, w2
  <1>11. RowTo(s, h, second)
    BY <1>10, TwoWrites
  <1> HIDE DEF s
  <1>12. \A i \in Inodes : f.inode[i].nlink \in Int
    BY <1>2, Parts
  <1>13. /\ \A i \in Inodes : /\ second.inode[i].kind = f.inode[i].kind /\ second.inode[i].nlink = f.inode[i].nlink
                              /\ second.inode[i].dotdot = f.inode[i].dotdot
         /\ second.orphans = f.orphans /\ Renamed(f, second, d, n, e, m, a, b)
    BY <1>1, <1>4, <1>6 DEF Entered, Renamed
  <1>14. MovesDir(second, a, d, e) <=> MovesDir(f, a, d, e)
    BY <1>1, <1>13 DEF MovesDir, is_dir
  <1>15. MovesDir(second, a, d, e) => second.inode[d].nlink > 1
    <2>1. MovesDir(f, a, d, e) => f.inode[d].nlink > 2
      BY MovedParents
    <2> QED
      BY <1>1, <1>12, <1>13, <1>14, <2>1
  <1>16. PICK k \in FileSystems : MovedTo(second, k, a, d, e) /\ Live(k) /\ Between(rowA, h, second, k)
    BY <1>1, <1>7, <1>9, <1>15, MoveRowIsSafe
  <1>17. afterA = k
    BY <1>16 DEF Between, RowTo
  <1> HIDE DEF rowA, afterA
  <1>18. RowTo(s \o rowA, h, k)
    BY <1>11, <1>16, JoinedBetween
  <1>19. \A i \in Inodes : /\ k.inode[i].kind = f.inode[i].kind
                           /\ k.inode[i].nlink = f.inode[i].nlink
                                + IF MovesDir(f, a, d, e) THEN One(i = e) - One(i = d) ELSE 0
                           /\ k.inode[i].dotdot = IF MovesDir(f, a, d, e) /\ i = a THEN e ELSE f.inode[i].dotdot
    BY <1>13, <1>14, <1>16 DEF MovedTo
  <1>20. MovesDir(k, b, e, d) <=> MovesDir(f, b, e, d)
    BY <1>1, <1>19 DEF MovesDir, is_dir
  <1>21. MovesDir(k, b, e, d) => k.inode[e].nlink > 1
    <2>1. MovesDir(f, b, e, d) => f.inode[e].nlink > 2
      BY MovedParents
    <2>2. k.inode[e].nlink = f.inode[e].nlink + IF MovesDir(f, a, d, e) THEN One(e = e) - One(e = d) ELSE 0
      BY <1>1, <1>19
    <2> QED
      BY <1>1, <1>12, <1>20, <2>1, <2>2 DEF One
  <1>22. PICK g \in FileSystems : MovedTo(k, g, b, e, d) /\ Between(rowB, h, k, g)
    BY <1>1, <1>16, <1>17, <1>21, MoveRowIsSafe
  <1> HIDE DEF rowB
  <1>23. RowTo((s \o rowA) \o rowB, h, g)
    <2> DEFINE r == s \o rowA
    <2>1. RowTo(r, h, k)
      BY <1>18
    <2> HIDE DEF r
    <2>2. RowTo(r \o rowB, h, g)
      BY <1>22, <2>1, JoinedBetween
    <2> QED
      BY <2>2 DEF r
  <1>24. Renamed(f, g, d, n, e, m, a, b) /\ g.orphans = f.orphans
    BY <1>13, <1>16, <1>22 DEF Renamed, MovedTo
  <1>25. \A i \in Inodes :
            /\ g.inode[i].dotdot = IF MovesDir(f, b, e, d) /\ i = b THEN d
                                   ELSE IF MovesDir(f, a, d, e) /\ i = a THEN e ELSE f.inode[i].dotdot
            /\ g.inode[i].nlink = (f.inode[i].nlink + IF MovesDir(f, a, d, e) THEN One(i = e) - One(i = d) ELSE 0)
                                  + IF MovesDir(f, b, e, d) THEN One(i = d) - One(i = e) ELSE 0
    BY <1>19, <1>20, <1>22 DEF MovedTo
  <1>26. Parented(f, g, d, e, a, b)
    <2>1. /\ is_dir(f, a) /\ ~MovesDir(f, a, d, e) => f.inode[a].dotdot = e
          /\ is_dir(f, b) /\ ~MovesDir(f, b, e, d) => f.inode[b].dotdot = d
      BY MovedParents
    <2> QED
      BY <1>1, <1>2, <1>25, <2>1 DEF Parented
  <1>27. Rebalanced(f, g, d, e, a, b, b)
    <2>1. ASSUME NEW i \in Inodes, ~is_dir(f, i)
          PROVE  g.inode[i].nlink = f.inode[i].nlink - One(i = b) + One(i = b)
      <3>1. i # d /\ i # e
        BY <1>2, <2>1 DEF Dirs
      <3> QED
        BY <1>12, <1>25, <3>1 DEF One
    <2>2. ASSUME NEW i \in Inodes
          PROVE  g.inode[i].nlink = f.inode[i].nlink + DirsMoved(f, d, e, a, b, b, i)
      <3>1. /\ One(LeadsToDir(f, a)) = IF is_dir(f, a) THEN 1 ELSE 0
            /\ One(LeadsToDir(f, b)) = IF is_dir(f, b) THEN 1 ELSE 0
        BY <1>1 DEF LeadsToDir, One
      <3> QED
        BY <1>12, <1>25, <3>1 DEF DirsMoved, One, MovesDir
    <2> QED
      BY <1>24, <2>1, <2>2 DEF Rebalanced
  <1>28. Sound(g, h)
    BY <1>24, <1>26, <1>27, SoundRenamed
  <1> QED
    BY <1>3, <1>23, <1>28

-----------------------------------------------------------------------------
(* The steps *)

\* A set of naturals that is not empty has its minimum as a member.
LEMMA MinMember ==
    ASSUME NEW S, S \subseteq Nat, S # {}
    PROVE  Min(S) \in S
  <1> DEFINE R == OpToRel(<, Nat)
  <1>1. IsWellFoundedOn(R, Nat)
    BY NatLessThanWellFounded
  <1>2. \A x, y \in Nat : y < x => <<y, x>> \in R
    BY DEF OpToRel
  <1> HIDE DEF R
  <1>3. PICK x \in S : \A y \in S : ~(<<y, x>> \in R)
    BY <1>1, WFMin
  <1>4. ASSUME NEW y \in S PROVE x <= y
    <2>1. x \in Nat /\ y \in Nat /\ ~(y < x)
      BY <1>2, <1>3, <1>4
    <2> QED
      BY <2>1
  <1> QED
    BY <1>4 DEF Min

\* The inode the allocator finds first is free.
LEMMA FirstIsFree ==
    ASSUME Available # {}
    PROVE  Min(Available) \in Inodes /\ fs.inode[Min(Available)].kind = "free"
  <1>1. Available \subseteq Nat
    BY NamespaceAssumption DEF Available, Inodes
  <1>2. Min(Available) \in Available
    BY <1>1, MinMember
  <1> QED
    BY <1>2 DEF Available

\* Where the file system is sound an operation may rely on it.
LEMMA Begins ==
    ASSUME IInv, Undamaged
    PROVE  /\ fs \in FileSystems /\ Sound(fs, harm)
           /\ \A d \in Known : d \in Dirs(fs) /\ (d = Root \/ Named(fs, d))
  <1>1. fs \in FileSystems /\ Sound(fs, harm)
    BY DEF IInv
  <1>2. \A d \in Known : d \in Dirs(fs) /\ (d = Root \/ Named(fs, d))
    BY DEF Known, NamesOf, Named, Dirs, Linked
  <1> QED
    BY <1>1, <1>2

\* An operation whose row is safe keeps the invariant.
LEMMA RowStep ==
    ASSUME IInv, Undamaged, NEW row, \E g \in FileSystems : RowTo(row, harm, g) /\ Sound(g, harm), Runs(row)
    PROVE  IInv'
  <1>1. row \in Seq(SafeWrites(harm)) /\ row # <<>> /\ Sound(row[Len(row)].fs, harm)
    BY DEF RowTo
  <1> QED
    BY <1>1, RunsSafely

LEMMA CreateStep ==
    ASSUME IInv, Trusted, Create
    PROVE  IInv'
  <1> DEFINE c == Min(Available)
  <1>1. Undamaged /\ Available # {}
    BY DEF Create, Undamaged
  <1>2. c \in Inodes /\ fs.inode[c].kind = "free"
    BY <1>1, FirstIsFree
  <1>3. PICK d \in Known, n \in Names : Vacant(d, n) /\ Runs(create(fs, d, n, c))
    BY DEF Create
  <1> HIDE DEF c
  <1>4. \E g \in FileSystems : RowTo(create(fs, d, n, c), harm, g) /\ Sound(g, harm)
    BY <1>1, <1>2, <1>3, Begins, CreateRow DEF Vacant, dir_find_entry
  <1> QED
    BY <1>1, <1>3, <1>4, RowStep

LEMMA MkdirStep ==
    ASSUME IInv, Trusted, Mkdir
    PROVE  IInv'
  <1> DEFINE c == Min(Available)
  <1>1. Undamaged /\ Available # {}
    BY DEF Mkdir, Undamaged
  <1>2. c \in Inodes /\ fs.inode[c].kind = "free"
    BY <1>1, FirstIsFree
  <1>3. PICK d \in Known, n \in Names : Vacant(d, n) /\ Runs(mkdir(fs, d, n, c))
    BY DEF Mkdir
  <1> HIDE DEF c
  <1>4. \E g \in FileSystems : RowTo(mkdir(fs, d, n, c), harm, g) /\ Sound(g, harm)
    BY <1>1, <1>2, <1>3, Begins, MkdirRow DEF Vacant, dir_find_entry
  <1> QED
    BY <1>1, <1>3, <1>4, RowStep

LEMMA LinkStep ==
    ASSUME IInv, Trusted, Link
    PROVE  IInv'
  <1>1. Undamaged
    BY DEF Link, Undamaged
  <1>2. PICK d \in Known, n \in Names, c \in Inodes :
            /\ Vacant(d, n) /\ fs.inode[c].kind = "file"
            /\ IF fs.inode[c].nlink > 0 THEN Runs(link_inode(fs, d, c, n))
               ELSE c \in fs.orphans /\ Runs(relink(fs, d, n, c))
    BY DEF Link
  <1>3. fs \in FileSystems /\ Sound(fs, harm) /\ d \in Dirs(fs) /\ fs.inode[d].entry[n] = None
    BY <1>1, <1>2, Begins DEF Vacant, dir_find_entry
  <1>4. CASE fs.inode[c].nlink > 0
    <2>1. c \notin fs.orphans
      BY <1>3, <1>4 DEF Sound
    <2>2. \E g \in FileSystems : RowTo(link_inode(fs, d, c, n), harm, g) /\ Sound(g, harm)
      BY <1>2, <1>3, <2>1, LinkRow
    <2> QED
      BY <1>1, <1>2, <1>4, <2>2, RowStep
  <1>5. CASE ~(fs.inode[c].nlink > 0)
    <2>1. \E g \in FileSystems : RowTo(relink(fs, d, n, c), harm, g) /\ Sound(g, harm)
      BY <1>2, <1>3, RelinkRow
    <2> QED
      BY <1>1, <1>2, <1>5, <2>1, RowStep
  <1> QED
    BY <1>4, <1>5

LEMMA UnlinkStep ==
    ASSUME IInv, Trusted, Unlink \/ Rmdir
    PROVE  IInv'
  <1>1. Undamaged
    BY DEF Unlink, Rmdir, Undamaged
  <1>2. PICK d \in Known, n \in Names :
            /\ fs.inode[d].entry[n] # None
            /\ is_dir(fs, fs.inode[d].entry[n]) => dir_is_empty(fs, fs.inode[d].entry[n])
            /\ Runs(unlink_inode(fs, d, n))
    BY DEF Unlink, Rmdir, Vacant, dir_find_entry, is_dir
  <1>3. \E g \in FileSystems : RowTo(unlink_inode(fs, d, n), harm, g) /\ Sound(g, harm)
    BY <1>1, <1>2, Begins, UnlinkRow
  <1> QED
    BY <1>1, <1>2, <1>3, RowStep

LEMMA RenameStep ==
    ASSUME IInv, Trusted, Rename
    PROVE  IInv'
  <1>1. Undamaged
    BY DEF Rename, Undamaged
  <1>2. PICK d \in Known, e \in Known, n \in Names, m \in Names :
            LET c == dir_find_entry(fs, d, n)
                t == dir_find_entry(fs, e, m)
            IN  /\ c # None /\ c # t
                /\ MovesDir(fs, c, d, e) => ~check_ancestor_cycle(fs, c, e)
                /\ IF t = None THEN Runs(rename_simple(fs, d, n, e, m))
                   ELSE may_replace(fs, c, t) /\ Runs(rename_replace(fs, d, n, e, m))
    BY DEF Rename
  <1> DEFINE a == fs.inode[d].entry[n]
             b == fs.inode[e].entry[m]
  <1>3. /\ a # None /\ a # b
        /\ is_dir(fs, a) /\ d # e => a \notin Ancestors(fs, e)
        /\ IF b = None THEN Runs(rename_simple(fs, d, n, e, m))
           ELSE may_replace(fs, a, b) /\ Runs(rename_replace(fs, d, n, e, m))
    BY <1>2 DEF dir_find_entry, MovesDir, check_ancestor_cycle
  <1>4. Renames(fs, harm, d, n, e, m, a, b, None)
    BY <1>1, <1>3, Begins DEF Renames
  <1> HIDE DEF a, b
  <1>5. CASE b = None
    <2>1. \E g \in FileSystems : RowTo(rename_simple(fs, d, n, e, m), harm, g) /\ Sound(g, harm)
      BY <1>4, <1>5, RenameSimpleRow
    <2> QED
      BY <1>1, <1>3, <1>5, <2>1, RowStep
  <1>6. CASE b # None
    <2>1. \E g \in FileSystems : RowTo(rename_replace(fs, d, n, e, m), harm, g) /\ Sound(g, harm)
      BY <1>3, <1>4, <1>6, RenameReplaceRow
    <2> QED
      BY <1>1, <1>3, <1>6, <2>1, RowStep
  <1> QED
    BY <1>5, <1>6

LEMMA RenameExchangeStep ==
    ASSUME IInv, Trusted, RenameExchange
    PROVE  IInv'
  <1>1. Undamaged
    BY DEF RenameExchange, Undamaged
  <1>2. PICK d \in Known, e \in Known, n \in Names, m \in Names :
            LET a == dir_find_entry(fs, d, n)
                b == dir_find_entry(fs, e, m)
            IN  /\ a # None /\ b # None /\ a # b /\ Runs(exchange(fs, d, n, e, m))
                /\ MovesDir(fs, a, d, e) => ~check_ancestor_cycle(fs, a, e)
                /\ MovesDir(fs, b, e, d) => ~check_ancestor_cycle(fs, b, d)
    BY DEF RenameExchange
  <1> DEFINE a == fs.inode[d].entry[n]
             b == fs.inode[e].entry[m]
  <1>3. /\ a # None /\ b # None /\ a # b /\ Runs(exchange(fs, d, n, e, m))
        /\ is_dir(fs, a) /\ d # e => a \notin Ancestors(fs, e)
        /\ is_dir(fs, b) /\ d # e => b \notin Ancestors(fs, d)
    BY <1>2 DEF dir_find_entry, MovesDir, check_ancestor_cycle
  <1>4. Renames(fs, harm, d, n, e, m, a, b, b)
    BY <1>1, <1>3, Begins DEF Renames
  <1> HIDE DEF a, b
  <1>5. \E g \in FileSystems : RowTo(exchange(fs, d, n, e, m), harm, g) /\ Sound(g, harm)
    BY <1>3, <1>4, ExchangeRow
  <1> QED
    BY <1>1, <1>3, <1>5, RowStep

\* reclaim_inode: an orphan has no name and no entries, so freeing it is harmless.
LEMMA ReclaimStep ==
    ASSUME IInv, Trusted, Reclaim
    PROVE  IInv'
  <1>1. Undamaged /\ UNCHANGED <<poisoned, stopped, harm>>
    BY DEF Reclaim, Undamaged
  <1>2. PICK i \in fs.orphans : fs' = [fs EXCEPT !.inode[i] = FreeInode, !.orphans = @ \ {i}]
    BY DEF Reclaim
  <1>3. fs \in FileSystems /\ Sound(fs, harm)
    BY <1>1, Begins
  <1> DEFINE O == fs.orphans \ {i}
             k == [fs EXCEPT !.orphans = O]
             g == free_inode(k, i)
  <1>4. i \in Inodes /\ O \in SUBSET Inodes
    BY <1>3, Parts
  <1>5. fs' = g
    BY <1>2, <1>3 DEF free_inode, FileSystems
  <1>6. k \in FileSystems /\ k.inode = fs.inode /\ k.orphans = O
    <2> HIDE DEF O
    <2> QED
      BY <1>3, <1>4, Unchained
  <1> HIDE DEF k
  <1>7. Sound(k, harm)
    <2>1. Live(k) /\ OneName(k)
      BY <1>3, <1>6 DEF Sound, Live, OneName, Linked, Dirs, is_dir, PlacedAt, LeadsToDir
    <2>2. \A j \in Inodes : /\ NameCount(k, j) = NameCount(fs, j) /\ DirCount(k, j) = DirCount(fs, j)
                            /\ Named(k, j) <=> Named(fs, j)
      BY <1>3, <1>6, SameCounts
    <2>3. Counted(k, harm)
      BY <1>3, <1>6, <2>2 DEF Sound, Counted, is_dir
    <2>4. Root \in Dirs(k)
      BY <1>3, <1>6 DEF Sound, Dirs, Linked, is_dir
    <2>5. \A j \in k.orphans : k.inode[j].kind # "free" /\ k.inode[j].nlink = 0
      BY <1>3, <1>6 DEF Sound
    <2>6. Treelike(k, NamedDirs(k))
      BY <1>3, <1>6, TreelikeSame DEF Sound
    <2> QED
      BY <2>1, <2>3, <2>4, <2>5, <2>6 DEF Sound
  <1>8. Detached(k, i)
    <2>1. i \notin Linked(k) /\ i \notin Dirs(k) /\ i # None
      BY <1>3, <1>4, <1>6, Numbers DEF Sound, Linked, Dirs
    <2>2. i # Root /\ ~Named(k, i) /\ \A n \in Names : k.inode[i].entry[n] = None
      BY <1>4, <1>7, <2>1 DEF Sound, Live, Named
    <2> QED
      BY <1>6, <2>2 DEF Detached
  <1>9. Remade(k, g, i, "free")
    BY <1>4, <1>6, Remakes
  <1> HIDE DEF g
  <1>10. g \in FileSystems /\ Sound(g, harm) /\ Live(g)
    <2>1. g \in FileSystems /\ Sound(g, harm)
      BY <1>4, <1>6, <1>7, <1>8, <1>9, SoundRemade DEF Remade
    <2> QED
      BY <2>1 DEF Sound
  <1> QED
    BY <1>1, <1>5, <1>10 DEF IInv

LEMMA InitOK == Init => IInv
  <1> SUFFICES ASSUME Init PROVE IInv
    OBVIOUS
  <1> DEFINE top == [kind |-> "dir", nlink |-> 2, dotdot |-> Root, entry |-> Nothing]
  <1>1. /\ fs = [inode |-> [i \in Inodes |-> IF i = Root THEN top ELSE FreeInode], orphans |-> {}]
        /\ poisoned = FALSE /\ stopped = FALSE /\ harm = {}
    BY DEF Init
  <1>2. Nothing \in [Names -> Targets] /\ Root \in Targets /\ None \in Targets
    BY Numbers DEF Nothing, Targets
  <1>3. /\ top \in InodeRecords /\ top.kind = "dir" /\ top.nlink = 2 /\ top.entry = Nothing
    BY <1>2 DEF InodeRecords
  <1>4. /\ FreeInode \in InodeRecords /\ FreeInode.kind = "free" /\ FreeInode.nlink = 0 /\ FreeInode.entry = Nothing
    BY <1>2 DEF InodeRecords, FreeInode
  <1> HIDE DEF top
  <1>5. fs \in FileSystems
    BY <1>1, <1>3, <1>4 DEF FileSystems
  <1>6. /\ fs.orphans = {} /\ \A i \in Inodes : fs.inode[i] = IF i = Root THEN top ELSE FreeInode
    BY <1>1
  <1>7. \A i \in Inodes, n \in Names : fs.inode[i].entry[n] = None
    BY <1>3, <1>4, <1>6 DEF Nothing
  <1>8. Live(fs) /\ OneName(fs)
    BY <1>7 DEF Live, OneName, LeadsToDir
  <1>9. Root \in Dirs(fs)
    BY <1>3, <1>6, Numbers DEF Dirs, Linked, is_dir
  <1>10. \A i \in Inodes : ~Named(fs, i) /\ NameCount(fs, i) = 0 /\ DirCount(fs, i) = 0
    <2> SUFFICES ASSUME NEW i \in Inodes PROVE ~Named(fs, i) /\ NameCount(fs, i) = 0 /\ DirCount(fs, i) = 0
      OBVIOUS
    <2>1. ~Named(fs, i)
      BY <1>7, Numbers DEF Named
    <2>2. NameCount(fs, i) = 0
      BY <2>1, NamedIsCounted, Finite
    <2>3. DirNames(fs, i) = {}
      BY <1>7 DEF DirNames
    <2> QED
      BY <2>1, <2>2, <2>3, FS_EmptySet DEF DirCount
  <1>11. Counted(fs, harm)
    <2>1. ASSUME NEW i \in Inodes, ~is_dir(fs, i) PROVE Fits(harm, fs.inode[i].nlink, NameCount(fs, i))
      <3>1. fs.inode[i].nlink = 0
        BY <1>3, <1>4, <1>6, <2>1 DEF is_dir
      <3> QED
        BY <1>10, <3>1 DEF Fits
    <2>2. ASSUME NEW i \in Inodes, i = Root \/ Named(fs, i) PROVE Fits(harm, fs.inode[i].nlink, 2 + DirCount(fs, i))
      <3>1. fs.inode[i].nlink = 2
        BY <1>3, <1>6, <1>10, <2>2
      <3> QED
        BY <1>10, <3>1 DEF Fits
    <2> QED
      BY <2>1, <2>2 DEF Counted
  <1>12. Sound(fs, harm)
    <2>1. NamedDirs(fs) = {}
      BY <1>10 DEF NamedDirs
    <2>2. Treelike(fs, {})
      BY DEF Treelike, Loop
    <2> QED
      BY <1>6, <1>8, <1>9, <1>11, <2>1, <2>2 DEF Sound
  <1> QED
    BY <1>1, <1>5, <1>8, <1>12 DEF IInv, Damage

\* Once a failure has left a "name" the invariant says nothing more.
LEMMA NextOK == IInv /\ Trusted /\ [Next]_vars => IInv'
  <1> SUFFICES ASSUME IInv, Trusted, [Next]_vars PROVE IInv'
    OBVIOUS
  <1>1. CASE UNCHANGED vars
    BY <1>1 DEF vars, IInv, Undamaged, Mutable, Trusted
  <1>2. CASE Operation
    BY <1>2, CreateStep, MkdirStep, LinkStep, UnlinkStep, RenameStep, RenameExchangeStep,
       ReclaimStep DEF Operation
  <1> QED
    BY <1>1, <1>2 DEF Next, Halted

LEMMA HarmStays == [Next]_vars /\ Trusted' => Trusted
  <1> SUFFICES ASSUME [Next]_vars PROVE harm \subseteq harm'
    BY DEF Trusted
  <1>1. \A row : Runs(row) => harm \subseteq harm'
    BY DEF Runs, Completes, Fails, Stops
  <1> QED
    BY <1>1 DEF Next, Halted, vars, Operation, Create, Mkdir, Link, Unlink, Rmdir, Rename,
       RenameExchange, Reclaim

\* What holds of every reachable state.
Kept == Trusted => IInv

\* Until a failure leaves a "name" the invariant holds under every sequence of create,
\* mkdir, link, unlink, rmdir, rename, rename_exchange and reclaim, with failing writes
\* and a stop in the middle.
THEOREM Invariance == Spec => []Kept
  <1>1. Init => Kept
    BY InitOK DEF Kept
  <1>2. Kept /\ [Next]_vars => Kept'
    BY NextOK, HarmStays DEF Kept
  <1> QED
    BY <1>1, <1>2, PTL DEF Spec

\* Until then no name leads to a free or an orphaned inode: unlink, rmdir and rename give
\* an inode to reclaim only with its last name.  A failed link_inode (link.rs:61-71) or
\* link_new_inode_or_free (low_level.rs:539-550) can leave a "name" and end this.
THEOREM NamesLeadToLinkedInodes == Spec => []EntriesLive
  <1>1. Kept => EntriesLive
    BY DEF Kept, IInv, Live, EntriesLive, NamesLead, Trusted, Dirs, Linked
  <1> QED
    BY <1>1, Invariance, PTL

-----------------------------------------------------------------------------
(* Link counts *)

\* The names that EntriesLive and LinkCounts look at are all names there are.
LEMMA NamesAreInDirs ==
    ASSUME NEW f \in FileSystems, Live(f), NEW i \in Inodes
    PROVE  NamesOf(f, i) = PlacesOf(f, i) /\ (NamesOf(f, i) # {} <=> Named(f, i))
  <1>1. NamesOf(f, i) = PlacesOf(f, i)
    BY Numbers DEF NamesOf, PlacesOf, Live, Dirs, Linked
  <1>2. PlacesOf(f, i) # {} <=> Named(f, i)
    <2>1. ASSUME Named(f, i) PROVE PlacesOf(f, i) # {}
      <3>1. PICK d \in Inodes, n \in Names : f.inode[d].entry[n] = i
        BY <2>1 DEF Named
      <3>2. <<d, n>> \in PlacesOf(f, i)
        BY <3>1 DEF PlacesOf
      <3> QED
        BY <3>2
    <2>2. ASSUME PlacesOf(f, i) # {} PROVE Named(f, i)
      BY <2>2 DEF PlacesOf, Named
    <2> QED
      BY <2>1, <2>2
  <1> QED
    BY <1>1, <1>2

\* A directory has as many names of directories as directories.
LEMMA ChildrenAreCounted ==
    ASSUME NEW f \in FileSystems, Live(f), OneName(f), NEW i \in Inodes
    PROVE  Cardinality({c \in Dirs(f) : \E n \in Names : f.inode[i].entry[n] = c}) = DirCount(f, i)
  <1> DEFINE C == {c \in Dirs(f) : \E n \in Names : f.inode[i].entry[n] = c}
             D == DirNames(f, i)
             to == [n \in D |-> f.inode[i].entry[n]]
  <1>1. \A n \in D : n \in Names /\ f.inode[i].entry[n] \in Dirs(f)
    BY DEF DirNames, Live, Dirs
  <1>2. \A c \in C : \E n \in D : to[n] = c
    <2> SUFFICES ASSUME NEW c \in C PROVE \E n \in D : to[n] = c
      OBVIOUS
    <2>1. PICK n \in Names : f.inode[i].entry[n] = c
      OBVIOUS
    <2>2. n \in D
      BY <2>1, Numbers DEF DirNames, Dirs, Linked
    <2> QED
      BY <2>1, <2>2
  <1>3. to \in [D -> C]
    BY <1>1
  <1>4. \A n, k \in D : to[n] = to[k] => n = k
    BY <1>1, Numbers DEF OneName, LeadsToDir, PlacedAt, Dirs, Linked
  <1>5. to \in Bijection(D, C)
    <2> HIDE DEF C, D, to
    <2> QED
      BY <1>2, <1>3, <1>4, Fun_IsBij
  <1>6. IsFiniteSet(D)
    BY Finite
  <1> HIDE DEF C, D, to
  <1>7. Cardinality(D) = Cardinality(C)
    BY <1>5, <1>6, FS_Bijection DEF ExistsBijection
  <1> QED
    BY <1>7 DEF C, D, DirCount

\* Until a failure leaves a "name", link counts are those of the names; what else failed
\* can have left them too high, never too low, so unlink_inode and rename never take an
\* inode that has a name for one that has none.
THEOREM CountsFollowNames == Spec => []LinkCounts
  <1>1. Kept => LinkCounts
    <2> SUFFICES ASSUME IInv, Undamaged, NEW i \in Linked(fs), i = Root \/ NamesOf(fs, i) # {}
                 PROVE  LET exact == IF is_dir(fs, i)
                                     THEN 2 + Cardinality({c \in Dirs(fs) :
                                                             \E n \in Names : fs.inode[i].entry[n] = c})
                                     ELSE Cardinality(NamesOf(fs, i))
                        IN  /\ fs.inode[i].nlink >= exact
                            /\ harm = {} => fs.inode[i].nlink = exact
      BY DEF LinkCounts, Kept, Undamaged
    <2>1. fs \in FileSystems /\ Live(fs) /\ OneName(fs) /\ Counted(fs, harm) /\ i \in Inodes
      BY DEF IInv, Sound, Linked
    <2>2. NamesOf(fs, i) = PlacesOf(fs, i) /\ (i = Root \/ Named(fs, i))
      BY <2>1, NamesAreInDirs
    <2>3. Cardinality({c \in Dirs(fs) : \E n \in Names : fs.inode[i].entry[n] = c}) = DirCount(fs, i)
      BY <2>1, ChildrenAreCounted
    <2>4. IF is_dir(fs, i) THEN Fits(harm, fs.inode[i].nlink, 2 + DirCount(fs, i))
          ELSE Fits(harm, fs.inode[i].nlink, NameCount(fs, i))
      BY <2>1, <2>2 DEF Counted
    <2> QED
      BY <2>2, <2>3, <2>4 DEF Fits, NameCount
  <1> QED
    BY <1>1, Invariance, PTL

-----------------------------------------------------------------------------
(* The tree *)

\* The directories that have names are a tree under the root: each has one name, its ".."
\* is the directory of that name, and following ".." as check_ancestor_cycle does ends
\* at the root.
LEMMA SoundIsTree ==
    ASSUME NEW f \in FileSystems, NEW h, Sound(f, h), NEW i \in Dirs(f) \ {Root}, NamesOf(f, i) # {}
    PROVE  /\ \E d \in Dirs(f), n \in Names : NamesOf(f, i) = {<<d, n>>} /\ f.inode[i].dotdot = d
           /\ Root \in Ancestors(f, i)
  <1>1. Live(f) /\ OneName(f) /\ Treelike(f, NamedDirs(f)) /\ i \in Inodes /\ is_dir(f, i) /\ i # None
    BY Numbers DEF Sound, Dirs, Linked
  <1>2. PICK p \in NamesOf(f, i) : TRUE
    OBVIOUS
  <1>3. p \in Dirs(f) \X Names /\ f.inode[p[1]].entry[p[2]] = i
    BY DEF NamesOf
  <1>4. PICK d \in Dirs(f), n \in Names : p = <<d, n>>
    BY <1>3
  <1>5. d \in Inodes /\ f.inode[d].entry[n] = i
    BY <1>3, <1>4 DEF Dirs, Linked
  <1>6. PlacedAt(f, i, d, n)
    BY <1>1, <1>5 DEF OneName, LeadsToDir
  <1>7. \A q \in Dirs(f) \X Names : f.inode[q[1]].entry[q[2]] = i <=> q = <<d, n>>
    BY <1>5, <1>6 DEF PlacedAt, Dirs, Linked
  <1>8. NamesOf(f, i) = {<<d, n>>}
    BY <1>7 DEF NamesOf
  <1>9. Root \in Ancestors(f, i)
    <2> DEFINE D == NamedDirs(f)
    <2>1. i \in D /\ Treelike(f, D)
      BY <1>1, <1>5 DEF NamedDirs, Named
    <2>2. Parents(f)
      BY Parts DEF Parents, Targets
    <2> HIDE DEF D
    <2> QED
      BY <2>1, <2>2, ReachesRoot
  <1> QED
    BY <1>6, <1>8, <1>9 DEF PlacedAt

\* The directories form a tree and the link counts are those of its names, after any
\* sequence of mkdir, rmdir, rename and rename_exchange, failed ones included, in which
\* no failure leaves a "name".
THEOREM DirectoriesFormATree == Spec => []TreeSound
  <1>1. Kept => TreeShape
    <2> SUFFICES ASSUME IInv, Undamaged, NEW i \in Dirs(fs) \ {Root}, NamesOf(fs, i) # {}
                 PROVE  /\ \E d \in Dirs(fs), n \in Names :
                               NamesOf(fs, i) = {<<d, n>>} /\ fs.inode[i].dotdot = d
                        /\ Root \in Ancestors(fs, i)
      BY DEF TreeShape, Kept, Undamaged
    <2>1. fs \in FileSystems /\ Sound(fs, harm)
      BY DEF IInv
    <2> QED
      BY <2>1, SoundIsTree
  <1> QED
    BY <1>1, Invariance, CountsFollowNames, PTL DEF TreeSound

-----------------------------------------------------------------------------
(* What an operation does to the names *)

\* The names of g are those of f, but at most at the places P.
Differs(f, g, P) ==
    /\ g \in FileSystems
    /\ \A d \in Inodes, n \in Names : <<d, n>> \notin P => g.inode[d].entry[n] = f.inode[d].entry[n]

SameNames(f, g) == Differs(f, g, {})

\* What is reached from f with names changed at P only, where every inode that had a name
\* still has one, except for V.
Reaches(f, g, P, V) ==
    Differs(f, g, P) /\ \A i \in Inodes : Named(f, i) /\ i \notin V => Named(g, i)

\* P is the one place of a name whose removal is not its inode's last.
Spared(f, P) ==
    \E d \in Inodes, n \in Names :
        /\ P = {<<d, n>>} /\ f.inode[d].entry[n] # None
        /\ ~namespace_removal_is_final(f, f.inode[d].entry[n])

\* What a failure may leave: without poison the names are as before, but for a name that
\* was spared or that the failure left; such a name is new, and in a directory that stays.
Outcomes(f, P, V) ==
    {x \in Lefts : /\ Reaches(f, x.fs, P, V)
                   /\ x.poisoned = FALSE /\ "name" \notin x.harm => SameNames(f, x.fs) \/ Spared(f, P)
                   /\ "name" \in x.harm => V = {} /\ Dirs(f) \subseteq Dirs(x.fs)}

\* Writes on the way of an operation that began in f.
WritesFrom(f, P, V) ==
    {w \in [fs : FileSystems, failed : SUBSET Outcomes(f, P, V)] : Reaches(f, w.fs, P, V)}

LEMMA ReachesSame ==
    ASSUME NEW f, NEW g, NEW k, NEW P, NEW V, SameNames(g, k), f = g \/ Reaches(f, g, P, V)
    PROVE  Reaches(f, k, P, V) /\ (SameNames(f, g) => SameNames(f, k))
  <1>1. \A i \in Inodes : Named(g, i) => Named(k, i)
    BY DEF SameNames, Differs, Named
  <1>2. Differs(f, k, P)
    BY DEF SameNames, Differs, Reaches
  <1>3. SameNames(f, g) => SameNames(f, k)
    BY DEF SameNames, Differs
  <1> QED
    BY <1>1, <1>2, <1>3 DEF Reaches

\* An entry that led nowhere, or to an inode that may lose its name, is changed.
LEMMA ReachesEntered ==
    ASSUME NEW f, NEW k, NEW g, NEW d \in Inodes, NEW n \in Names, NEW c, NEW P, NEW V,
           SameNames(f, k), Entered(k, g, d, n, c), <<d, n>> \in P, f.inode[d].entry[n] \in V \cup {None}
    PROVE  Reaches(f, g, P, V)
  <1>1. \A i \in Inodes, m \in Names :
            g.inode[i].entry[m] = IF i = d /\ m = n THEN c ELSE f.inode[i].entry[m]
    BY DEF SameNames, Differs, Entered
  <1>2. Differs(f, g, P)
    BY <1>1 DEF Differs, Entered
  <1>3. None \notin Inodes
    BY Numbers
  <1>4. ASSUME NEW i \in Inodes, Named(f, i), i \notin V PROVE Named(g, i)
    <2>1. PICK e \in Inodes, m \in Names : f.inode[e].entry[m] = i
      BY <1>4 DEF Named
    <2>2. ~(e = d /\ m = n)
      BY <1>3, <1>4, <2>1
    <2> QED
      BY <1>1, <2>1, <2>2 DEF Named
  <1> QED
    BY <1>2, <1>4 DEF Reaches

LEMMA SameItself ==
    ASSUME NEW f \in FileSystems, NEW P, NEW V
    PROVE  SameNames(f, f) /\ Reaches(f, f, P, V)
  BY DEF SameNames, Differs, Reaches

\* What failures leave, one by one.
LEMMA LeftOutcomes ==
    ASSUME NEW f, NEW g, NEW P, NEW V, Reaches(f, g, P, V)
    PROVE  /\ Left(g, TRUE, {}) \in Outcomes(f, P, V)
           /\ SameNames(f, g) \/ Spared(f, P) => Left(g, FALSE, {"count"}) \in Outcomes(f, P, V)
           /\ SameNames(f, g) => Clean(g) \in Outcomes(f, P, V)
           /\ V = {} /\ Dirs(f) \subseteq Dirs(g) =>
                  \A p \in BOOLEAN : Left(g, p, {"name"}) \in Outcomes(f, P, V)
  <1>1. g \in FileSystems
    BY DEF Reaches, Differs
  <1>2. \A p \in BOOLEAN, H \in SUBSET Damage :
            /\ Left(g, p, H) \in Lefts
            /\ Left(g, p, H).fs = g /\ Left(g, p, H).poisoned = p /\ Left(g, p, H).harm = H
    BY <1>1, LeftParts
  <1>3. \A p \in BOOLEAN, H \in SUBSET Damage :
            /\ p = FALSE /\ "name" \notin H => SameNames(f, g) \/ Spared(f, P)
            /\ "name" \in H => V = {} /\ Dirs(f) \subseteq Dirs(g)
            => Left(g, p, H) \in Outcomes(f, P, V)
    BY <1>2 DEF Outcomes
  <1>4. PICK none \in SUBSET Damage : none = {}
    OBVIOUS
  <1>5. {"count"} \in SUBSET Damage /\ {"name"} \in SUBSET Damage
    BY DEF Damage
  <1>6. Left(g, TRUE, none) \in Outcomes(f, P, V)
    BY <1>3, <1>4
  <1>7. SameNames(f, g) => Left(g, FALSE, none) \in Outcomes(f, P, V)
    BY <1>3, <1>4
  <1>8. SameNames(f, g) \/ Spared(f, P) => Left(g, FALSE, {"count"}) \in Outcomes(f, P, V)
    BY <1>3, <1>5
  <1>9. V = {} /\ Dirs(f) \subseteq Dirs(g) => \A p \in BOOLEAN : Left(g, p, {"name"}) \in Outcomes(f, P, V)
    BY <1>3, <1>5
  <1> QED
    BY <1>4, <1>6, <1>7, <1>8, <1>9 DEF Clean

LEMMA WriteFrom ==
    ASSUME NEW f, NEW g, NEW P, NEW V, Reaches(f, g, P, V), NEW F, F \subseteq Outcomes(f, P, V)
    PROVE  W(g, F) \in WritesFrom(f, P, V) /\ W(g, F).fs = g
  <1>1. W(g, F) = [fs |-> g, failed |-> F] /\ W(g, F).fs = g /\ W(g, F).failed = F
    BY DEF W
  <1>2. g \in FileSystems
    BY DEF Reaches, Differs
  <1> QED
    BY <1>1, <1>2 DEF WritesFrom

LEMMA GuardedFrom ==
    ASSUME NEW f, NEW g, NEW k, NEW P, NEW V, Reaches(f, g, P, V), Reaches(f, k, P, V)
    PROVE  Guarded(g, k) \in WritesFrom(f, P, V) /\ Guarded(g, k).fs = k
  <1> DEFINE F == Poisons({g, k})
  <1>1. F = {Left(g, TRUE, {}), Left(k, TRUE, {})}
    BY DEF Poisons
  <1>2. F \subseteq Outcomes(f, P, V)
    <2>1. Left(g, TRUE, {}) \in Outcomes(f, P, V)
      BY LeftOutcomes
    <2>2. Left(k, TRUE, {}) \in Outcomes(f, P, V)
      BY LeftOutcomes
    <2> QED
      BY <1>1, <2>1, <2>2
  <1> HIDE DEF F
  <1>3. W(k, F) \in WritesFrom(f, P, V) /\ W(k, F).fs = k
    BY <1>2, WriteFrom
  <1> QED
    BY <1>3 DEF Guarded, F

\* Rows of such writes, put together.
LEMMA JoinedFrom ==
    ASSUME NEW S, NEW s \in Seq(S), NEW t \in Seq(S)
    PROVE  /\ s \o t \in Seq(S)
           /\ t # <<>> => s \o t # <<>> /\ (s \o t)[Len(s \o t)] = t[Len(t)]
           /\ t = <<>> => s \o t = s
           /\ s # <<>> => s \o t # <<>>
  <1>1. /\ s \o t \in Seq(S) /\ Len(s \o t) = Len(s) + Len(t)
        /\ \A i \in 1 .. Len(s) + Len(t) : (s \o t)[i] = IF i <= Len(s) THEN s[i] ELSE t[i - Len(s)]
    BY ConcatProperties
  <1>2. Len(s) \in Nat /\ Len(t) \in Nat /\ (t # <<>> => Len(t) > 0) /\ (s # <<>> => Len(s) > 0)
    BY LenProperties, EmptySeq
  <1>3. t # <<>> => (s \o t)[Len(s) + Len(t)] = t[Len(t)]
    BY <1>1, <1>2
  <1>4. Len(s) + Len(t) > 0 => s \o t # <<>>
    BY <1>1, EmptySeq
  <1>5. t = <<>> => s \o t = s
    BY ConcatEmptySeq
  <1> QED
    BY <1>1, <1>2, <1>3, <1>4, <1>5

\* A new or a freed inode, which nothing leads to, and its entries.
LEMMA RemadeFrom ==
    ASSUME NEW f \in FileSystems, Live(f), NEW c \in Inodes, c \notin Dirs(f), NEW g, NEW k, NEW kind,
           NEW P, NEW V, \A p \in P : p[1] # c, Reaches(f, g, P, V), Remade(g, k, c, kind)
    PROVE  /\ Reaches(f, k, P, V) /\ (SameNames(f, g) => SameNames(f, k))
           /\ Dirs(f) \subseteq Dirs(g) => Dirs(f) \subseteq Dirs(k)
  <1>1. \A n \in Names : f.inode[c].entry[n] = None
    BY DEF Live
  <1>2. \A n \in Names : g.inode[c].entry[n] = None
    <2> SUFFICES ASSUME NEW n \in Names PROVE g.inode[c].entry[n] = None
      OBVIOUS
    <2>1. <<c, n>> \notin P
      <3>1. <<c, n>>[1] = c
        OBVIOUS
      <3> QED
        BY <3>1
    <2> QED
      BY <1>1, <2>1 DEF Reaches, Differs
  <1>3. SameNames(g, k)
    BY <1>2 DEF Remade, Nothing, SameNames, Differs
  <1>4. Dirs(g) \ {c} \subseteq Dirs(k)
    BY DEF Remade, Dirs, Linked, is_dir
  <1> QED
    BY <1>3, <1>4, ReachesSame

\* alloc_inode and the initialization of the new inode.
LEMMA CreateInodeFrom ==
    ASSUME NEW f \in FileSystems, Live(f), NEW c \in Inodes, f.inode[c].kind = "free",
           NEW kind \in {"file", "dir"}, NEW P, NEW V, \A p \in P : p[1] # c
    PROVE  /\ create_inode(f, c, kind) \in WritesFrom(f, P, V)
           /\ Remade(f, create_inode(f, c, kind).fs, c, kind)
           /\ SameNames(f, create_inode(f, c, kind).fs)
           /\ Dirs(f) \subseteq Dirs(create_inode(f, c, kind).fs)
  <1> DEFINE new == [f EXCEPT !.inode[c] = NewInode(kind)]
             F == {Clean(f)} \cup Poisons({new})
  <1>1. Remade(f, new, c, kind)
    BY Remakes
  <1> HIDE DEF new
  <1>2. c \notin Dirs(f)
    BY DEF Dirs, Linked
  <1>3. SameNames(f, f) /\ Reaches(f, f, P, V)
    BY SameItself
  <1>4. Reaches(f, new, P, V) /\ SameNames(f, new) /\ Dirs(f) \subseteq Dirs(new)
    BY <1>1, <1>2, <1>3, RemadeFrom
  <1>5. F \subseteq Outcomes(f, P, V)
    <2>1. F = {Clean(f), Left(new, TRUE, {})}
      BY DEF Poisons
    <2>2. Clean(f) \in Outcomes(f, P, V)
      BY <1>3, LeftOutcomes
    <2>3. Left(new, TRUE, {}) \in Outcomes(f, P, V)
      BY <1>4, LeftOutcomes
    <2> QED
      BY <2>1, <2>2, <2>3
  <1>6. create_inode(f, c, kind) = W(new, F)
    BY DEF create_inode, new
  <1> HIDE DEF F
  <1>7. W(new, F) \in WritesFrom(f, P, V) /\ W(new, F).fs = new
    BY <1>4, <1>5, WriteFrom
  <1> QED
    BY <1>1, <1>4, <1>6, <1>7

\* The release of the new inode after a failure.
LEMMA OrFreeFrom ==
    ASSUME NEW f \in FileSystems, Live(f), NEW c \in Inodes, c \notin Dirs(f),
           NEW P, NEW V, \A p \in P : p[1] # c, NEW row \in Seq(WritesFrom(f, P, V)), row # <<>>
    PROVE  OrFree(row, c) \in Seq(WritesFrom(f, P, V)) /\ OrFree(row, c) # <<>>
  <1> DEFINE freed(x) == [x EXCEPT !.fs = free_inode(x.fs, c)]
             all(F) == UNION {{freed(x), x} : x \in F}
             out == OrFree(row, c)
             S == WritesFrom(f, P, V)
  <1>1. DOMAIN row = 1 .. Len(row) /\ Len(row) \in Nat /\ Len(row) > 0
    BY LenProperties, EmptySeq
  <1>2. out = [k \in 1 .. Len(row) |-> [row[k] EXCEPT !.failed = all(row[k].failed)]]
    BY <1>1 DEF OrFree
  <1>3. ASSUME NEW x \in Outcomes(f, P, V) PROVE freed(x) \in Outcomes(f, P, V)
    <2>1. /\ x \in Lefts /\ Reaches(f, x.fs, P, V) /\ x.fs \in FileSystems
          /\ x.poisoned = FALSE /\ "name" \notin x.harm => SameNames(f, x.fs) \/ Spared(f, P)
          /\ "name" \in x.harm => V = {} /\ Dirs(f) \subseteq Dirs(x.fs)
      BY DEF Outcomes, Lefts
    <2> DEFINE g == free_inode(x.fs, c)
    <2>2. Remade(x.fs, g, c, "free")
      BY <2>1, Remakes
    <2>3. g \in FileSystems
      BY <2>2 DEF Remade
    <2>4. /\ freed(x) \in Lefts /\ freed(x).fs = g
          /\ freed(x).harm = x.harm /\ freed(x).poisoned = x.poisoned
      BY <2>1, <2>3 DEF Lefts
    <2> HIDE DEF freed, g
    <2>5. Reaches(f, g, P, V) /\ (SameNames(f, x.fs) => SameNames(f, g))
          /\ (Dirs(f) \subseteq Dirs(x.fs) => Dirs(f) \subseteq Dirs(g))
      BY <2>1, <2>2, RemadeFrom
    <2> QED
      BY <2>1, <2>4, <2>5 DEF Outcomes
  <1> HIDE DEF freed
  <1>4. ASSUME NEW k \in 1 .. Len(row) PROVE out[k] \in S
    <2> DEFINE F == row[k].failed
    <2>1. row[k] \in [fs : FileSystems, failed : SUBSET Outcomes(f, P, V)] /\ Reaches(f, row[k].fs, P, V)
      <3>1. row[k] \in S
        BY ElementOfSeq
      <3> QED
        BY <3>1 DEF WritesFrom
    <2>2. F \subseteq Outcomes(f, P, V)
      BY <2>1
    <2>3. all(F) \subseteq Outcomes(f, P, V)
      <3> HIDE DEF F
      <3> QED
        BY <1>3, <2>2
    <2>4. out[k] = [row[k] EXCEPT !.failed = all(F)]
      BY <1>2
    <2> HIDE DEF all, F, out
    <2>5. out[k] \in [fs : FileSystems, failed : SUBSET Outcomes(f, P, V)] /\ out[k].fs = row[k].fs
      BY <2>1, <2>3, <2>4
    <2> QED
      BY <2>1, <2>5 DEF WritesFrom
  <1> HIDE DEF all, out, S
  <1>5. out = [k \in 1 .. Len(row) |-> out[k]]
    BY <1>2
  <1>6. out \in [1 .. Len(row) -> S]
    BY <1>4, <1>5
  <1>7. out \in Seq(S) /\ Len(out) = Len(row)
    BY <1>1, <1>6
  <1>8. out # <<>>
    BY <1>1, <1>7, EmptySeq
  <1> QED
    BY <1>7, <1>8 DEF out, S

-----------------------------------------------------------------------------
(* Each operation's row, from the names' side *)

\* The last write of link_inode.
LEMMA AddLastFrom ==
    ASSUME NEW f \in FileSystems, NEW f0 \in FileSystems, NEW k \in FileSystems, SameNames(f, f0), SameNames(f, k),
           Dirs(f) \subseteq Dirs(f0), Dirs(f) \subseteq Dirs(k),
           NEW d \in Dirs(f), NEW n \in Names, f.inode[d].entry[n] = None, NEW c \in Inodes
    PROVE  AddLast(f0, k, d, n, c) \in WritesFrom(f, {<<d, n>>}, {})
  <1> DEFINE g == SetEntry(k, d, n, c)
             g0 == SetEntry(f0, d, n, c)
             P == {<<d, n>>}
             V == {}
             F == {Clean(f0), Left(g0, FALSE, {"name"}), Left(k, TRUE, {}), Left(g, TRUE, {"name"})}
  <1>1. d \in Inodes /\ c \in Targets /\ <<d, n>> \in P
    BY DEF Dirs, Linked, Targets
  <1>2. f.inode[d].entry[n] \in V \cup {None} /\ V = {}
    OBVIOUS
  <1>3. Entered(k, g, d, n, c) /\ Entered(f0, g0, d, n, c)
    BY <1>1, Enters
  <1>4. AddLast(f0, k, d, n, c) = W(g, F)
    BY DEF AddLast
  <1>5. Reaches(f, f, P, V)
    BY SameItself
  <1> HIDE DEF g, g0, P, V
  <1>6. Reaches(f, g, P, V) /\ Reaches(f, g0, P, V)
    BY <1>1, <1>2, <1>3, ReachesEntered
  <1>7. Reaches(f, f0, P, V) /\ Reaches(f, k, P, V)
    BY <1>5, ReachesSame
  <1>8. Dirs(f) \subseteq Dirs(g) /\ Dirs(f) \subseteq Dirs(g0)
    BY <1>3 DEF Entered, Dirs, Linked, is_dir
  <1>9. F \subseteq Outcomes(f, P, V)
    <2>1. Clean(f0) \in Outcomes(f, P, V) /\ Left(k, TRUE, {}) \in Outcomes(f, P, V)
      BY <1>7, LeftOutcomes
    <2>2. Left(g0, FALSE, {"name"}) \in Outcomes(f, P, V) /\ Left(g, TRUE, {"name"}) \in Outcomes(f, P, V)
      BY <1>2, <1>6, <1>8, LeftOutcomes
    <2> QED
      BY <2>1, <2>2
  <1> HIDE DEF F
  <1>10. W(g, F) \in WritesFrom(f, P, V)
    BY <1>6, <1>9, WriteFrom
  <1> QED
    BY <1>4, <1>10 DEF P, V

\* link_inode, on an inode that has links or has just been made.
LEMMA LinkFrom ==
    ASSUME NEW f \in FileSystems, NEW k \in FileSystems, SameNames(f, k), Dirs(f) \subseteq Dirs(k),
           NEW d \in Dirs(f), NEW n \in Names, f.inode[d].entry[n] = None, NEW c \in Inodes
    PROVE  link_inode(k, d, c, n) \in Seq(WritesFrom(f, {<<d, n>>}, {})) /\ link_inode(k, d, c, n) # <<>>
  <1> DEFINE up == AddLinks(k, c, 1)
             F == {Clean(k), Left(up, FALSE, {"count"})}
             a == W(up, F)
             b == AddLast(k, up, d, n, c)
             P == {<<d, n>>}
             V == {}
             S == WritesFrom(f, P, V)
  <1>1. Relinked(k, up, c, 1)
    BY Relinks
  <1>2. link_inode(k, d, c, n) = <<a, b>>
    BY DEF link_inode
  <1>3. Reaches(f, f, P, V)
    BY SameItself
  <1> HIDE DEF up
  <1>4. up \in FileSystems /\ SameNames(k, up) /\ SameNames(f, up)
    BY <1>1 DEF Relinked, SameNames, Differs
  <1>5. Dirs(f) \subseteq Dirs(up)
    <2>1. \A i \in Inodes : k.inode[i].nlink \in Int
      BY Parts
    <2> QED
      BY <1>1, <2>1 DEF Relinked, Dirs, Linked, is_dir
  <1>6. b \in S
    BY <1>4, <1>5, AddLastFrom
  <1> HIDE DEF P, V
  <1>7. Reaches(f, k, P, V) /\ Reaches(f, up, P, V)
    BY <1>3, <1>4, ReachesSame
  <1>8. a \in S
    <2>1. Clean(k) \in Outcomes(f, P, V)
      BY <1>7, LeftOutcomes
    <2>2. Left(up, FALSE, {"count"}) \in Outcomes(f, P, V)
      BY <1>4, <1>7, LeftOutcomes
    <2>3. F \subseteq Outcomes(f, P, V)
      BY <2>1, <2>2
    <2> HIDE DEF F
    <2> QED
      BY <1>7, <2>3, WriteFrom
  <1> HIDE DEF a, b, S
  <1>9. <<a, b>> \in Seq(S) /\ <<a, b>> # <<>>
    BY <1>6, <1>8
  <1> QED
    BY <1>2, <1>9 DEF S, P, V

\* create and mknod.
LEMMA CreateFrom ==
    ASSUME NEW f \in FileSystems, Live(f), NEW d \in Dirs(f), NEW n \in Names, f.inode[d].entry[n] = None,
           NEW c \in Inodes, f.inode[c].kind = "free"
    PROVE  create(f, d, n, c) \in Seq(WritesFrom(f, {<<d, n>>}, {})) /\ create(f, d, n, c) # <<>>
  <1> DEFINE new == create_inode(f, c, "file")
             row == link_inode(new.fs, d, c, n)
             P == {<<d, n>>}
             V == {}
             S == WritesFrom(f, P, V)
  <1>1. c \notin Dirs(f) /\ \A p \in P : p[1] # c
    BY DEF Dirs, Linked, is_dir
  <1>2. create(f, d, n, c) = <<new>> \o OrFree(row, c)
    BY DEF create, link_new_inode_or_free
  <1>3. /\ new \in S /\ Remade(f, new.fs, c, "file")
        /\ SameNames(f, new.fs) /\ Dirs(f) \subseteq Dirs(new.fs)
    <2> HIDE DEF P, V
    <2> QED
      BY <1>1, CreateInodeFrom
  <1>4. new.fs \in FileSystems
    BY <1>3 DEF Remade
  <1> HIDE DEF new
  <1>5. row \in Seq(S) /\ row # <<>>
    BY <1>3, <1>4, LinkFrom
  <1> HIDE DEF row, P, V
  <1>6. OrFree(row, c) \in Seq(S) /\ OrFree(row, c) # <<>>
    BY <1>1, <1>5, OrFreeFrom
  <1> HIDE DEF S
  <1>7. <<new>> \in Seq(S)
    BY <1>3
  <1> DEFINE s == <<new>>
             t == OrFree(row, c)
  <1> HIDE DEF s, t
  <1>8. s \in Seq(S) /\ t \in Seq(S) /\ t # <<>>
    BY <1>6, <1>7 DEF s, t
  <1>9. s \o t \in Seq(S) /\ s \o t # <<>>
    BY <1>8, JoinedFrom
  <1> QED
    BY <1>2, <1>9 DEF s, t, S, P, V

\* mkdir.
LEMMA MkdirFrom ==
    ASSUME NEW f \in FileSystems, Live(f), NEW d \in Dirs(f), NEW n \in Names, f.inode[d].entry[n] = None,
           NEW c \in Inodes, f.inode[c].kind = "free"
    PROVE  mkdir(f, d, n, c) \in Seq(WritesFrom(f, {<<d, n>>}, {})) /\ mkdir(f, d, n, c) # <<>>
  <1> DEFINE new == create_inode(f, c, "dir")
             nf == new.fs
             dots == SetDotdot(nf, c, d)
             parent == AddLinks(dots, d, 1)
             child == AddLinks(parent, c, 2)
             one == AddLinks(dots, c, 1)
             gone == free_inode(nf, c)
             lp == Left(parent, FALSE, {"count"})
             lc == Left(child, FALSE, {"count"})
             w2 == W(nf, {Clean(gone)} \cup Poisons({nf}))
             w3 == W(dots, {Clean(nf), Clean(dots)})
             w4 == W(parent, {Clean(dots), lp})
             w5 == W(child, {lp, lc})
             w6 == AddLast(one, child, d, n, c)
             row == <<w3, w4, w5, w6>>
             P == {<<d, n>>}
             V == {}
             S == WritesFrom(f, P, V)
             O == Outcomes(f, P, V)
  <1>1. d \in Inodes /\ d \in Targets /\ 1 \in Int /\ 2 \in Int
    BY DEF Dirs, Linked, Targets
  <1>2. c \notin Dirs(f) /\ \A p \in P : p[1] # c
    BY DEF Dirs, Linked, is_dir
  <1>3. mkdir(f, d, n, c) = <<new, w2>> \o OrFree(row, c)
    BY DEF mkdir
  <1>4. Reaches(f, f, P, V)
    BY SameItself
  <1>5. /\ new \in S /\ Remade(f, nf, c, "dir")
        /\ SameNames(f, nf) /\ Dirs(f) \subseteq Dirs(nf)
    <2> HIDE DEF P, V
    <2> QED
      BY <1>2, CreateInodeFrom
  <1>6. nf \in FileSystems
    BY <1>5 DEF Remade
  <1> HIDE DEF new, nf
  <1>7. Remade(nf, gone, c, "free") /\ Dotted(nf, dots, c, d)
    BY <1>1, <1>6, Remakes, Dots
  <1>8. dots \in FileSystems
    BY <1>7 DEF Dotted
  <1> HIDE DEF gone, dots
  <1>9. Relinked(dots, parent, d, 1) /\ Relinked(dots, one, c, 1)
    BY <1>1, <1>8, Relinks
  <1>10. parent \in FileSystems /\ one \in FileSystems
    BY <1>9 DEF Relinked
  <1> HIDE DEF parent, one
  <1>11. Relinked(parent, child, c, 2)
    BY <1>1, <1>10, Relinks
  <1>12. child \in FileSystems
    BY <1>11 DEF Relinked
  <1> HIDE DEF child
  <1>13. SameNames(f, dots) /\ SameNames(f, parent) /\ SameNames(f, one) /\ SameNames(f, child)
    BY <1>5, <1>7, <1>9, <1>11 DEF SameNames, Differs, Dotted, Relinked
  <1>14. Dirs(f) \subseteq Dirs(one) /\ Dirs(f) \subseteq Dirs(child)
    <2>1. \A i \in Inodes : dots.inode[i].nlink \in Int /\ parent.inode[i].nlink \in Int
      BY <1>8, <1>10, Parts
    <2>2. Dirs(f) \subseteq Dirs(dots)
      BY <1>5, <1>7 DEF Dotted, Dirs, Linked, is_dir
    <2>3. Dirs(f) \subseteq Dirs(parent) /\ Dirs(f) \subseteq Dirs(one)
      BY <1>9, <2>1, <2>2 DEF Relinked, Dirs, Linked, is_dir
    <2>4. Dirs(f) \subseteq Dirs(child)
      BY <1>11, <2>1, <2>3 DEF Relinked, Dirs, Linked, is_dir
    <2> QED
      BY <2>3, <2>4
  <1>15. w6 \in S
    BY <1>10, <1>12, <1>13, <1>14, AddLastFrom
  <1> HIDE DEF w6, P, V
  <1>16. /\ Reaches(f, nf, P, V) /\ Reaches(f, dots, P, V) /\ Reaches(f, parent, P, V) /\ Reaches(f, child, P, V)
    BY <1>4, <1>5, <1>13, ReachesSame
  <1>17. Reaches(f, gone, P, V) /\ SameNames(f, gone)
    BY <1>2, <1>5, <1>7, <1>16, RemadeFrom
  <1>18. Clean(gone) \in O /\ Clean(nf) \in O /\ Clean(dots) \in O
    BY <1>5, <1>13, <1>16, <1>17, LeftOutcomes
  <1>19. lp \in O /\ lc \in O /\ Left(nf, TRUE, {}) \in O
    BY <1>13, <1>16, LeftOutcomes
  <1> HIDE DEF lp, lc
  <1>20. w2 \in S
    <2> DEFINE F == {Clean(gone)} \cup Poisons({nf})
    <2>1. F = {Clean(gone), Left(nf, TRUE, {})}
      BY DEF Poisons
    <2>2. F \subseteq O
      BY <1>18, <1>19, <2>1
    <2> HIDE DEF F
    <2> QED
      BY <1>16, <2>2, WriteFrom DEF F
  <1>21. w3 \in S
    <2> DEFINE F == {Clean(nf), Clean(dots)}
    <2>1. F \subseteq O
      BY <1>18
    <2> HIDE DEF F
    <2> QED
      BY <1>16, <2>1, WriteFrom DEF F
  <1>22. w4 \in S
    <2> DEFINE F == {Clean(dots), lp}
    <2>1. F \subseteq O
      BY <1>18, <1>19
    <2> HIDE DEF F
    <2> QED
      BY <1>16, <2>1, WriteFrom DEF F
  <1>23. w5 \in S
    <2> DEFINE F == {lp, lc}
    <2>1. F \subseteq O
      BY <1>19
    <2> HIDE DEF F
    <2> QED
      BY <1>16, <2>1, WriteFrom DEF F
  <1> HIDE DEF w2, w3, w4, w5
  <1>24. row \in Seq(S) /\ row # <<>>
    <2> HIDE DEF S
    <2> QED
      BY <1>15, <1>21, <1>22, <1>23
  <1> HIDE DEF row
  <1>25. OrFree(row, c) \in Seq(S) /\ OrFree(row, c) # <<>>
    BY <1>2, <1>24, OrFreeFrom
  <1> DEFINE s == <<new, w2>>
             t == OrFree(row, c)
  <1> HIDE DEF S
  <1>26. s \in Seq(S)
    BY <1>5, <1>20
  <1> HIDE DEF s, t
  <1>27. t \in Seq(S) /\ t # <<>>
    BY <1>25 DEF t
  <1>28. s \o t \in Seq(S) /\ s \o t # <<>>
    BY <1>26, <1>27, JoinedFrom
  <1> QED
    BY <1>3, <1>28 DEF s, t, S, P, V

\* One transaction, or one guarded write.
LEMMA CommitFrom ==
    ASSUME NEW f \in FileSystems, NEW g, NEW P, NEW V, Reaches(f, g, P, V)
    PROVE  /\ commit(f, g) \in Seq(WritesFrom(f, P, V)) /\ commit(f, g) # <<>>
           /\ commit(f, g)[Len(commit(f, g))].fs = g
  <1> DEFINE a == Guarded(f, g)
             S == WritesFrom(f, P, V)
  <1>1. commit(f, g) = <<a>>
    BY DEF commit
  <1>2. a \in S /\ a.fs = g
    BY SameItself, GuardedFrom
  <1> HIDE DEF a, S
  <1>3. <<a>> \in Seq(S) /\ <<a>> # <<>> /\ Len(<<a>>) = 1 /\ <<a>>[1] = a
    BY <1>2
  <1> QED
    BY <1>1, <1>2, <1>3 DEF S

\* link_inode of an orphan.
LEMMA RelinkFrom ==
    ASSUME NEW f \in FileSystems, NEW d \in Dirs(f), NEW n \in Names, f.inode[d].entry[n] = None, NEW c \in Inodes
    PROVE  relink(f, d, n, c) \in Seq(WritesFrom(f, {<<d, n>>}, {})) /\ relink(f, d, n, c) # <<>>
  <1> DEFINE up == AddLinks(f, c, 1)
             named == SetEntry(up, d, n, c)
             g == [named EXCEPT !.orphans = named.orphans \ {c}]
             P == {<<d, n>>}
             V == {}
  <1>1. d \in Inodes /\ c \in Targets /\ <<d, n>> \in P /\ f.inode[d].entry[n] \in V \cup {None}
    BY DEF Dirs, Linked, Targets
  <1>2. relink(f, d, n, c) = commit(f, g)
    BY DEF relink
  <1>3. Relinked(f, up, c, 1)
    BY Relinks
  <1> HIDE DEF up
  <1>4. up \in FileSystems /\ SameNames(f, up)
    BY <1>3 DEF Relinked, SameNames, Differs
  <1>5. Entered(up, named, d, n, c)
    BY <1>1, <1>4, Enters
  <1> HIDE DEF named, P, V
  <1>6. Reaches(f, named, P, V)
    BY <1>1, <1>4, <1>5, ReachesEntered
  <1>7. SameNames(named, g)
    <2>1. named \in FileSystems
      BY <1>5 DEF Entered
    <2>2. named.orphans \ {c} \in SUBSET Inodes
      BY <2>1, Parts
    <2>3. g \in FileSystems /\ g.inode = named.inode
      BY <2>1, <2>2, Unchained
    <2> HIDE DEF g
    <2> QED
      BY <2>3 DEF SameNames, Differs
  <1> HIDE DEF g
  <1>8. Reaches(f, g, P, V)
    BY <1>6, <1>7, ReachesSame
  <1> QED
    BY <1>2, <1>8, CommitFrom DEF P, V

\* unlink_inode.
LEMMA UnlinkFrom ==
    ASSUME NEW f \in FileSystems, Live(f), NEW d \in Dirs(f), NEW n \in Names, f.inode[d].entry[n] # None
    PROVE  /\ unlink_inode(f, d, n) \in Seq(WritesFrom(f, {<<d, n>>}, {f.inode[d].entry[n]}))
           /\ unlink_inode(f, d, n) # <<>>
  <1> DEFINE c == f.inode[d].entry[n]
             removed == SetEntry(f, d, n, None)
             less == IF is_dir(f, c) THEN -1 ELSE 0
             lower == AddLinks(removed, d, less)
             last == Orphaned(lower, c)
             one == AddLinks(removed, c, -1)
             P == {<<d, n>>}
             V == {c}
             S == WritesFrom(f, P, V)
  <1>1. d \in Inodes /\ None \in Targets /\ c \in Inodes /\ less \in Int /\ -1 \in Int
    BY Numbers DEF Dirs, Linked, Live
  <1>2. <<d, n>> \in P /\ f.inode[d].entry[n] \in V \cup {None}
    OBVIOUS
  <1>3. /\ unlink_inode(f, d, n) =
             IF namespace_removal_is_final(f, c) THEN commit(f, last)
             ELSE << W(removed, {Clean(f), Left(removed, FALSE, {"count"})}), Guarded(removed, one) >>
    BY DEF unlink_inode, dir_find_entry
  <1>4. Entered(f, removed, d, n, None)
    BY <1>1, Enters
  <1>5. SameNames(f, f) /\ Reaches(f, f, P, V)
    BY SameItself
  <1> HIDE DEF c, removed, less
  <1>6. removed \in FileSystems /\ Reaches(f, removed, P, V)
    <2> HIDE DEF P, V
    <2> QED
      BY <1>1, <1>2, <1>4, <1>5, ReachesEntered DEF Entered
  <1>7. Relinked(removed, lower, d, less) /\ Relinked(removed, one, c, -1)
    BY <1>1, <1>6, Relinks
  <1> HIDE DEF lower, one
  <1>8. lower \in FileSystems /\ SameNames(removed, lower) /\ SameNames(removed, one)
    BY <1>7 DEF Relinked, SameNames, Differs
  <1>9. SameNames(lower, last)
    <2>1. last \in FileSystems /\ \A i \in Inodes : last.inode[i].entry = lower.inode[i].entry
      BY <1>1, <1>8, Orphans
    <2> HIDE DEF last
    <2> QED
      BY <2>1 DEF SameNames, Differs
  <1> HIDE DEF last, P, V
  <1>10. Reaches(f, one, P, V) /\ Reaches(f, last, P, V)
    BY <1>6, <1>8, <1>9, ReachesSame
  <1>11. CASE namespace_removal_is_final(f, c)
    BY <1>3, <1>10, <1>11, CommitFrom DEF P, V, c
  <1>12. CASE ~namespace_removal_is_final(f, c)
    <2> DEFINE F == {Clean(f), Left(removed, FALSE, {"count"})}
               a == W(removed, F)
               b == Guarded(removed, one)
    <2>1. Clean(f) \in Outcomes(f, P, V) /\ Left(removed, FALSE, {"count"}) \in Outcomes(f, P, V)
      <3>1. Spared(f, P)
        BY <1>1, <1>12 DEF Spared, P, c
      <3> QED
        BY <1>5, <1>6, <3>1, LeftOutcomes
    <2>2. F \subseteq Outcomes(f, P, V)
      BY <2>1
    <2>3. unlink_inode(f, d, n) = <<a, b>>
      BY <1>3, <1>12
    <2> HIDE DEF F
    <2>4. a \in S /\ b \in S
      BY <1>6, <1>10, <2>2, WriteFrom, GuardedFrom
    <2> HIDE DEF a, b, S
    <2>5. <<a, b>> \in Seq(S) /\ <<a, b>> # <<>>
      BY <2>4
    <2> QED
      BY <2>3, <2>5 DEF S, P, V, c
  <1> QED
    BY <1>11, <1>12

\* The move of a directory changes no name.
LEMMA MoveRowFrom ==
    ASSUME NEW f, NEW k \in FileSystems, NEW c \in Inodes, NEW d \in Inodes, NEW e \in Inodes,
           NEW P, NEW V, Reaches(f, k, P, V)
    PROVE  /\ MoveRow(k, c, d, e) \in Seq(WritesFrom(f, P, V))
           /\ MoveRow(k, c, d, e) # <<>> => SameNames(k, MoveRow(k, c, d, e)[Len(MoveRow(k, c, d, e))].fs)
  <1> DEFINE dots == SetDotdot(k, c, e)
             lower == AddLinks(dots, d, -1)
             g == AddLinks(lower, e, 1)
             a1 == Guarded(k, dots)
             a2 == Guarded(dots, lower)
             a3 == Guarded(lower, g)
             S == WritesFrom(f, P, V)
  <1>1. e \in Targets /\ -1 \in Int /\ 1 \in Int
    BY DEF Targets
  <1>2. CASE MovesDir(k, c, d, e)
    <2>1. MoveRow(k, c, d, e) = <<a1, a2, a3>>
      BY <1>2 DEF MoveRow
    <2>2. Dotted(k, dots, c, e)
      BY <1>1, Dots
    <2> HIDE DEF dots
    <2>3. dots \in FileSystems
      BY <2>2 DEF Dotted
    <2>4. Relinked(dots, lower, d, -1)
      BY <1>1, <2>3, Relinks
    <2> HIDE DEF lower
    <2>5. lower \in FileSystems
      BY <2>4 DEF Relinked
    <2>6. Relinked(lower, g, e, 1)
      BY <1>1, <2>5, Relinks
    <2> HIDE DEF g
    <2>7. SameNames(k, dots) /\ SameNames(k, lower) /\ SameNames(k, g)
      BY <2>2, <2>4, <2>6 DEF SameNames, Differs, Dotted, Relinked
    <2>8. Reaches(f, dots, P, V) /\ Reaches(f, lower, P, V) /\ Reaches(f, g, P, V)
      BY <2>7, ReachesSame
    <2>9. a1 \in S /\ a2 \in S /\ a3 \in S /\ a3.fs = g
      BY <2>8, GuardedFrom
    <2> HIDE DEF a1, a2, a3, S
    <2>10. /\ <<a1, a2, a3>> \in Seq(S) /\ Len(<<a1, a2, a3>>) = 3 /\ <<a1, a2, a3>>[3] = a3
      BY <2>9
    <2> QED
      BY <2>1, <2>7, <2>9, <2>10 DEF S
  <1>3. CASE ~MovesDir(k, c, d, e)
    <2>1. MoveRow(k, c, d, e) = <<>>
      BY <1>3 DEF MoveRow
    <2> QED
      BY <2>1
  <1> QED
    BY <1>2, <1>3

\* Name m of e is given to the inode a of name n of d, then n of d is removed; b loses its name.
Readdressed(f, added, removed, d, n, e, m, a, b, P, V) ==
    /\ f \in FileSystems /\ Entered(f, added, e, m, a) /\ Entered(added, removed, d, n, None)
    /\ d \in Inodes /\ n \in Names /\ e \in Inodes /\ m \in Names /\ a \in Inodes
    /\ f.inode[d].entry[n] = a /\ f.inode[e].entry[m] = b /\ a # b
    /\ P = {<<d, n>>, <<e, m>>} /\ V = {b}

\* In that order no name but b's is lost.
LEMMA RenamedFrom ==
    ASSUME NEW f, NEW added, NEW removed, NEW d, NEW n, NEW e, NEW m, NEW a, NEW b, NEW P, NEW V,
           Readdressed(f, added, removed, d, n, e, m, a, b, P, V)
    PROVE  /\ Reaches(f, f, P, V) /\ Reaches(f, added, P, V) /\ Reaches(f, removed, P, V)
           /\ removed.inode[e].entry[m] = a /\ removed.inode[d].entry[n] = None
  <1> USE DEF Readdressed
  <1>1. <<d, n>> \in P /\ <<e, m>> \in P /\ b \in V \cup {None} /\ ~(d = e /\ n = m)
    OBVIOUS
  <1>2. SameNames(f, f) /\ Reaches(f, f, P, V)
    BY SameItself
  <1>3. Reaches(f, added, P, V)
    BY <1>1, <1>2, ReachesEntered
  <1>4. \A i \in Inodes, k \in Names :
            removed.inode[i].entry[k] = IF i = d /\ k = n THEN None
                                        ELSE IF i = e /\ k = m THEN a ELSE f.inode[i].entry[k]
    BY DEF Entered
  <1>5. removed.inode[e].entry[m] = a /\ removed.inode[d].entry[n] = None
    BY <1>1, <1>4
  <1>6. Differs(f, removed, P)
    BY <1>4 DEF Differs, Entered
  <1>7. ASSUME NEW i \in Inodes, Named(f, i), i \notin V PROVE Named(removed, i)
    <2>1. PICK q \in Inodes, k \in Names : f.inode[q].entry[k] = i
      BY <1>7 DEF Named
    <2>2. ~(q = e /\ k = m)
      BY <1>7, <2>1
    <2>3. CASE q = d /\ k = n
      BY <1>5, <2>1, <2>3 DEF Named
    <2>4. CASE ~(q = d /\ k = n)
      BY <1>4, <2>1, <2>2, <2>4 DEF Named
    <2> QED
      BY <2>3, <2>4
  <1>8. Reaches(f, removed, P, V)
    BY <1>6, <1>7 DEF Reaches
  <1> QED
    BY <1>2, <1>3, <1>5, <1>8

\* Where a completed rename has moved the name.
Arrives(f, g, d, n, e, m) ==
    g.inode[e].entry[m] = f.inode[d].entry[n] /\ g.inode[d].entry[n] = None

\* A rename to a free name.
LEMMA RenameSimpleFrom ==
    ASSUME NEW f \in FileSystems, Live(f), NEW d \in Dirs(f), NEW n \in Names, NEW e \in Dirs(f), NEW m \in Names,
           f.inode[d].entry[n] # None, f.inode[e].entry[m] # f.inode[d].entry[n]
    PROVE  LET row == rename_simple(f, d, n, e, m)
           IN  /\ row \in Seq(WritesFrom(f, {<<d, n>>, <<e, m>>}, {f.inode[e].entry[m]})) /\ row # <<>>
               /\ Arrives(f, row[Len(row)].fs, d, n, e, m)
  <1> DEFINE a == f.inode[d].entry[n]
             added == SetEntry(f, e, m, a)
             removed == SetEntry(added, d, n, None)
             F == {Clean(f)} \cup Poisons({f, added})
             w1 == W(added, F)
             w2 == Guarded(added, removed)
             s == <<w1, w2>>
             t == MoveRow(removed, a, d, e)
             P == {<<d, n>>, <<e, m>>}
             b == f.inode[e].entry[m]
             V == {b}
             S == WritesFrom(f, P, V)
  <1>1. d \in Inodes /\ e \in Inodes /\ a \in Inodes /\ a \in Targets /\ None \in Targets
    BY DEF Dirs, Linked, Live, Targets
  <1>2. rename_simple(f, d, n, e, m) = s \o t
    BY DEF rename_simple, dir_find_entry
  <1>3. b # a /\ f.inode[d].entry[n] = a /\ f.inode[e].entry[m] = b /\ P = {<<d, n>>, <<e, m>>} /\ V = {b}
    OBVIOUS
  <1>4. Entered(f, added, e, m, a)
    BY <1>1, Enters
  <1> HIDE DEF added
  <1>5. added \in FileSystems
    BY <1>4 DEF Entered
  <1>6. Entered(added, removed, d, n, None)
    BY <1>1, <1>5, Enters
  <1> HIDE DEF removed, a, b, P, V
  <1>7. removed \in FileSystems
    BY <1>6 DEF Entered
  <1>8. /\ Reaches(f, f, P, V) /\ Reaches(f, added, P, V) /\ Reaches(f, removed, P, V)
        /\ Arrives(f, removed, d, n, e, m)
    <2>1. /\ Reaches(f, f, P, V) /\ Reaches(f, added, P, V) /\ Reaches(f, removed, P, V)
          /\ removed.inode[e].entry[m] = a /\ removed.inode[d].entry[n] = None
      <3>1. Readdressed(f, added, removed, d, n, e, m, a, b, P, V)
        BY <1>1, <1>3, <1>4, <1>6 DEF Readdressed
      <3> QED
        BY <3>1, RenamedFrom
    <2> QED
      BY <1>3, <2>1 DEF Arrives
  <1>9. F \subseteq Outcomes(f, P, V)
    <2>1. F = {Clean(f), Left(f, TRUE, {}), Left(added, TRUE, {})}
      BY DEF Poisons
    <2>2. Clean(f) \in Outcomes(f, P, V) /\ Left(f, TRUE, {}) \in Outcomes(f, P, V)
      BY <1>8, SameItself, LeftOutcomes
    <2>3. Left(added, TRUE, {}) \in Outcomes(f, P, V)
      BY <1>8, LeftOutcomes
    <2> QED
      BY <2>1, <2>2, <2>3
  <1> HIDE DEF F
  <1>10. w1 \in S /\ w2 \in S /\ w2.fs = removed
    BY <1>8, <1>9, WriteFrom, GuardedFrom
  <1>11. t \in Seq(S) /\ (t # <<>> => SameNames(removed, t[Len(t)].fs))
    BY <1>1, <1>7, <1>8, MoveRowFrom
  <1> HIDE DEF w1, w2, t, S
  <1>12. s \in Seq(S) /\ s # <<>> /\ Len(s) = 2 /\ s[2] = w2
    BY <1>10
  <1> HIDE DEF s
  <1>13. s \o t \in Seq(S) /\ s \o t # <<>>
    BY <1>11, <1>12, JoinedFrom
  <1>14. Arrives(f, (s \o t)[Len(s \o t)].fs, d, n, e, m)
    <2>1. CASE t = <<>>
      <3>1. s \o t = s
        BY <1>11, <1>12, <2>1, JoinedFrom
      <3> QED
        BY <1>8, <1>10, <1>12, <3>1
    <2>2. CASE t # <<>>
      <3> DEFINE x == t[Len(t)].fs
      <3>1. SameNames(removed, x) /\ (s \o t)[Len(s \o t)] = t[Len(t)]
        BY <1>11, <1>12, <2>2, JoinedFrom
      <3> HIDE DEF x
      <3>2. Arrives(f, x, d, n, e, m)
        BY <1>1, <1>8, <3>1 DEF Arrives, SameNames, Differs
      <3> QED
        BY <3>1, <3>2 DEF x
    <2> QED
      BY <2>1, <2>2
  <1> QED
    BY <1>2, <1>13, <1>14 DEF S, P, V, b

\* A rename over another inode.
LEMMA RenameReplaceFrom ==
    ASSUME NEW f \in FileSystems, Live(f), NEW d \in Dirs(f), NEW n \in Names, NEW e \in Dirs(f), NEW m \in Names,
           f.inode[d].entry[n] # None, f.inode[e].entry[m] # None, f.inode[e].entry[m] # f.inode[d].entry[n]
    PROVE  LET row == rename_replace(f, d, n, e, m)
           IN  /\ row \in Seq(WritesFrom(f, {<<d, n>>, <<e, m>>}, {f.inode[e].entry[m]})) /\ row # <<>>
               /\ Arrives(f, row[Len(row)].fs, d, n, e, m)
  <1> DEFINE a == f.inode[d].entry[n]
             b == f.inode[e].entry[m]
             added == SetEntry(f, e, m, a)
             renamed == SetEntry(added, d, n, None)
             counted == IF is_dir(f, b) THEN AddLinks(renamed, e, -1) ELSE renamed
             moved == IF MovesDir(f, a, d, e) THEN Moved(counted, a, d, e) ELSE counted
             last == Orphaned(moved, b)
             less == AddLinks(moved, b, -1)
             g == IF namespace_removal_is_final(f, b) THEN last ELSE less
             P == {<<d, n>>, <<e, m>>}
             V == {b}
  <1>1. /\ d \in Inodes /\ e \in Inodes /\ a \in Inodes /\ b \in Inodes /\ a \in Targets /\ None \in Targets
        /\ -1 \in Int
    BY DEF Dirs, Linked, Live, Targets
  <1>2. rename_replace(f, d, n, e, m) = commit(f, g)
    BY DEF rename_replace, dir_find_entry
  <1>3. b # a /\ f.inode[d].entry[n] = a /\ f.inode[e].entry[m] = b /\ P = {<<d, n>>, <<e, m>>} /\ V = {b}
    OBVIOUS
  <1>4. Entered(f, added, e, m, a)
    BY <1>1, Enters
  <1> HIDE DEF added
  <1>5. added \in FileSystems
    BY <1>4 DEF Entered
  <1>6. Entered(added, renamed, d, n, None)
    BY <1>1, <1>5, Enters
  <1> HIDE DEF renamed, a, b, P, V
  <1>7. renamed \in FileSystems
    BY <1>6 DEF Entered
  <1>8. Reaches(f, renamed, P, V) /\ Arrives(f, renamed, d, n, e, m)
    <2>1. /\ Reaches(f, renamed, P, V)
          /\ renamed.inode[e].entry[m] = a /\ renamed.inode[d].entry[n] = None
      <3>1. Readdressed(f, added, renamed, d, n, e, m, a, b, P, V)
        BY <1>1, <1>3, <1>4, <1>6 DEF Readdressed
      <3> QED
        BY <3>1, RenamedFrom
    <2> QED
      BY <1>3, <2>1 DEF Arrives
  <1>9. counted \in FileSystems /\ SameNames(renamed, counted)
    <2>1. Relinked(renamed, AddLinks(renamed, e, -1), e, -1)
      BY <1>1, <1>7, Relinks
    <2>2. counted = AddLinks(renamed, e, -1) \/ counted = renamed
      OBVIOUS
    <2> HIDE DEF counted
    <2> QED
      BY <1>7, <2>1, <2>2 DEF Relinked, SameNames, Differs
  <1> HIDE DEF counted
  <1>10. moved \in FileSystems /\ SameNames(renamed, moved)
    <2>1. /\ SameNames(counted, Moved(counted, a, d, e)) /\ Moved(counted, a, d, e) \in FileSystems
      <3> DEFINE dots == SetDotdot(counted, a, e)
                 lower == AddLinks(dots, d, -1)
                 h == AddLinks(lower, e, 1)
      <3>1. e \in Targets /\ 1 \in Int
        BY <1>1 DEF Targets
      <3>2. Moved(counted, a, d, e) = h
        BY DEF Moved
      <3>3. Dotted(counted, dots, a, e)
        BY <1>1, <1>9, <3>1, Dots
      <3> HIDE DEF dots
      <3>4. dots \in FileSystems
        BY <3>3 DEF Dotted
      <3>5. Relinked(dots, lower, d, -1)
        BY <1>1, <3>4, Relinks
      <3> HIDE DEF lower
      <3>6. lower \in FileSystems
        BY <3>5 DEF Relinked
      <3>7. Relinked(lower, h, e, 1)
        BY <1>1, <3>1, <3>6, Relinks
      <3> HIDE DEF h
      <3> QED
        BY <3>2, <3>3, <3>5, <3>7 DEF SameNames, Differs, Dotted, Relinked
    <2>2. moved = Moved(counted, a, d, e) \/ moved = counted
      OBVIOUS
    <2> HIDE DEF moved
    <2> QED
      BY <1>9, <2>1, <2>2 DEF SameNames, Differs
  <1> HIDE DEF moved
  <1>11. SameNames(renamed, g)
    <2>1. last \in FileSystems /\ \A i \in Inodes : last.inode[i].entry = moved.inode[i].entry
      BY <1>1, <1>10, Orphans
    <2>2. Relinked(moved, less, b, -1)
      BY <1>1, <1>10, Relinks
    <2>3. g = last \/ g = less
      OBVIOUS
    <2> HIDE DEF last, less, g
    <2> QED
      BY <1>10, <2>1, <2>2, <2>3 DEF SameNames, Differs, Relinked
  <1> HIDE DEF g
  <1>12. Reaches(f, g, P, V) /\ Arrives(f, g, d, n, e, m)
    BY <1>1, <1>8, <1>11, ReachesSame DEF Arrives, SameNames, Differs
  <1> QED
    BY <1>2, <1>12, CommitFrom DEF P, V, b

\* rename_exchange may leave one of its inodes without a name, and changes no third place.
LEMMA ExchangeFrom ==
    ASSUME NEW f \in FileSystems, Live(f), NEW d \in Dirs(f), NEW n \in Names, NEW e \in Dirs(f), NEW m \in Names,
           f.inode[d].entry[n] # None, f.inode[e].entry[m] # None
    PROVE  /\ exchange(f, d, n, e, m) \in Seq(WritesFrom(f, {<<d, n>>, <<e, m>>}, Inodes))
           /\ exchange(f, d, n, e, m) # <<>>
  <1> DEFINE a == f.inode[d].entry[n]
             b == f.inode[e].entry[m]
             first == SetEntry(f, d, n, b)
             second == SetEntry(first, e, m, a)
             rowA == MoveRow(second, a, d, e)
             afterA == IF rowA = <<>> THEN second ELSE rowA[Len(rowA)].fs
             rowB == MoveRow(afterA, b, e, d)
             w1 == Guarded(f, first)
             w2 == Guarded(first, second)
             s == <<w1, w2>>
             P == {<<d, n>>, <<e, m>>}
             V == Inodes
             S == WritesFrom(f, P, V)
  <1>1. d \in Inodes /\ e \in Inodes /\ a \in Inodes /\ b \in Inodes /\ a \in Targets /\ b \in Targets
    BY DEF Dirs, Linked, Live, Targets
  <1>2. exchange(f, d, n, e, m) = (s \o rowA) \o rowB
    BY DEF exchange, dir_find_entry
  <1>3. Entered(f, first, d, n, b)
    BY <1>1, Enters
  <1> HIDE DEF first
  <1>4. first \in FileSystems
    BY <1>3 DEF Entered
  <1>5. Entered(first, second, e, m, a)
    BY <1>1, <1>4, Enters
  <1> HIDE DEF second
  <1>6. second \in FileSystems
    BY <1>5 DEF Entered
  <1>7. Reaches(f, f, P, V) /\ Reaches(f, first, P, V) /\ Reaches(f, second, P, V)
    <2>1. Differs(f, first, P) /\ Differs(f, second, P)
      BY <1>3, <1>5 DEF Differs, Entered
    <2>2. Reaches(f, f, P, V)
      BY SameItself
    <2> HIDE DEF P
    <2> QED
      BY <2>1, <2>2 DEF Reaches
  <1> HIDE DEF P, V, a, b
  <1>8. w1 \in S /\ w2 \in S
    BY <1>7, GuardedFrom
  <1>9. rowA \in Seq(S) /\ (rowA # <<>> => SameNames(second, rowA[Len(rowA)].fs))
    BY <1>1, <1>6, <1>7, MoveRowFrom
  <1>10. afterA \in FileSystems /\ Reaches(f, afterA, P, V)
    <2>1. CASE rowA = <<>>
      BY <1>6, <1>7, <2>1
    <2>2. CASE rowA # <<>>
      <3>1. SameNames(second, afterA)
        BY <1>9, <2>2
      <3> HIDE DEF afterA
      <3> QED
        BY <1>7, <3>1, ReachesSame DEF SameNames, Differs
    <2> QED
      BY <2>1, <2>2
  <1> HIDE DEF afterA
  <1>11. rowB \in Seq(S)
    BY <1>1, <1>10, MoveRowFrom
  <1> HIDE DEF w1, w2, rowA, rowB, S
  <1>12. s \in Seq(S) /\ s # <<>>
    BY <1>8
  <1> DEFINE r == s \o rowA
  <1> HIDE DEF s
  <1>13. r \in Seq(S) /\ r # <<>>
    BY <1>9, <1>12, JoinedFrom
  <1> HIDE DEF r
  <1>14. r \o rowB \in Seq(S) /\ r \o rowB # <<>>
    BY <1>11, <1>13, JoinedFrom
  <1> QED
    BY <1>2, <1>14 DEF r, S, P, V

-----------------------------------------------------------------------------
(* The steps, from the names' side *)

\* The number of failures only counts them.
FaultsOK == faults \in Nat

LEMMA FaultsCounted == Spec => []FaultsOK
  <1>1. Init => FaultsOK
    BY DEF Init, FaultsOK
  <1>2. ASSUME NEW row, FaultsOK, Runs(row) PROVE FaultsOK'
    BY <1>2 DEF FaultsOK, Runs, Completes, Fails, Stops
  <1>3. FaultsOK /\ [Next]_vars => FaultsOK'
    <2> SUFFICES ASSUME FaultsOK, [Next]_vars PROVE FaultsOK'
      OBVIOUS
    <2>1. CASE UNCHANGED faults
      BY <2>1 DEF FaultsOK
    <2>2. CASE \E row : Runs(row)
      BY <1>2, <2>2
    <2>3. UNCHANGED faults \/ \E row : Runs(row)
      <3>1. Create => \E row : Runs(row)
        BY DEF Create
      <3>2. Mkdir => \E row : Runs(row)
        BY DEF Mkdir
      <3>3. Link => \E row : Runs(row)
        BY DEF Link
      <3>4. Unlink \/ Rmdir => \E row : Runs(row)
        BY DEF Unlink, Rmdir
      <3>5. Rename => \E row : Runs(row)
        BY DEF Rename
      <3>6. RenameExchange => \E row : Runs(row)
        BY DEF RenameExchange
      <3>7. Reclaim => UNCHANGED faults
        BY DEF Reclaim
      <3>8. Halted \/ UNCHANGED vars => UNCHANGED faults
        BY DEF Halted, vars
      <3> QED
        BY <3>1, <3>2, <3>3, <3>4, <3>5, <3>6, <3>7, <3>8 DEF Next, Operation
    <2> QED
      BY <2>1, <2>2, <2>3
  <1> QED
    BY <1>1, <1>3, PTL DEF Spec

\* A step changes names at P only, none but V loses its last name, an error without poison
\* that leaves no "name" changes none but a spared one, and one that does left a new name.
Keeps(P, V) ==
    /\ \A d \in Inodes, n \in Names : <<d, n>> \notin P => fs'.inode[d].entry[n] = fs.inode[d].entry[n]
    /\ \A i \in Inodes : NamesOf(fs, i) # {} /\ NamesOf(fs', i) = {} => i \in V
    /\ faults' # faults /\ ~poisoned' /\ Trusted'
          => \/ \A d \in Inodes, n \in Names : fs'.inode[d].entry[n] = fs.inode[d].entry[n]
             \/ Spared(fs, P)
    /\ ~Trusted' => V = {}

\* Names in linked directories are names that a caller finds.
LEMMA NamesFound ==
    ASSUME NEW f \in FileSystems, NEW g \in FileSystems, Live(f), NEW i \in Inodes, Named(g, i), NEW P, Differs(f, g, P),
           Live(g) \/ (Dirs(f) \subseteq Dirs(g) /\ \A p \in P : p[1] \in Dirs(f))
    PROVE  NamesOf(g, i) # {}
  <1>1. PICK d \in Inodes, n \in Names : g.inode[d].entry[n] = i
    BY DEF Named
  <1>2. i # None
    BY Numbers
  <1>3. d \in Dirs(g)
    <2>1. CASE Live(g)
      BY <1>1, <1>2, <2>1 DEF Live
    <2>2. CASE Dirs(f) \subseteq Dirs(g) /\ \A p \in P : p[1] \in Dirs(f)
      <3>1. CASE <<d, n>> \in P
        <4>1. <<d, n>>[1] = d
          OBVIOUS
        <4> QED
          BY <2>2, <3>1, <4>1
      <3>2. CASE <<d, n>> \notin P
        BY <1>1, <1>2, <2>2, <3>2 DEF Live, Differs
      <3> QED
        BY <3>1, <3>2
    <2> QED
      BY <2>1, <2>2
  <1>4. <<d, n>> \in NamesOf(g, i)
    BY <1>1, <1>3 DEF NamesOf
  <1> QED
    BY <1>4

\* What holds of the writes of a row and of what their failures leave holds of the step,
\* and a step that neither fails nor stops is the whole row.
LEMMA RowKeeps ==
    ASSUME IInv, IInv', FaultsOK, Undamaged, NEW P, NEW V, \A p \in P : p[1] \in Dirs(fs),
           NEW row \in Seq(WritesFrom(fs, P, V)), row # <<>>, Runs(row)
    PROVE  Keeps(P, V) /\ (faults' = faults /\ ~stopped' => fs' = row[Len(row)].fs)
  <1>1. Len(row) \in Nat \ {0} /\ \A k \in 1 .. Len(row) : row[k] \in WritesFrom(fs, P, V)
    BY ElementOfSeq, EmptySeq
  <1>2. DOMAIN row = 1 .. Len(row)
    BY LenProperties
  <1>3. \A k \in 1 .. Len(row) : Reaches(fs, row[k].fs, P, V) /\ row[k].failed \subseteq Outcomes(fs, P, V)
    BY <1>1 DEF WritesFrom
  <1>4. fs \in FileSystems /\ Live(fs) /\ harm \subseteq Damage /\ "name" \notin harm /\ fs' \in FileSystems
        /\ ("name" \notin harm' => Live(fs'))
    BY DEF IInv, Undamaged, Trusted
  <1>5. \A i \in Inodes : NamesOf(fs, i) # {} => Named(fs, i)
    BY <1>4, NamesAreInDirs
  <1>6. ASSUME Reaches(fs, fs', P, V), "name" \in harm' => V = {} /\ Dirs(fs) \subseteq Dirs(fs'),
               faults' # faults /\ ~poisoned' /\ "name" \notin harm' => SameNames(fs, fs') \/ Spared(fs, P)
        PROVE  Keeps(P, V)
    <2>1. Differs(fs, fs', P) /\ \A i \in Inodes : Named(fs, i) /\ i \notin V => Named(fs', i)
      BY <1>6 DEF Reaches
    <2>2. ASSUME NEW i \in Inodes, NamesOf(fs, i) # {}, i \notin V PROVE NamesOf(fs', i) # {}
      <3>1. Named(fs', i)
        BY <1>5, <2>1, <2>2
      <3> QED
        BY <1>4, <1>6, <2>1, <3>1, NamesFound
    <2> QED
      BY <1>6, <2>1, <2>2 DEF Keeps, Differs, SameNames, Trusted
  <1>7. CASE Completes(row)
    <2>1. fs' = row[Len(row)].fs /\ harm' = harm /\ faults' = faults
      BY <1>7 DEF Completes
    <2>2. Reaches(fs, fs', P, V)
      BY <1>1, <1>3, <2>1
    <2> QED
      BY <1>4, <1>6, <2>1, <2>2
  <1>8. CASE Fails(row)
    <2>1. PICK k \in 1 .. Len(row) : \E x \in row[k].failed :
              fs' = x.fs /\ poisoned' = x.poisoned /\ harm' = harm \cup x.harm
      BY <1>2, <1>8 DEF Fails
    <2>2. PICK x \in row[k].failed : fs' = x.fs /\ poisoned' = x.poisoned /\ harm' = harm \cup x.harm
      BY <2>1
    <2>3. x \in Outcomes(fs, P, V)
      BY <1>3
    <2>4. /\ x.poisoned \in BOOLEAN /\ x.harm \subseteq Damage /\ Reaches(fs, x.fs, P, V)
          /\ x.poisoned = FALSE /\ "name" \notin x.harm => SameNames(fs, x.fs) \/ Spared(fs, P)
          /\ "name" \in x.harm => V = {} /\ Dirs(fs) \subseteq Dirs(x.fs)
      BY <2>3 DEF Outcomes, Lefts
    <2>5. "name" \in harm' <=> "name" \in x.harm
      BY <1>4, <2>2
    <2>6. faults' # faults
      BY <1>8 DEF Fails, FaultsOK
    <2> QED
      BY <1>6, <2>2, <2>4, <2>5, <2>6
  <1>9. CASE Stops(row)
    <2>1. PICK k \in 1 .. Len(row) - 1 : fs' = row[k].fs
      BY <1>9 DEF Stops
    <2>2. stopped' = TRUE /\ harm' = harm /\ faults' = faults
      BY <1>9 DEF Stops
    <2>3. Reaches(fs, fs', P, V)
      BY <1>1, <1>3, <2>1
    <2> QED
      BY <1>4, <1>6, <2>2, <2>3
  <1> QED
    BY <1>7, <1>8, <1>9 DEF Runs, Completes

\* The inodes whose name a request takes.
Victims(r) ==
    {fs.inode[p[1]].entry[p[2]] :
        p \in IF r[1] = "remove" THEN Places(r) ELSE IF r[1] = "rename" THEN {<<r[4], r[5]>>} ELSE {}}

\* What NamesKept and AllOrNothing say of a step.
KeepsNames ==
    Trusted /\ request'[1] # "exchange" =>
        \A i \in Inodes : NamesOf(fs, i) # {} /\ NamesOf(fs', i) = {} => i \in Victims(request')

KeepsPlaces ==
    Trusted =>
    /\ \A d \in Inodes, n \in Names :
           <<d, n>> \notin Places(request') /\ d \in Dirs(fs)
               => fs'.inode[d].entry[n] = fs.inode[d].entry[n]
    /\ faults' # faults /\ ~poisoned' /\ ~Uncertain(request')
           => \A i \in Dirs(fs) : Tree(fs')[i] = Tree(fs)[i]
    /\ faults' = faults /\ ~stopped' /\ request'[1] = "rename" /\ fs' # fs
           => /\ fs'.inode[request'[4]].entry[request'[5]]
                   = fs.inode[request'[2]].entry[request'[3]]
              /\ fs'.inode[request'[2]].entry[request'[3]] = None

LEMMA KeepsBoth ==
    ASSUME IInv, IInv', NEW V, Keeps(Places(request'), V), request'[1] # "exchange" => V \subseteq Victims(request'),
           Spared(fs, Places(request')) => Uncertain(request'),
           V = {} => request'[1] = "create" \/ faults' = faults,
           faults' = faults /\ ~stopped' /\ request'[1] = "rename" =>
               Arrives(fs, fs', request'[2], request'[3], request'[4], request'[5])
    PROVE  KeepsNames /\ KeepsPlaces
  <1>1. KeepsNames
    BY DEF KeepsNames, Keeps
  <1>2. ASSUME \A d \in Inodes, n \in Names : fs'.inode[d].entry[n] = fs.inode[d].entry[n], NEW i \in Dirs(fs)
        PROVE  Tree(fs')[i] = Tree(fs)[i]
    <2>1. i \in Inodes /\ fs \in FileSystems /\ fs' \in FileSystems
      BY DEF Dirs, Linked, IInv
    <2>2. fs.inode[i].entry \in [Names -> Targets] /\ fs'.inode[i].entry \in [Names -> Targets]
      BY <2>1, Parts
    <2>3. fs'.inode[i].entry = fs.inode[i].entry
      BY <1>2, <2>1, <2>2
    <2> QED
      BY <2>1, <2>3 DEF Tree
  <1>3. ASSUME faults' # faults, ~poisoned', ~Uncertain(request')
        PROVE  \A d \in Inodes, n \in Names : fs'.inode[d].entry[n] = fs.inode[d].entry[n]
    <2>1. Trusted'
      BY <1>3 DEF Keeps, Uncertain
    <2> QED
      BY <1>3, <2>1 DEF Keeps
  <1>4. ASSUME faults' # faults, ~poisoned', ~Uncertain(request'), NEW i \in Dirs(fs)
        PROVE  Tree(fs')[i] = Tree(fs)[i]
    BY <1>2, <1>3, <1>4
  <1>5. KeepsPlaces
    BY <1>4 DEF KeepsPlaces, Keeps, Arrives, Dirs, Linked
  <1> QED
    BY <1>1, <1>5

\* A pair of places, and the place of a new name, are not those of a spared name.
LEMMA NotSpared ==
    ASSUME NEW f, NEW d, NEW n, NEW e, NEW m, d # e \/ n # m \/ f.inode[d].entry[n] = None
    PROVE  ~Spared(f, {<<d, n>>, <<e, m>>})
  <1> SUFFICES ASSUME NEW a \in Inodes, NEW x \in Names, {<<d, n>>, <<e, m>>} = {<<a, x>>},
                      f.inode[a].entry[x] # None
               PROVE  FALSE
    BY DEF Spared
  <1>1. <<d, n>> = <<a, x>> /\ <<e, m>> = <<a, x>>
    OBVIOUS
  <1> QED
    BY <1>1

\* create, mknod, mkdir and link.
LEMMA CreatesKeep ==
    ASSUME IInv, IInv', Trusted, FaultsOK, Create \/ Mkdir \/ Link
    PROVE  KeepsNames /\ KeepsPlaces
  <1>1. Undamaged
    BY DEF Create, Mkdir, Link, Undamaged
  <1>2. \E d \in Dirs(fs), n \in Names, c \in Inodes : \E row \in Seq(WritesFrom(fs, {<<d, n>>}, {})) :
            /\ row # <<>> /\ Runs(row) /\ request' = <<"create", d, n, c>>
            /\ fs.inode[d].entry[n] = None
    <2>1. fs \in FileSystems /\ Live(fs) /\ \A d \in Known : d \in Dirs(fs)
      BY <1>1, Begins DEF Sound
    <2>2. CASE Create
      <3> DEFINE c == Min(Available)
      <3>1. PICK d \in Known, n \in Names :
                Vacant(d, n) /\ Runs(create(fs, d, n, c)) /\ request' = <<"create", d, n, c>>
        BY <2>2 DEF Create
      <3>2. c \in Inodes /\ fs.inode[c].kind = "free"
        BY <2>2, FirstIsFree DEF Create
      <3> HIDE DEF c
      <3>3. create(fs, d, n, c) \in Seq(WritesFrom(fs, {<<d, n>>}, {})) /\ create(fs, d, n, c) # <<>>
        BY <2>1, <3>1, <3>2, CreateFrom DEF Vacant, dir_find_entry
      <3> QED
        BY <2>1, <3>1, <3>2, <3>3 DEF Vacant, dir_find_entry
    <2>3. CASE Mkdir
      <3> DEFINE c == Min(Available)
      <3>1. PICK d \in Known, n \in Names :
                Vacant(d, n) /\ Runs(mkdir(fs, d, n, c)) /\ request' = <<"create", d, n, c>>
        BY <2>3 DEF Mkdir
      <3>2. c \in Inodes /\ fs.inode[c].kind = "free"
        BY <2>3, FirstIsFree DEF Mkdir
      <3> HIDE DEF c
      <3>3. mkdir(fs, d, n, c) \in Seq(WritesFrom(fs, {<<d, n>>}, {})) /\ mkdir(fs, d, n, c) # <<>>
        BY <2>1, <3>1, <3>2, MkdirFrom DEF Vacant, dir_find_entry
      <3> QED
        BY <2>1, <3>1, <3>2, <3>3 DEF Vacant, dir_find_entry
    <2>4. CASE Link
      <3>1. PICK d \in Known, n \in Names, c \in Inodes :
                /\ Vacant(d, n) /\ request' = <<"create", d, n, c>>
                /\ IF fs.inode[c].nlink > 0 THEN Runs(link_inode(fs, d, c, n)) ELSE Runs(relink(fs, d, n, c))
        BY <2>4 DEF Link
      <3>2. d \in Dirs(fs) /\ fs.inode[d].entry[n] = None
        BY <2>1, <3>1 DEF Vacant, dir_find_entry
      <3>3. CASE fs.inode[c].nlink > 0
        <4>1. link_inode(fs, d, c, n) \in Seq(WritesFrom(fs, {<<d, n>>}, {})) /\ link_inode(fs, d, c, n) # <<>>
          BY <2>1, <3>2, SameItself, LinkFrom
        <4> QED
          BY <3>1, <3>2, <3>3, <4>1
      <3>4. CASE ~(fs.inode[c].nlink > 0)
        <4>1. relink(fs, d, n, c) \in Seq(WritesFrom(fs, {<<d, n>>}, {})) /\ relink(fs, d, n, c) # <<>>
          BY <2>1, <3>2, RelinkFrom
        <4> QED
          BY <3>1, <3>2, <3>4, <4>1
      <3> QED
        BY <3>3, <3>4
    <2> QED
      BY <2>2, <2>3, <2>4
  <1>3. PICK d \in Dirs(fs), n \in Names, c \in Inodes :
            /\ request' = <<"create", d, n, c>> /\ fs.inode[d].entry[n] = None
            /\ \E row \in Seq(WritesFrom(fs, {<<d, n>>}, {})) : row # <<>> /\ Runs(row)
    BY <1>2
  <1>4. Places(request') = {<<d, n>>} /\ request'[1] = "create"
    BY <1>3 DEF Places
  <1>5. Keeps({<<d, n>>}, {})
    <2>1. \A p \in {<<d, n>>} : p[1] \in Dirs(fs)
      OBVIOUS
    <2>2. PICK row \in Seq(WritesFrom(fs, {<<d, n>>}, {})) : row # <<>> /\ Runs(row)
      BY <1>3
    <2> QED
      BY <1>1, <2>1, <2>2, RowKeeps
  <1>6. ~Spared(fs, Places(request'))
    <2>1. ~Spared(fs, {<<d, n>>, <<d, n>>})
      BY <1>3, NotSpared
    <2> QED
      BY <1>4, <2>1
  <1> QED
    BY <1>4, <1>5, <1>6, KeepsBoth

\* unlink and rmdir.
LEMMA RemovesKeep ==
    ASSUME IInv, IInv', Trusted, FaultsOK, Unlink \/ Rmdir
    PROVE  KeepsNames /\ KeepsPlaces
  <1>1. Undamaged
    BY DEF Unlink, Rmdir, Undamaged
  <1>2. PICK d \in Known, n \in Names :
            fs.inode[d].entry[n] # None /\ Runs(unlink_inode(fs, d, n)) /\ request' = <<"remove", d, n>>
    BY DEF Unlink, Rmdir, Vacant, dir_find_entry
  <1>3. fs \in FileSystems /\ Live(fs) /\ d \in Dirs(fs)
    BY <1>1, Begins DEF Sound
  <1> DEFINE row == unlink_inode(fs, d, n)
             P == {<<d, n>>}
             V == {fs.inode[d].entry[n]}
  <1>4. row \in Seq(WritesFrom(fs, P, V)) /\ row # <<>>
    BY <1>2, <1>3, UnlinkFrom
  <1>5. \A p \in P : p[1] \in Dirs(fs)
    BY <1>3
  <1>6. Places(request') = P /\ request'[1] = "remove" /\ Victims(request') = V
    BY <1>2 DEF Places, Victims
  <1>7. Spared(fs, P) => Uncertain(request')
    <2> SUFFICES ASSUME NEW a \in Inodes, NEW x \in Names, P = {<<a, x>>},
                        ~namespace_removal_is_final(fs, fs.inode[a].entry[x])
                 PROVE  Uncertain(request')
      BY DEF Spared
    <2>1. <<d, n>> = <<a, x>>
      OBVIOUS
    <2>2. a = d /\ x = n
      BY <2>1
    <2> QED
      BY <1>2, <2>2 DEF Uncertain, dir_find_entry
  <1>8. V # {}
    OBVIOUS
  <1> HIDE DEF row, P, V
  <1>9. Keeps(P, V)
    BY <1>1, <1>2, <1>4, <1>5, RowKeeps DEF row
  <1> QED
    BY <1>6, <1>7, <1>8, <1>9, KeepsBoth

\* rename, to a free name or over another inode.
LEMMA RenameKeeps ==
    ASSUME IInv, IInv', Trusted, FaultsOK, Rename
    PROVE  KeepsNames /\ KeepsPlaces
  <1>1. Undamaged
    BY DEF Rename, Undamaged
  <1>2. PICK d \in Known, e \in Known, n \in Names, m \in Names :
            /\ fs.inode[d].entry[n] # None /\ fs.inode[d].entry[n] # fs.inode[e].entry[m]
            /\ IF fs.inode[e].entry[m] = None THEN Runs(rename_simple(fs, d, n, e, m))
               ELSE Runs(rename_replace(fs, d, n, e, m))
            /\ request' = <<"rename", d, n, e, m>>
    BY DEF Rename, dir_find_entry
  <1>3. fs \in FileSystems /\ Live(fs) /\ d \in Dirs(fs) /\ e \in Dirs(fs)
    BY <1>1, Begins DEF Sound
  <1> DEFINE P == {<<d, n>>, <<e, m>>}
             V == {fs.inode[e].entry[m]}
  <1>4. PICK row \in Seq(WritesFrom(fs, P, V)) :
            row # <<>> /\ Runs(row) /\ Arrives(fs, row[Len(row)].fs, d, n, e, m)
    <2>1. CASE fs.inode[e].entry[m] = None
      <3> DEFINE r == rename_simple(fs, d, n, e, m)
      <3>1. r \in Seq(WritesFrom(fs, P, V)) /\ r # <<>> /\ Arrives(fs, r[Len(r)].fs, d, n, e, m)
        BY <1>2, <1>3, RenameSimpleFrom
      <3>2. Runs(r)
        BY <1>2, <2>1
      <3> HIDE DEF r, P, V
      <3> QED
        BY <3>1, <3>2
    <2>2. CASE fs.inode[e].entry[m] # None
      <3> DEFINE r == rename_replace(fs, d, n, e, m)
      <3>1. r \in Seq(WritesFrom(fs, P, V)) /\ r # <<>> /\ Arrives(fs, r[Len(r)].fs, d, n, e, m)
        BY <1>2, <1>3, <2>2, RenameReplaceFrom
      <3>2. Runs(r)
        BY <1>2, <2>2
      <3> HIDE DEF r, P, V
      <3> QED
        BY <3>1, <3>2
    <2> QED
      BY <2>1, <2>2
  <1>5. \A p \in P : p[1] \in Dirs(fs)
    BY <1>3
  <1>6. /\ Places(request') = P /\ Victims(request') = V /\ request'[1] = "rename"
        /\ request'[2] = d /\ request'[3] = n /\ request'[4] = e /\ request'[5] = m
    BY <1>2 DEF Places, Victims
  <1>7. ~Spared(fs, P) /\ V # {}
    <2>1. d # e \/ n # m
      BY <1>2
    <2> QED
      BY <2>1, NotSpared
  <1> HIDE DEF P, V
  <1>8. Keeps(P, V) /\ (faults' = faults /\ ~stopped' => fs' = row[Len(row)].fs)
    BY <1>1, <1>4, <1>5, RowKeeps
  <1> QED
    BY <1>4, <1>6, <1>7, <1>8, KeepsBoth

\* rename_exchange.
LEMMA ExchangeKeeps ==
    ASSUME IInv, IInv', Trusted, FaultsOK, RenameExchange
    PROVE  KeepsNames /\ KeepsPlaces
  <1>1. Undamaged
    BY DEF RenameExchange, Undamaged
  <1>2. PICK d \in Known, e \in Known, n \in Names, m \in Names :
            /\ fs.inode[d].entry[n] # None /\ fs.inode[e].entry[m] # None
            /\ fs.inode[d].entry[n] # fs.inode[e].entry[m]
            /\ Runs(exchange(fs, d, n, e, m)) /\ request' = <<"exchange", d, n, e, m>>
    BY DEF RenameExchange, dir_find_entry
  <1>3. fs \in FileSystems /\ Live(fs) /\ d \in Dirs(fs) /\ e \in Dirs(fs)
    BY <1>1, Begins DEF Sound
  <1> DEFINE P == {<<d, n>>, <<e, m>>}
             row == exchange(fs, d, n, e, m)
  <1>4. row \in Seq(WritesFrom(fs, P, Inodes)) /\ row # <<>>
    BY <1>2, <1>3, ExchangeFrom
  <1>5. \A p \in P : p[1] \in Dirs(fs)
    BY <1>3
  <1>6. Places(request') = P /\ request'[1] = "exchange"
    BY <1>2 DEF Places
  <1>7. ~Spared(fs, P) /\ Inodes # {}
    <2>1. d # e \/ n # m
      BY <1>2
    <2> QED
      BY <2>1, NotSpared, Numbers
  <1> HIDE DEF P, row
  <1>8. Keeps(P, Inodes)
    BY <1>1, <1>2, <1>4, <1>5, RowKeeps DEF row
  <1> QED
    BY <1>6, <1>7, <1>8, KeepsBoth

\* reclaim_inode frees an inode that has no names and holds none.
LEMMA ReclaimKeeps ==
    ASSUME IInv, IInv', Trusted, Reclaim
    PROVE  KeepsNames /\ KeepsPlaces
  <1>1. Undamaged /\ UNCHANGED <<poisoned, stopped, harm, faults>>
    BY DEF Reclaim, Undamaged
  <1>2. PICK i \in fs.orphans : fs' = [fs EXCEPT !.inode[i] = FreeInode, !.orphans = @ \ {i}]
    BY ZenonT(30) DEF Reclaim
  <1>3. fs \in FileSystems /\ Live(fs) /\ i \notin Linked(fs) /\ i \in Inodes
    <2>1. fs \in FileSystems /\ Sound(fs, harm)
      BY <1>1, Begins
    <2>2. i \in Inodes
      BY <2>1, Parts
    <2> QED
      BY <2>1, <2>2 DEF Sound, Linked
  <1> DEFINE O == fs.orphans \ {i}
             k == [fs EXCEPT !.orphans = O]
             g == free_inode(k, i)
  <1>4. fs' = g
    BY <1>2, <1>3 DEF free_inode, FileSystems
  <1>5. k \in FileSystems /\ k.inode = fs.inode
    <2>1. O \in SUBSET Inodes
      BY <1>3, Parts
    <2> HIDE DEF O
    <2> QED
      BY <1>3, <2>1, Unchained
  <1> HIDE DEF k
  <1>6. Remade(k, g, i, "free")
    BY <1>3, <1>5, Remakes
  <1> HIDE DEF g
  <1>7. Reaches(fs, fs, {}, {}) /\ Reaches(fs, k, {}, {}) /\ SameNames(fs, k)
    BY <1>5, <1>3 DEF Reaches, Differs, SameNames, Named
  <1>8. i \notin Dirs(fs) /\ \A p \in {} : p[1] # i
    BY <1>3 DEF Dirs
  <1>9. Reaches(fs, fs', {}, {}) /\ SameNames(fs, fs')
    BY <1>3, <1>4, <1>6, <1>7, <1>8, RemadeFrom
  <1>10. Live(fs')
    BY <1>1 DEF IInv, Undamaged, Trusted
  <1>11. Keeps({}, {})
    <2>1. fs' \in FileSystems
      BY DEF IInv
    <2>2. ASSUME NEW j \in Inodes, NamesOf(fs, j) # {} PROVE NamesOf(fs', j) # {}
      <3>1. Named(fs, j)
        BY <1>3, <2>2, NamesAreInDirs
      <3>2. Named(fs', j)
        BY <1>9, <3>1 DEF Reaches
      <3> QED
        BY <1>10, <2>1, <3>2, NamesAreInDirs
    <2> QED
      BY <1>1, <1>9, <2>2 DEF Keeps, SameNames, Differs, Undamaged, Trusted
  <1>12. Places(request') = {} /\ request'[1] = "reclaim"
    <2>1. request'[1] = "reclaim"
      BY DEF Reclaim
    <2> QED
      BY <2>1 DEF Places
  <1> QED
    <2>1. ~Spared(fs, {})
      BY DEF Spared
    <2> QED
      BY <1>1, <1>11, <1>12, <2>1, KeepsBoth

LEMMA StepKeeps ==
    ASSUME Kept, FaultsOK, [Next]_vars
    PROVE  [KeepsNames]_vars /\ [KeepsPlaces]_vars
  <1>1. CASE ~Trusted
    BY <1>1 DEF KeepsNames, KeepsPlaces
  <1>2. CASE Trusted
    <2>1. IInv /\ IInv'
      BY <1>2, NextOK DEF Kept
    <2>2. CASE Operation
      BY <1>2, <2>1, <2>2, CreatesKeep, RemovesKeep, RenameKeeps, ExchangeKeeps, ReclaimKeeps
         DEF Operation
    <2>3. CASE UNCHANGED vars
      BY <2>3
    <2> QED
      BY <2>2, <2>3 DEF Next, Halted
  <1> QED
    BY <1>1, <1>2

\* Until a failure leaves a "name", a file or directory that has a name keeps one through
\* every step but a rename_exchange, completed, failed or stopped half way, except the one
\* whose name unlink, rmdir or rename takes: rename adds the new entry before it removes
\* the old one.
THEOREM NamesAreKept == Spec => NamesKept
  <1>1. Kept /\ FaultsOK /\ [Next]_vars => [KeepsNames]_vars
    BY StepKeeps
  <1> QED
    BY <1>1, Invariance, FaultsCounted, PTL DEF Spec, NamesKept, KeepsNames, Victims

\* Until a failure leaves a "name", no operation, however it ends, changes a place it was
\* not asked to, a rename that returns success has moved its name, and one that returns an
\* error on a mount it does not poison has changed no name, but for two writes: the last
\* of a create or link, and the first of an unlink that is not final (link.rs:61, 131).
THEOREM OperationsAreExact == Spec => AllOrNothing
  <1>1. Kept /\ FaultsOK /\ [Next]_vars => [KeepsPlaces]_vars
    BY StepKeeps
  <1> QED
    BY <1>1, Invariance, FaultsCounted, PTL DEF Spec, AllOrNothing, KeepsPlaces

=============================================================================
