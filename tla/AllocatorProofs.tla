-------------------------- MODULE AllocatorProofs --------------------------
(***************************************************************************)
(* The allocator's safety for any geometry of groups, any number of        *)
(* operations and any number of failing writes.                            *)
(*                                                                         *)
(* The properties speak of the time between operations.  The invariant     *)
(* that carries them there says, at every step of an operation, which of   *)
(* the bitmap, the descriptor and the superblock are still the old images  *)
(* and which are the new ones, and that the old images agreed.             *)
(***************************************************************************)
EXTENDS Allocator, FiniteSetTheorems, WellFoundedInduction, TLAPS

Images == [bitmap : [Kinds -> SUBSET Nat], free : [Kinds -> [Groups -> Int]],
           super : [Kinds -> Int], unused : [Groups -> Int], dirs : [Groups -> Int]]

Pcs == {"bitmap", "group", "super", "init", "restore_bitmap", "restore_group", "restore_super"}

Operations ==
    [pc : Pcs, kind : Kinds, unit : Nat, alloc : BOOLEAN, dir : BOOLEAN,
     init : BOOLEAN, undo : BOOLEAN, old : Images]

Shape ==
    /\ Old \in Images /\ owned \in [Kinds -> SUBSET Nat]
    /\ op = NoOp \/ op \in Operations
    /\ directories \subseteq Nat
    /\ poisoned \in BOOLEAN

\* Callers' units have their bit, and no bit lies outside the filesystem.
Held(b) == \A k \in Kinds : owned[k] \subseteq b[k] /\ b[k] \subseteq Units(k)

\* What the operation under way is about.
OperationOK(o) ==
    /\ ~poisoned
    /\ o.unit \in Units(o.kind) /\ o.unit \notin owned[o.kind]
    /\ o.alloc <=> o.unit \notin o.old.bitmap[o.kind]
    /\ Held(o.old.bitmap)
    /\ o.init => o.alloc
    /\ o.kind = "inode" /\ o.alloc => o.init
    /\ o.undo => ~o.alloc
    /\ o.kind = "block" => ~o.dir
    /\ o.pc = "init" /\ ~o.alloc => o.kind = "inode"
    /\ o.kind = "inode" /\ ~o.alloc /\ ~o.undo => (o.dir <=> o.unit \in directories)

\* Setting or clearing the bit of a unit: the bitmap and the change of the counts.
Flip(B, u) == IF u \in B THEN B \ {u} ELSE B \union {u}
Change(B, u) == IF u \in B THEN 1 ELSE -1

\* The images an operation writes.
NewBitmap(o) == [o.old.bitmap EXCEPT ![o.kind] = Flip(@, o.unit)]
NewFree(o) == [o.old.free EXCEPT ![o.kind][group(o.kind, o.unit)] = @ + Change(o.old.bitmap[o.kind], o.unit)]
NewSuper(o) == [o.old.super EXCEPT ![o.kind] = (@ + Change(o.old.bitmap[o.kind], o.unit)) % Word]
NewDirs(o) ==
    IF o.dir THEN [o.old.dirs EXCEPT ![group(o.kind, o.unit)] = @ - Change(o.old.bitmap[o.kind], o.unit)]
    ELSE o.old.dirs

\* Which of the images are on the device at each step of an operation.
Progress(o) ==
    /\ bitmap = IF o.pc \in {"bitmap", "restore_group", "restore_super"}
                THEN o.old.bitmap ELSE NewBitmap(o)
    /\ o.pc \in {"bitmap", "group", "restore_super"} => free = o.old.free /\ dirs = o.old.dirs
    /\ o.pc \in {"super", "init"} => free = NewFree(o) /\ dirs = NewDirs(o)
    /\ free \in {o.old.free, NewFree(o)} /\ dirs \in {o.old.dirs, NewDirs(o)}
    /\ super = IF o.pc = "init" THEN NewSuper(o) ELSE o.old.super

\* The count f of a group, and the total s, are those of the bitmap b.
Counted(k, g, b, f) == f[k][g] = Cardinality(InGroup(k, g) \ b[k])
Totalled(k, b, s) == s[k] = Cardinality(Units(k) \ b[k])

\* The count of a group's directories is that of the bitmap, if D are the directories.
DirsCounted(g, b, d, D) == d[g] = Cardinality(InGroup("inode", g) \intersect (D \intersect b["inode"]))

\* The images agree, outside the kinds and groups in U.
Agrees(U, b, f, s, d, D) ==
    /\ \A k \in Kinds, g \in Groups : <<k, g>> \notin U => Counted(k, g, b, f)
    /\ \A k \in Kinds : (\A g \in Groups : <<k, g>> \notin U) => Totalled(k, b, s)
    /\ \A g \in Groups : <<"inode", g>> \notin U => DirsCounted(g, b, d, D)

\* The directories, with the unit as the operation understands it.
DirectoriesOf(o) ==
    IF o.kind = "block" THEN directories
    ELSE IF o.dir THEN directories \union {o.unit} ELSE directories \ {o.unit}

OldAgrees(o) == Agrees(unrepaired, o.old.bitmap, o.old.free, o.old.super, o.old.dirs, DirectoriesOf(o))

QuietAgrees == Agrees(unrepaired, bitmap, free, super, dirs, directories)

IInv ==
    /\ Shape
    /\ Held(bitmap)
    /\ op # NoOp => OperationOK(op) /\ Progress(op) /\ OldAgrees(op)
    /\ op = NoOp /\ ~poisoned => QuietAgrees

-----------------------------------------------------------------------------
(* Geometry *)

\* Every unit lies in a group.
LEMMA GroupOf ==
    ASSUME NEW k \in Kinds, NEW u \in Units(k)
    PROVE  group(k, u) \in Groups
  <1> DEFINE p == PerGroup[k]
  <1>1. p \in Nat /\ p # 0 /\ GroupCount \in Nat /\ Total[k] \in Nat /\ Total[k] <= GroupCount * p
    BY AllocatorAssumption
  <1>2. u \in Nat /\ u < GroupCount * p
    BY <1>1 DEF Units
  <1>3. u \div p \in Nat /\ p * (u \div p) <= u
    BY <1>1, <1>2
  <1>4. u \div p < GroupCount
    BY <1>1, <1>2, <1>3
  <1> QED
    BY <1>1, <1>3, <1>4 DEF group, Groups

\* A search that starts anywhere comes past every group.
LEMMA ProbeReaches ==
    ASSUME NEW pref \in Groups, NEW g \in Groups
    PROVE  \E n \in Groups : Probe(pref, n) = g
  <1> DEFINE n == IF g >= pref THEN g - pref ELSE g - pref + GroupCount
  <1>1. GroupCount \in Nat /\ GroupCount # 0
    BY AllocatorAssumption
  <1>2. n \in Groups /\ pref + n \in {g, g + GroupCount} /\ g \in Nat /\ g < GroupCount
    BY <1>1 DEF Groups
  <1>3. g % GroupCount = g /\ (g + GroupCount) % GroupCount = g
    BY <1>1, <1>2
  <1> QED
    BY <1>2, <1>3 DEF Probe

\* What a search probes is a group, and it probes the preferred one first.
LEMMA ProbeIsGroup ==
    ASSUME NEW pref \in Groups, NEW n \in Nat
    PROVE  Probe(pref, n) \in Groups /\ Probe(pref, 0) = pref
  <1>1. GroupCount \in Nat /\ GroupCount # 0
    BY AllocatorAssumption
  <1>2. pref \in Nat /\ pref < GroupCount
    BY <1>1 DEF Groups
  <1>3. (pref + n) % GroupCount \in 0 .. (GroupCount - 1)
    BY <1>1, <1>2
  <1>4. (pref + 0) % GroupCount = pref
    BY <1>1, <1>2
  <1> QED
    BY <1>3, <1>4 DEF Probe, Groups

\* The units of a filesystem and of a group are finitely many.
LEMMA UnitsFinite ==
    ASSUME NEW k \in Kinds
    PROVE  /\ IsFiniteSet(Units(k)) /\ Units(k) \subseteq Nat /\ Cardinality(Units(k)) = Total[k]
           /\ \A g : IsFiniteSet(InGroup(k, g)) /\ InGroup(k, g) \subseteq Units(k)
  <1>1. Total[k] \in Nat \ {0}
    BY AllocatorAssumption
  <1>2. IsFiniteSet(Units(k)) /\ Cardinality(Units(k)) = Total[k]
    <2> DEFINE last == Total[k] - 1
    <2>1. last \in Int /\ ~(0 > last) /\ last - 0 + 1 = Total[k]
      BY <1>1
    <2> HIDE DEF last
    <2>2. IsFiniteSet(0 .. last) /\ Cardinality(0 .. last) = last - 0 + 1
      BY <2>1, FS_Interval
    <2> QED
      BY <2>1, <2>2 DEF Units, last
  <1>3. Units(k) \subseteq Nat
    BY DEF Units
  <1>4. \A g : InGroup(k, g) \subseteq Units(k)
    BY DEF InGroup
  <1>5. \A g : IsFiniteSet(InGroup(k, g))
    BY <1>2, <1>4, FS_Subset
  <1> QED
    BY <1>2, <1>3, <1>4, <1>5

\* A set of naturals that is not empty has its minimum as a member.
LEMMA MinMember ==
    ASSUME NEW S, S \subseteq Nat, S # {}
    PROVE  Min(S) \in S
  <1> DEFINE R == OpToRel(<, Nat)
  <1>1. IsWellFoundedOn(R, Nat)
    BY NatLessThanWellFounded
  <1>2. \A x, y \in Nat : y < x => <<y, x>> \in R
    BY DEF OpToRel
  <1> HIDE DEF R
  <1>3. PICK x \in S : \A y \in S : ~(<<y, x>> \in R)
    BY <1>1, WFMin
  <1>4. ASSUME NEW y \in S PROVE x <= y
    <2>1. x \in Nat /\ y \in Nat /\ ~(y < x)
      BY <1>2, <1>3, <1>4
    <2> QED
      BY <2>1
  <1> QED
    BY <1>4 DEF Min

-----------------------------------------------------------------------------
(* Counting *)

\* A number below the word does not wrap.
LEMMA NoWrap ==
    ASSUME NEW n \in Nat, NEW w \in Nat, n < w
    PROVE  n % w = n
  OBVIOUS

\* Flipping the bit of a unit changes the number of clear bits of a set the unit is
\* in, and of no other.
LEMMA FlipCounts ==
    ASSUME NEW S, IsFiniteSet(S), NEW B, NEW u
    PROVE  /\ Cardinality(S \ B) \in Nat
           /\ Cardinality(S \ Flip(B, u)) = Cardinality(S \ B) + (IF u \in S THEN Change(B, u) ELSE 0)
  <1>1. IsFiniteSet(S \ B)
    BY FS_Subset
  <1>2. Cardinality(S \ B) \in Nat
    BY <1>1, FS_CardinalityType
  <1>3. CASE u \notin S
    <2>1. S \ Flip(B, u) = S \ B
      BY <1>3 DEF Flip
    <2> QED
      BY <1>2, <1>3, <2>1
  <1>4. CASE u \in S /\ u \notin B
    <2>1. S \ Flip(B, u) = (S \ B) \ {u} /\ u \in S \ B
      BY <1>4 DEF Flip
    <2>2. Cardinality(S \ Flip(B, u)) = Cardinality(S \ B) - 1
      BY <1>1, <2>1, FS_RemoveElement
    <2> QED
      BY <1>2, <1>4, <2>2 DEF Change
  <1>5. CASE u \in S /\ u \in B
    <2>1. S \ Flip(B, u) = (S \ B) \union {u} /\ u \notin S \ B
      BY <1>5 DEF Flip
    <2>2. Cardinality(S \ Flip(B, u)) = Cardinality(S \ B) + 1
      BY <1>1, <2>1, FS_AddElement
    <2> QED
      BY <1>2, <1>5, <2>2 DEF Change
  <1> QED
    BY <1>3, <1>4, <1>5

\* The images c, e and t are b, f and s with the bit of one unit flipped and counted.
Flipped(kind, u, b, f, s, c, e, t) ==
    /\ kind \in Kinds /\ u \in Units(kind)
    /\ b \in [Kinds -> SUBSET Nat] /\ f \in [Kinds -> [Groups -> Int]] /\ s \in [Kinds -> Int]
    /\ c = [b EXCEPT ![kind] = Flip(@, u)]
    /\ e = [f EXCEPT ![kind][group(kind, u)] = @ + Change(b[kind], u)]
    /\ \A j \in Kinds : j # kind => t[j] = s[j]
    /\ \/ t[kind] = s[kind] + Change(b[kind], u)
       \/ t[kind] = (s[kind] + Change(b[kind], u)) % Word

\* The new images of an allocation or a release count as the old ones did.  The
\* superblock's count stays below the word, so its wrapping is the identity.
LEMMA ToggleCounts ==
    ASSUME NEW kind, NEW u, NEW k \in Kinds, NEW b, NEW f, NEW s, NEW t, NEW c, NEW e,
           Flipped(kind, u, b, f, s, c, e, t)
    PROVE  /\ \A g \in Groups : Counted(k, g, b, f) => Counted(k, g, c, e)
           /\ Totalled(k, b, s) => Totalled(k, c, t)
  <1>0. /\ kind \in Kinds /\ u \in Units(kind)
        /\ b \in [Kinds -> SUBSET Nat] /\ f \in [Kinds -> [Groups -> Int]] /\ s \in [Kinds -> Int]
    BY DEF Flipped
  <1> DEFINE h == group(kind, u)
             delta == Change(b[kind], u)
  <1>1. h \in Groups /\ delta \in Int
    BY <1>0, GroupOf DEF Change
  <1>2. \A j \in Kinds : c[j] = IF j = kind THEN Flip(b[j], u) ELSE b[j]
    BY <1>0 DEF Flipped
  <1>3. \A j \in Kinds, g \in Groups : e[j][g] = IF j = kind /\ g = h THEN f[j][g] + delta ELSE f[j][g]
    BY <1>0, <1>1 DEF Flipped
  <1> HIDE DEF h
  <1>4. CASE k # kind
    BY <1>2, <1>3, <1>4 DEF Counted, Totalled, Flipped
  <1>5. CASE k = kind
    <2>1. ASSUME NEW g \in Groups, Counted(k, g, b, f) PROVE e[k][g] = Cardinality(InGroup(k, g) \ c[k])
      <3>1. u \in InGroup(k, g) <=> g = h
        BY <1>0, <1>5 DEF InGroup, h
      <3>2. IsFiniteSet(InGroup(k, g))
        BY UnitsFinite
      <3>3. f[k][g] = Cardinality(InGroup(k, g) \ b[k]) /\ f[k][g] \in Int
        BY <1>0, <2>1 DEF Counted
      <3>4. Cardinality(InGroup(k, g) \ Flip(b[k], u))
                = Cardinality(InGroup(k, g) \ b[k])
                    + (IF u \in InGroup(k, g) THEN Change(b[k], u) ELSE 0)
        BY <3>2, FlipCounts
      <3>5. e[k][g] = IF g = h THEN f[k][g] + delta ELSE f[k][g]
        BY <1>3, <1>5
      <3>6. c[k] = Flip(b[k], u) /\ delta = Change(b[k], u)
        BY <1>2, <1>5
      <3> HIDE DEF delta
      <3> QED
        BY <1>1, <3>1, <3>3, <3>4, <3>5, <3>6
    <2>2. ASSUME Totalled(k, b, s) PROVE s[k] + delta = Cardinality(Units(k) \ c[k])
      <3>1. IsFiniteSet(Units(k)) /\ u \in Units(k) /\ s[k] = Cardinality(Units(k) \ b[k])
        BY <1>0, <1>5, <2>2, UnitsFinite DEF Totalled
      <3>2. Cardinality(Units(k) \ Flip(b[k], u)) = s[k] + delta
        BY <1>5, <3>1, FlipCounts
      <3> QED
        BY <1>2, <1>5, <3>2
    <2>3. Cardinality(Units(k) \ c[k]) \in Nat /\ Cardinality(Units(k) \ c[k]) <= Total[k]
      <3>1. IsFiniteSet(Units(k)) /\ Cardinality(Units(k)) = Total[k]
        BY UnitsFinite
      <3>2. Units(k) \ c[k] \in SUBSET Units(k)
        OBVIOUS
      <3>3. IsFiniteSet(Units(k) \ c[k]) /\ Cardinality(Units(k) \ c[k]) <= Total[k]
        BY <3>1, <3>2, FS_Subset
      <3> QED
        BY <3>3, FS_CardinalityType
    <2>4. Total[k] \in Nat /\ Word \in Nat /\ Total[k] < Word
      BY AllocatorAssumption
    <2>5. ASSUME Totalled(k, b, s) PROVE (s[k] + delta) % Word = s[k] + delta
      <3>1. s[k] + delta \in Nat /\ s[k] + delta < Word
        BY <2>2, <2>3, <2>4, <2>5
      <3> QED
        BY <2>4, <3>1, NoWrap
    <2>6. ASSUME Totalled(k, b, s) PROVE t[k] = Cardinality(Units(k) \ c[k])
      BY <1>5, <2>2, <2>5, <2>6 DEF Flipped
    <2> QED
      BY <2>1, <2>6 DEF Counted, Totalled
  <1> QED
    BY <1>4, <1>5

\* The same for the count of directories, for a unit that is one of them or not.
LEMMA ToggleDirs ==
    ASSUME NEW u \in Units("inode"), NEW D,
           NEW b \in [Kinds -> SUBSET Nat], NEW d \in [Groups -> Int], NEW c, NEW e,
           c["inode"] = Flip(b["inode"], u),
           \A g \in Groups : e[g] = IF u \in D /\ g = group("inode", u)
                                    THEN d[g] - Change(b["inode"], u) ELSE d[g]
    PROVE  \A g \in Groups : DirsCounted(g, b, d, D) => DirsCounted(g, c, e, D)
  <1> DEFINE h == group("inode", u)
             In(g) == InGroup("inode", g)
  <1>1. h \in Groups
    BY GroupOf DEF Kinds
  <1>2. ASSUME NEW g \in Groups, DirsCounted(g, b, d, D)
        PROVE  e[g] = Cardinality(In(g) \intersect (D \intersect c["inode"]))
    <2> DEFINE A == In(g) \intersect (D \intersect b["inode"])
    <2>1. IsFiniteSet(A)
      <3>1. IsFiniteSet(In(g)) /\ A \in SUBSET In(g)
        BY UnitsFinite DEF Kinds
      <3> QED
        BY <3>1, FS_Subset
    <2>2. d[g] = Cardinality(A) /\ d[g] \in Int
      BY <1>2 DEF DirsCounted
    <2>3. u \in In(g) <=> g = h
      BY DEF InGroup
    <2>4. e[g] = IF u \in D /\ g = h THEN d[g] - Change(b["inode"], u) ELSE d[g]
      BY <1>1
    <2>5. CASE u \notin D \/ g # h
      <3>1. In(g) \intersect (D \intersect c["inode"]) = A
        BY <2>3, <2>5 DEF Flip
      <3>2. e[g] = d[g]
        BY <2>4, <2>5
      <3> QED
        BY <2>2, <3>1, <3>2
    <2>6. CASE u \in D /\ g = h /\ u \notin b["inode"]
      <3>1. In(g) \intersect (D \intersect c["inode"]) = A \union {u} /\ u \notin A
        BY <2>3, <2>6 DEF Flip
      <3>2. Cardinality(A \union {u}) = Cardinality(A) + 1
        BY <2>1, <3>1, FS_AddElement
      <3>3. e[g] = d[g] + 1
        BY <2>2, <2>4, <2>6 DEF Change
      <3> QED
        BY <2>2, <3>1, <3>2, <3>3
    <2>7. CASE u \in D /\ g = h /\ u \in b["inode"]
      <3>1. In(g) \intersect (D \intersect c["inode"]) = A \ {u} /\ u \in A
        BY <2>3, <2>7 DEF Flip
      <3>2. Cardinality(A \ {u}) = Cardinality(A) - 1
        BY <2>1, <3>1, FS_RemoveElement
      <3>3. e[g] = d[g] - 1
        BY <2>2, <2>4, <2>7 DEF Change
      <3> QED
        BY <2>2, <3>1, <3>2, <3>3
    <2> QED
      BY <2>5, <2>6, <2>7
  <1> QED
    BY <1>2 DEF DirsCounted

-----------------------------------------------------------------------------
(* An operation's new images *)

\* They have the shape of images, keep callers' units, and agree if the old ones do.
LEMMA NewImages ==
    ASSUME NEW o \in Operations, OperationOK(o), OldAgrees(o)
    PROVE  /\ NewBitmap(o) \in [Kinds -> SUBSET Nat] /\ NewFree(o) \in [Kinds -> [Groups -> Int]]
           /\ NewSuper(o) \in [Kinds -> Int] /\ NewDirs(o) \in [Groups -> Int]
           /\ Held(NewBitmap(o))
           /\ Agrees(unrepaired, NewBitmap(o), NewFree(o), NewSuper(o), NewDirs(o), DirectoriesOf(o))
           /\ \A k \in Kinds : k # o.kind => /\ NewBitmap(o)[k] = o.old.bitmap[k]
                                             /\ NewFree(o)[k] = o.old.free[k]
           /\ o.kind = "block" => NewDirs(o) = o.old.dirs
  <1> DEFINE k == o.kind
             u == o.unit
             b == o.old.bitmap
             delta == Change(b[k], u)
  <1>1. k \in Kinds /\ u \in Units(k) /\ u \in Nat /\ group(k, u) \in Groups
    BY GroupOf DEF Operations, OperationOK
  <1>2. /\ b \in [Kinds -> SUBSET Nat] /\ o.old.free \in [Kinds -> [Groups -> Int]]
        /\ o.old.super \in [Kinds -> Int] /\ o.old.dirs \in [Groups -> Int]
    BY DEF Operations, Images
  <1>3. delta \in Int /\ Word \in Nat /\ Word # 0
    BY AllocatorAssumption DEF Change
  <1>4. NewBitmap(o) \in [Kinds -> SUBSET Nat] /\ \A j \in Kinds :
            NewBitmap(o)[j] = IF j = k THEN Flip(b[j], u) ELSE b[j]
    BY <1>1, <1>2 DEF NewBitmap, Flip
  <1>5. NewFree(o) \in [Kinds -> [Groups -> Int]] /\ \A j \in Kinds : j # k => NewFree(o)[j] = o.old.free[j]
    BY <1>1, <1>2, <1>3 DEF NewFree
  <1>6. /\ NewSuper(o) \in [Kinds -> Int]
        /\ \A j \in Kinds : j # k => NewSuper(o)[j] = o.old.super[j]
        /\ NewSuper(o)[k] = (o.old.super[k] + delta) % Word
    <2>1. (o.old.super[k] + delta) % Word \in Int
      BY <1>1, <1>2, <1>3
    <2> QED
      BY <1>1, <1>2, <2>1 DEF NewSuper
  <1>7. NewDirs(o) \in [Groups -> Int]
    BY <1>1, <1>2, <1>3 DEF NewDirs
  <1>8. Held(NewBitmap(o))
    BY <1>1, <1>4 DEF Held, OperationOK, Flip
  <1>9. ASSUME NEW j \in Kinds
        PROVE  /\ \A g \in Groups : Counted(j, g, b, o.old.free) => Counted(j, g, NewBitmap(o), NewFree(o))
               /\ Totalled(j, b, o.old.super) => Totalled(j, NewBitmap(o), NewSuper(o))
    <2>1. Flipped(k, u, b, o.old.free, o.old.super, NewBitmap(o), NewFree(o), NewSuper(o))
      BY <1>1, <1>2, <1>6 DEF Flipped, NewBitmap, NewFree
    <2> QED
      BY <2>1, ToggleCounts
  <1>10. \A g \in Groups : DirsCounted(g, b, o.old.dirs, DirectoriesOf(o))
                                => DirsCounted(g, NewBitmap(o), NewDirs(o), DirectoriesOf(o))
    <2>1. CASE k = "inode"
      <3>1. (u \in DirectoriesOf(o) <=> o.dir) /\ o.dir \in BOOLEAN
        BY <2>1 DEF DirectoriesOf, Operations
      <3>2. NewBitmap(o)["inode"] = Flip(b["inode"], u)
        BY <1>4, <2>1 DEF Kinds
      <3>3. NewDirs(o) = IF u \in DirectoriesOf(o)
                         THEN [o.old.dirs EXCEPT ![group("inode", u)] = @ - Change(b["inode"], u)]
                         ELSE o.old.dirs
        BY <2>1, <3>1 DEF NewDirs
      <3> QED
        <4> DEFINE D == DirectoriesOf(o)
                   d == o.old.dirs
        <4>1. d \in [Groups -> Int] /\ u \in Units("inode")
          BY <1>1, <1>2, <2>1
        <4>2. \A g \in Groups : NewDirs(o)[g] = IF u \in DirectoriesOf(o) /\ g = group("inode", u)
                                               THEN o.old.dirs[g] - Change(b["inode"], u) ELSE o.old.dirs[g]
          BY <1>2, <3>3
        <4> HIDE DEF D, d, u, b
        <4> QED
          BY <1>2, <3>2, <4>1, <4>2, ToggleDirs DEF D, d
    <2>2. CASE k = "block"
      <3>1. NewDirs(o) = o.old.dirs
        BY <2>2 DEF NewDirs, OperationOK
      <3>2. NewBitmap(o)["inode"] = b["inode"]
        BY <1>4, <2>2 DEF Kinds
      <3> QED
        BY <3>1, <3>2 DEF DirsCounted
    <2> QED
      BY <1>1, <2>1, <2>2 DEF Kinds
  <1>11. Agrees(unrepaired, NewBitmap(o), NewFree(o), NewSuper(o), NewDirs(o), DirectoriesOf(o))
    BY <1>9, <1>10 DEF OldAgrees, Agrees
  <1>12. k = "block" => NewDirs(o) = o.old.dirs
    BY DEF NewDirs, OperationOK
  <1> QED
    BY <1>4, <1>5, <1>6, <1>7, <1>8, <1>11, <1>12

\* Images that differ in one group only agree outside that group, whatever became of it.
LEMMA ElsewhereAgrees ==
    ASSUME NEW kind \in Kinds, NEW h \in Groups, NEW U, NEW V, U \subseteq V, <<kind, h>> \in V,
           NEW b, NEW f, NEW s, NEW d, NEW D, NEW c, NEW e, NEW t, NEW x,
           Agrees(U, b, f, s, d, D),
           \A k \in Kinds, g \in Groups : k # kind \/ g # h =>
               /\ InGroup(k, g) \ c[k] = InGroup(k, g) \ b[k]
               /\ e[k][g] = f[k][g],
           \A k \in Kinds : k # kind => c[k] = b[k] /\ t[k] = s[k],
           \A g \in Groups : kind # "inode" \/ g # h =>
               /\ InGroup("inode", g) \intersect (D \intersect c["inode"])
                      = InGroup("inode", g) \intersect (D \intersect b["inode"])
               /\ x[g] = d[g]
    PROVE  Agrees(V, c, e, t, x, D)
  <1>1. ASSUME NEW k \in Kinds, NEW g \in Groups, <<k, g>> \notin V PROVE Counted(k, g, c, e)
    <2>1. <<k, g>> \notin U /\ (k # kind \/ g # h)
      BY <1>1
    <2> QED
      BY <2>1 DEF Agrees, Counted
  <1>2. ASSUME NEW k \in Kinds, \A g \in Groups : <<k, g>> \notin V PROVE Totalled(k, c, t)
    <2>1. k # kind /\ \A g \in Groups : <<k, g>> \notin U
      BY <1>2
    <2> QED
      BY <2>1 DEF Agrees, Totalled
  <1>3. ASSUME NEW g \in Groups, <<"inode", g>> \notin V PROVE DirsCounted(g, c, x, D)
    <2>1. <<"inode", g>> \notin U /\ (kind # "inode" \/ g # h)
      BY <1>3
    <2> QED
      BY <2>1 DEF Agrees, DirsCounted
  <1> QED
    BY <1>1, <1>2, <1>3 DEF Agrees

\* The new images of an operation differ from the old ones in the group of its unit.
LEMMA NewElsewhere ==
    ASSUME NEW o \in Operations, OperationOK(o),
           NEW k \in Kinds, NEW g \in Groups, k # o.kind \/ g # group(o.kind, o.unit)
    PROVE  /\ InGroup(k, g) \ NewBitmap(o)[k] = InGroup(k, g) \ o.old.bitmap[k]
           /\ \A D : InGroup(k, g) \intersect (D \intersect NewBitmap(o)[k])
                        = InGroup(k, g) \intersect (D \intersect o.old.bitmap[k])
           /\ NewFree(o)[k][g] = o.old.free[k][g]
  <1>1. /\ o.old.bitmap \in [Kinds -> SUBSET Nat] /\ o.old.free \in [Kinds -> [Groups -> Int]]
        /\ o.kind \in Kinds /\ o.unit \in Units(o.kind)
    BY DEF Operations, Images, OperationOK
  <1>2. group(o.kind, o.unit) \in Groups
    BY <1>1, GroupOf
  <1>3. NewBitmap(o)[k] = IF k = o.kind THEN Flip(o.old.bitmap[k], o.unit) ELSE o.old.bitmap[k]
    BY <1>1 DEF NewBitmap
  <1>4. k = o.kind => o.unit \notin InGroup(k, g)
    BY DEF InGroup
  <1>5. NewFree(o)[k][g] = o.old.free[k][g]
    BY <1>1, <1>2 DEF NewFree
  <1> QED
    BY <1>3, <1>4, <1>5 DEF Flip

-----------------------------------------------------------------------------
(* Preservation *)

\* An operation under way is one of the records.
LEMMA UnderWay ==
    ASSUME Shape
    PROVE  /\ op # NoOp <=> op.pc # "idle"
           /\ op # NoOp <=> op \in Operations
  BY DEF Shape, NoOp, Operations, Pcs

\* Going on with an operation changes its position only.
LEMMA GoesOn ==
    ASSUME IInv, op # NoOp, NEW l \in Pcs, Goto(l),
           l = "init" => op.alloc \/ op.kind = "inode",
           UNCHANGED <<owned, directories, poisoned, unrepaired>>
    PROVE  /\ op' \in Operations /\ op' # NoOp
           /\ op' = [op EXCEPT !.pc = l] /\ op'.pc = l
           /\ op'.kind = op.kind /\ op'.unit = op.unit /\ op'.dir = op.dir /\ op'.old = op.old
           /\ OperationOK(op)' /\ OldAgrees(op)'
           /\ NewBitmap(op') = NewBitmap(op) /\ NewFree(op') = NewFree(op)
           /\ NewSuper(op') = NewSuper(op) /\ NewDirs(op') = NewDirs(op)
  <1>1. op \in Operations
    BY UnderWay DEF IInv
  <1>2. op' = [op EXCEPT !.pc = l]
    BY DEF Goto
  <1>3. op' \in Operations /\ op'.pc = l /\ op'.kind = op.kind /\ op'.unit = op.unit /\ op'.old = op.old
        /\ op'.dir = op.dir /\ op'.alloc = op.alloc /\ op'.init = op.init /\ op'.undo = op.undo
    BY <1>1, <1>2 DEF Operations
  <1>4. op' # NoOp
    BY <1>3 DEF NoOp, Pcs
  <1>5. OperationOK(op)'
    BY <1>3 DEF IInv, OperationOK, Held
  <1>6. OldAgrees(op)'
    BY <1>3 DEF IInv, OldAgrees, Agrees, DirectoriesOf
  <1>7. /\ NewBitmap(op') = NewBitmap(op) /\ NewFree(op') = NewFree(op)
        /\ NewSuper(op') = NewSuper(op) /\ NewDirs(op') = NewDirs(op)
    BY <1>3 DEF NewBitmap, NewFree, NewSuper, NewDirs
  <1> QED
    BY <1>2, <1>3, <1>4, <1>5, <1>6, <1>7

\* Directories without a bit are not counted.
LEMMA SameDirs ==
    ASSUME NEW U, NEW b, NEW f, NEW s, NEW d, NEW D, NEW E,
           D \intersect b["inode"] = E \intersect b["inode"],
           Agrees(U, b, f, s, d, D)
    PROVE  Agrees(U, b, f, s, d, E)
  BY DEF Agrees, DirsCounted

\* A prepared operation has written nothing.
LEMMA Prepares ==
    ASSUME IInv, NEW k \in Kinds, NEW u \in Units(k), NEW alloc \in BOOLEAN, NEW dir \in BOOLEAN,
           NEW init \in BOOLEAN, NEW undo \in BOOLEAN,
           op' = Prepared(k, u, alloc, dir, init, undo),
           UNCHANGED <<bitmap, counts, unrepaired>>, directories' \subseteq Nat,
           poisoned' = FALSE, owned' \in [Kinds -> SUBSET Nat],
           \A j \in Kinds : owned'[j] \subseteq owned[j],
           u \notin owned'[k], alloc <=> u \notin bitmap[k],
           init => alloc, k = "inode" /\ alloc => init, undo => ~alloc, k = "block" => ~dir,
           k = "inode" /\ ~alloc /\ ~undo => (dir <=> u \in directories'),
           Agrees(unrepaired, bitmap, free, super, dirs,
                  IF k = "block" THEN directories'
                  ELSE IF dir THEN directories' \union {u} ELSE directories' \ {u})
    PROVE  IInv'
  <1>1. Old \in Images
    BY DEF IInv, Shape
  <1>2. /\ op'.pc = "bitmap" /\ op'.kind = k /\ op'.unit = u /\ op'.alloc = alloc /\ op'.dir = dir
        /\ op'.init = init /\ op'.undo = undo /\ op'.old = Old
    BY DEF Prepared
  <1>3. op' \in Operations
    BY <1>1, UnitsFinite DEF Prepared, Operations, Pcs
  <1>4. op' # NoOp
    BY <1>2 DEF NoOp
  <1>5. /\ op'.old.bitmap = bitmap /\ op'.old.free = free
        /\ op'.old.super = super /\ op'.old.dirs = dirs
    BY <1>2 DEF Old
  <1>6. Held(bitmap)'
    BY DEF IInv, Held
  <1>7. OperationOK(op)'
    BY <1>2, <1>5, <1>6 DEF OperationOK, Held
  <1>8. Progress(op)'
    BY <1>2, <1>5 DEF Progress, counts
  <1>9. OldAgrees(op)'
    BY <1>2, <1>5 DEF OldAgrees, DirectoriesOf, Agrees, Counted, Totalled, DirsCounted
  <1>10. Shape'
    BY <1>1, <1>3 DEF IInv, Shape, Old, counts
  <1> QED
    BY <1>4, <1>6, <1>7, <1>8, <1>9, <1>10 DEF IInv

\* alloc_block and alloc_inode take a clear unit, or find no space.
LEMMA TakeStep ==
    ASSUME IInv, op = NoOp, ~poisoned, NEW k \in Kinds, NEW u \in Units(k) \ bitmap[k],
           NEW dir \in BOOLEAN, NEW init \in BOOLEAN, k = "block" => ~dir, k = "inode" => init,
           Take(k, u, dir, init)
    PROVE  IInv'
  <1> DEFINE E == IF k = "block" THEN directories
                  ELSE IF dir THEN directories \union {u} ELSE directories \ {u}
  <1>1. E \intersect bitmap["inode"] = directories \intersect bitmap["inode"]
    BY DEF Kinds
  <1>2. Agrees(unrepaired, bitmap, free, super, dirs, E)
    BY <1>1, SameDirs DEF IInv, QuietAgrees
  <1>3. u \notin owned[k]
    BY DEF IInv, Held
  <1>4. owned' = owned /\ owned \in [Kinds -> SUBSET Nat] /\ poisoned' = FALSE
    BY DEF Take, IInv, Shape, callers
  <1>5. UNCHANGED <<bitmap, counts, unrepaired>> /\ op' = Prepared(k, u, TRUE, dir, init, FALSE)
    BY DEF Take
  <1>6. directories' = directories /\ directories' \subseteq Nat
    BY DEF Take, callers, IInv, Shape
  <1>7. Agrees(unrepaired, bitmap, free, super, dirs,
               IF k = "block" THEN directories'
               ELSE IF dir THEN directories' \union {u} ELSE directories' \ {u})
    BY <1>2, <1>6
  <1>8. u \in Units(k) /\ u \notin owned'[k] /\ u \notin bitmap[k]
    BY <1>3, <1>4
  <1>9. \A j \in Kinds : owned'[j] \subseteq owned[j]
    BY <1>4
  <1> HIDE DEF E
  <1> QED
    BY <1>4, <1>5, <1>6, <1>7, <1>8, <1>9, Prepares

\* Finding no space changes nothing the invariant is about.
LEMMA NoSpaceStep ==
    ASSUME IInv, NEW k, NoSpace(k)
    PROVE  IInv'
  BY DEF NoSpace, IInv, Shape, Old, Held, OperationOK, Progress, OldAgrees, QuietAgrees, Agrees, Counted,
         Totalled, DirsCounted, DirectoriesOf, counts, callers

\* alloc_block: the unit it takes is a clear one of a group that offers one.
LEMMA AllocBlockStep ==
    ASSUME IInv, alloc_block
    PROVE  IInv'
  <1>1. op = NoOp /\ ~poisoned
    BY DEF alloc_block, Begin
  <1>2. PICK pref \in Groups, init \in BOOLEAN :
            LET offers == {n \in Groups : LET g == Probe(pref, n)
                                          IN  free["block"][g] # 0 /\ Clear("block", g) # {}}
            IN  IF offers = {} THEN NoSpace("block")
                ELSE Take("block", Min(Clear("block", Probe(pref, Min(offers)))), FALSE, init)
    BY DEF alloc_block
  <1> DEFINE offers == {n \in Groups : free["block"][Probe(pref, n)] # 0 /\ Clear("block", Probe(pref, n)) # {}}
             C == Clear("block", Probe(pref, Min(offers)))
  <1>3. CASE offers = {}
    <2>1. NoSpace("block")
      BY <1>2, <1>3
    <2> QED
      BY <2>1, NoSpaceStep
  <1>4. CASE offers # {}
    <2>1. Take("block", Min(C), FALSE, init)
      BY <1>2, <1>4
    <2>2. Min(offers) \in offers
      <3>1. offers \subseteq Nat
        BY DEF Groups
      <3> HIDE DEF offers
      <3> QED
        BY <1>4, <3>1, MinMember
    <2>3. C # {} /\ C \subseteq Units("block") \ bitmap["block"] /\ C \subseteq Nat
      BY <2>2, UnitsFinite DEF Clear, Kinds
    <2>4. Min(C) \in Units("block") \ bitmap["block"]
      BY <2>3, MinMember
    <2> HIDE DEF C
    <2> QED
      BY <1>1, <2>1, <2>4, TakeStep DEF Kinds
  <1> QED
    BY <1>3, <1>4

\* alloc_inode: the same, of the first group with a free count.
LEMMA AllocInodeStep ==
    ASSUME IInv, alloc_inode
    PROVE  IInv'
  <1>1. op = NoOp /\ ~poisoned
    BY DEF alloc_inode, Begin
  <1> DEFINE offers == {g \in Groups : free["inode"][g] # 0}
             C == Clear("inode", Min(offers))
  <1>2. PICK dir \in BOOLEAN :
            IF offers = {} \/ C = {} THEN NoSpace("inode") ELSE Take("inode", Min(C), dir, TRUE)
    BY DEF alloc_inode
  <1>3. CASE offers = {} \/ C = {}
    BY <1>2, <1>3, NoSpaceStep
  <1>4. CASE offers # {} /\ C # {}
    <2>1. Take("inode", Min(C), dir, TRUE)
      BY <1>2, <1>4
    <2>2. C \subseteq Units("inode") \ bitmap["inode"] /\ C \subseteq Nat
      BY UnitsFinite DEF Clear, Kinds
    <2>3. Min(C) \in Units("inode") \ bitmap["inode"]
      BY <1>4, <2>2, MinMember
    <2> HIDE DEF C
    <2> QED
      BY <1>1, <2>1, <2>3, TakeStep DEF Kinds
  <1> QED
    BY <1>3, <1>4

\* dealloc: the unit leaves its caller before its bit is cleared.
LEMMA DeallocStep ==
    ASSUME IInv, dealloc
    PROVE  IInv'
  <1>1. op = NoOp /\ ~poisoned
    BY DEF dealloc
  <1>2. PICK k \in Kinds : \E u \in owned[k] :
            /\ op' = Prepared(k, u, FALSE, k = "inode" /\ u \in directories, FALSE, FALSE)
            /\ owned' = [owned EXCEPT ![k] = @ \ {u}]
    BY DEF dealloc
  <1>2a. PICK u \in owned[k] :
            /\ op' = Prepared(k, u, FALSE, k = "inode" /\ u \in directories, FALSE, FALSE)
            /\ owned' = [owned EXCEPT ![k] = @ \ {u}]
    BY <1>2
  <1> DEFINE dir == k = "inode" /\ u \in directories
             E == IF k = "block" THEN directories
                  ELSE IF dir THEN directories \union {u} ELSE directories \ {u}
  <1>3. E = directories
    BY DEF Kinds
  <1>4. u \in bitmap[k] /\ u \in Units(k)
    BY DEF IInv, Held
  <1>5. Agrees(unrepaired, bitmap, free, super, dirs, E)
    BY <1>1, <1>3 DEF IInv, QuietAgrees
  <1>6. owned \in [Kinds -> SUBSET Nat] /\ poisoned' = FALSE /\ UNCHANGED <<bitmap, counts, directories, unrepaired>>
    BY <1>1 DEF dealloc, IInv, Shape
  <1>7. owned' \in [Kinds -> SUBSET Nat] /\ u \notin owned'[k] /\ \A j \in Kinds : owned'[j] \subseteq owned[j]
    BY <1>2a, <1>6
  <1>8. dir \in BOOLEAN /\ (k = "block" => ~dir) /\ (k = "inode" => (dir <=> u \in directories'))
    BY <1>6
  <1>8a. directories' \subseteq Nat /\ u \in bitmap[k] /\ u \in Units(k)
    BY <1>4, <1>6 DEF IInv, Shape
  <1>9. op' = Prepared(k, u, FALSE, dir, FALSE, FALSE)
    BY <1>2a
  <1>10. Agrees(unrepaired, bitmap, free, super, dirs,
                  IF k = "block" THEN directories'
                  ELSE IF dir THEN directories' \union {u} ELSE directories' \ {u})
    BY <1>5, <1>6
  <1> HIDE DEF dir, E
  <1> QED
    BY <1>6, <1>7, <1>8, <1>8a, <1>9, <1>10, Prepares

\* A release in a transaction flips the bit and counts it in one step.
LEMMA TransactionDeallocStep ==
    ASSUME IInv, transaction_dealloc
    PROVE  IInv'
  <1>1. op = NoOp /\ ~poisoned /\ op' = NoOp
        /\ UNCHANGED <<unused, poisoned, unrepaired>>
    BY DEF transaction_dealloc
  <1>2. PICK k \in Kinds : \E u \in owned[k] \intersect bitmap[k] :
            /\ bitmap' = [bitmap EXCEPT ![k] = @ \ {u}]
            /\ free' = [free EXCEPT ![k][group(k, u)] = @ + 1]
            /\ super' = [super EXCEPT ![k] = @ + 1]
            /\ dirs' = IF k = "inode" /\ u \in directories THEN [dirs EXCEPT ![group(k, u)] = @ - 1] ELSE dirs
            /\ owned' = [owned EXCEPT ![k] = @ \ {u}]
            /\ directories' = IF k = "inode" THEN directories \ {u} ELSE directories
    BY DEF transaction_dealloc
  <1>3. PICK u \in owned[k] \intersect bitmap[k] :
            /\ bitmap' = [bitmap EXCEPT ![k] = @ \ {u}]
            /\ free' = [free EXCEPT ![k][group(k, u)] = @ + 1]
            /\ super' = [super EXCEPT ![k] = @ + 1]
            /\ dirs' = IF k = "inode" /\ u \in directories THEN [dirs EXCEPT ![group(k, u)] = @ - 1] ELSE dirs
            /\ owned' = [owned EXCEPT ![k] = @ \ {u}]
            /\ directories' = IF k = "inode" THEN directories \ {u} ELSE directories
    BY <1>2
  <1>4. /\ bitmap \in [Kinds -> SUBSET Nat] /\ free \in [Kinds -> [Groups -> Int]]
        /\ super \in [Kinds -> Int] /\ dirs \in [Groups -> Int] /\ unused \in [Groups -> Int]
        /\ owned \in [Kinds -> SUBSET Nat] /\ directories \subseteq Nat
    BY DEF IInv, Shape, Old, Images
  <1>5. u \in Units(k) /\ group(k, u) \in Groups
    BY GroupOf DEF IInv, Held
  <1>6. Flip(bitmap[k], u) = bitmap[k] \ {u} /\ Change(bitmap[k], u) = 1
    BY DEF Flip, Change
  <1>7. Flipped(k, u, bitmap, free, super, bitmap', free', super')
    BY <1>3, <1>4, <1>5, <1>6 DEF Flipped
  <1>8. Agrees(unrepaired, bitmap, free, super, dirs, directories)
    BY <1>1 DEF IInv, QuietAgrees
  <1>9. \A j \in Kinds :
            /\ \A g \in Groups : Counted(j, g, bitmap, free) => Counted(j, g, bitmap', free')
            /\ Totalled(j, bitmap, super) => Totalled(j, bitmap', super')
    BY <1>7, ToggleCounts
  <1>10. \A g \in Groups : DirsCounted(g, bitmap, dirs, directories) => DirsCounted(g, bitmap', dirs', directories)
    <2>1. CASE k = "block"
      BY <1>3, <1>4, <2>1 DEF DirsCounted, Kinds
    <2>2. CASE k = "inode"
      <3>1. bitmap'["inode"] = Flip(bitmap["inode"], u) /\ u \in Units("inode")
        BY <1>3, <1>4, <1>5, <1>6, <2>2
      <3>2. dirs' = IF u \in directories
                    THEN [dirs EXCEPT ![group("inode", u)] = @ - Change(bitmap["inode"], u)] ELSE dirs
        BY <1>3, <1>6, <2>2
      <3>3. PICK c : c = bitmap'
        OBVIOUS
      <3>4. PICK e : e = dirs'
        OBVIOUS
      <3>5. \A g \in Groups : e[g] = IF u \in directories /\ g = group("inode", u)
                                     THEN dirs[g] - Change(bitmap["inode"], u) ELSE dirs[g]
        BY <1>4, <3>2, <3>4
      <3>6. \A g \in Groups : DirsCounted(g, bitmap, dirs, directories) => DirsCounted(g, c, e, directories)
        <4>1. c["inode"] = Flip(bitmap["inode"], u)
          BY <3>1, <3>3
        <4> QED
          BY <1>4, <3>1, <3>5, <4>1, ToggleDirs
      <3> QED
        BY <3>3, <3>4, <3>6
    <2> QED
      BY <2>1, <2>2 DEF Kinds
  <1>11. \A g \in Groups : DirsCounted(g, bitmap, dirs, directories) => DirsCounted(g, bitmap', dirs', directories')
    <2>1. directories' \intersect bitmap'["inode"] = directories \intersect bitmap'["inode"]
      BY <1>3, <1>4 DEF Kinds
    <2> QED
      BY <1>10, <2>1 DEF DirsCounted
  <1>12. QuietAgrees'
    BY <1>1, <1>8, <1>9, <1>11 DEF QuietAgrees, Agrees, Counted, Totalled, DirsCounted
  <1>13. Held(bitmap)'
    BY <1>3, <1>4 DEF IInv, Held
  <1>14. Shape'
    <2>1. bitmap' \in [Kinds -> SUBSET Nat] /\ super' \in [Kinds -> Int] /\ owned' \in [Kinds -> SUBSET Nat]
          /\ directories' \subseteq Nat
      BY <1>3, <1>4
    <2>2. free' \in [Kinds -> [Groups -> Int]] /\ dirs' \in [Groups -> Int] /\ unused' \in [Groups -> Int]
      BY <1>1, <1>3, <1>4, <1>5
    <2> QED
      BY <1>1, <2>1, <2>2 DEF IInv, Shape, Old, Images
  <1> QED
    BY <1>1, <1>12, <1>13, <1>14 DEF IInv

\* The range a direct write takes: clear blocks of one group, as many as are counted.
LEMMA RangeTaken ==
    ASSUME IInv, transaction_alloc_direct_range
    PROVE  \E g \in Groups, n \in Nat, R \in SUBSET Nat :
             /\ R \subseteq Clear("block", g) /\ IsFiniteSet(R) /\ Cardinality(R) = n
             /\ bitmap' = [bitmap EXCEPT !["block"] = @ \union R]
             /\ owned' = [owned EXCEPT !["block"] = @ \union R]
             /\ free' = [free EXCEPT !["block"][g] = @ - n]
             /\ super' = [super EXCEPT !["block"] = @ - n]
  <1>1. PICK n \in 1 .. MaxRun, hint \in Units("block"), required \in BOOLEAN :
        LET pref   == group("block", hint)
            exact  == hint \in Runs(pref, n)
            fits(g) == free["block"][g] >= n
            offers == {i \in 0 .. (Min({GroupCount, MaxProbes}) - 1) :
                        /\ fits(Probe(pref, i))
                        /\ \/ i = 0 /\ exact
                           \/ ~required /\ Runs(Probe(pref, i), n) # {}}
            g      == Probe(pref, Min(offers))
            first  == IF Min(offers) = 0 /\ exact THEN hint ELSE Min(Runs(g, n))
            range  == first .. (first + n - 1)
        IN  /\ offers # {} /\ super["block"] >= n
            /\ bitmap' = [bitmap EXCEPT !["block"] = @ \union range]
            /\ owned' = [owned EXCEPT !["block"] = @ \union range]
            /\ free' = [free EXCEPT !["block"][g] = @ - n]
            /\ super' = [super EXCEPT !["block"] = @ - n]
    BY DEF transaction_alloc_direct_range
  <1> DEFINE pref == group("block", hint)
             exact == hint \in Runs(pref, n)
             O == {j \in 0 .. (Min({GroupCount, MaxProbes}) - 1) :
                    /\ free["block"][Probe(pref, j)] >= n
                    /\ \/ j = 0 /\ exact
                       \/ ~required /\ Runs(Probe(pref, j), n) # {}}
             i == Min(O)
             g == Probe(pref, i)
             f == IF i = 0 /\ exact THEN hint ELSE Min(Runs(g, n))
             R == f .. (f + n - 1)
  <1>2. n \in Nat /\ n # 0 /\ pref \in Groups
    BY AllocatorAssumption, GroupOf DEF Kinds
  <1>3. i \in O
    <2>1. O # {}
      BY <1>1
    <2>2. O \subseteq Nat
      OBVIOUS
    <2> HIDE DEF O
    <2> QED
      BY <2>1, <2>2, MinMember
  <1>4. i \in Nat /\ ((i = 0 /\ exact) \/ Runs(Probe(pref, i), n) # {})
    BY <1>3
  <1>5. g \in Groups /\ Probe(pref, 0) = pref
    BY <1>2, <1>4, ProbeIsGroup
  <1>6. f \in Runs(g, n)
    <2>1. CASE i = 0 /\ exact
      BY <1>5, <2>1
    <2>2. CASE ~(i = 0 /\ exact)
      <3>1. Runs(g, n) # {} /\ f = Min(Runs(g, n))
        BY <1>4, <2>2
      <3>2. Runs(g, n) \subseteq Nat
        BY DEF Runs, InGroup, Units
      <3> QED
        BY <3>1, <3>2, MinMember
    <2> QED
      BY <2>1, <2>2
  <1>7. /\ bitmap' = [bitmap EXCEPT !["block"] = @ \union R]
        /\ owned' = [owned EXCEPT !["block"] = @ \union R]
        /\ free' = [free EXCEPT !["block"][g] = @ - n]
        /\ super' = [super EXCEPT !["block"] = @ - n]
    BY <1>1
  <1> HIDE DEF g, f, O, i
  <1>8. f \in Nat /\ R \subseteq Clear("block", g) /\ R \subseteq Nat
    BY <1>2, <1>6 DEF Runs, InGroup, Units
  <1>9. IsFiniteSet(R) /\ Cardinality(R) = n
    <2> DEFINE last == f + n - 1
    <2>1. last \in Int /\ ~(f > last) /\ last - f + 1 = n /\ f \in Int
      BY <1>2, <1>8
    <2>2. R = f .. last
      OBVIOUS
    <2> HIDE DEF last, R
    <2> QED
      BY <2>1, <2>2, FS_Interval
  <1> HIDE DEF R
  <1> QED
    BY <1>2, <1>5, <1>7, <1>8, <1>9

\* Taking a range keeps the agreement: its group has that many clear bits less.
LEMMA DirectRangeStep ==
    ASSUME IInv, transaction_alloc_direct_range
    PROVE  IInv'
  <1>1. op = NoOp /\ ~poisoned /\ op' = NoOp
        /\ UNCHANGED <<unused, dirs, directories, poisoned, unrepaired>>
    BY DEF transaction_alloc_direct_range, Begin
  <1>2. PICK g \in Groups, n \in Nat, R \in SUBSET Nat :
             /\ R \subseteq Clear("block", g) /\ IsFiniteSet(R) /\ Cardinality(R) = n
             /\ bitmap' = [bitmap EXCEPT !["block"] = @ \union R]
             /\ owned' = [owned EXCEPT !["block"] = @ \union R]
             /\ free' = [free EXCEPT !["block"][g] = @ - n]
             /\ super' = [super EXCEPT !["block"] = @ - n]
    BY RangeTaken
  <1>3. /\ bitmap \in [Kinds -> SUBSET Nat] /\ free \in [Kinds -> [Groups -> Int]]
        /\ super \in [Kinds -> Int] /\ dirs \in [Groups -> Int] /\ unused \in [Groups -> Int]
        /\ owned \in [Kinds -> SUBSET Nat] /\ directories \subseteq Nat
    BY DEF IInv, Shape, Old, Images
  <1>4. /\ bitmap'["block"] = bitmap["block"] \union R /\ bitmap'["inode"] = bitmap["inode"]
        /\ owned'["block"] = owned["block"] \union R /\ owned'["inode"] = owned["inode"]
        /\ super'["block"] = super["block"] - n /\ super'["inode"] = super["inode"]
        /\ free'["inode"] = free["inode"]
        /\ \A h \in Groups : free'["block"][h] = IF h = g THEN free["block"][h] - n ELSE free["block"][h]
    BY <1>2, <1>3 DEF Kinds
  <1>5. ASSUME NEW S, IsFiniteSet(S), R \subseteq S \ bitmap["block"]
        PROVE  Cardinality(S \ bitmap'["block"]) = Cardinality(S \ bitmap["block"]) - n
    <2> DEFINE A == S \ bitmap["block"]
               B == S \ bitmap'["block"]
    <2>1. A = B \union R /\ B \intersect R = {} /\ B \subseteq S
      BY <1>4, <1>5
    <2>2. IsFiniteSet(B)
      BY <1>5, <2>1, FS_Subset
    <2> HIDE DEF A, B
    <2>3. Cardinality(A) = Cardinality(B) + n - Cardinality({})
      BY <1>2, <2>1, <2>2, FS_Union
    <2>4. Cardinality(B) \in Nat /\ Cardinality({}) = 0
      BY <2>2, FS_CardinalityType, FS_EmptySet
    <2>5. Cardinality(B) = Cardinality(A) - n
      BY <2>3, <2>4
    <2> QED
      BY <2>5 DEF A, B
  <1>6. /\ \A h \in Groups : Counted("block", h, bitmap, free) => Counted("block", h, bitmap', free')
        /\ Totalled("block", bitmap, super) => Totalled("block", bitmap', super')
    <2>1. ASSUME NEW h \in Groups, Counted("block", h, bitmap, free)
          PROVE  free'["block"][h] = Cardinality(InGroup("block", h) \ bitmap'["block"])
      <3>1. CASE h = g
        <4>1. IsFiniteSet(InGroup("block", g)) /\ R \subseteq InGroup("block", g) \ bitmap["block"]
          BY <1>2, UnitsFinite DEF Clear, Kinds
        <4> QED
          BY <1>4, <1>5, <2>1, <3>1, <4>1 DEF Counted
      <3>2. CASE h # g
        <4>1. InGroup("block", h) \ bitmap'["block"] = InGroup("block", h) \ bitmap["block"]
          BY <1>2, <1>4, <3>2 DEF Clear, InGroup
        <4> QED
          BY <1>4, <2>1, <3>2, <4>1 DEF Counted
      <3> QED
        BY <3>1, <3>2
    <2>2. ASSUME Totalled("block", bitmap, super)
          PROVE  super'["block"] = Cardinality(Units("block") \ bitmap'["block"])
      <3>1. IsFiniteSet(Units("block")) /\ R \subseteq Units("block") \ bitmap["block"]
        BY <1>2, UnitsFinite DEF Clear, InGroup, Kinds
      <3> QED
        BY <1>4, <1>5, <2>2, <3>1 DEF Totalled
    <2> QED
      BY <2>1, <2>2 DEF Counted, Totalled
  <1>7. QuietAgrees'
    <2>1. Agrees(unrepaired, bitmap, free, super, dirs, directories)
      BY <1>1 DEF IInv, QuietAgrees
    <2>2. \A h \in Groups : Counted("inode", h, bitmap, free) => Counted("inode", h, bitmap', free')
      BY <1>4 DEF Counted
    <2>3. Totalled("inode", bitmap, super) => Totalled("inode", bitmap', super')
      BY <1>4 DEF Totalled
    <2>4. \A h \in Groups : DirsCounted(h, bitmap, dirs, directories) => DirsCounted(h, bitmap', dirs', directories')
      BY <1>1, <1>4 DEF DirsCounted
    <2>5. Agrees(unrepaired, bitmap', free', super', dirs', directories')
      BY <1>6, <2>1, <2>2, <2>3, <2>4 DEF Agrees, Kinds
    <2> QED
      BY <1>1, <2>5 DEF QuietAgrees, Agrees, Counted, Totalled, DirsCounted
  <1>8. Held(bitmap)'
    BY <1>2, <1>4 DEF IInv, Held, Kinds, Clear, InGroup
  <1>9. Shape'
    <2> "block" \in Kinds
      BY DEF Kinds
    <2>1. bitmap' \in [Kinds -> SUBSET Nat]
      BY <1>2, <1>3
    <2>2. free' \in [Kinds -> [Groups -> Int]]
      BY <1>2, <1>3
    <2>3. super' \in [Kinds -> Int] 
      BY <1>2, <1>3
    <2>4. owned' \in [Kinds -> SUBSET Nat]
      BY <1>2, <1>3
    <2> QED
      BY <1>1, <1>3, <2>1, <2>2, <2>3, <2>4 DEF IInv, Shape, Old, Images
  <1> QED
    BY <1>1, <1>7, <1>8, <1>9 DEF IInv

\* The state of an operation under way.
LEMMA Facts ==
    ASSUME IInv, op # NoOp
    PROVE  /\ op \in Operations /\ op.kind \in Kinds /\ op.unit \in Units(op.kind) /\ op.unit \in Nat
           /\ op.alloc \in BOOLEAN /\ op.dir \in BOOLEAN /\ op.undo \in BOOLEAN
           /\ OperationOK(op) /\ Progress(op) /\ OldAgrees(op) /\ Held(op.old.bitmap)
           /\ op.old.bitmap \in [Kinds -> SUBSET Nat] /\ op.old.free \in [Kinds -> [Groups -> Int]]
           /\ op.old.super \in [Kinds -> Int] /\ op.old.dirs \in [Groups -> Int]
           /\ op.old.unused \in [Groups -> Int]
           /\ bitmap \in [Kinds -> SUBSET Nat] /\ free \in [Kinds -> [Groups -> Int]]
           /\ super \in [Kinds -> Int] /\ dirs \in [Groups -> Int] /\ unused \in [Groups -> Int]
           /\ owned \in [Kinds -> SUBSET Nat] /\ directories \subseteq Nat
           /\ poisoned = FALSE
  <1>1. op \in Operations
    BY UnderWay DEF IInv
  <1>2. OperationOK(op) /\ Progress(op) /\ OldAgrees(op) /\ Shape
    BY DEF IInv
  <1>3. op.old \in Images /\ op.kind \in Kinds /\ op.alloc \in BOOLEAN /\ op.dir \in BOOLEAN /\ op.undo \in BOOLEAN
    BY <1>1 DEF Operations
  <1>4. op.unit \in Units(op.kind) /\ op.unit \in Nat
    BY <1>2, <1>3, UnitsFinite DEF OperationOK
  <1>5. /\ op.old.bitmap \in [Kinds -> SUBSET Nat] /\ op.old.free \in [Kinds -> [Groups -> Int]]
        /\ op.old.super \in [Kinds -> Int] /\ op.old.dirs \in [Groups -> Int]
        /\ op.old.unused \in [Groups -> Int]
    BY <1>3 DEF Images
  <1>6. /\ bitmap \in [Kinds -> SUBSET Nat] /\ free \in [Kinds -> [Groups -> Int]]
        /\ super \in [Kinds -> Int] /\ dirs \in [Groups -> Int] /\ unused \in [Groups -> Int]
        /\ owned \in [Kinds -> SUBSET Nat] /\ directories \subseteq Nat
    BY <1>2 DEF Shape, Old, Images
  <1>7. poisoned = FALSE /\ Held(op.old.bitmap)
    BY <1>2 DEF Shape, OperationOK
  <1> QED
    BY <1>1, <1>2, <1>3, <1>4, <1>5, <1>6, <1>7

\* The bitmap is flipped.
LEMMA WriteBitmapStep ==
    ASSUME IInv, write_bitmap
    PROVE  IInv'
  <1>1. op # NoOp /\ op.pc = "bitmap"
    BY DEF write_bitmap, NoOp
  <1>2. UNCHANGED <<free, super, unused, dirs, owned, directories, poisoned, unrepaired>> /\ Goto("group")
    BY DEF write_bitmap, counts, callers
  <1>3. bitmap = op.old.bitmap
    BY <1>1, Facts DEF Progress
  <1>4. bitmap' = NewBitmap(op)
    <2>1. (IF op.alloc THEN bitmap[op.kind] \union {op.unit} ELSE bitmap[op.kind] \ {op.unit})
             = Flip(bitmap[op.kind], op.unit)
      BY <1>1, <1>3, Facts DEF OperationOK, Flip
    <2> QED
      BY <1>3, <2>1 DEF write_bitmap, Toggled, NewBitmap
  <1>5. /\ op' \in Operations /\ op' # NoOp /\ op'.pc = "group" /\ op'.old = op.old
        /\ OperationOK(op)' /\ OldAgrees(op)' /\ NewBitmap(op') = NewBitmap(op)
    BY <1>1, <1>2, GoesOn DEF Pcs
  <1>6. Progress(op)'
    BY <1>1, <1>2, <1>4, <1>5, Facts DEF Progress
  <1>7. Held(bitmap)' /\ bitmap' \in [Kinds -> SUBSET Nat]
    BY <1>1, <1>2, <1>4, Facts, NewImages DEF Held
  <1>8. Shape'
    BY <1>1, <1>2, <1>5, <1>7, Facts DEF Shape, Old, Images
  <1> QED
    BY <1>5, <1>6, <1>7, <1>8 DEF IInv

\* The group descriptor follows.
LEMMA WriteGroupStep ==
    ASSUME IInv, write_block_group
    PROVE  IInv'
  <1> DEFINE g == group(op.kind, op.unit)
  <1>1. op # NoOp /\ op.pc = "group"
    BY DEF write_block_group, NoOp
  <1>2. UNCHANGED <<bitmap, super, owned, directories, poisoned, unrepaired>> /\ Goto("super")
    BY DEF write_block_group, callers
  <1>3. free = op.old.free /\ dirs = op.old.dirs
    BY <1>1, Facts DEF Progress
  <1>4. Delta = Change(op.old.bitmap[op.kind], op.unit)
    BY <1>1, Facts DEF OperationOK, Delta, Change
  <1>5. free' = NewFree(op) /\ dirs' = NewDirs(op)
    BY <1>3, <1>4 DEF write_block_group, NewFree, NewDirs
  <1>6. unused' \in [Groups -> Int]
    <2>1. g \in Groups
      BY <1>1, Facts, GroupOf
    <2>2. Cardinality(InGroup("inode", g)) \in Nat
      BY UnitsFinite, FS_CardinalityType DEF Kinds
    <2>3. CASE op.kind = "block"
      BY <1>1, <2>3, Facts DEF write_block_group
    <2>4. CASE op.kind = "inode"
      <3>1. PerGroup["inode"] \in Nat
        BY AllocatorAssumption DEF Kinds
      <3>2. block_group_first_block("inode", group("inode", op.unit)) \in Int
        BY <2>1, <2>4, <3>1 DEF block_group_first_block, Groups
      <3>3. index("inode", op.unit) \in Int
        BY <1>1, <3>2, Facts DEF index
      <3>4. unused[g] \in Int
        BY <1>1, <2>1, Facts
      <3>5. UnusedAfterAlloc(g, index("inode", op.unit)) \in Int
        BY <2>2, <3>3, <3>4 DEF UnusedAfterAlloc
      <3> DEFINE v == IF op.alloc THEN UnusedAfterAlloc(g, index("inode", op.unit)) ELSE unused[g] + 1
      <3>6. v \in Int
        BY <3>4, <3>5
      <3>7. unused' = [unused EXCEPT ![g] = v]
        BY <2>4 DEF write_block_group
      <3> HIDE DEF v, g
      <3> QED
        BY <1>1, <2>1, <3>6, <3>7, Facts
    <2> QED
      BY <1>1, <2>3, <2>4, Facts DEF Kinds
  <1>7. /\ op' \in Operations /\ op' # NoOp /\ op'.pc = "super" /\ op'.old = op.old
        /\ OperationOK(op)' /\ OldAgrees(op)' /\ NewBitmap(op') = NewBitmap(op)
        /\ NewFree(op') = NewFree(op) /\ NewDirs(op') = NewDirs(op)
    BY <1>1, <1>2, GoesOn DEF Pcs
  <1>8. Progress(op)'
    BY <1>1, <1>2, <1>5, <1>7, Facts DEF Progress
  <1>9. free' \in [Kinds -> [Groups -> Int]] /\ dirs' \in [Groups -> Int]
    BY <1>1, <1>5, Facts, NewImages
  <1>10. Held(bitmap)'
    BY <1>2 DEF IInv, Held
  <1>11. Shape'
    BY <1>1, <1>2, <1>6, <1>7, <1>9, Facts DEF Shape, Old, Images
  <1> QED
    BY <1>7, <1>8, <1>10, <1>11 DEF IInv

\* An operation that ends with its new images on the device: the unit has gone to or
\* from its caller, and the table entry says whether it is a directory.
LEMMA Finished ==
    ASSUME IInv, op # NoOp, op' = NoOp,
           bitmap' = NewBitmap(op), free' = NewFree(op), super' = NewSuper(op), dirs' = NewDirs(op),
           poisoned' \in BOOLEAN, UNCHANGED <<unused, unrepaired>>,
           owned' \in [Kinds -> SUBSET Nat], directories' \subseteq Nat,
           \A k \in Kinds : owned'[k] \subseteq NewBitmap(op)[k],
           directories' \intersect NewBitmap(op)["inode"] = DirectoriesOf(op) \intersect NewBitmap(op)["inode"]
    PROVE  IInv'
  <1>1. op \in Operations /\ OperationOK(op) /\ OldAgrees(op)
    BY Facts
  <1>2. /\ NewBitmap(op) \in [Kinds -> SUBSET Nat] /\ NewFree(op) \in [Kinds -> [Groups -> Int]]
        /\ NewSuper(op) \in [Kinds -> Int] /\ NewDirs(op) \in [Groups -> Int]
        /\ Held(NewBitmap(op))
        /\ Agrees(unrepaired, NewBitmap(op), NewFree(op), NewSuper(op), NewDirs(op), DirectoriesOf(op))
    BY <1>1, NewImages
  <1>3. Agrees(unrepaired, NewBitmap(op), NewFree(op), NewSuper(op), NewDirs(op), directories')
    BY <1>2, SameDirs
  <1>4. QuietAgrees'
    BY <1>3 DEF QuietAgrees, Agrees, Counted, Totalled, DirsCounted
  <1>5. Held(bitmap)'
    BY <1>2 DEF Held
  <1>6. Shape'
    BY <1>2, Facts DEF Shape, Old, Images
  <1> QED
    BY <1>4, <1>5, <1>6 DEF IInv

\* An operation that ends with its old images on the device; if it was to undo an
\* allocation, the mount is poisoned.
LEMMA RolledBack ==
    ASSUME IInv, op # NoOp, EndsInError,
           bitmap' = op.old.bitmap, free' = op.old.free, super' = op.old.super, dirs' = op.old.dirs,
           unused' \in [Groups -> Int], UNCHANGED <<owned, directories, unrepaired>>
    PROVE  IInv'
  <1>1. op' = NoOp /\ poisoned' = op.undo
    BY Facts DEF EndsInError
  <1>2. ~op.undo => directories \intersect op.old.bitmap["inode"] = DirectoriesOf(op) \intersect op.old.bitmap["inode"]
    BY Facts DEF DirectoriesOf, OperationOK, Kinds
  <1>3. ~op.undo => Agrees(unrepaired, op.old.bitmap, op.old.free, op.old.super, op.old.dirs, directories)
    BY <1>2, Facts, SameDirs DEF OldAgrees
  <1>4. ~poisoned' => QuietAgrees'
    BY <1>1, <1>3 DEF QuietAgrees, Agrees, Counted, Totalled, DirsCounted
  <1>5. Held(bitmap)'
    BY Facts DEF Held
  <1>6. Shape'
    BY <1>1, Facts DEF Shape, Old, Images
  <1> QED
    BY <1>1, <1>4, <1>5, <1>6 DEF IInv

\* The unit is handed to its caller, or has left it.
LEMMA Handed ==
    ASSUME IInv, op # NoOp, op' = NoOp, Hand, directories' \subseteq Nat,
           directories' \intersect NewBitmap(op)["inode"] = DirectoriesOf(op) \intersect NewBitmap(op)["inode"],
           bitmap' = NewBitmap(op), free' = NewFree(op), super' = NewSuper(op), dirs' = NewDirs(op),
           poisoned' \in BOOLEAN, UNCHANGED <<unused, unrepaired>>
    PROVE  IInv'
  <1>1. op.kind \in Kinds /\ op.unit \in Nat /\ Held(NewBitmap(op)) /\ op.alloc \in BOOLEAN
        /\ (op.alloc => op.unit \notin op.old.bitmap[op.kind])
    BY Facts, NewImages DEF OperationOK
  <1>2. op.alloc => op.unit \in NewBitmap(op)[op.kind]
    BY <1>1, Facts DEF NewBitmap, Flip
  <1>3. owned' \in [Kinds -> SUBSET Nat] /\ \A k \in Kinds : owned'[k] \subseteq NewBitmap(op)[k]
    BY <1>1, <1>2, Facts DEF Held, Hand
  <1> QED
    BY <1>3, Finished

\* The table entry of the unit is written.
LEMMA Inscribed ==
    ASSUME IInv, op # NoOp, Inscribe
    PROVE  /\ directories' \subseteq Nat
           /\ op.alloc => directories' = DirectoriesOf(op)
           /\ ~op.alloc /\ op.kind = "inode" => directories' = directories \ {op.unit}
  <1>1. op.kind \in Kinds /\ op.unit \in Nat /\ (op.kind = "block" => ~op.dir) /\ directories \subseteq Nat
    BY Facts DEF OperationOK
  <1> QED
    BY <1>1 DEF Inscribe, DirectoriesOf, Kinds

\* The superblock is the last of the three.
LEMMA WriteSuperStep ==
    ASSUME IInv, write_super_block
    PROVE  IInv'
  <1>1. op # NoOp /\ op.pc = "super"
    BY DEF write_super_block, NoOp
  <1>2. UNCHANGED <<bitmap, free, unused, dirs, poisoned, unrepaired>>
    BY DEF write_super_block
  <1>3. bitmap = NewBitmap(op) /\ free = NewFree(op) /\ dirs = NewDirs(op) /\ super = op.old.super
    BY <1>1, Facts DEF Progress
  <1>4. Delta = Change(op.old.bitmap[op.kind], op.unit)
    BY <1>1, Facts DEF OperationOK, Delta, Change
  <1>5. super' = NewSuper(op)
    BY <1>3, <1>4 DEF write_super_block, NewSuper
  <1>6. CASE op.init \/ (op.kind = "inode" /\ ~op.alloc)
    <2>1. Goto("init") /\ UNCHANGED <<owned, directories>>
      BY <1>6 DEF write_super_block, callers
    <2>2. op.alloc \/ op.kind = "inode"
      BY <1>1, <1>6, Facts DEF OperationOK
    <2>3. /\ op' \in Operations /\ op' # NoOp /\ op'.pc = "init" /\ op'.old = op.old
          /\ OperationOK(op)' /\ OldAgrees(op)' /\ NewBitmap(op') = NewBitmap(op)
          /\ NewFree(op') = NewFree(op) /\ NewDirs(op') = NewDirs(op) /\ NewSuper(op') = NewSuper(op)
      BY <1>1, <1>2, <2>1, <2>2, GoesOn DEF Pcs
    <2>4. Progress(op)'
      BY <1>2, <1>3, <1>5, <2>3 DEF Progress
    <2>5. super' \in [Kinds -> Int]
      BY <1>1, <1>5, Facts, NewImages
    <2>6. Held(bitmap)'
      BY <1>2, <2>1 DEF IInv, Held
    <2>7. Shape'
      BY <1>1, <1>2, <2>1, <2>3, <2>5, Facts DEF Shape, Old, Images
    <2>8. ~(op' = NoOp)
      BY <2>3
    <2> QED
      BY <2>3, <2>4, <2>6, <2>7, <2>8 DEF IInv
  <1>7. CASE ~(op.init \/ (op.kind = "inode" /\ ~op.alloc))
    <2>1. op' = NoOp /\ Hand /\ directories' = directories
      BY <1>7 DEF write_super_block
    <2>2. op.kind = "block"
      BY <1>1, <1>7, Facts DEF Kinds, OperationOK
    <2>3. directories' = DirectoriesOf(op) /\ directories' \subseteq Nat /\ poisoned' \in BOOLEAN
      BY <1>1, <1>2, <2>1, <2>2, Facts DEF DirectoriesOf
    <2>4. directories' \intersect NewBitmap(op)["inode"] = DirectoriesOf(op) \intersect NewBitmap(op)["inode"]
      BY <2>3
    <2> QED
      BY <1>1, <1>2, <1>3, <1>5, <2>1, <2>3, <2>4, Handed
  <1> QED
    BY <1>6, <1>7

\* The first write of a unit, or the last of a released inode.
LEMMA InitializeStep ==
    ASSUME IInv, initialize
    PROVE  IInv'
  <1>1. op # NoOp /\ op.pc = "init" /\ op' = NoOp /\ Hand /\ Inscribe
    BY DEF initialize, NoOp
  <1>2. UNCHANGED <<bitmap, free, super, unused, dirs, poisoned, unrepaired>>
    BY DEF initialize, counts
  <1>3. bitmap = NewBitmap(op) /\ free = NewFree(op) /\ dirs = NewDirs(op) /\ super = NewSuper(op)
    BY <1>1, Facts DEF Progress
  <1>4. directories' \subseteq Nat /\ poisoned' \in BOOLEAN
    BY <1>1, <1>2, Facts, Inscribed
  <1>5. directories' \intersect NewBitmap(op)["inode"] = DirectoriesOf(op) \intersect NewBitmap(op)["inode"]
    <2>1. CASE op.alloc
      BY <1>1, <2>1, Inscribed
    <2>2. CASE ~op.alloc
      <3>1. op.kind = "inode" /\ op.unit \in op.old.bitmap[op.kind]
        BY <1>1, <2>2, Facts DEF OperationOK
      <3>2. op.unit \notin NewBitmap(op)["inode"]
        BY <1>1, <3>1, Facts DEF NewBitmap, Flip
      <3> QED
        BY <1>1, <2>2, <3>1, <3>2, Inscribed DEF DirectoriesOf
    <2> QED
      BY <2>1, <2>2
  <1> QED
    BY <1>1, <1>2, <1>3, <1>4, <1>5, Handed

\* A failing bitmap write ends an operation that has written nothing, or the bitmap.
LEMMA WriteBitmapFailsStep ==
    ASSUME IInv, write_bitmap_fails
    PROVE  IInv'
  <1> DEFINE h == group(op.kind, op.unit)
  <1>1. op # NoOp /\ op.pc = "bitmap" /\ EndsInError
    BY DEF write_bitmap_fails, NoOp
  <1>2. UNCHANGED <<free, super, unused, dirs, owned, directories>>
    BY DEF write_bitmap_fails, counts, callers
  <1>3. bitmap = op.old.bitmap /\ free = op.old.free /\ dirs = op.old.dirs /\ super = op.old.super
    BY <1>1, Facts DEF Progress
  <1>4. CASE UNCHANGED <<bitmap, unrepaired>>
    BY <1>1, <1>2, <1>3, <1>4, Facts, RolledBack
  <1>5. CASE bitmap' = Toggled /\ Unrepaired
    <2>1. bitmap' = NewBitmap(op)
      <3>1. (IF op.alloc THEN bitmap[op.kind] \union {op.unit} ELSE bitmap[op.kind] \ {op.unit})
               = Flip(bitmap[op.kind], op.unit)
        BY <1>1, <1>3, Facts DEF OperationOK, Flip
      <3> QED
        BY <1>3, <1>5, <3>1 DEF Toggled, NewBitmap
    <2>2. op' = NoOp /\ poisoned' = op.undo /\ unrepaired' = unrepaired \union {<<op.kind, h>>}
      BY <1>1, <1>5, Facts DEF EndsInError, Unrepaired
    <2>3. ASSUME ~op.undo PROVE Agrees(unrepaired', bitmap', free, super, dirs, directories)
      <3>1. directories \intersect bitmap["inode"] = DirectoriesOf(op) \intersect bitmap["inode"]
        BY <1>1, <1>3, <2>3, Facts DEF DirectoriesOf, OperationOK, Kinds
      <3>2. Agrees(unrepaired, bitmap, free, super, dirs, directories)
        BY <1>1, <1>3, <3>1, Facts, SameDirs DEF OldAgrees
      <3>3. \A k \in Kinds, g \in Groups : k # op.kind \/ g # h =>
               /\ InGroup(k, g) \ bitmap'[k] = InGroup(k, g) \ bitmap[k]
               /\ InGroup(k, g) \intersect (directories \intersect bitmap'[k])
                      = InGroup(k, g) \intersect (directories \intersect bitmap[k])
        BY <1>1, <1>3, <2>1, Facts, NewElsewhere
      <3>4. \A k \in Kinds : k # op.kind => bitmap'[k] = bitmap[k]
        BY <1>1, <1>3, <2>1, Facts, NewImages
      <3>5. op.kind \in Kinds /\ h \in Groups /\ "inode" \in Kinds
        BY <1>1, Facts, GroupOf DEF Kinds
      <3>6. PICK c, U : c = bitmap' /\ U = unrepaired'
        OBVIOUS
      <3> HIDE DEF h
      <3>7. unrepaired \subseteq U /\ <<op.kind, h>> \in U
        BY <2>2, <3>6
      <3>8. \A k \in Kinds, g \in Groups : k # op.kind \/ g # h =>
               /\ InGroup(k, g) \ c[k] = InGroup(k, g) \ bitmap[k]
               /\ free[k][g] = free[k][g]
        BY <3>3, <3>6
      <3>9. \A k \in Kinds : k # op.kind => c[k] = bitmap[k] /\ super[k] = super[k]
        BY <3>4, <3>6
      <3>10. \A g \in Groups : op.kind # "inode" \/ g # h =>
               /\ InGroup("inode", g) \intersect (directories \intersect c["inode"])
                      = InGroup("inode", g) \intersect (directories \intersect bitmap["inode"])
               /\ dirs[g] = dirs[g]
        BY <3>3, <3>5, <3>6
      <3>11. Agrees(U, c, free, super, dirs, directories)
        BY <3>2, <3>5, <3>7, <3>8, <3>9, <3>10, ElsewhereAgrees
      <3> QED
        BY <3>6, <3>11
    <2>4. ~poisoned' => QuietAgrees'
      BY <1>2, <2>2, <2>3 DEF QuietAgrees, Agrees, Counted, Totalled, DirsCounted
    <2>5. Held(bitmap)' /\ bitmap' \in [Kinds -> SUBSET Nat]
      BY <1>1, <1>2, <2>1, Facts, NewImages DEF Held
    <2>6. Shape'
      BY <1>1, <1>2, <2>2, <2>5, Facts DEF Shape, Old, Images
    <2> QED
      BY <2>2, <2>4, <2>5, <2>6 DEF IInv
  <1> QED
    BY <1>4, <1>5 DEF write_bitmap_fails

\* A failing descriptor or superblock write starts the restore.
LEMMA RestoreStarts ==
    ASSUME IInv, write_block_group_fails \/ write_super_block_fails
    PROVE  IInv'
  <1>1. op # NoOp /\ op.pc \in {"group", "super"} /\ Goto("restore_bitmap")
    BY DEF write_block_group_fails, write_super_block_fails, NoOp
  <1>2. UNCHANGED <<bitmap, free, super, unused, dirs, owned, directories, poisoned, unrepaired>>
    BY DEF write_block_group_fails, write_super_block_fails, counts, callers
  <1>3. /\ op' \in Operations /\ op' # NoOp /\ op'.pc = "restore_bitmap" /\ op'.old = op.old
        /\ OperationOK(op)' /\ OldAgrees(op)' /\ NewBitmap(op') = NewBitmap(op)
        /\ NewFree(op') = NewFree(op) /\ NewDirs(op') = NewDirs(op)
    BY <1>1, <1>2, GoesOn DEF Pcs
  <1>4. Progress(op)'
    BY <1>1, <1>2, <1>3, Facts DEF Progress
  <1>5. Held(bitmap)'
    BY <1>2 DEF IInv, Held
  <1>6. Shape'
    BY <1>1, <1>2, <1>3, Facts DEF Shape, Old, Images
  <1> QED
    BY <1>3, <1>4, <1>5, <1>6 DEF IInv

\* A unit whose first write fails is released again; a release whose last write
\* fails has released the unit.
LEMMA InitializeFailsStep ==
    ASSUME IInv, initialize_fails
    PROVE  IInv'
  <1>1. op # NoOp /\ op.pc = "init"
    BY DEF initialize_fails, NoOp
  <1>2. UNCHANGED <<bitmap, free, super, unused, dirs, owned, unrepaired>>
    BY DEF initialize_fails, counts
  <1>3. bitmap = NewBitmap(op) /\ free = NewFree(op) /\ dirs = NewDirs(op) /\ super = NewSuper(op)
    BY <1>1, Facts DEF Progress
  <1>4. Agrees(unrepaired, bitmap, free, super, dirs, DirectoriesOf(op))
    BY <1>1, <1>3, Facts, NewImages
  <1>4a. /\ directories' \subseteq Nat
         /\ op.kind = "block" => directories' = directories
         /\ directories' \union {op.unit} = directories \union {op.unit}
         /\ directories' \ {op.unit} = directories \ {op.unit}
    <2>1. op.kind = "block" => ~op.dir
      BY <1>1, Facts DEF OperationOK
    <2> QED
      BY <1>1, <2>1, Facts DEF initialize_fails, Inscribe, Kinds
  <1>5. CASE op.alloc
    <2>1. op' = Prepared(op.kind, op.unit, FALSE, op.dir, FALSE, TRUE) /\ poisoned' = FALSE
      BY <1>1, <1>5, Facts DEF initialize_fails
    <2>2. op.unit \in bitmap[op.kind]
      BY <1>1, <1>3, <1>5, Facts DEF NewBitmap, Flip, OperationOK
    <2>3. op.unit \notin owned'[op.kind] /\ (op.kind = "block" => ~op.dir)
      BY <1>1, <1>2, Facts DEF OperationOK
    <2>4. Agrees(unrepaired, bitmap, free, super, dirs,
                 IF op.kind = "block" THEN directories'
                 ELSE IF op.dir THEN directories' \union {op.unit} ELSE directories' \ {op.unit})
      BY <1>4, <1>4a DEF DirectoriesOf
    <2>5. /\ op.kind \in Kinds /\ op.unit \in Units(op.kind) /\ op.dir \in BOOLEAN
          /\ UNCHANGED <<bitmap, counts, unrepaired>>
          /\ owned' \in [Kinds -> SUBSET Nat] /\ \A j \in Kinds : owned'[j] \subseteq owned[j]
      BY <1>1, <1>2, Facts DEF counts
    <2> QED
      BY <1>4a, <2>1, <2>2, <2>3, <2>4, <2>5, Prepares
  <1>6. CASE ~op.alloc
    <2>1. op' = NoOp /\ poisoned' \in BOOLEAN
      BY <1>1, <1>6, Facts DEF initialize_fails, EndsInError
    <2>2. op.kind = "inode" /\ op.unit \in op.old.bitmap[op.kind]
      BY <1>1, <1>6, Facts DEF OperationOK
    <2>3. op.unit \notin NewBitmap(op)["inode"]
      BY <1>1, <2>2, Facts DEF NewBitmap, Flip
    <2>4. directories' \intersect NewBitmap(op)["inode"] = DirectoriesOf(op) \intersect NewBitmap(op)["inode"]
      BY <1>4a, <2>2, <2>3 DEF DirectoriesOf
    <2>5. \A k \in Kinds : owned'[k] \subseteq NewBitmap(op)[k]
      BY <1>1, <1>2, Facts, NewImages DEF Held
    <2> QED
      BY <1>1, <1>2, <1>3, <1>4a, <2>1, <2>4, <2>5, Facts, Finished
  <1> QED
    BY <1>5, <1>6

\* Writing the old bitmap and the old descriptor back.
LEMMA RestoreGoesOn ==
    ASSUME IInv, restore_bitmap \/ restore_group
    PROVE  IInv'
  <1>1. op # NoOp /\ op.pc \in {"restore_bitmap", "restore_group"}
    BY DEF restore_bitmap, restore_group, NoOp
  <1>2. UNCHANGED <<super, owned, directories, poisoned, unrepaired>>
    BY DEF restore_bitmap, restore_group, counts, callers
  <1>3. super = op.old.super
    BY <1>1, Facts DEF Progress
  <1>4. CASE restore_bitmap
    <2>1. Goto("restore_group") /\ bitmap' = op.old.bitmap /\ UNCHANGED <<free, unused, dirs>>
      BY <1>4 DEF restore_bitmap, counts
    <2>2. /\ op' \in Operations /\ op' # NoOp /\ op'.pc = "restore_group" /\ op'.old = op.old
          /\ OperationOK(op)' /\ OldAgrees(op)'
          /\ NewFree(op') = NewFree(op) /\ NewDirs(op') = NewDirs(op)
      BY <1>1, <1>2, <2>1, GoesOn DEF Pcs
    <2>3. Progress(op)'
      BY <1>1, <1>2, <1>3, <2>1, <2>2, Facts DEF Progress
    <2>4. Held(bitmap)'
      BY <1>1, <1>2, <2>1, Facts DEF Held
    <2>5. Shape'
      BY <1>1, <1>2, <2>1, <2>2, Facts DEF Shape, Old, Images
    <2> QED
      BY <2>2, <2>3, <2>4, <2>5 DEF IInv
  <1>5. CASE restore_group
    <2>1. /\ Goto("restore_super") /\ op.pc = "restore_group" /\ UNCHANGED bitmap
          /\ free' = op.old.free /\ dirs' = op.old.dirs /\ unused' = op.old.unused
      BY <1>5 DEF restore_group
    <2>2. /\ op' \in Operations /\ op' # NoOp /\ op'.pc = "restore_super" /\ op'.old = op.old
          /\ OperationOK(op)' /\ OldAgrees(op)'
          /\ NewFree(op') = NewFree(op) /\ NewDirs(op') = NewDirs(op)
      BY <1>1, <1>2, <2>1, GoesOn DEF Pcs
    <2>3. Progress(op)'
      BY <1>1, <1>2, <1>3, <2>1, <2>2, Facts DEF Progress
    <2>4. Held(bitmap)'
      BY <1>1, <1>2, <2>1 DEF IInv, Held
    <2>5. Shape'
      BY <1>1, <1>2, <2>1, <2>2, Facts DEF Shape, Old, Images
    <2> QED
      BY <2>2, <2>3, <2>4, <2>5 DEF IInv
  <1> QED
    BY <1>4, <1>5

\* Writing the old superblock back ends the operation.
LEMMA RestoreSuperStep ==
    ASSUME IInv, restore_super
    PROVE  IInv'
  <1>1. op # NoOp /\ op.pc = "restore_super" /\ EndsInError
    BY DEF restore_super, NoOp
  <1>2. super' = op.old.super /\ UNCHANGED <<bitmap, free, unused, dirs, owned, directories, unrepaired>>
    BY DEF restore_super, callers
  <1>3. bitmap = op.old.bitmap /\ free = op.old.free /\ dirs = op.old.dirs
    BY <1>1, Facts DEF Progress
  <1> QED
    BY <1>1, <1>2, <1>3, Facts, RolledBack

\* A failing restore: of an inode it poisons the mount, and of a block it leaves the
\* group of the block apart, and no other.
LEMMA RestoreFailsStep ==
    ASSUME IInv, restore_fails
    PROVE  IInv'
  <1> DEFINE h == group(op.kind, op.unit)
             b == op.old.bitmap
  <1>1. op # NoOp /\ op.pc \in {"restore_bitmap", "restore_group", "restore_super"} /\ op' = NoOp
    BY DEF restore_fails, NoOp
  <1>2. UNCHANGED <<free, super, unused, dirs, owned, directories>>
    BY DEF restore_fails, counts, callers
  <1>3. /\ poisoned' \in BOOLEAN
        /\ ~poisoned' => ~op.undo /\ op.kind = "block" /\ unrepaired' = unrepaired \union {<<op.kind, h>>}
    BY <1>1, Facts DEF restore_fails, Unrepaired, Kinds
  <1>4. /\ bitmap' \in {b, NewBitmap(op)} /\ super = op.old.super
        /\ free \in {op.old.free, NewFree(op)} /\ dirs \in {op.old.dirs, NewDirs(op)}
    BY <1>1, Facts DEF restore_fails, Progress
  <1>5. ASSUME ~poisoned' PROVE QuietAgrees'
    <2>1. op.kind = "block" /\ unrepaired' = unrepaired \union {<<op.kind, h>>}
      BY <1>3, <1>5
    <2>2. dirs = op.old.dirs /\ directories = DirectoriesOf(op)
      BY <1>1, <1>4, <2>1, Facts, NewImages DEF DirectoriesOf
    <2>3. Agrees(unrepaired, b, op.old.free, super, dirs, directories)
      BY <1>1, <1>4, <2>2, Facts DEF OldAgrees
    <2>4. \A k \in Kinds, g \in Groups : k # op.kind \/ g # h =>
             /\ InGroup(k, g) \ bitmap'[k] = InGroup(k, g) \ b[k]
             /\ InGroup(k, g) \intersect (directories \intersect bitmap'[k])
                    = InGroup(k, g) \intersect (directories \intersect b[k])
             /\ free[k][g] = op.old.free[k][g]
      BY <1>1, <1>4, Facts, NewElsewhere
    <2>5. \A k \in Kinds : k # op.kind => bitmap'[k] = b[k]
      BY <1>1, <1>4, Facts, NewImages
    <2>6. op.kind \in Kinds /\ h \in Groups /\ "inode" \in Kinds
      BY <1>1, Facts, GroupOf DEF Kinds
    <2>7. Agrees(unrepaired', bitmap', free, super, dirs, directories)
      <3>1. PICK c, U : c = bitmap' /\ U = unrepaired'
        OBVIOUS
      <3> HIDE DEF h, b
      <3>2. unrepaired \subseteq U /\ <<op.kind, h>> \in U
        BY <2>1, <3>1
      <3>3. \A k \in Kinds, g \in Groups : k # op.kind \/ g # h =>
               /\ InGroup(k, g) \ c[k] = InGroup(k, g) \ b[k]
               /\ free[k][g] = op.old.free[k][g]
        BY <2>4, <3>1
      <3>4. \A k \in Kinds : k # op.kind => c[k] = b[k] /\ super[k] = super[k]
        BY <2>5, <3>1
      <3>5. \A g \in Groups : op.kind # "inode" \/ g # h =>
               /\ InGroup("inode", g) \intersect (directories \intersect c["inode"])
                      = InGroup("inode", g) \intersect (directories \intersect b["inode"])
               /\ dirs[g] = dirs[g]
        BY <2>4, <2>6, <3>1
      <3>6. Agrees(U, c, free, super, dirs, directories)
        BY <2>3, <2>6, <3>2, <3>3, <3>4, <3>5, ElsewhereAgrees
      <3> QED
        BY <3>1, <3>6
    <2> QED
      BY <1>2, <2>7 DEF QuietAgrees, Agrees, Counted, Totalled, DirsCounted
  <1>6. Held(bitmap)' /\ bitmap' \in [Kinds -> SUBSET Nat]
    BY <1>1, <1>2, <1>4, Facts, NewImages DEF Held
  <1>7. Shape'
    BY <1>1, <1>2, <1>3, <1>6, Facts DEF Shape, Old, Images
  <1> QED
    BY <1>1, <1>5, <1>6, <1>7 DEF IInv

-----------------------------------------------------------------------------
\* The initial filesystem.
LEMMA InitOK ==
    ASSUME Init
    PROVE  IInv
  <1>1. /\ bitmap = UsedAtFirst /\ owned = UsedAtFirst /\ op = NoOp /\ directories = {}
        /\ poisoned = FALSE /\ unrepaired = {} /\ UsedAtFirst \in [Kinds -> SUBSET Nat]
    BY AllocatorAssumption DEF Init
  <1>2. Held(bitmap)
    BY <1>1, AllocatorAssumption DEF Held
  <1>3. \A k \in Kinds : /\ Cardinality(Units(k) \ UsedAtFirst[k]) \in Nat
                         /\ \A g \in Groups : Cardinality(InGroup(k, g) \ UsedAtFirst[k]) \in Nat
    BY UnitsFinite, FlipCounts
  <1>4. free \in [Kinds -> [Groups -> Int]] /\ super \in [Kinds -> Int]
    <2> DEFINE N(k, g) == Cardinality(InGroup(k, g) \ UsedAtFirst[k])
               S(k) == Cardinality(Units(k) \ UsedAtFirst[k])
    <2>1. \A k \in Kinds : S(k) \in Int /\ \A g \in Groups : N(k, g) \in Int
      BY <1>3
    <2>2. free = [k \in Kinds |-> [g \in Groups |-> N(k, g)]] /\ super = [k \in Kinds |-> S(k)]
      BY DEF Init
    <2> HIDE DEF N, S
    <2> QED
      BY <2>1, <2>2
  <1>5. unused \in [Groups -> Int]
    <2> DEFINE Tail(g) == {u \in InGroup("inode", g) :
                              \A v \in InGroup("inode", g) : v >= u => v \notin UsedAtFirst["inode"]}
    <2>1. ASSUME NEW g \in Groups PROVE Cardinality(Tail(g)) \in Int
      <3>1. IsFiniteSet(InGroup("inode", g)) /\ Tail(g) \in SUBSET InGroup("inode", g)
        BY UnitsFinite DEF Kinds
      <3> HIDE DEF Tail
      <3>2. IsFiniteSet(Tail(g))
        BY <3>1, FS_Subset
      <3> QED
        BY <3>2, FS_CardinalityType
    <2>2. unused = [g \in Groups |-> Cardinality(Tail(g))]
      BY DEF Init
    <2> HIDE DEF Tail
    <2> QED
      BY <2>1, <2>2
  <1>6. dirs = [g \in Groups |-> 0] /\ dirs \in [Groups -> Int]
    BY DEF Init
  <1>7. Shape
    <2>1. Old \in Images
      BY <1>1, <1>4, <1>5, <1>6 DEF Old, Images
    <2> QED
      BY <1>1, <2>1 DEF Shape
  <1>8. \A k \in Kinds : Totalled(k, bitmap, super) /\ \A g \in Groups : Counted(k, g, bitmap, free)
    BY <1>1 DEF Init, Counted, Totalled
  <1>9. \A g \in Groups : DirsCounted(g, bitmap, dirs, directories)
    <2>1. \A g : InGroup("inode", g) \intersect ({} \intersect bitmap["inode"]) = {}
      OBVIOUS
    <2> QED
      BY <1>1, <1>6, <2>1, FS_EmptySet DEF DirsCounted
  <1> QED
    BY <1>1, <1>2, <1>7, <1>8, <1>9 DEF IInv, QuietAgrees, Agrees, Kinds

\* No step breaks the invariant.
LEMMA NextOK ==
    ASSUME IInv, [Next]_vars
    PROVE  IInv'
  <1>1. CASE UNCHANGED vars
    BY <1>1 DEF vars, counts, callers, IInv, Shape, Old, Held, OperationOK, Progress, OldAgrees, QuietAgrees,
                Agrees, Counted, Totalled, DirsCounted, DirectoriesOf
  <1>2. CASE begins
    BY <1>2, AllocBlockStep, AllocInodeStep, DeallocStep, TransactionDeallocStep, DirectRangeStep DEF begins
  <1>3. CASE writes
    BY <1>3, WriteBitmapStep, WriteGroupStep, WriteSuperStep, InitializeStep DEF writes
  <1>4. CASE fails
    BY <1>4, WriteBitmapFailsStep, RestoreStarts, InitializeFailsStep DEF fails
  <1>5. CASE restores
    BY <1>5, RestoreGoesOn, RestoreSuperStep, RestoreFailsStep DEF restores
  <1> QED
    BY <1>1, <1>2, <1>3, <1>4, <1>5 DEF Next

\* The invariant holds in every state.
THEOREM Invariance == Spec => []IInv
  <1>1. Init => IInv
    BY InitOK
  <1>2. IInv /\ [Next]_vars => IInv'
    BY NextOK
  <1> QED
    BY <1>1, <1>2, PTL DEF Spec

\* A unit a caller holds keeps its bit, and no allocation under way is of such a unit,
\* whatever writes and restores fail (alloc_block, alloc_inode and their rollbacks).
THEOREM UnitsAreOwnedOnce == Spec => []NoDoubleAllocation
  <1>1. IInv => NoDoubleAllocation
    BY DEF IInv, Held, OperationOK, NoDoubleAllocation
  <1> QED
    BY <1>1, Invariance, PTL

\* Between operations, after any sequence of writes and restores that failed, having
\* reached the device or not, an unpoisoned mount's descriptors and superblock count
\* what the bitmaps say, except for a group where a bitmap write failed that had
\* happened, or the restore of a block's allocation failed.
THEOREM CountsAreTrue == Spec => []Accounting
  <1>1. IInv => Accounting
    <2> SUFFICES ASSUME IInv, op = NoOp, ~poisoned PROVE Accounting
      BY DEF Accounting
    <2>1. Agrees(unrepaired, bitmap, free, super, dirs, directories)
      BY DEF IInv, QuietAgrees
    <2>2. \A g : Directories(g) = InGroup("inode", g) \intersect (directories \intersect bitmap["inode"])
      BY DEF Directories, Clear
    <2> QED
      BY <2>1, <2>2 DEF Accounting, CountsMatch, Clear, Agrees, Counted, Totalled, DirsCounted
  <1> QED
    BY <1>1, Invariance, PTL

\* An allocation gives up only when no unit of its kind is clear: the search comes past
\* every group, and counts that agree skip no group with a clear bit.
LEMMA GivesUpWhenFull ==
    ASSUME IInv, [Next]_vars, NEW k \in full' \ full, ~poisoned,
           \A g \in Groups : <<k, g>> \notin unrepaired
    PROVE  bitmap[k] = Units(k)
  <1>1. alloc_block \/ alloc_inode
    BY DEF Next, begins, writes, fails, restores, dealloc, transaction_dealloc, transaction_alloc_direct_range,
           write_bitmap, write_block_group, write_super_block, initialize, write_bitmap_fails,
           write_block_group_fails, write_super_block_fails, initialize_fails,
           restore_bitmap, restore_group, restore_super, restore_fails, vars
  <1>2. op = NoOp /\ QuietAgrees
    BY <1>1 DEF alloc_block, alloc_inode, Begin, IInv
  <1>2a. k \in Kinds
    BY <1>1 DEF alloc_block, alloc_inode, NoSpace, Take, Kinds
  <1>3. ASSUME NEW g \in Groups
        PROVE  Clear(k, g) = {} <=> free[k][g] = 0
    <2>1. IsFiniteSet(Clear(k, g))
      BY <1>2a, UnitsFinite, FS_Subset DEF Clear
    <2>2. free[k][g] = Cardinality(Clear(k, g))
      BY <1>2, <1>2a DEF QuietAgrees, Agrees, Counted, Clear
    <2> QED
      BY <2>1, <2>2, FS_EmptySet
  <1>4. \A g \in Groups : Clear(k, g) = {}
    <2>1. CASE alloc_block
      <3>1. PICK pref \in Groups, init \in BOOLEAN :
                LET offers == {n \in Groups : LET g == Probe(pref, n)
                                              IN  free["block"][g] # 0 /\ Clear("block", g) # {}}
                IN  IF offers = {} THEN NoSpace("block")
                    ELSE Take("block", Min(Clear("block", Probe(pref, Min(offers)))), FALSE, init)
        BY <2>1 DEF alloc_block
      <3>2. k = "block" /\ \A n \in Groups :
                ~(free["block"][Probe(pref, n)] # 0 /\ Clear("block", Probe(pref, n)) # {})
        BY <3>1 DEF NoSpace, Take
      <3>3. ASSUME NEW g \in Groups PROVE Clear("block", g) = {}
        <4>1. PICK n \in Groups : Probe(pref, n) = g
          BY ProbeReaches
        <4> QED
          BY <1>3, <3>2, <4>1
      <3> QED
        BY <3>2, <3>3
    <2>2. CASE alloc_inode
      <3> DEFINE offers == {g \in Groups : free["inode"][g] # 0}
      <3>1. k = "inode" /\ (offers = {} \/ Clear("inode", Min(offers)) = {})
        BY <2>2 DEF alloc_inode, NoSpace, Take
      <3>2. ASSUME offers # {} PROVE FALSE
        <4>1. offers \subseteq Nat
          BY DEF Groups
        <4>2. Min(offers) \in offers
          BY <3>2, <4>1, MinMember
        <4> QED
          BY <1>3, <3>1, <3>2, <4>2 DEF Kinds
      <3> QED
        BY <1>3, <3>1, <3>2
    <2> QED
      BY <1>1, <2>1, <2>2
  <1>5. \A u \in Units(k) : u \in bitmap[k]
    BY <1>2a, <1>4, GroupOf DEF Clear, InGroup
  <1> QED
    BY <1>2a, <1>5 DEF IInv, Held

\* ENOSPC is the truth: alloc_block and alloc_inode give up, after looking at every
\* group's count and then at the bitmaps, only when no group has a clear bit, or the
\* counts and the bitmap of one were left apart as in Accounting.
THEOREM ENOSPCIsTrue == Spec => NoSpuriousENOSPC
  <1>1. IInv /\ [Next]_vars =>
            [\A k \in full' \ full :
                ~poisoned /\ (\A g \in Groups : <<k, g>> \notin unrepaired) => bitmap[k] = Units(k)]_vars
    BY GivesUpWhenFull
  <1> QED
    BY <1>1, Invariance, PTL DEF Spec, NoSpuriousENOSPC

=============================================================================
