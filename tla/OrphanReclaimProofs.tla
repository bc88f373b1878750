------------------------ MODULE OrphanReclaimProofs ------------------------
(***************************************************************************)
(* An inode that lost its last name stays on an orphan chain that can be   *)
(* walked, and a reclaim capability takes apart the lifetime it was given  *)
(* for and no other, for every set of inodes and after any operations,     *)
(* failed commits, interrupted reclaims and crashes.                       *)
(***************************************************************************)
EXTENDS OrphanReclaim, FiniteSetTheorems, FunctionTheorems, SequenceTheorems,
        WellFoundedInduction, TLAPS

-----------------------------------------------------------------------------
(* Facts about naturals *)

\* Induction over the naturals, for a set.
LEMMA SetInduction ==
    ASSUME NEW S, 0 \in S, \A n \in Nat : n \in S => n + 1 \in S
    PROVE  \A n \in Nat : n \in S
  <1> DEFINE R == OpToRel(<, Nat)
             B == Nat \ S
  <1>1. IsWellFoundedOn(R, Nat)
    BY NatLessThanWellFounded
  <1>2. \A x, y \in Nat : y < x => <<y, x>> \in R
    BY DEF OpToRel
  <1> HIDE DEF R
  <1> SUFFICES ASSUME B # {} PROVE FALSE
    OBVIOUS
  <1>3. B \subseteq Nat
    OBVIOUS
  <1>4. PICK x \in B : \A y \in B : ~(<<y, x>> \in R)
    <2> HIDE DEF B
    <2> QED
      BY <1>1, <1>3, WFMin
  <1>5. x \in Nat /\ x # 0
    OBVIOUS
  <1>6. x - 1 \in Nat /\ x - 1 < x /\ (x - 1) + 1 = x
    BY <1>5
  <1>7. x - 1 \notin B
    BY <1>2, <1>4, <1>5, <1>6
  <1> QED
    BY <1>6, <1>7

LEMMA MinMember ==
    ASSUME NEW S, S \subseteq Nat, S # {}
    PROVE  Min(S) \in S /\ \A y \in S : Min(S) <= y
  <1> DEFINE R == OpToRel(<, Nat)
  <1>1. IsWellFoundedOn(R, Nat)
    BY NatLessThanWellFounded
  <1>2. \A x, y \in Nat : y < x => <<y, x>> \in R
    BY DEF OpToRel
  <1> HIDE DEF R
  <1>3. PICK x \in S : \A y \in S : ~(<<y, x>> \in R)
    BY <1>1, WFMin
  <1>4. ASSUME NEW y \in S PROVE x <= y
    <2>1. x \in Nat /\ y \in Nat /\ ~(y < x)
      BY <1>2, <1>3, <1>4
    <2> QED
      BY <2>1
  <1> QED
    BY <1>3, <1>4 DEF Min

-----------------------------------------------------------------------------
(* The orphan chain as a list *)

\* The k-th member, or 0 behind the last.
At(s, k) == IF k \in 1 .. Len(s) THEN s[k] ELSE 0

\* The walk from the head meets the members of s, allocated and each once.
IsChain(d, s) ==
    /\ s \in Seq(Inodes)
    /\ d.head = At(s, 1)
    /\ \A k \in 1 .. Len(s) : d.inode[s[k]].used /\ d.inode[s[k]].next = At(s, k + 1)
    /\ \A j, k \in 1 .. Len(s) : s[j] = s[k] => j = k

\* f is the walk that Link describes.
Walk(d, f) ==
    f = [k \in 0 .. Cardinality(Inodes) |->
            LET pred == f[k - 1]
            IN  IF k = 0 THEN d.head ELSE IF pred = 0 THEN 0 ELSE d.inode[pred].next]

LEMMA NoInodeIsZero == 0 \notin Inodes /\ IsFiniteSet(Inodes) /\ Cardinality(Inodes) \in Nat
  BY ReclaimAssumption, FS_CardinalityType

LEMMA WalkStep ==
    ASSUME NEW d, NEW f, Walk(d, f)
    PROVE  /\ DOMAIN f = 0 .. Cardinality(Inodes)
           /\ f[0] = d.head
           /\ \A k \in 1 .. Cardinality(Inodes) :
                  f[k] = IF f[k - 1] = 0 THEN 0 ELSE d.inode[f[k - 1]].next
  <1>1. Cardinality(Inodes) \in Nat
    BY NoInodeIsZero
  <1>2. /\ DOMAIN f = 0 .. Cardinality(Inodes)
        /\ \A k \in 0 .. Cardinality(Inodes) :
               f[k] = IF k = 0 THEN d.head
                      ELSE IF f[k - 1] = 0 THEN 0 ELSE d.inode[f[k - 1]].next
    BY DEF Walk
  <1>3. 0 \in 0 .. Cardinality(Inodes)
    BY <1>1
  <1>4. \A k \in 1 .. Cardinality(Inodes) : k \in 0 .. Cardinality(Inodes) /\ k # 0
    BY <1>1
  <1> QED
    BY <1>2, <1>3, <1>4

\* Two walks agree.
LEMMA WalkUnique ==
    ASSUME NEW d, NEW f, NEW g, Walk(d, f), Walk(d, g)
    PROVE  f = g
  <1> DEFINE S == {k \in Nat : k <= Cardinality(Inodes) => f[k] = g[k]}
  <1>0. Cardinality(Inodes) \in Nat
    BY NoInodeIsZero
  <1>1. 0 \in S
    BY WalkStep
  <1>2. ASSUME NEW n \in Nat, n \in S PROVE n + 1 \in S
    <2>1. CASE n + 1 <= Cardinality(Inodes)
      <3>1. n + 1 \in 1 .. Cardinality(Inodes) /\ (n + 1) - 1 = n /\ n <= Cardinality(Inodes)
        BY <1>0, <2>1
      <3>2. f[n] = g[n]
        BY <1>2, <3>1
      <3>3. f[n + 1] = IF f[n] = 0 THEN 0 ELSE d.inode[f[n]].next
        BY <3>1, WalkStep
      <3>4. g[n + 1] = IF g[n] = 0 THEN 0 ELSE d.inode[g[n]].next
        BY <3>1, WalkStep
      <3> QED
        BY <3>2, <3>3, <3>4
    <2> QED
      BY <2>1
  <1> HIDE DEF S
  <1>3. \A n \in Nat : n \in S
    BY <1>1, <1>2, SetInduction
  <1>4. \A k \in 0 .. Cardinality(Inodes) : f[k] = g[k]
    BY <1>0, <1>3 DEF S
  <1>5. /\ DOMAIN f = 0 .. Cardinality(Inodes) /\ DOMAIN g = 0 .. Cardinality(Inodes)
        /\ f = [k \in DOMAIN f |-> f[k]] /\ g = [k \in DOMAIN g |-> g[k]]
    BY DEF Walk
  <1> QED
    BY <1>4, <1>5

LEMMA LinkIsWalk ==
    ASSUME NEW d, NEW f, Walk(d, f)
    PROVE  Link(d) = f
  <1> DEFINE P(u) == u = [k \in 0 .. Cardinality(Inodes) |->
                            LET pred == u[k - 1]
                            IN  IF k = 0 THEN d.head ELSE IF pred = 0 THEN 0 ELSE d.inode[pred].next]
             w == CHOOSE u : P(u)
  <1>1. P(f)
    BY DEF Walk
  <1>2. P(w)
    BY <1>1
  <1>3. Walk(d, w)
    BY <1>2 DEF Walk
  <1>4. Link(d) = w
    BY DEF Link
  <1> HIDE DEF w
  <1> QED
    BY <1>3, <1>4, WalkUnique

LEMMA ShortChain ==
    ASSUME NEW d, NEW s, IsChain(d, s)
    PROVE  Len(s) \in Nat /\ Len(s) <= Cardinality(Inodes)
  <1>1. s \in Seq(Inodes) /\ Len(s) \in Nat /\ s \in [1 .. Len(s) -> Inodes]
    BY DEF IsChain
  <1>2. s \in Injection(1 .. Len(s), Inodes)
    BY <1>1 DEF IsChain, Injection, IsInjective
  <1>3. Cardinality(1 .. Len(s)) <= Cardinality(Inodes)
    BY <1>2, NoInodeIsZero, FS_Injection
  <1>4. Cardinality(1 .. Len(s)) = Len(s)
    BY <1>1, FS_Interval
  <1> QED
    BY <1>1, <1>3, <1>4

\* The walk along a list.
LEMMA ChainIsWalk ==
    ASSUME NEW d, NEW s, IsChain(d, s)
    PROVE  Walk(d, [k \in 0 .. Cardinality(Inodes) |-> At(s, k + 1)])
  <1> DEFINE N == Cardinality(Inodes)
             f == [k \in 0 .. N |-> At(s, k + 1)]
             Succ(k) == IF k = 0 THEN d.head
                        ELSE IF f[k - 1] = 0 THEN 0 ELSE d.inode[f[k - 1]].next
  <1>1. N \in Nat /\ Len(s) \in Nat /\ s \in Seq(Inodes) /\ 0 \notin Inodes
    BY NoInodeIsZero, ShortChain DEF IsChain
  <1>2. ASSUME NEW k \in 0 .. N PROVE f[k] = Succ(k)
    <2>1. CASE k = 0
      BY <2>1, <1>1 DEF IsChain
    <2>2. CASE k # 0
      <3>1. k - 1 \in 0 .. N /\ (k - 1) + 1 = k /\ k \in Nat /\ k >= 1
        BY <1>1, <2>2
      <3>2. f[k - 1] = At(s, k) /\ f[k] = At(s, k + 1)
        BY <3>1
      <3>3. CASE k <= Len(s)
        <4>1. k \in 1 .. Len(s) /\ At(s, k) = s[k]
          BY <1>1, <3>1, <3>3 DEF At
        <4>2. s[k] # 0 /\ d.inode[s[k]].next = At(s, k + 1)
          BY <1>1, <4>1 DEF IsChain
        <4> QED
          BY <2>2, <3>2, <4>1, <4>2
      <3>4. CASE ~(k <= Len(s))
        <4>1. k \notin 1 .. Len(s) /\ k + 1 \notin 1 .. Len(s)
          BY <1>1, <3>1, <3>4
        <4> QED
          BY <2>2, <3>2, <4>1 DEF At
      <3> QED
        BY <3>3, <3>4
    <2> QED
      BY <2>1, <2>2
  <1>3. f = [k \in 0 .. N |-> Succ(k)]
    BY <1>2
  <1> QED
    BY <1>3 DEF Walk

\* validate_chain finds the list.
LEMMA ChainIsFound ==
    ASSUME NEW d, NEW s, IsChain(d, s)
    PROVE  validate_chain(d) = [ok |-> TRUE, inodes |-> s]
  <1> DEFINE N == Cardinality(Inodes)
             f == [k \in 0 .. N |-> At(s, k + 1)]
             ends == {k \in DOMAIN f : f[k] = 0}
  <1>1. /\ N \in Nat /\ Len(s) \in Nat /\ s \in Seq(Inodes) /\ 0 \notin Inodes
        /\ Len(s) <= N
    BY NoInodeIsZero, ShortChain DEF IsChain
  <1>2. Link(d) = f
    BY ChainIsWalk, LinkIsWalk
  <1>3. \A k \in 0 .. (Len(s) - 1) : f[k] = s[k + 1] /\ f[k] # 0 /\ k \in 0 .. N
    <2> TAKE k \in 0 .. (Len(s) - 1)
    <2>1. k \in 0 .. N /\ k + 1 \in 1 .. Len(s)
      BY <1>1
    <2>2. f[k] = s[k + 1] /\ s[k + 1] \in Inodes
      BY <1>1, <2>1 DEF At
    <2> QED
      BY <1>1, <2>1, <2>2
  <1>4. Len(s) \in 0 .. N /\ f[Len(s)] = 0
    BY <1>1 DEF At
  <1>5. Len(s) \in ends /\ ends \subseteq Nat /\ \A k \in ends : k >= Len(s)
    <2>1. \A k \in ends : k \in 0 .. N /\ f[k] = 0
      OBVIOUS
    <2>2. ASSUME NEW k \in ends PROVE k \in Nat /\ k >= Len(s)
      <3>1. k \in Nat /\ f[k] = 0
        BY <1>1, <2>1
      <3> HIDE DEF f
      <3>2. k \notin 0 .. (Len(s) - 1)
        BY <1>3, <3>1
      <3> QED
        BY <1>1, <3>1, <3>2
    <2> QED
      BY <1>4, <2>2
  <1>6. Min(ends) = Len(s)
    <2> HIDE DEF ends
    <2>1. Min(ends) \in ends /\ Min(ends) <= Len(s)
      BY <1>5, MinMember
    <2>2. Min(ends) \in Nat /\ Min(ends) >= Len(s)
      BY <1>5, <2>1
    <2> QED
      BY <1>1, <2>1, <2>2
  <1>7. \A k \in 0 .. (Len(s) - 1) : d.inode[f[k]].used
    <2> TAKE k \in 0 .. (Len(s) - 1)
    <2>1. k + 1 \in 1 .. Len(s)
      BY <1>1
    <2> QED
      BY <1>3, <2>1 DEF IsChain
  <1>8. [k \in 1 .. Len(s) |-> f[k - 1]] = s
    <2>1. \A k \in 1 .. Len(s) : k - 1 \in 0 .. (Len(s) - 1) /\ (k - 1) + 1 = k
      BY <1>1
    <2>2. \A k \in 1 .. Len(s) : f[k - 1] = s[k]
      <3> HIDE DEF f
      <3> QED
        BY <1>3, <2>1
    <2>3. s = [k \in 1 .. Len(s) |-> s[k]]
      BY <1>1
    <2> HIDE DEF f
    <2> QED
      BY <2>2, <2>3
  <1>9. ends # {}
    BY <1>5
  <1> HIDE DEF f
  <1>10. validate_chain(d) = [ok |-> \A k \in 0 .. (Len(s) - 1) : d.inode[f[k]].used,
                              inodes |-> [k \in 1 .. Len(s) |-> f[k - 1]]]
    BY <1>2, <1>6, <1>9 DEF validate_chain
  <1> QED
    BY <1>7, <1>8, <1>10

\* Every disk has a walk.
LEMMA WalkExists ==
    ASSUME NEW d
    PROVE  \E f : Walk(d, f)
  <1> DEFINE N == Cardinality(Inodes)
             Succ(f, k) == IF k = 0 THEN d.head
                           ELSE IF f[k - 1] = 0 THEN 0 ELSE d.inode[f[k - 1]].next
             Upto(f, n) == f = [k \in 0 .. n |-> Succ(f, k)]
             S == {n \in Nat : \E f : Upto(f, n)}
  <1>0. N \in Nat
    BY NoInodeIsZero
  <1>1. 0 \in S
    <2> DEFINE f == [k \in 0 .. 0 |-> d.head]
    <2>1. f = [k \in 0 .. 0 |-> Succ(f, k)]
      OBVIOUS
    <2> QED
      BY <2>1
  <1>2. ASSUME NEW n \in Nat, n \in S PROVE n + 1 \in S
    <2>1. PICK f : f = [k \in 0 .. n |-> Succ(f, k)]
      BY <1>2
    <2>2. \A k \in 0 .. n : f[k] = Succ(f, k)
      BY <2>1
    <2> DEFINE top == IF f[n] = 0 THEN 0 ELSE d.inode[f[n]].next
               g == [k \in 0 .. n + 1 |-> IF k = n + 1 THEN top ELSE f[k]]
    <2>3. ASSUME NEW k \in 0 .. n + 1 PROVE g[k] = Succ(g, k)
      <3>1. CASE k = n + 1
        <4>1. k - 1 = n /\ k # 0 /\ n \in 0 .. n + 1 /\ n # n + 1
          BY <3>1
        <4>2. g[k - 1] = f[n] /\ g[k] = top
          BY <3>1, <4>1
        <4> QED
          BY <4>1, <4>2
      <3>2. CASE k # n + 1
        <4>1. k \in 0 .. n /\ g[k] = f[k]
          BY <3>2
        <4>2. CASE k = 0
          BY <2>2, <4>1, <4>2
        <4>3. CASE k # 0
          <5>1. k - 1 \in 0 .. n + 1 /\ k - 1 # n + 1
            BY <4>1, <4>3
          <5>2. g[k - 1] = f[k - 1]
            BY <5>1
          <5> QED
            BY <2>2, <4>1, <4>3, <5>2
        <4> QED
          BY <4>2, <4>3
      <3> QED
        BY <3>1, <3>2
    <2>4. Upto(g, n + 1)
      BY <2>3
    <2> HIDE DEF g, Upto
    <2> QED
      BY <2>4
  <1> HIDE DEF S
  <1>3. N \in S
    BY <1>0, <1>1, <1>2, SetInduction
  <1>4. PICK f : f = [k \in 0 .. N |-> Succ(f, k)]
    BY <1>3 DEF S
  <1> QED
    BY <1>4 DEF Walk

\* A walk that comes to an inode again goes on as before.
LEMMA WalkRepeats ==
    ASSUME NEW d, NEW f, Walk(d, f), NEW a \in Nat, NEW b \in Nat, a < b, f[a] = f[b]
    PROVE  \A m \in Nat : b + m <= Cardinality(Inodes) => f[a + m] = f[b + m]
  <1> DEFINE S == {m \in Nat : b + m <= Cardinality(Inodes) => f[a + m] = f[b + m]}
  <1>0. Cardinality(Inodes) \in Nat
    BY NoInodeIsZero
  <1>1. 0 \in S
    OBVIOUS
  <1>2. ASSUME NEW m \in Nat, m \in S PROVE m + 1 \in S
    <2>1. CASE b + (m + 1) <= Cardinality(Inodes)
      <3>1. /\ a + (m + 1) \in 1 .. Cardinality(Inodes) /\ b + (m + 1) \in 1 .. Cardinality(Inodes)
            /\ (a + (m + 1)) - 1 = a + m /\ (b + (m + 1)) - 1 = b + m
            /\ b + m <= Cardinality(Inodes)
        BY <1>0, <2>1
      <3>2. f[a + m] = f[b + m]
        BY <1>2, <3>1
      <3>3. f[a + (m + 1)] = IF f[a + m] = 0 THEN 0 ELSE d.inode[f[a + m]].next
        BY <3>1, WalkStep
      <3>4. f[b + (m + 1)] = IF f[b + m] = 0 THEN 0 ELSE d.inode[f[b + m]].next
        BY <3>1, WalkStep
      <3> QED
        BY <3>2, <3>3, <3>4
    <2> QED
      BY <2>1
  <1> HIDE DEF S
  <1>3. \A m \in Nat : m \in S
    BY <1>1, <1>2, SetInduction
  <1> QED
    BY <1>3 DEF S

\* Conversely, what validate_chain accepts is a list: a walk of at most inode_count
\* links that ends has met no inode twice.
LEMMA AcceptedIsChain ==
    ASSUME NEW d, validate_chain(d).ok = TRUE,
           d.head \in Inodes \union {0}, \A i \in Inodes : d.inode[i].next \in Inodes \union {0}
    PROVE  IsChain(d, validate_chain(d).inodes)
  <1> DEFINE N == Cardinality(Inodes)
  <1>1. PICK f : Walk(d, f)
    BY WalkExists
  <1> DEFINE ends == {k \in DOMAIN f : f[k] = 0}
             len == Min(ends)
             s == [k \in 1 .. len |-> f[k - 1]]
  <1>2. N \in Nat /\ 0 \notin Inodes
    BY NoInodeIsZero
  <1>3. /\ DOMAIN f = 0 .. N /\ f[0] = d.head
        /\ \A k \in 1 .. N : f[k] = IF f[k - 1] = 0 THEN 0 ELSE d.inode[f[k - 1]].next
    BY <1>1, WalkStep
  <1>4. Link(d) = f
    BY <1>1, LinkIsWalk
  <1>5. validate_chain(d) = IF ends = {} THEN [ok |-> FALSE, inodes |-> <<>>]
                            ELSE [ok     |-> \A k \in 0 .. (len - 1) : d.inode[f[k]].used,
                                  inodes |-> s]
    BY <1>4 DEF validate_chain
  <1>6. ends # {} /\ ends \subseteq Nat
    <2>1. ends \subseteq Nat
      BY <1>2, <1>3
    <2>2. ends # {}
      <3> HIDE DEF ends, s, len
      <3> QED
        BY <1>5
    <2> QED
      BY <2>1, <2>2
  <1>7. len \in ends /\ \A y \in ends : len <= y
    <2> HIDE DEF ends
    <2> QED
      BY <1>6, MinMember
  <1>8. len \in 0 .. N /\ f[len] = 0
    BY <1>3, <1>7
  <1>9. \A k \in 0 .. (len - 1) : k \in 0 .. N /\ f[k] # 0
    <2> TAKE k \in 0 .. (len - 1)
    <2>1. k \in 0 .. N /\ k \in Nat /\ k < len
      BY <1>2, <1>8
    <2>2. k \notin ends
      <3> HIDE DEF ends
      <3> QED
        BY <1>2, <1>7, <1>8, <2>1
    <2> QED
      BY <1>3, <2>1, <2>2
  <1>10. validate_chain(d).inodes = s /\ \A k \in 0 .. (len - 1) : d.inode[f[k]].used
    <2> HIDE DEF ends, s, len
    <2> QED
      BY <1>5, <1>6
  <1> HIDE DEF len, ends
  <1>11. ASSUME NEW k \in 0 .. (len - 1) PROVE f[k] \in Inodes
    <2>1. CASE k = 0
      BY <1>3, <1>9, <2>1
    <2>2. CASE k # 0
      <3>1. k \in 1 .. N /\ k - 1 \in 0 .. (len - 1)
        BY <1>2, <1>8, <2>2
      <3>2. f[k] = IF f[k - 1] = 0 THEN 0 ELSE d.inode[f[k - 1]].next
        BY <1>3, <3>1
      <3>3. f[k] # 0 /\ f[k - 1] # 0
        BY <1>9, <3>1
      <3>4. CASE f[k - 1] \in Inodes
        BY <3>2, <3>3, <3>4
      <3> DEFINE S == {m \in Nat : m <= len - 1 => f[m] \in Inodes}
      <3>5. 0 \in S
        <4>1. f[0] # 0
          BY <1>8, <1>9, <3>1
        <4> QED
          BY <1>3, <4>1
      <3>6. ASSUME NEW m \in Nat, m \in S PROVE m + 1 \in S
        <4>1. CASE m + 1 <= len - 1
          <5>1. m + 1 \in 1 .. N /\ (m + 1) - 1 = m /\ m + 1 \in 0 .. (len - 1) /\ m <= len - 1
            BY <1>2, <1>8, <4>1
          <5>2. f[m] \in Inodes /\ f[m + 1] # 0
            BY <1>9, <3>6, <5>1
          <5>3. f[m + 1] = IF f[m] = 0 THEN 0 ELSE d.inode[f[m]].next
            BY <1>3, <5>1
          <5> QED
            BY <1>2, <5>2, <5>3
        <4> QED
          BY <4>1
      <3> HIDE DEF S
      <3>7. k \in S
        BY <3>5, <3>6, SetInduction
      <3> QED
        BY <1>8, <3>7 DEF S
    <2> QED
      BY <2>1, <2>2
  <1>12. s \in Seq(Inodes) /\ Len(s) = len /\ len \in Nat /\ len <= N
    <2>1. \A k \in 1 .. len : k - 1 \in 0 .. (len - 1)
      BY <1>8
    <2>2. \A k \in 1 .. len : f[k - 1] \in Inodes
      BY <1>11, <2>1
    <2>3. len \in Nat /\ len <= N
      BY <1>2, <1>8
    <2>4. s \in [1 .. len -> Inodes]
      BY <2>2
    <2> HIDE DEF s
    <2> QED
      BY <2>3, <2>4, SeqDef, LenProperties
  <1>13. \A k \in 1 .. len : s[k] = f[k - 1]
    OBVIOUS
  <1> HIDE DEF s
  <1>14. \A k \in 0 .. len : At(s, k + 1) = f[k]
    <2> TAKE k \in 0 .. len
    <2>1. CASE k = len
      <3>1. k + 1 \notin 1 .. Len(s)
        BY <1>12, <2>1
      <3> QED
        BY <1>8, <2>1, <3>1 DEF At
    <2>2. CASE k # len
      <3>1. k + 1 \in 1 .. Len(s) /\ (k + 1) - 1 = k
        BY <1>12, <2>2
      <3> QED
        BY <1>12, <1>13, <3>1 DEF At
    <2> QED
      BY <2>1, <2>2
  <1>15. d.head = At(s, 1)
    BY <1>3, <1>12, <1>14
  <1>16. ASSUME NEW k \in 1 .. Len(s)
         PROVE  d.inode[s[k]].used /\ d.inode[s[k]].next = At(s, k + 1)
    <2>1. k \in 1 .. N /\ k \in 0 .. len /\ k - 1 \in 0 .. (len - 1) /\ s[k] = f[k - 1]
      BY <1>2, <1>12, <1>13
    <2>2. f[k] = d.inode[f[k - 1]].next
      BY <1>3, <1>9, <2>1
    <2> QED
      BY <1>10, <1>14, <2>1, <2>2
  <1>17. ASSUME NEW a \in 1 .. Len(s), NEW b \in 1 .. Len(s), s[a] = s[b], a < b
         PROVE  FALSE
    <2> DEFINE m == len - (b - 1)
    <2>1. /\ a - 1 \in Nat /\ b - 1 \in Nat /\ a - 1 < b - 1 /\ m \in Nat
          /\ (b - 1) + m = len /\ (b - 1) + m <= Cardinality(Inodes)
          /\ (a - 1) + m \in 0 .. (len - 1)
      BY <1>2, <1>12, <1>17
    <2>2. f[a - 1] = f[b - 1]
      BY <1>12, <1>13, <1>17
    <2> HIDE DEF m
    <2>3. f[(a - 1) + m] = f[(b - 1) + m]
      <3> DEFINE x == a - 1
                 y == b - 1
      <3>1. x \in Nat /\ y \in Nat /\ x < y /\ f[x] = f[y] /\ y + m <= Cardinality(Inodes) /\ m \in Nat
        BY <2>1, <2>2
      <3> HIDE DEF x, y
      <3>2. f[x + m] = f[y + m]
        BY <1>1, <3>1, WalkRepeats
      <3> QED
        BY <3>2 DEF x, y
    <2> QED
      BY <1>8, <1>9, <2>1, <2>3
  <1>18. \A a, b \in 1 .. Len(s) : s[a] = s[b] => a = b
    <2> TAKE a \in 1 .. Len(s), b \in 1 .. Len(s)
    <2>1. a \in Int /\ b \in Int
      BY <1>12
    <2>2. CASE a < b
      BY <1>17, <2>2
    <2>3. CASE b < a
      BY <1>17, <2>3
    <2> QED
      BY <2>1, <2>2, <2>3
  <1> QED
    BY <1>10, <1>12, <1>15, <1>16, <1>18 DEF IsChain

-----------------------------------------------------------------------------
(* What transactions do to names, generations and the chain *)

DiskFields == {"inode", "head", "bitmap", "refs", "odd", "ok"}

InodeFields == {"used", "links", "gen", "next", "size", "leaves", "xattr", "iblocks",
                "named", "excess"}

RecordOK(r) ==
    /\ DOMAIN r = InodeFields
    /\ r.used \in BOOLEAN /\ r.named \in BOOLEAN
    /\ r.links \in Nat /\ r.gen \in 0 .. (GenMod - 1)

Shape(d) ==
    /\ DOMAIN d = DiskFields /\ DOMAIN d.inode = Inodes
    /\ \A i \in Inodes : RecordOK(d.inode[i])

\* The fields of an inode that its names and lifetimes are about, without the chain.
Alike(r, q) == q.used = r.used /\ q.links = r.links /\ q.gen = r.gen /\ q.named = r.named

\* A transaction that is about contents only.
Same(d, e) ==
    /\ Shape(e) /\ e.head = d.head
    /\ \A j \in Inodes : Alike(d.inode[j], e.inode[j]) /\ e.inode[j].next = d.inode[j].next

LEMMA SameItself ==
    ASSUME NEW d, Shape(d)
    PROVE  Same(d, d)
  BY DEF Same, Alike

LEMMA SameTrans ==
    ASSUME NEW d, NEW e, NEW f, Same(d, e), Same(e, f)
    PROVE  Same(d, f)
  BY DEF Same, Alike

\* Changing what is not the inode table or the head.
LEMMA SameTable ==
    ASSUME NEW d, NEW e, Shape(d), DOMAIN e = DiskFields, e.inode = d.inode, e.head = d.head
    PROVE  Same(d, e)
  BY DEF Same, Alike, Shape

\* Replacing an inode by one of the same names and lifetime.
LEMMA SamePut ==
    ASSUME NEW d, NEW i \in Inodes, NEW r, Shape(d), RecordOK(r),
           Alike(d.inode[i], r), r.next = d.inode[i].next
    PROVE  Same(d, Put(d, i, r))
  <1> DEFINE e == Put(d, i, r)
  <1>1. DOMAIN e = DiskFields /\ e.head = d.head /\ DOMAIN e.inode = Inodes
    BY DEF Put, Shape, DiskFields
  <1>2. e.inode[i] = r /\ \A j \in Inodes \ {i} : e.inode[j] = d.inode[j]
    BY DEF Put, Shape, DiskFields
  <1> HIDE DEF e
  <1>3. Shape(e)
    BY <1>1, <1>2 DEF Shape
  <1> QED
    BY <1>1, <1>2, <1>3 DEF Same, Alike, e

LEMMA SameReject ==
    ASSUME NEW d, Shape(d)
    PROVE  Same(d, Reject(d)) /\ Reject(d).ok = FALSE
  <1>1. /\ DOMAIN Reject(d) = DiskFields /\ Reject(d).inode = d.inode
        /\ Reject(d).head = d.head /\ Reject(d).ok = FALSE
    BY DEF Shape, Reject, DiskFields
  <1> QED
    BY <1>1, SameTable

LEMMA SameDealloc ==
    ASSUME NEW d, NEW b, NEW n, Shape(d)
    PROVE  Same(d, transaction_dealloc_block_range(d, b, n))
  <1> DEFINE e == [d EXCEPT !.bitmap = @ \ (b .. (b + n - 1))]
  <1>1. DOMAIN e = DiskFields /\ e.inode = d.inode /\ e.head = d.head
    BY DEF Shape, DiskFields
  <1>2. Same(d, e)
    <2> HIDE DEF e
    <2> QED
      BY <1>1, SameTable
  <1>3. transaction_dealloc_block_range(d, b, n) \in {Reject(d), e}
    BY DEF transaction_dealloc_block_range
  <1> QED
    BY <1>2, <1>3, SameReject

\* One transaction of the extent loops.
LEMMA SameRemoveTail ==
    ASSUME NEW d, NEW i \in Inodes, NEW limit, Shape(d)
    PROVE  Same(d, RemoveTail(d, i, limit))
  <1> DEFINE r     == d.inode[i]
             tail  == extent_tail(r)
             n     == Min({limit, tail.n})
             r2    == extent_remove_tail(r, n)
             nodes == TreeBlocks(r) \ TreeBlocks(r2)
             d2    == transaction_dealloc_block_range(d, tail.p + tail.n - n, n)
             d3    == IF nodes = {} THEN d2
                      ELSE transaction_dealloc_block_range(d2, CHOOSE b \in nodes : TRUE, 1)
             q     == [r2 EXCEPT !.iblocks = @ - n - Cardinality(nodes)]
  <1>1. RecordOK(r)
    BY DEF Shape
  <1>2. \E leaves : r2 = [r EXCEPT !.leaves = leaves]
    BY DEF extent_remove_tail
  <1>3. RecordOK(q) /\ Alike(r, q) /\ q.next = r.next
    <2>1. PICK leaves : r2 = [r EXCEPT !.leaves = leaves]
      BY <1>2
    <2> HIDE DEF r, r2, nodes, n
    <2>2. /\ DOMAIN r2 = InodeFields /\ r2.used = r.used /\ r2.named = r.named
          /\ r2.links = r.links /\ r2.gen = r.gen /\ r2.next = r.next
      BY <1>1, <2>1 DEF RecordOK, InodeFields
    <2>3. /\ DOMAIN q = InodeFields /\ q.used = r.used /\ q.named = r.named
          /\ q.links = r.links /\ q.gen = r.gen /\ q.next = r.next
      BY <2>2 DEF InodeFields
    <2> HIDE DEF q
    <2> QED
      BY <1>1, <2>3 DEF RecordOK, Alike
  <1>4. Same(d, d3)
    <2>1. Same(d, d2)
      BY SameDealloc
    <2>2. Same(d2, d3)
      <3>1. Shape(d2)
        BY <2>1 DEF Same
      <3> HIDE DEF d2
      <3> QED
        BY <3>1, SameDealloc, SameItself
    <2> HIDE DEF d2, d3
    <2> QED
      BY <2>1, <2>2, SameTrans
  <1>5. Same(d3, Put(d3, i, q))
    <2> HIDE DEF d3, q
    <2>1. Shape(d3) /\ Alike(d3.inode[i], q) /\ q.next = d3.inode[i].next
      BY <1>3, <1>4 DEF Same, Alike
    <2> QED
      BY <1>3, <2>1, SamePut
  <1>6. RemoveTail(d, i, limit) \in {Reject(d), Put(d3, i, q)}
    BY DEF RemoveTail
  <1> HIDE DEF d3, q
  <1>7. Same(d, Put(d3, i, q)) /\ Same(d, Reject(d))
    BY <1>4, <1>5, SameTrans, SameReject
  <1> QED
    BY <1>6, <1>7

LEMMA SameReclaimExtents ==
    ASSUME NEW d, NEW i \in Inodes, Shape(d)
    PROVE  Same(d, ReclaimExtents(d, i))
  <1> DEFINE tail == extent_tail(d.inode[i])
             d2   == RemoveTail(d, i, extent_tail_batch_limit(tail.p, tail.n))
             size == Min({d.inode[i].size, Mapped(d2.inode[i])})
             q    == [d2.inode[i] EXCEPT !.size = size]
  <1>1. Same(d, d2)
    BY SameRemoveTail
  <1>2. ReclaimExtents(d, i) = [d2 EXCEPT !.inode[i].size = size]
    BY DEF ReclaimExtents
  <1> HIDE DEF d2, size
  <1>3. Shape(d2) /\ RecordOK(d2.inode[i])
    BY <1>1 DEF Same, Shape
  <1>4. ReclaimExtents(d, i) = Put(d2, i, q)
    BY <1>2, <1>3 DEF Put, Shape, DiskFields
  <1>5. RecordOK(q) /\ Alike(d2.inode[i], q) /\ q.next = d2.inode[i].next
    BY <1>3 DEF RecordOK, Alike, InodeFields
  <1> HIDE DEF q
  <1>6. Same(d2, Put(d2, i, q))
    BY <1>3, <1>5, SamePut
  <1> QED
    BY <1>1, <1>4, <1>6, SameTrans

LEMMA SameReleaseXattr ==
    ASSUME NEW d, NEW i \in Inodes, Shape(d)
    PROVE  Same(d, transaction_release_xattr(d, i))
  <1> DEFINE b  == d.inode[i].xattr
             d1 == [d EXCEPT !.refs[b] = @ - 1]
             q  == [d1.inode[i] EXCEPT !.xattr = 0]
             d2 == [d EXCEPT !.refs[b] = @ - 1, !.inode[i].xattr = 0]
  <1>1. Same(d, d1)
    <2>1. DOMAIN d1 = DiskFields /\ d1.inode = d.inode /\ d1.head = d.head
      BY DEF Shape, DiskFields
    <2> HIDE DEF d1
    <2> QED
      BY <2>1, SameTable
  <1>2. d2 = Put(d1, i, q)
    BY DEF Put, Shape, DiskFields
  <1>3. Same(d1, Put(d1, i, q))
    <2>1. Shape(d1) /\ RecordOK(d1.inode[i])
      BY <1>1 DEF Same, Shape
    <2> HIDE DEF d1
    <2>2. RecordOK(q) /\ Alike(d1.inode[i], q) /\ q.next = d1.inode[i].next
      BY <2>1 DEF RecordOK, Alike, InodeFields
    <2> HIDE DEF q
    <2> QED
      BY <2>1, <2>2, SamePut
  <1>4. Same(d, d2)
    <2> HIDE DEF d1, d2, q
    <2> QED
      BY <1>1, <1>2, <1>3, SameTrans
  <1>5. transaction_release_xattr(d, i)
            \in {Reject(d), d2, transaction_dealloc_block_range(d2, b, 1)}
    BY DEF transaction_release_xattr
  <1> HIDE DEF d2
  <1>6. Same(d2, transaction_dealloc_block_range(d2, b, 1))
    BY <1>4, SameDealloc DEF Same
  <1>7. Same(d, transaction_dealloc_block_range(d2, b, 1)) /\ Same(d, Reject(d))
    BY <1>4, <1>6, SameTrans, SameReject
  <1> QED
    BY <1>4, <1>5, <1>7

-----------------------------------------------------------------------------
(* Adding to the chain and removing from it *)

\* What happens elsewhere does not matter to the chain.
LEMMA ChainFrame ==
    ASSUME NEW d, NEW e, NEW s, IsChain(d, s), e.head = d.head,
           \A k \in 1 .. Len(s) : /\ e.inode[s[k]].used = d.inode[s[k]].used
                                  /\ e.inode[s[k]].next = d.inode[s[k]].next
    PROVE  IsChain(e, s)
  BY DEF IsChain

LEMMA ChainSame ==
    ASSUME NEW d, NEW e, NEW s, IsChain(d, s), Same(d, e)
    PROVE  IsChain(e, s)
  <1>1. \A k \in 1 .. Len(s) : s[k] \in Inodes
    BY DEF IsChain
  <1> QED
    BY <1>1, ChainFrame DEF Same, Alike

\* i is put in front of s.
Before(i, s) == [k \in 1 .. Len(s) + 1 |-> IF k = 1 THEN i ELSE s[k - 1]]

LEMMA BeforeSeq ==
    ASSUME NEW i \in Inodes, NEW s \in Seq(Inodes)
    PROVE  /\ Before(i, s) \in Seq(Inodes) /\ Len(Before(i, s)) = Len(s) + 1
           /\ ToSet(Before(i, s)) = ToSet(s) \union {i}
  <1>1. Len(s) \in Nat /\ s \in [1 .. Len(s) -> Inodes] /\ DOMAIN s = 1 .. Len(s)
    OBVIOUS
  <1> DEFINE u == Before(i, s)
  <1>2. u \in [1 .. Len(s) + 1 -> Inodes]
    BY <1>1 DEF Before
  <1>3. u[1] = i /\ \A k \in 1 .. Len(s) : u[k + 1] = s[k] /\ k + 1 \in 1 .. Len(s) + 1
    BY <1>1 DEF Before
  <1>4. \A k \in 1 .. Len(s) + 1 : k # 1 => k - 1 \in 1 .. Len(s) /\ u[k] = s[k - 1]
    BY <1>1 DEF Before
  <1> HIDE DEF u
  <1>5. u \in Seq(Inodes) /\ Len(u) = Len(s) + 1 /\ DOMAIN u = 1 .. Len(s) + 1
    BY <1>1, <1>2, SeqDef, LenProperties
  <1>6. ToSet(u) \subseteq ToSet(s) \union {i}
    <2> SUFFICES ASSUME NEW k \in 1 .. Len(s) + 1 PROVE u[k] \in ToSet(s) \union {i}
      BY <1>5 DEF ToSet
    <2>1. CASE k = 1
      BY <1>3, <2>1
    <2>2. CASE k # 1
      <3>1. k - 1 \in DOMAIN s /\ u[k] = s[k - 1]
        BY <1>1, <1>4, <2>2
      <3> QED
        BY <3>1 DEF ToSet
    <2> QED
      BY <2>1, <2>2
  <1>7. ToSet(s) \union {i} \subseteq ToSet(u)
    <2>1. 1 \in 1 .. Len(s) + 1
      BY <1>1
    <2> QED
      BY <1>1, <1>3, <1>5, <2>1 DEF ToSet
  <1> QED
    BY <1>5, <1>6, <1>7 DEF u

\* transaction_orphan_add puts the inode in front.
LEMMA AddChain ==
    ASSUME NEW d, NEW i \in Inodes, NEW s, Shape(d), IsChain(d, s), i \notin ToSet(s),
           d.inode[i].used = TRUE, d.inode[i].links = 0, d.head # i
    PROVE  LET e == transaction_orphan_add(d, i)
           IN  /\ Shape(e) /\ IsChain(e, Before(i, s)) /\ e.ok = d.ok
               /\ \A j \in Inodes : Alike(d.inode[j], e.inode[j])
  <1> DEFINE r == [d.inode[i] EXCEPT !.next = d.head]
             e == [Put(d, i, r) EXCEPT !.head = i]
             u == Before(i, s)
  <1>1. transaction_orphan_add(d, i) = e
    BY DEF transaction_orphan_add
  <1>2. RecordOK(r) /\ Alike(d.inode[i], r) /\ r.next = d.head
    BY DEF Shape, RecordOK, Alike, InodeFields
  <1> HIDE DEF r
  <1>3. /\ DOMAIN e = DiskFields /\ DOMAIN e.inode = Inodes /\ e.head = i /\ e.ok = d.ok
        /\ e.inode[i] = r /\ \A j \in Inodes \ {i} : e.inode[j] = d.inode[j]
    BY DEF Put, Shape, DiskFields
  <1> HIDE DEF e
  <1>4. Shape(e) /\ \A j \in Inodes : Alike(d.inode[j], e.inode[j])
    BY <1>2, <1>3 DEF Shape, Alike
  <1>5. s \in Seq(Inodes) /\ Len(s) \in Nat /\ d.head = At(s, 1) /\ DOMAIN s = 1 .. Len(s)
    BY DEF IsChain
  <1>6. u \in Seq(Inodes) /\ Len(u) = Len(s) + 1
    BY <1>5, BeforeSeq
  <1>7. u[1] = i /\ \A k \in 2 .. Len(u) : u[k] = s[k - 1] /\ k - 1 \in 1 .. Len(s)
    BY <1>5, <1>6 DEF Before
  <1>8. \A k \in 1 .. Len(u) : At(u, k + 1) = At(s, k)
    BY <1>5, <1>6 DEF At, Before
  <1> HIDE DEF u
  <1>9. e.head = At(u, 1)
    BY <1>3, <1>5, <1>6, <1>7 DEF At
  <1>10. ASSUME NEW k \in 1 .. Len(u)
         PROVE  e.inode[u[k]].used /\ e.inode[u[k]].next = At(u, k + 1)
    <2>1. CASE k = 1
      BY <1>2, <1>3, <1>5, <1>7, <1>8, <2>1 DEF Alike
    <2>2. CASE k # 1
      <3>1. k \in 2 .. Len(u) /\ k - 1 \in 1 .. Len(s) /\ u[k] = s[k - 1] /\ (k - 1) + 1 = k
        BY <1>5, <1>6, <1>7, <2>2
      <3>2. s[k - 1] # i /\ s[k - 1] \in Inodes
        BY <1>5, <3>1 DEF ToSet
      <3>3. d.inode[s[k - 1]].used /\ d.inode[s[k - 1]].next = At(s, (k - 1) + 1)
        BY <3>1 DEF IsChain
      <3>4. At(u, k + 1) = At(s, k)
        BY <1>8
      <3> QED
        BY <1>3, <3>1, <3>2, <3>3, <3>4
    <2> QED
      BY <2>1, <2>2
  <1>11. ASSUME NEW a \in 1 .. Len(u), NEW b \in 1 .. Len(u), u[a] = u[b]
         PROVE  a = b
    <2>1. \A k \in 2 .. Len(u) : u[k] # i
      BY <1>5, <1>7 DEF ToSet
    <2>2. CASE a = 1 \/ b = 1
      BY <1>6, <1>7, <1>11, <2>1, <2>2
    <2>3. CASE ~(a = 1 \/ b = 1)
      <3>1. a \in 2 .. Len(u) /\ b \in 2 .. Len(u)
        BY <1>5, <1>6, <2>3
      <3>2. s[a - 1] = s[b - 1] /\ a - 1 \in 1 .. Len(s) /\ b - 1 \in 1 .. Len(s)
        BY <1>7, <1>11, <3>1
      <3>3. a - 1 = b - 1
        BY <3>2 DEF IsChain
      <3> QED
        BY <3>1, <3>3
    <2> QED
      BY <2>2, <2>3
  <1>12. IsChain(e, u)
    BY <1>6, <1>9, <1>10, <1>11 DEF IsChain
  <1> QED
    BY <1>1, <1>3, <1>4, <1>12 DEF u

\* s without its p-th member.
Without(s, p) == [k \in 1 .. Len(s) - 1 |-> IF k < p THEN s[k] ELSE s[k + 1]]

LEMMA WithoutSeq ==
    ASSUME NEW s \in Seq(Inodes), NEW p \in 1 .. Len(s),
           \A j, k \in 1 .. Len(s) : s[j] = s[k] => j = k
    PROVE  /\ Without(s, p) \in Seq(Inodes) /\ Len(Without(s, p)) = Len(s) - 1
           /\ ToSet(Without(s, p)) = ToSet(s) \ {s[p]}
           /\ \A k \in 1 .. Len(s) : At(Without(s, p), k) = At(s, IF k < p THEN k ELSE k + 1)
           /\ \A j, k \in 1 .. Len(s) - 1 : Without(s, p)[j] = Without(s, p)[k] => j = k
  <1>1. Len(s) \in Nat /\ s \in [1 .. Len(s) -> Inodes] /\ DOMAIN s = 1 .. Len(s)
    OBVIOUS
  <1> DEFINE u == Without(s, p)
             n == Len(s) - 1
             at(k) == IF k < p THEN k ELSE k + 1
  <1>2. n \in Nat /\ p \in Nat
    BY <1>1
  <1>3. \A k \in 1 .. n : u[k] = s[at(k)] /\ at(k) \in 1 .. Len(s) /\ at(k) # p
    BY <1>1 DEF Without
  <1>4. u \in [1 .. n -> Inodes]
    BY <1>1 DEF Without
  <1> HIDE DEF u
  <1>5. u \in Seq(Inodes) /\ Len(u) = n /\ DOMAIN u = 1 .. n
    BY <1>2, <1>4, SeqDef, LenProperties
  <1>6. ToSet(u) \subseteq ToSet(s) \ {s[p]}
    <2> SUFFICES ASSUME NEW k \in 1 .. n PROVE u[k] \in ToSet(s) /\ u[k] # s[p]
      BY <1>5 DEF ToSet
    <2> QED
      BY <1>1, <1>3 DEF ToSet
  <1>7. ToSet(s) \ {s[p]} \subseteq ToSet(u)
    <2> SUFFICES ASSUME NEW j \in 1 .. Len(s), s[j] # s[p] PROVE s[j] \in ToSet(u)
      BY <1>1 DEF ToSet
    <2>1. j # p
      OBVIOUS
    <2>2. CASE j < p
      <3>1. j \in 1 .. n /\ at(j) = j
        BY <1>1, <2>2
      <3> QED
        BY <1>3, <1>5, <3>1 DEF ToSet
    <2>3. CASE ~(j < p)
      <3>1. j - 1 \in 1 .. n /\ at(j - 1) = j
        BY <1>1, <2>1, <2>3
      <3>2. u[j - 1] = s[j] /\ j - 1 \in DOMAIN u
        BY <1>3, <1>5, <3>1
      <3> QED
        BY <3>2 DEF ToSet
    <2> QED
      BY <2>2, <2>3
  <1>8. ASSUME NEW k \in 1 .. Len(s) PROVE At(u, k) = At(s, at(k))
    <2>1. CASE k \in 1 .. n
      BY <1>3, <1>5, <2>1 DEF At
    <2>2. CASE k \notin 1 .. n
      <3>1. at(k) \notin 1 .. Len(s)
        BY <1>1, <2>2
      <3> QED
        BY <1>5, <2>2, <3>1 DEF At
    <2> QED
      BY <2>1, <2>2
  <1>9. ASSUME NEW j \in 1 .. n, NEW k \in 1 .. n, u[j] = u[k] PROVE j = k
    <2>1. s[at(j)] = s[at(k)] /\ at(j) \in 1 .. Len(s) /\ at(k) \in 1 .. Len(s)
      BY <1>3, <1>9
    <2>2. at(j) = at(k)
      BY <2>1
    <2> QED
      BY <1>2, <2>2
  <1> QED
    BY <1>5, <1>6, <1>7, <1>8, <1>9 DEF u

\* transaction_orphan_del takes out the inode, wherever it is on the chain.
LEMMA DelChain ==
    ASSUME NEW d, NEW s, NEW p \in 1 .. Len(s), Shape(d), IsChain(d, s)
    PROVE  LET e == transaction_orphan_del(d, s[p])
           IN  /\ Shape(e) /\ IsChain(e, Without(s, p)) /\ e.ok = d.ok
               /\ \A j \in Inodes : Alike(d.inode[j], e.inode[j])
  <1> DEFINE i == s[p]
             e == transaction_orphan_del(d, i)
             u == Without(s, p)
             chain == validate_chain(d).inodes
             pred == {chain[k] : k \in {k \in 1 .. (Len(chain) - 1) : chain[k + 1] = i}}
             q == CHOOSE q \in pred : TRUE
             e1 == [d EXCEPT !.head = d.inode[i].next]
             e2 == [d EXCEPT !.inode[q].next = d.inode[i].next]
  <1>1. /\ s \in Seq(Inodes) /\ Len(s) \in Nat /\ i \in Inodes /\ DOMAIN s = 1 .. Len(s)
        /\ d.head = At(s, 1) /\ p \in Nat
        /\ \A j, k \in 1 .. Len(s) : s[j] = s[k] => j = k
        /\ \A k \in 1 .. Len(s) : s[k] \in Inodes /\ d.inode[s[k]].used /\ d.inode[s[k]].next = At(s, k + 1)
    BY DEF IsChain
  <1>2. validate_chain(d) = [ok |-> TRUE, inodes |-> s]
    BY ChainIsFound
  <1>3. chain = s /\ legacy_orphan_contains(d, i)
    BY <1>1, <1>2 DEF legacy_orphan_contains, ToSet
  <1>4. e = IF d.head = i THEN e1 ELSE e2
    BY <1>3 DEF transaction_orphan_del
  <1> HIDE DEF e, chain
  <1>5. d.inode[i].next = At(s, p + 1)
    BY <1>1
  <1>6. /\ u \in Seq(Inodes) /\ Len(u) = Len(s) - 1
        /\ \A k \in 1 .. Len(s) : At(u, k) = At(s, IF k < p THEN k ELSE k + 1)
        /\ \A j, k \in 1 .. Len(s) - 1 : u[j] = u[k] => j = k
    BY <1>1, WithoutSeq
  <1>7. \A k \in 1 .. Len(s) - 1 : u[k] = IF k < p THEN s[k] ELSE s[k + 1]
    BY DEF Without
  <1> HIDE DEF u
  <1>8. d.head = s[1]
    BY <1>1 DEF At
  <1>9. CASE p = 1
    <2>1. d.head = i /\ e = e1
      BY <1>4, <1>8, <1>9
    <2>2. e.head = At(s, 2) /\ e.inode = d.inode /\ e.ok = d.ok /\ DOMAIN e = DiskFields
      BY <1>5, <1>9, <2>1 DEF Shape, DiskFields
    <2>3. e.head = At(u, 1)
      BY <1>1, <1>6, <1>9, <2>2
    <2>4. ASSUME NEW k \in 1 .. Len(u)
          PROVE  e.inode[u[k]].used /\ e.inode[u[k]].next = At(u, k + 1)
      <3>1. k \in 1 .. Len(s) - 1 /\ k + 1 \in 1 .. Len(s) /\ ~(k < p) /\ ~(k + 1 < p)
        BY <1>1, <1>6, <1>9
      <3>2. u[k] = s[k + 1] /\ At(u, k + 1) = At(s, (k + 1) + 1)
        BY <1>6, <1>7, <3>1
      <3> QED
        BY <1>1, <2>2, <3>1, <3>2
    <2>5. IsChain(e, u)
      BY <1>6, <2>3, <2>4 DEF IsChain
    <2>6. Shape(e)
      BY <2>2 DEF Shape
    <2> QED
      BY <2>2, <2>5, <2>6 DEF Alike, e, u
  <1>10. CASE p # 1
    <2>1. d.head # i /\ e = e2
      <3>1. 1 \in 1 .. Len(s)
        BY <1>1
      <3> QED
        BY <1>1, <1>4, <1>8, <1>10, <3>1
    <2>2. p - 1 \in 1 .. (Len(s) - 1) /\ (p - 1) + 1 = p /\ p - 1 \in 1 .. Len(s)
      BY <1>1, <1>10
    <2>3. pred = {s[p - 1]}
      <3>1. {k \in 1 .. (Len(s) - 1) : s[k + 1] = i} = {p - 1}
        <4>1. ASSUME NEW k \in 1 .. (Len(s) - 1), s[k + 1] = i PROVE k = p - 1
          <5>1. k + 1 \in 1 .. Len(s)
            BY <1>1
          <5>2. k + 1 = p
            BY <1>1, <4>1, <5>1
          <5> QED
            BY <1>1, <5>2
        <4> QED
          BY <2>2, <4>1
      <3> QED
        BY <1>3, <3>1
    <2>4. q = s[p - 1] /\ q \in Inodes
      <3> HIDE DEF pred
      <3>1. q \in pred
        BY <2>3
      <3> HIDE DEF q
      <3> QED
        BY <1>1, <2>2, <2>3, <3>1
    <2> HIDE DEF q, pred
    <2>5. /\ DOMAIN e = DiskFields /\ DOMAIN e.inode = Inodes /\ e.head = d.head /\ e.ok = d.ok
          /\ e.inode[q] = [d.inode[q] EXCEPT !.next = d.inode[i].next]
          /\ \A j \in Inodes \ {q} : e.inode[j] = d.inode[j]
      BY <2>1, <2>4 DEF Shape, DiskFields
    <2>6. RecordOK(e.inode[q]) /\ Alike(d.inode[q], e.inode[q]) /\ e.inode[q].next = At(s, p + 1)
      <3>1. RecordOK(d.inode[q])
        BY <2>4 DEF Shape
      <3> QED
        BY <1>5, <2>5, <3>1 DEF RecordOK, Alike, InodeFields
    <2>7. Shape(e) /\ \A j \in Inodes : Alike(d.inode[j], e.inode[j])
      BY <2>5, <2>6 DEF Shape, Alike
    <2>8. e.head = At(u, 1)
      <3>1. 1 \in 1 .. Len(s) /\ 1 < p
        BY <1>1, <1>10
      <3> QED
        BY <1>1, <1>6, <2>5, <3>1
    <2>9. ASSUME NEW k \in 1 .. Len(u)
          PROVE  e.inode[u[k]].used /\ e.inode[u[k]].next = At(u, k + 1)
      <3>1. k \in 1 .. Len(s) - 1 /\ k + 1 \in 1 .. Len(s) /\ k \in 1 .. Len(s)
        BY <1>1, <1>6
      <3>2. CASE k < p - 1
        <4>1. u[k] = s[k] /\ At(u, k + 1) = At(s, k + 1) /\ k # p - 1
          BY <1>1, <1>6, <1>7, <3>1, <3>2
        <4>2. s[k] # q
          BY <1>1, <2>2, <2>4, <3>1, <4>1
        <4> QED
          BY <1>1, <2>5, <3>1, <4>1, <4>2
      <3>3. CASE k = p - 1
        <4>1. u[k] = q /\ At(u, k + 1) = At(s, p + 1)
          BY <1>1, <1>6, <1>7, <2>2, <2>4, <3>1, <3>3
        <4>2. d.inode[q].used
          BY <1>1, <2>2, <2>4
        <4> QED
          BY <2>6, <4>1, <4>2 DEF Alike
      <3>4. CASE k > p - 1
        <4>1. u[k] = s[k + 1] /\ At(u, k + 1) = At(s, (k + 1) + 1) /\ k + 1 # p - 1
          BY <1>1, <1>6, <1>7, <3>1, <3>4
        <4>2. s[k + 1] # q
          BY <1>1, <2>2, <2>4, <3>1, <4>1
        <4> QED
          BY <1>1, <2>5, <3>1, <4>1, <4>2
      <3> QED
        BY <1>1, <3>1, <3>2, <3>3, <3>4
    <2>10. IsChain(e, u)
      BY <1>6, <2>8, <2>9 DEF IsChain
    <2> QED
      BY <2>5, <2>7, <2>10 DEF e, u
  <1> QED
    BY <1>9, <1>10

\* An inode that is not on the chain cannot be removed from it.
LEMMA DelMissing ==
    ASSUME NEW d, NEW s, NEW i, Shape(d), IsChain(d, s), i \notin ToSet(s)
    PROVE  transaction_orphan_del(d, i) = Reject(d)
  <1>1. validate_chain(d) = [ok |-> TRUE, inodes |-> s]
    BY ChainIsFound
  <1>2. ~legacy_orphan_contains(d, i)
    BY <1>1 DEF legacy_orphan_contains
  <1> QED
    BY <1>2 DEF transaction_orphan_del

-----------------------------------------------------------------------------
(* The inductive invariant *)

Chain(d) == validate_chain(d).inodes

\* The chain is a list and has every inode that lost its last name.
ChainOK(d) ==
    /\ Shape(d) /\ d.ok = TRUE
    /\ IsChain(d, Chain(d))
    /\ \A i \in Inodes : d.inode[i].named /\ d.inode[i].links = 0 => i \in ToSet(Chain(d))

\* No inode on the chain has a name.
Unnamed(d) == \A i \in ToSet(Chain(d)) : d.inode[i].links = 0

\* After n creations generation g has become c.
Ahead(g, c, n) == c = g + n \/ (n > 0 /\ c = g + n - (GenMod - 1))

\* No inode number is reused so often that its generation comes round.
FewCreations == MaxOps <= GenMod - 2

\* A capability of an earlier lifetime carries an earlier generation.
HandleOK(h, d, l) ==
    /\ h.ino \in Inodes /\ h.gen \in 0 .. (GenMod - 1)
    /\ h.life \in Nat /\ h.life <= l[h.ino]
    /\ FewCreations => Ahead(h.gen, d.inode[h.ino].gen, l[h.ino] - h.life)

JobOK ==
    /\ \/ job = NoJob
       \/ /\ DOMAIN job = {"kind", "handle", "step"}
          /\ job.kind \in {"evict", "cleanup", "truncate"} /\ job.handle.ino \in Inodes
    /\ job.kind = "truncate" => disk.inode[job.handle.ino].links # 0
    /\ job.kind = "evict" =>
           /\ HandleOK(job.handle, disk, life)
           /\ FewCreations => job.handle.life = life[job.handle.ino]

CreatingOK ==
    creating # 0 => /\ mode = "up" /\ job = NoJob
                    /\ creating \in Inodes /\ creating \notin ToSet(Chain(disk))

LifeOK ==
    /\ ops \in Nat /\ ops <= MaxOps
    /\ DOMAIN life = Inodes /\ \A i \in Inodes : life[i] \in Nat /\ life[i] <= ops

HandlesOK == \A h \in DOMAIN handles : HandleOK(h, disk, life)

IInv ==
    /\ ChainOK(disk) /\ (mode = "up" => Unnamed(disk))
    /\ JobOK /\ CreatingOK /\ LifeOK /\ HandlesOK

-----------------------------------------------------------------------------
(* Steps of the disk *)

Gens(d, e) == \A j \in Inodes : e.inode[j].gen = d.inode[j].gen

\* A step that takes nothing to the chain.
Kept(d, e) ==
    /\ ChainOK(e) /\ Gens(d, e)
    /\ ToSet(Chain(e)) \subseteq ToSet(Chain(d))
    /\ Unnamed(d) => Unnamed(e)

LEMMA ChainIs ==
    ASSUME NEW e, NEW s, IsChain(e, s)
    PROVE  Chain(e) = s
  BY ChainIsFound DEF Chain

LEMMA ChainMembers ==
    ASSUME NEW d, ChainOK(d)
    PROVE  /\ ToSet(Chain(d)) \subseteq Inodes
           /\ \A k \in 1 .. Len(Chain(d)) : Chain(d)[k] \in ToSet(Chain(d))
           /\ \A i \in ToSet(Chain(d)) : \E k \in 1 .. Len(Chain(d)) : i = Chain(d)[k]
           /\ \A i \in ToSet(Chain(d)) : d.inode[i].used
  <1> DEFINE s == Chain(d)
  <1>1. IsChain(d, s)
    BY DEF ChainOK
  <1> HIDE DEF s
  <1>2. s \in Seq(Inodes) /\ DOMAIN s = 1 .. Len(s) /\ \A k \in 1 .. Len(s) : d.inode[s[k]].used
    BY <1>1 DEF IsChain
  <1> QED
    BY <1>2 DEF ToSet, s

\* A step that changes no inode of the chain and gives no inode a lost name.
LEMMA ChainOKFrame ==
    ASSUME NEW d, NEW e, ChainOK(d), Shape(e), e.ok = TRUE, e.head = d.head,
           \A i \in ToSet(Chain(d)) : /\ e.inode[i].used = d.inode[i].used
                                      /\ e.inode[i].next = d.inode[i].next
                                      /\ e.inode[i].links = d.inode[i].links,
           \A i \in Inodes \ ToSet(Chain(d)) : e.inode[i].named => e.inode[i].links # 0
    PROVE  ChainOK(e) /\ Chain(e) = Chain(d) /\ (Unnamed(d) => Unnamed(e))
  <1> DEFINE s == Chain(d)
  <1>1. \A k \in 1 .. Len(s) : s[k] \in ToSet(s)
    BY ChainMembers
  <1>2. IsChain(d, s)
    BY DEF ChainOK
  <1>3. \A k \in 1 .. Len(s) : /\ e.inode[s[k]].used = d.inode[s[k]].used
                               /\ e.inode[s[k]].next = d.inode[s[k]].next
    BY <1>1
  <1> HIDE DEF s
  <1>4. IsChain(e, s)
    BY <1>2, <1>3, ChainFrame
  <1>5. Chain(e) = s
    BY <1>4, ChainIs
  <1>6. \A i \in Inodes : e.inode[i].named /\ e.inode[i].links = 0 => i \in ToSet(Chain(e))
    BY <1>5 DEF s
  <1>7. ChainOK(e)
    BY <1>4, <1>5, <1>6 DEF ChainOK
  <1>8. Unnamed(d) => Unnamed(e)
    BY <1>5 DEF Unnamed, s
  <1> QED
    BY <1>5, <1>7, <1>8 DEF s

LEMMA KeptFrame ==
    ASSUME NEW d, NEW e, ChainOK(d), Shape(e), e.ok = TRUE, e.head = d.head, Gens(d, e),
           \A i \in ToSet(Chain(d)) : /\ e.inode[i].used = d.inode[i].used
                                      /\ e.inode[i].next = d.inode[i].next
                                      /\ e.inode[i].links = d.inode[i].links,
           \A i \in Inodes \ ToSet(Chain(d)) : e.inode[i].named => e.inode[i].links # 0
    PROVE  Kept(d, e) /\ Chain(e) = Chain(d)
  BY ChainOKFrame DEF Kept

LEMMA KeptSame ==
    ASSUME NEW d, NEW e, ChainOK(d), Same(d, e), e.ok = TRUE
    PROVE  Kept(d, e) /\ Chain(e) = Chain(d)
  <1>1. ToSet(Chain(d)) \subseteq Inodes
    BY ChainMembers
  <1>2. Shape(e) /\ e.head = d.head /\ Gens(d, e)
    BY DEF Same, Alike, Gens
  <1>3. \A i \in ToSet(Chain(d)) : /\ e.inode[i].used = d.inode[i].used
                                   /\ e.inode[i].next = d.inode[i].next
                                   /\ e.inode[i].links = d.inode[i].links
    BY <1>1 DEF Same, Alike
  <1>4. \A i \in Inodes \ ToSet(Chain(d)) : e.inode[i].named => e.inode[i].links # 0
    BY DEF Same, Alike, ChainOK
  <1> QED
    BY <1>2, <1>3, <1>4, KeptFrame

\* A step that takes i off the chain and leaves it named, or never named.
LEMMA KeptDel ==
    ASSUME NEW d, NEW e, NEW i \in Inodes, ChainOK(d),
           transaction_orphan_del(d, i).ok = TRUE,
           Shape(e), e.ok = TRUE, e.head = transaction_orphan_del(d, i).head,
           \A j \in Inodes \ {i} : e.inode[j] = transaction_orphan_del(d, i).inode[j],
           e.inode[i].gen = d.inode[i].gen,
           e.inode[i].named => e.inode[i].links # 0
    PROVE  Kept(d, e)
  <1> DEFINE s == Chain(d)
             f == transaction_orphan_del(d, i)
  <1>1. IsChain(d, s) /\ Shape(d)
    BY DEF ChainOK
  <1>2. i \in ToSet(s)
    <2> SUFFICES ASSUME i \notin ToSet(s) PROVE FALSE
      OBVIOUS
    <2>1. f = Reject(d)
      BY <1>1, DelMissing
    <2> QED
      BY <1>1, <2>1, SameReject
  <1>3. PICK p \in 1 .. Len(s) : i = s[p]
    BY <1>2, ChainMembers
  <1> DEFINE u == Without(s, p)
  <1>4. Shape(f) /\ IsChain(f, u) /\ \A j \in Inodes : Alike(d.inode[j], f.inode[j])
    <2> HIDE DEF s
    <2> QED
      BY <1>1, <1>3, DelChain
  <1>5. /\ ToSet(u) = ToSet(s) \ {i}
        /\ u \in Seq(Inodes) /\ \A k \in 1 .. Len(u) : u[k] \in ToSet(u)
    <2>1. s \in Seq(Inodes) /\ \A j, k \in 1 .. Len(s) : s[j] = s[k] => j = k
      BY <1>1 DEF IsChain
    <2> HIDE DEF s
    <2>2. u \in Seq(Inodes) /\ ToSet(u) = ToSet(s) \ {s[p]}
      BY <1>3, <2>1, WithoutSeq
    <2> HIDE DEF u
    <2>3. DOMAIN u = 1 .. Len(u)
      BY <2>2
    <2> QED
      BY <1>3, <2>2, <2>3 DEF ToSet
  <1>6. ToSet(s) \subseteq Inodes
    BY ChainMembers
  <1> HIDE DEF f, u, s
  <1>7. IsChain(e, u)
    <2>1. \A k \in 1 .. Len(u) : e.inode[u[k]] = f.inode[u[k]]
      BY <1>5, <1>6 DEF f
    <2> QED
      BY <1>4, <2>1, ChainFrame DEF f
  <1>8. Chain(e) = u
    BY <1>7, ChainIs
  <1>9. \A j \in Inodes \ {i} : Alike(d.inode[j], e.inode[j])
    BY <1>4 DEF f, Alike
  <1>10. ChainOK(e)
    <2>1. ASSUME NEW j \in Inodes, e.inode[j].named /\ e.inode[j].links = 0
          PROVE  j \in ToSet(u)
      <3>1. j # i
        BY <2>1
      <3>2. j \in ToSet(s)
        BY <1>9, <2>1, <3>1 DEF Alike, ChainOK, s
      <3> QED
        BY <1>5, <3>1, <3>2
    <2> QED
      BY <1>7, <1>8, <2>1 DEF ChainOK
  <1>11. Gens(d, e)
    BY <1>9 DEF Gens, Alike
  <1>12. Unnamed(d) => Unnamed(e)
    BY <1>5, <1>6, <1>8, <1>9 DEF Unnamed, Alike, s
  <1> QED
    BY <1>5, <1>8, <1>10, <1>11, <1>12 DEF Kept, s

-----------------------------------------------------------------------------
(* The transactions of a reclaim *)

\* Whether it succeeds or not, removal from the chain touches nothing but links of it.
LEMMA DelShape ==
    ASSUME NEW d, NEW i \in Inodes, ChainOK(d)
    PROVE  LET f == transaction_orphan_del(d, i)
           IN  Shape(f) /\ \A j \in Inodes : Alike(d.inode[j], f.inode[j])
  <1> DEFINE s == Chain(d)
  <1>1. Shape(d) /\ IsChain(d, s)
    BY DEF ChainOK
  <1>2. CASE i \notin ToSet(s)
    <2> HIDE DEF s
    <2>1. transaction_orphan_del(d, i) = Reject(d)
      BY <1>1, <1>2, DelMissing
    <2> QED
      BY <1>1, <2>1, SameReject DEF Same
  <1>3. CASE i \in ToSet(s)
    <2>1. PICK p \in 1 .. Len(s) : i = s[p]
      BY <1>3, ChainMembers
    <2> HIDE DEF s
    <2> QED
      BY <1>1, <2>1, DelChain
  <1> QED
    BY <1>2, <1>3

\* The last transaction of a reclaim.
LEMMA FinalKept ==
    ASSUME NEW d, NEW i \in Inodes, ChainOK(d), ReclaimFinal(d, i).ok = TRUE
    PROVE  Kept(d, ReclaimFinal(d, i))
  <1> DEFINE f == transaction_orphan_del(d, i)
             g == transaction_dealloc_inode(f, i)
             r == Cleared(d.inode[i])
             e == Put(g, i, r)
  <1>1. Shape(d) /\ RecordOK(d.inode[i]) /\ IsChain(d, Chain(d))
    BY DEF ChainOK, Shape
  <1>2. ReclaimFinal(d, i) = e
    <2>1. ReclaimFinal(d, i) \in {Reject(d), e}
      BY DEF ReclaimFinal
    <2>2. ReclaimFinal(d, i) # Reject(d)
      BY <1>1, SameReject
    <2> QED
      BY <2>1, <2>2
  <1>3. Shape(f)
    BY DelShape
  <1> HIDE DEF f
  <1>4. /\ DOMAIN g = DiskFields /\ DOMAIN g.inode = Inodes /\ g.head = f.head
        /\ g.ok = TRUE => f.ok = TRUE
        /\ \A j \in Inodes \ {i} : g.inode[j] = f.inode[j]
    <2>1. CASE g = Reject(f)
      BY <1>3, <2>1 DEF Reject, Shape, DiskFields
    <2>2. CASE g = [f EXCEPT !.inode[i].used = FALSE]
      BY <1>3, <2>2 DEF Shape, DiskFields
    <2> QED
      BY <2>1, <2>2 DEF transaction_dealloc_inode
  <1> HIDE DEF g
  <1>5. RecordOK(r) /\ r.gen = d.inode[i].gen /\ r.named = FALSE
    BY <1>1 DEF Cleared, RecordOK, InodeFields
  <1> HIDE DEF r
  <1>6. /\ DOMAIN e = DiskFields /\ DOMAIN e.inode = Inodes /\ e.head = f.head /\ e.ok = g.ok
        /\ e.inode[i] = r /\ \A j \in Inodes \ {i} : e.inode[j] = f.inode[j]
    BY <1>4 DEF Put, DiskFields
  <1> HIDE DEF e
  <1>7. Shape(e)
    BY <1>3, <1>5, <1>6 DEF Shape
  <1>8. e.ok = TRUE /\ f.ok = TRUE
    BY <1>2, <1>4, <1>6
  <1> QED
    BY <1>2, <1>5, <1>6, <1>7, <1>8, KeptDel DEF f

\* The transaction that takes a named inode off the chain and clears its link.
Unchained(d, i, n) ==
    [transaction_orphan_del(d, i) EXCEPT !.inode[i].links = n, !.inode[i].next = 0]

LEMMA UnchainKept ==
    ASSUME NEW d, NEW i \in Inodes, NEW n \in Nat, n # 0, ChainOK(d),
           Unchained(d, i, n).ok = TRUE
    PROVE  Kept(d, Unchained(d, i, n)) /\ Unchained(d, i, n).inode[i].links = n
  <1> DEFINE f == transaction_orphan_del(d, i)
             e == Unchained(d, i, n)
  <1>1. Shape(d) /\ RecordOK(d.inode[i]) /\ IsChain(d, Chain(d))
    BY DEF ChainOK, Shape
  <1>2. Shape(f) /\ Alike(d.inode[i], f.inode[i])
    BY DelShape
  <1> HIDE DEF f
  <1>3. /\ DOMAIN e = DiskFields /\ DOMAIN e.inode = Inodes /\ e.head = f.head /\ e.ok = f.ok
        /\ e.inode[i] = [f.inode[i] EXCEPT !.links = n, !.next = 0]
        /\ \A j \in Inodes \ {i} : e.inode[j] = f.inode[j]
    BY <1>2 DEF Shape, DiskFields, f, Unchained
  <1> HIDE DEF e
  <1>4. RecordOK(e.inode[i]) /\ e.inode[i].gen = d.inode[i].gen /\ e.inode[i].links = n
    <2> DEFINE r == f.inode[i]
               q == [r EXCEPT !.links = n, !.next = 0]
    <2>1. RecordOK(r) /\ r.gen = d.inode[i].gen
      BY <1>2 DEF Shape, Alike
    <2> HIDE DEF r
    <2>2. RecordOK(q) /\ q.gen = r.gen /\ q.links = n
      BY <2>1 DEF RecordOK, InodeFields
    <2>3. e.inode[i] = q
      BY <1>3 DEF r
    <2> HIDE DEF q
    <2> QED
      BY <2>1, <2>2, <2>3
  <1>5. Shape(e)
    BY <1>2, <1>3, <1>4 DEF Shape
  <1>6. f.ok = TRUE /\ e.ok = TRUE /\ e.inode[i].links # 0
    BY <1>3, <1>4 DEF e
  <1>7. Kept(d, e)
    BY <1>3, <1>4, <1>5, <1>6, KeptDel DEF f
  <1> QED
    BY <1>4, <1>7 DEF e

LEMMA TruncateFinalKept ==
    ASSUME NEW d, NEW i \in Inodes, ChainOK(d), d.inode[i].links # 0,
           TruncateFinal(d, i).ok = TRUE
    PROVE  Kept(d, TruncateFinal(d, i)) /\ TruncateFinal(d, i).inode[i].links # 0
  <1> DEFINE f == transaction_orphan_del(d, i)
             e == [f EXCEPT !.inode[i].next = 0]
  <1>1. Shape(d) /\ RecordOK(d.inode[i]) /\ IsChain(d, Chain(d))
    BY DEF ChainOK, Shape
  <1>2. Shape(f) /\ Alike(d.inode[i], f.inode[i])
    BY DelShape
  <1>3. TruncateFinal(d, i) = e
    BY DEF TruncateFinal
  <1> HIDE DEF f
  <1>4. /\ DOMAIN e = DiskFields /\ DOMAIN e.inode = Inodes /\ e.head = f.head /\ e.ok = f.ok
        /\ e.inode[i] = [f.inode[i] EXCEPT !.next = 0]
        /\ \A j \in Inodes \ {i} : e.inode[j] = f.inode[j]
    BY <1>2 DEF Shape, DiskFields
  <1> HIDE DEF e
  <1>5. /\ RecordOK(e.inode[i]) /\ e.inode[i].gen = d.inode[i].gen
        /\ e.inode[i].links = d.inode[i].links
    <2>1. RecordOK(f.inode[i])
      BY <1>2 DEF Shape
    <2> QED
      BY <1>2, <1>4, <2>1 DEF RecordOK, InodeFields, Alike
  <1>6. Shape(e)
    BY <1>2, <1>4, <1>5 DEF Shape
  <1>7. f.ok = TRUE /\ e.ok = TRUE /\ e.inode[i].links # 0
    BY <1>3, <1>4, <1>5
  <1>8. Kept(d, e)
    BY <1>4, <1>5, <1>6, <1>7, KeptDel DEF f
  <1> QED
    BY <1>3, <1>7, <1>8

\* Every transaction of reclaim_inode_lifetime and of an interrupted truncate that is
\* accepted keeps the chain.
LEMMA TransactionKept ==
    ASSUME NEW d, NEW j, ChainOK(d), j.handle.ino \in Inodes,
           j.kind = "truncate" => d.inode[j.handle.ino].links # 0,
           Transaction(d, j).disk.ok = TRUE
    PROVE  /\ Kept(d, Transaction(d, j).disk)
           /\ j.kind = "truncate" => Transaction(d, j).disk.inode[j.handle.ino].links # 0
  <1> DEFINE i == j.handle.ino
             r == d.inode[i]
             t == Transaction(d, j)
             e == t.disk
  <1>1. Shape(d) /\ i \in Inodes
    BY DEF ChainOK
  <1>2. \/ j.kind = "truncate" /\ e = RemoveTail(d, i, TruncateLimit(r))
        \/ j.kind = "truncate" /\ e = TruncateFinal(d, i)
        \/ j.kind # "truncate" /\ e = Reject(d)
        \/ j.kind # "truncate" /\ e = ReclaimExtents(d, i)
        \/ j.kind # "truncate" /\ e = transaction_release_xattr(d, i)
        \/ j.kind # "truncate" /\ e = ReclaimFinal(d, i)
    BY DEF Transaction
  <1> HIDE DEF t
  <1>3. e.ok = TRUE
    BY DEF t
  <1> HIDE DEF e, i
  <1>4. j.kind = "truncate" => d.inode[i].links # 0
    BY DEF i
  <1>5. CASE Same(d, e)
    <2>1. Kept(d, e)
      BY <1>3, <1>5, KeptSame
    <2> QED
      BY <1>1, <1>4, <1>5, <2>1 DEF Same, Alike, e, i, t
  <1>6. CASE j.kind = "truncate" /\ e = TruncateFinal(d, i)
    BY <1>1, <1>3, <1>4, <1>6, TruncateFinalKept DEF e, i, t
  <1>7. CASE j.kind # "truncate" /\ e = Reject(d)
    BY <1>1, <1>3, <1>7, SameReject
  <1>8. CASE j.kind # "truncate" /\ e = ReclaimFinal(d, i)
    BY <1>1, <1>3, <1>8, FinalKept DEF e, t
  <1> QED
    BY <1>1, <1>2, <1>5, <1>6, <1>7, <1>8, SameRemoveTail, SameReclaimExtents, SameReleaseXattr

-----------------------------------------------------------------------------
(* Closing a step *)

LEMMA BagFacts ==
    ASSUME NEW B, NEW h
    PROVE  /\ DOMAIN (B (+) SetToBag({h})) = DOMAIN B \union {h}
           /\ DOMAIN (B (-) SetToBag({h})) \subseteq DOMAIN B
           /\ DOMAIN EmptyBag = {}
           /\ BagToSet(B) = DOMAIN B
  BY DEF (+), (-), SetToBag, EmptyBag, BagToSet

LEMMA HandleKept ==
    ASSUME NEW h, NEW d, NEW e, NEW l, HandleOK(h, d, l), Gens(d, e)
    PROVE  HandleOK(h, e, l)
  BY DEF HandleOK, Gens

LEMMA KeptItself ==
    ASSUME NEW d, ChainOK(d)
    PROVE  Kept(d, d)
  BY SameItself, KeptSame DEF ChainOK

\* A step that makes no inode and hands out only sound capabilities.
LEMMA CloseFree ==
    ASSUME IInv, ChainOK(disk'), Gens(disk, disk'), life' = life, ops' = ops \/ Op,
           mode' = "up" => Unnamed(disk'),
           \A h \in DOMAIN handles' : h \in DOMAIN handles \/ HandleOK(h, disk', life'),
           JobOK', CreatingOK'
    PROVE  IInv'
  <1>1. LifeOK'
    <2>1. LifeOK /\ MaxOps \in Nat
      BY ReclaimAssumption DEF IInv
    <2>2. ops' \in Nat /\ ops' <= MaxOps /\ ops <= ops'
      BY <2>1 DEF LifeOK, Op
    <2> QED
      BY <2>1, <2>2 DEF LifeOK
  <1>2. HandlesOK'
    <2> SUFFICES ASSUME NEW h \in DOMAIN handles' PROVE HandleOK(h, disk', life')
      BY DEF HandlesOK
    <2>1. CASE h \in DOMAIN handles
      <3>1. HandleOK(h, disk, life)
        BY <2>1 DEF IInv, HandlesOK
      <3> QED
        BY <3>1, HandleKept
    <2> QED
      BY <2>1
  <1> QED
    BY <1>1, <1>2 DEF IInv

\* The same, for a step that puts nothing on the chain.
LEMMA Close ==
    ASSUME IInv, Kept(disk, disk'), life' = life, ops' = ops \/ Op,
           mode' = "up" => mode = "up",
           \A h \in DOMAIN handles' : h \in DOMAIN handles \/ HandleOK(h, disk', life'),
           JobOK',
           creating' = 0 \/ (creating' = creating /\ mode' = mode /\ job' = job)
    PROVE  IInv'
  <1>1. ChainOK(disk') /\ Gens(disk, disk') /\ ToSet(Chain(disk')) \subseteq ToSet(Chain(disk))
    BY DEF Kept
  <1>2. mode' = "up" => Unnamed(disk')
    BY DEF Kept, IInv
  <1>3. CreatingOK'
    BY <1>1 DEF IInv, CreatingOK
  <1> QED
    BY <1>1, <1>2, <1>3, CloseFree

\* The same, for a step that leaves jobs and capabilities alone.
LEMMA CloseQuiet ==
    ASSUME IInv, Kept(disk, disk'), job = NoJob, ops' = ops \/ Op,
           creating' \in {0, creating}, UNCHANGED <<mode, handles, job, life>>
    PROVE  IInv'
  <1>1. JobOK'
    BY DEF JobOK, NoJob
  <1> QED
    BY <1>1, Close

-----------------------------------------------------------------------------
(* Contents *)

LEMMA AppendKept ==
    ASSUME ChainOK(disk), Shape(disk), disk.ok = TRUE, NEW i \in Inodes, NEW b, NEW r,
           RecordOK(r), Alike(disk.inode[i], r), r.next = disk.inode[i].next, Append1(i, b, r)
    PROVE  Kept(disk, disk')
  <1> DEFINE e == Put(disk, i, r)
  <1>1. disk' = [e EXCEPT !.bitmap = @ \union {b}]
    BY DEF Append1
  <1>2. Same(disk, e)
    BY SamePut
  <1>3. Shape(e) /\ e.ok = TRUE
    BY <1>2 DEF Same, Put, Shape, DiskFields
  <1> HIDE DEF e
  <1>4. DOMAIN disk' = DiskFields /\ disk'.inode = e.inode /\ disk'.head = e.head /\ disk'.ok = TRUE
    BY <1>1, <1>3 DEF Shape, DiskFields
  <1>5. Same(disk, disk')
    BY <1>2, <1>3, <1>4, SameTable, SameTrans
  <1> QED
    BY <1>4, <1>5, KeptSame

LEMMA GrownShape ==
    ASSUME NEW r, RecordOK(r), NEW b
    PROVE  RecordOK(Grown(r, b)) /\ Alike(r, Grown(r, b)) /\ Grown(r, b).next = r.next
  <1> DEFINE leaf   == IF r.leaves = <<>> THEN [node |-> 0, exts |-> <<>>] ELSE Last(r.leaves)
             leaves == (IF r.leaves = <<>> THEN <<>> ELSE Front(r.leaves))
                       \o <<AppendBlock(leaf, b)>>
  <1>1. Grown(r, b) = [r EXCEPT !.leaves = leaves]
    BY DEF Grown, RecordOK, InodeFields
  <1> HIDE DEF leaves
  <1> QED
    BY <1>1 DEF RecordOK, Alike, InodeFields

LEMMA ContentsStep ==
    ASSUME IInv, contents
    PROVE  IInv'
  <1>1. job = NoJob /\ ChainOK(disk) /\ Shape(disk) /\ disk.ok = TRUE
    BY DEF contents, write, write_stops_half_way, setxattr, Quiet, Idle, IInv, ChainOK
  <1>2. CASE write
    <2>1. PICK i \in Inodes, b \in Blocks \ disk.bitmap :
              LET r == Grown(disk.inode[i], b)
              IN  Append1(i, b, [recompute_inode_block_count(r) EXCEPT !.size = Mapped(r)])
      BY <1>2 DEF write
    <2> DEFINE g == Grown(disk.inode[i], b)
               n == Cardinality(OwnBlocks(g))
               m == Mapped(g)
               r == [[g EXCEPT !.iblocks = n, !.excess = 0] EXCEPT !.size = m]
    <2>2. RecordOK(g) /\ Alike(disk.inode[i], g) /\ g.next = disk.inode[i].next
      BY <1>1, GrownShape DEF Shape
    <2>3. Append1(i, b, r)
      BY <2>1 DEF recompute_inode_block_count
    <2>4. RecordOK(r) /\ Alike(disk.inode[i], r) /\ r.next = disk.inode[i].next
      <3> HIDE DEF g, n, m
      <3> QED
        BY <2>2 DEF RecordOK, Alike, InodeFields
    <2> HIDE DEF r
    <2>5. Kept(disk, disk')
      BY <1>1, <2>3, <2>4, AppendKept
    <2> QED
      BY <1>1, <1>2, <2>5, CloseQuiet DEF write
  <1>3. CASE write_stops_half_way
    <2>1. PICK i \in Inodes, b \in Blocks \ disk.bitmap :
              Append1(i, b, [Grown(disk.inode[i], b) EXCEPT !.excess = @ - 1])
      BY <1>3 DEF write_stops_half_way
    <2> DEFINE g == Grown(disk.inode[i], b)
               r == [g EXCEPT !.excess = @ - 1]
    <2>2. RecordOK(g) /\ Alike(disk.inode[i], g) /\ g.next = disk.inode[i].next
      BY <1>1, GrownShape DEF Shape
    <2>3. RecordOK(r) /\ Alike(disk.inode[i], r) /\ r.next = disk.inode[i].next
      <3> HIDE DEF g
      <3> QED
        BY <2>2 DEF RecordOK, Alike, InodeFields
    <2>4. Append1(i, b, r)
      BY <2>1
    <2> HIDE DEF r
    <2>5. Kept(disk, disk')
      BY <1>1, <2>3, <2>4, AppendKept
    <2> QED
      BY <1>1, <1>3, <2>5, CloseQuiet DEF write_stops_half_way
  <1>4. CASE setxattr
    <2>1. PICK i \in Inodes, b \in Blocks : \E odd :
              \/ disk' = [disk EXCEPT !.inode[i].xattr = b, !.refs[b] = 1,
                                      !.bitmap = @ \union {b}, !.odd = odd]
              \/ disk' = [disk EXCEPT !.odd = odd]
      BY <1>4 DEF setxattr
    <2> DEFINE r == [disk.inode[i] EXCEPT !.xattr = b]
               e == IF disk'.inode = disk.inode THEN disk ELSE Put(disk, i, r)
    <2>2. RecordOK(disk.inode[i])
      BY <1>1 DEF Shape
    <2>3. RecordOK(r) /\ Alike(disk.inode[i], r) /\ r.next = disk.inode[i].next
      BY <2>2 DEF RecordOK, Alike, InodeFields
    <2>4. /\ DOMAIN disk' = DiskFields /\ disk'.inode = e.inode /\ disk'.head = e.head
          /\ disk'.ok = TRUE
      BY <1>1, <2>1 DEF Put, Shape, DiskFields
    <2> HIDE DEF r
    <2>5. Same(disk, e)
      BY <1>1, <2>3, SamePut, SameItself
    <2>6. Shape(e)
      BY <2>5 DEF Same
    <2> HIDE DEF e
    <2>8. Same(disk, disk')
      BY <2>4, <2>5, <2>6, SameTable, SameTrans
    <2>9. Kept(disk, disk')
      BY <1>1, <2>4, <2>8, KeptSame
    <2> QED
      BY <1>1, <1>4, <2>9, CloseQuiet DEF setxattr
  <1> QED
    BY <1>2, <1>3, <1>4 DEF contents

-----------------------------------------------------------------------------
(* Names *)

LEMMA NextGeneration ==
    ASSUME NEW g \in 0 .. (GenMod - 1)
    PROVE  next_inode_generation(g) = IF g = GenMod - 1 THEN 1 ELSE g + 1
  <1>1. GenMod \in Nat /\ GenMod > 1
    BY ReclaimAssumption
  <1>2. CASE g = GenMod - 1
    <2>1. (g + 1) % GenMod = 0
      BY <1>1, <1>2
    <2> QED
      BY <1>2, <2>1 DEF next_inode_generation
  <1>3. CASE g # GenMod - 1
    <2>1. g + 1 \in 0 .. (GenMod - 1)
      BY <1>1, <1>3
    <2>2. (g + 1) % GenMod = g + 1
      BY <1>1, <2>1
    <2> QED
      BY <1>1, <1>3, <2>1, <2>2 DEF next_inode_generation
  <1> QED
    BY <1>2, <1>3

\* A new lifetime is one generation further from every capability of its number.
LEMMA AheadNext ==
    ASSUME FewCreations, NEW g \in 0 .. (GenMod - 1), NEW c \in 0 .. (GenMod - 1),
           NEW n \in Nat, n + 1 <= MaxOps, Ahead(g, c, n)
    PROVE  Ahead(g, next_inode_generation(c), n + 1)
  <1>1. GenMod \in Nat /\ GenMod > 1 /\ MaxOps \in Nat
    BY ReclaimAssumption
  <1>2. next_inode_generation(c) = IF c = GenMod - 1 THEN 1 ELSE c + 1
    BY NextGeneration
  <1> QED
    BY <1>1, <1>2 DEF Ahead, FewCreations

\* So a capability that is accepted is of the present lifetime.
LEMMA AheadNever ==
    ASSUME FewCreations, NEW g \in 0 .. (GenMod - 1), NEW n \in Nat, n <= MaxOps, Ahead(g, g, n)
    PROVE  n = 0
  <1>1. GenMod \in Nat /\ GenMod > 1 /\ MaxOps \in Nat
    BY ReclaimAssumption
  <1> QED
    BY <1>1 DEF Ahead, FewCreations

\* A new inode is on no chain, and is a lifetime of its own.
LEMMA CreateStep ==
    ASSUME IInv, create_inode
    PROVE  IInv'
  <1>1. /\ job = NoJob /\ ChainOK(disk) /\ Shape(disk) /\ disk.ok = TRUE /\ mode = "up"
        /\ Unnamed(disk) /\ LifeOK /\ MaxOps \in Nat
    BY ReclaimAssumption DEF create_inode, Quiet, Idle, IInv, ChainOK
  <1>2. PICK i \in Inodes :
            /\ ~disk.inode[i].used
            /\ disk' = Put(disk, i, [Cleared(disk.inode[i]) EXCEPT
                                         !.used = TRUE,
                                         !.gen = next_inode_generation(@)])
            /\ creating' = i
            /\ life' = [life EXCEPT ![i] = @ + 1]
    BY DEF create_inode
  <1>3. UNCHANGED <<mode, handles, job>> /\ ops < MaxOps /\ ops' = ops + 1
    BY DEF create_inode, Op
  <1> DEFINE old == disk.inode[i]
             g == next_inode_generation(old.gen)
             r == [Cleared(old) EXCEPT !.used = TRUE, !.gen = g]
             e == Put(disk, i, r)
  <1>4. RecordOK(old) /\ old.gen \in 0 .. (GenMod - 1)
    BY <1>1 DEF Shape, RecordOK
  <1>5. g \in 0 .. (GenMod - 1)
    <2>1. GenMod \in Nat /\ GenMod > 1
      BY ReclaimAssumption
    <2>2. g = IF old.gen = GenMod - 1 THEN 1 ELSE old.gen + 1
      BY <1>4, NextGeneration
    <2> HIDE DEF g, old
    <2> QED
      BY <1>4, <2>1, <2>2
  <1>6. disk' = e
    BY <1>2 DEF Cleared
  <1>7. RecordOK(r) /\ r.gen = g /\ r.named = FALSE /\ r.links = 0
    <2> HIDE DEF g
    <2> QED
      BY <1>5 DEF RecordOK, InodeFields, Cleared
  <1> HIDE DEF r
  <1>8. /\ DOMAIN e = DiskFields /\ DOMAIN e.inode = Inodes /\ e.head = disk.head /\ e.ok = TRUE
        /\ e.inode[i] = r
        /\ \A j \in Inodes \ {i} : e.inode[j] = disk.inode[j]
    BY <1>1 DEF Put, Shape, DiskFields
  <1> HIDE DEF e
  <1>9. Shape(e)
    BY <1>1, <1>7, <1>8 DEF Shape
  <1>10. i \notin ToSet(Chain(disk)) /\ ToSet(Chain(disk)) \subseteq Inodes
    BY <1>1, <1>2, ChainMembers
  <1>11. \A j \in Inodes \ ToSet(Chain(disk)) : e.inode[j].named => e.inode[j].links # 0
    BY <1>1, <1>7, <1>8 DEF ChainOK
  <1>12. ChainOK(e) /\ Chain(e) = Chain(disk) /\ Unnamed(e)
    <2>1. \A j \in ToSet(Chain(disk)) : e.inode[j] = disk.inode[j]
      BY <1>8, <1>10
    <2> QED
      BY <1>1, <1>8, <1>9, <1>11, <2>1, ChainOKFrame
  <1>13. JobOK' /\ CreatingOK'
    BY <1>1, <1>2, <1>3, <1>6, <1>10, <1>12 DEF JobOK, CreatingOK, NoJob
  <1>14. LifeOK'
    BY <1>1, <1>2, <1>3 DEF LifeOK
  <1>15. HandlesOK'
    <2> SUFFICES ASSUME NEW h \in DOMAIN handles PROVE HandleOK(h, e, life')
      BY <1>3, <1>6 DEF HandlesOK
    <2>1. HandleOK(h, disk, life)
      BY DEF IInv, HandlesOK
    <2>2. CASE h.ino # i
      <3>1. e.inode[h.ino] = disk.inode[h.ino] /\ life'[h.ino] = life[h.ino]
        BY <1>1, <1>2, <1>8, <2>1, <2>2 DEF HandleOK, LifeOK
      <3> QED
        BY <2>1, <3>1 DEF HandleOK
    <2>3. CASE h.ino = i
      <3>1. /\ life'[i] = life[i] + 1 /\ life[i] \in Nat /\ life[i] <= ops /\ ops \in Nat
            /\ h.life \in Nat /\ h.life <= life[i] /\ h.gen \in 0 .. (GenMod - 1)
            /\ e.inode[i].gen = g
        BY <1>1, <1>2, <1>7, <1>8, <2>1, <2>3 DEF HandleOK, LifeOK
      <3>2. life[i] - h.life \in Nat /\ (life[i] - h.life) + 1 <= MaxOps
            /\ life'[i] - h.life = (life[i] - h.life) + 1
        BY <1>1, <1>3, <3>1
      <3>3. FewCreations => Ahead(h.gen, old.gen, life[i] - h.life)
        BY <2>1, <2>3 DEF HandleOK
      <3>4. FewCreations => Ahead(h.gen, g, life'[i] - h.life)
        <4> HIDE DEF old
        <4> QED
          BY <1>4, <3>1, <3>2, <3>3, AheadNext
      <3>5. h.life <= life'[i]
        BY <3>1
      <3> QED
        BY <2>1, <2>3, <3>1, <3>4, <3>5 DEF HandleOK
    <2> QED
      BY <2>2, <2>3
  <1> QED
    BY <1>3, <1>6, <1>12, <1>13, <1>14, <1>15 DEF IInv

LEMMA LinkNewStep ==
    ASSUME IInv, link_new_inode_or_free
    PROVE  IInv'
  <1>1. /\ job = NoJob /\ ChainOK(disk) /\ Shape(disk) /\ disk.ok = TRUE
        /\ creating \in Inodes /\ creating \notin ToSet(Chain(disk))
    BY DEF link_new_inode_or_free, Idle, IInv, ChainOK, CreatingOK
  <1> DEFINE i == creating
             old == disk.inode[i]
  <1>2. RecordOK(old) /\ ToSet(Chain(disk)) \subseteq Inodes
    BY <1>1, ChainMembers DEF Shape
  <1>3. ASSUME NEW r, disk' = Put(disk, i, r), RecordOK(r), r.gen = old.gen,
               r.named => r.links # 0
        PROVE  Kept(disk, disk')
    <2> DEFINE e == Put(disk, i, r)
    <2>1. /\ DOMAIN e = DiskFields /\ DOMAIN e.inode = Inodes /\ e.head = disk.head /\ e.ok = TRUE
          /\ e.inode[i] = r
          /\ \A j \in Inodes \ {i} : e.inode[j] = disk.inode[j]
      BY <1>1 DEF Put, Shape, DiskFields
    <2> HIDE DEF e
    <2>2. Shape(e) /\ Gens(disk, e)
      BY <1>1, <1>3, <2>1 DEF Shape, Gens
    <2>3. \A j \in ToSet(Chain(disk)) : e.inode[j] = disk.inode[j]
      BY <1>1, <1>2, <2>1
    <2>4. \A j \in Inodes \ ToSet(Chain(disk)) : e.inode[j].named => e.inode[j].links # 0
      BY <1>1, <1>3, <2>1 DEF ChainOK
    <2>5. Kept(disk, e)
      BY <1>1, <2>1, <2>2, <2>3, <2>4, KeptFrame
    <2> QED
      BY <1>3, <2>5 DEF e
  <1>4. ASSUME disk' = [disk EXCEPT !.inode[creating].links = 1, !.inode[creating].named = TRUE]
        PROVE  Kept(disk, disk')
    <2> DEFINE r == [old EXCEPT !.links = 1, !.named = TRUE]
    <2>1. RecordOK(r) /\ r.gen = old.gen /\ r.links = 1
      <3> HIDE DEF old
      <3> QED
        BY <1>2 DEF RecordOK, InodeFields
    <2>2. disk' = Put(disk, i, r)
      BY <1>1, <1>4 DEF Put, Shape, DiskFields
    <2> HIDE DEF r
    <2> QED
      BY <1>3, <2>1, <2>2
  <1>5. ASSUME disk' = Put(disk, creating, Cleared(disk.inode[creating]))
        PROVE  Kept(disk, disk')
    <2> DEFINE r == Cleared(old)
    <2>1. RecordOK(r) /\ r.gen = old.gen /\ r.named = FALSE
      <3> HIDE DEF old
      <3> QED
        BY <1>2 DEF RecordOK, InodeFields, Cleared
    <2> QED
      BY <1>3, <1>5, <2>1
  <1>6. Kept(disk, disk')
    BY <1>4, <1>5 DEF link_new_inode_or_free
  <1> QED
    BY <1>1, <1>6, CloseQuiet DEF link_new_inode_or_free, bounds

\* An inode with a name is not on the chain of a mounted file system, nor its head.
LEMMA NamedOffChain ==
    ASSUME NEW d, NEW i \in Inodes, ChainOK(d), Unnamed(d), d.inode[i].links # 0
    PROVE  i \notin ToSet(Chain(d)) /\ d.head # i
  <1>1. i \notin ToSet(Chain(d))
    BY DEF Unnamed
  <1> DEFINE s == Chain(d)
  <1>2. IsChain(d, s) /\ \A k \in 1 .. Len(s) : s[k] \in ToSet(s)
    BY ChainMembers DEF ChainOK
  <1> HIDE DEF s
  <1>3. d.head = 0 \/ d.head \in ToSet(s)
    BY <1>2 DEF IsChain, At
  <1> QED
    BY <1>1, <1>3, NoInodeIsZero DEF s

Relinked(d, i, n) == [d EXCEPT !.inode[i].links = n]

\* e is d with n links to i, and the same chain.
LinksOnly(d, i, n, e) ==
    /\ Shape(e) /\ e.head = d.head /\ e.ok = TRUE /\ IsChain(e, Chain(d)) /\ Gens(d, e)
    /\ \A j \in Inodes \ {i} : e.inode[j] = d.inode[j]
    /\ e.inode[i].links = n /\ e.inode[i].used = d.inode[i].used

\* Changing the link count of an inode that is not on the chain.
LEMMA LinksFrame ==
    ASSUME NEW d, NEW i \in Inodes, NEW n \in Nat, ChainOK(d), i \notin ToSet(Chain(d))
    PROVE  /\ LinksOnly(d, i, n, Relinked(d, i, n))
           /\ n # 0 => Kept(d, Relinked(d, i, n))
  <1> DEFINE r == [d.inode[i] EXCEPT !.links = n]
             e == Relinked(d, i, n)
             s == Chain(d)
  <1>1. Shape(d) /\ d.ok = TRUE /\ RecordOK(d.inode[i]) /\ IsChain(d, s)
        /\ s \in Seq(Inodes) /\ ToSet(s) \subseteq Inodes
        /\ \A k \in 1 .. Len(s) : s[k] \in ToSet(s)
    BY ChainMembers DEF ChainOK, Shape, IsChain
  <1>2. /\ RecordOK(r) /\ r.gen = d.inode[i].gen /\ r.links = n /\ r.used = d.inode[i].used
    BY <1>1 DEF RecordOK, InodeFields
  <1> HIDE DEF r
  <1>3. /\ DOMAIN e = DiskFields /\ DOMAIN e.inode = Inodes /\ e.head = d.head /\ e.ok = TRUE
        /\ e.inode[i] = r
        /\ \A j \in Inodes \ {i} : e.inode[j] = d.inode[j]
    BY <1>1 DEF Shape, DiskFields, r, Relinked
  <1> HIDE DEF e
  <1>4. Shape(e) /\ Gens(d, e)
    BY <1>1, <1>2, <1>3 DEF Shape, Gens
  <1>5. \A j \in ToSet(s) : e.inode[j] = d.inode[j]
    BY <1>1, <1>3
  <1>6. IsChain(e, s)
    <2> HIDE DEF s
    <2> QED
      BY <1>1, <1>3, <1>5, ChainFrame
  <1>7. ASSUME n # 0 PROVE Kept(d, e)
    <2>1. \A j \in Inodes \ ToSet(Chain(d)) : e.inode[j].named => e.inode[j].links # 0
      BY <1>1, <1>2, <1>3, <1>7 DEF ChainOK
    <2> QED
      BY <1>3, <1>4, <1>5, <2>1, KeptFrame
  <1> QED
    BY <1>2, <1>3, <1>4, <1>6, <1>7 DEF e, LinksOnly

\* The transaction of the final unlink.
LEMMA FinalUnlink ==
    ASSUME NEW d, NEW i \in Inodes, ChainOK(d), Unnamed(d),
           d.inode[i].used = TRUE, d.inode[i].links # 0
    PROVE  LET e == transaction_orphan_add(Relinked(d, i, 0), i)
           IN  ChainOK(e) /\ Unnamed(e) /\ Gens(d, e)
  <1> DEFINE z == 0
             f == Relinked(d, i, z)
             s == Chain(d)
             e == transaction_orphan_add(f, i)
             u == Before(i, s)
  <1>1. i \notin ToSet(s) /\ d.head # i /\ s \in Seq(Inodes)
    BY NamedOffChain DEF ChainOK, IsChain
  <1>2. /\ Shape(f) /\ f.head = d.head /\ f.ok = TRUE /\ IsChain(f, s) /\ Gens(d, f)
        /\ \A j \in Inodes \ {i} : f.inode[j] = d.inode[j]
        /\ f.inode[i].links = 0 /\ f.inode[i].used = TRUE
    <2>1. z \in Nat /\ z = 0
      OBVIOUS
    <2>3. i \notin ToSet(Chain(d))
      BY <1>1
    <2> HIDE DEF z, f, s
    <2>2. LinksOnly(d, i, z, f)
      BY <2>1, <2>3, LinksFrame DEF f
    <2> QED
      BY <2>1, <2>2 DEF LinksOnly, s
  <1> HIDE DEF f
  <1>3. ToSet(s) \subseteq Inodes
    BY ChainMembers
  <1> HIDE DEF s
  <1>4. /\ Shape(e) /\ IsChain(e, u) /\ e.ok = TRUE
        /\ \A j \in Inodes : Alike(f.inode[j], e.inode[j])
    BY <1>1, <1>2, AddChain
  <1>5. ToSet(u) = ToSet(s) \union {i}
    BY <1>1, BeforeSeq
  <1> HIDE DEF e, u
  <1>6. Chain(e) = u
    BY <1>4, ChainIs
  <1>7. \A j \in Inodes : e.inode[j].links = 0 /\ e.inode[j].named => j \in ToSet(u)
    <2> SUFFICES ASSUME NEW j \in Inodes, j # i, e.inode[j].links = 0, e.inode[j].named
                 PROVE  j \in ToSet(s)
      BY <1>5
    <2>1. d.inode[j].links = 0 /\ d.inode[j].named
      BY <1>2, <1>4 DEF Alike
    <2> QED
      BY <2>1 DEF ChainOK, s
  <1>8. ChainOK(e)
    BY <1>4, <1>6, <1>7 DEF ChainOK
  <1>9. Unnamed(e)
    <2> SUFFICES ASSUME NEW j \in ToSet(u) PROVE e.inode[j].links = 0
      BY <1>6 DEF Unnamed
    <2>1. j = i \/ (j \in Inodes /\ j # i /\ d.inode[j].links = 0)
      BY <1>3, <1>5 DEF Unnamed, s
    <2> QED
      BY <1>2, <1>4, <2>1 DEF Alike
  <1>10. Gens(d, e)
    BY <1>2, <1>4 DEF Gens, Alike
  <1> QED
    BY <1>8, <1>9, <1>10 DEF e, f

LEMMA UnlinkStep ==
    ASSUME IInv, unlink_inode
    PROVE  IInv'
  <1>1. /\ job = NoJob /\ ChainOK(disk) /\ Shape(disk) /\ mode = "up" /\ Unnamed(disk)
        /\ creating = 0 /\ LifeOK
    BY DEF unlink_inode, Quiet, Idle, IInv, ChainOK
  <1>2. UNCHANGED <<mode, creating, job, snapshot, life, ops>>
    BY DEF unlink_inode
  <1>3. PICK i \in Inodes :
        LET r  == disk.inode[i]
            d2 == transaction_orphan_add([disk EXCEPT !.inode[i].links = 0], i)
            h  == Handle(i, r.gen, life[i])
        IN  /\ r.used /\ r.links > 0
            /\ \/ /\ r.links > 1
                  /\ disk' = [disk EXCEPT !.inode[i].links = @ - 1]
                  /\ UNCHANGED <<poisoned, handles, faults>>
               \/ /\ r.links = 1 /\ CommitOk(d2)
                  /\ handles' = handles (+) SetToBag({h})
                  /\ UNCHANGED faults
               \/ r.links = 1 /\ CommitFails(d2) /\ UNCHANGED handles
    BY DEF unlink_inode
  <1> DEFINE r  == disk.inode[i]
             d2 == transaction_orphan_add(Relinked(disk, i, 0), i)
             h  == Handle(i, r.gen, life[i])
  <1>4. RecordOK(r) /\ r.used = TRUE /\ r.links \in Nat /\ r.links > 0
    BY <1>1, <1>3 DEF Shape, RecordOK
  <1>5. i \notin ToSet(Chain(disk))
    BY <1>1, <1>4, NamedOffChain
  <1>6. CASE r.links > 1 /\ disk' = [disk EXCEPT !.inode[i].links = @ - 1] /\ UNCHANGED handles
    <2> DEFINE n == r.links - 1
    <2>1. n \in Nat /\ n # 0
      BY <1>4, <1>6
    <2>2. disk' = Relinked(disk, i, n)
      BY <1>6 DEF Relinked
    <2> HIDE DEF n
    <2>3. Kept(disk, disk')
      BY <1>1, <1>5, <2>1, <2>2, LinksFrame
    <2> QED
      BY <1>1, <1>2, <2>3, <1>6, CloseQuiet
  <1>7. CASE /\ disk' \in {disk, d2}
             /\ UNCHANGED handles \/ (disk' = d2 /\ handles' = handles (+) SetToBag({h}))
    <2>1. ChainOK(d2) /\ Unnamed(d2) /\ Gens(disk, d2)
      <3>1. disk.inode[i].used = TRUE /\ disk.inode[i].links # 0
        BY <1>4
      <3> QED
        BY <1>1, <3>1, FinalUnlink
    <2> HIDE DEF d2
    <2>2. ChainOK(disk') /\ Unnamed(disk') /\ Gens(disk, disk')
      BY <1>1, <1>7, <2>1 DEF Gens
    <2>3. HandleOK(h, disk, life)
      <3>1. /\ life[i] \in Nat /\ r.gen \in 0 .. (GenMod - 1) /\ life[i] - life[i] = 0
            /\ life[i] <= life[i]
        BY <1>1, <1>4 DEF LifeOK, RecordOK
      <3>2. r.gen = r.gen + 0
        <4> HIDE DEF r
        <4> QED
          BY <3>1, ReclaimAssumption
      <3>3. Ahead(r.gen, r.gen, 0)
        BY <3>2 DEF Ahead
      <3> QED
        BY <3>1, <3>3 DEF HandleOK, Handle
    <2>4. HandleOK(h, disk', life')
      <3> HIDE DEF h
      <3> QED
        BY <1>2, <2>2, <2>3, HandleKept
    <2> HIDE DEF h
    <2>5. \A x \in DOMAIN handles' : x \in DOMAIN handles \/ HandleOK(x, disk', life')
      <3>1. DOMAIN (handles (+) SetToBag({h})) = DOMAIN handles \union {h}
        BY BagFacts
      <3>2. DOMAIN handles' = DOMAIN handles \/ DOMAIN handles' = DOMAIN handles \union {h}
        BY <1>7, <3>1
      <3> QED
        BY <2>4, <3>2
    <2>6. JobOK' /\ CreatingOK'
      BY <1>1, <1>2 DEF JobOK, CreatingOK, NoJob
    <2> QED
      BY <1>2, <2>2, <2>5, <2>6, CloseFree
  <1> QED
    BY <1>3, <1>6, <1>7 DEF CommitOk, CommitFails, Relinked

LEMMA LinkStep ==
    ASSUME IInv, link_inode
    PROVE  IInv'
  <1>1. /\ job = NoJob /\ ChainOK(disk) /\ Shape(disk) /\ mode = "up" /\ Unnamed(disk)
    BY DEF link_inode, Quiet, Idle, IInv, ChainOK
  <1>2. Op /\ UNCHANGED <<mode, creating, handles, job, snapshot, life>>
    BY DEF link_inode
  <1>3. PICK i \in Inodes :
        LET r  == disk.inode[i]
            d  == transaction_orphan_del(disk, i)
            d2 == [d EXCEPT !.inode[i].links = 1, !.inode[i].next = 0]
        IN  \/ /\ r.links \in 1 .. (MaxLinks - 1)
               /\ disk' = [disk EXCEPT !.inode[i].links = @ + 1]
            \/ r.links = 0 /\ CommitOk(d2)
            \/ r.links = 0 /\ CommitFails(d2)
    BY DEF link_inode
  <1> DEFINE r  == disk.inode[i]
             one == 1
             d2 == Unchained(disk, i, one)
  <1>4. \/ r.links \in 1 .. (MaxLinks - 1) /\ disk' = [disk EXCEPT !.inode[i].links = @ + 1]
        \/ d2.ok /\ disk' \in {disk, d2}
    BY <1>3 DEF Unchained, CommitOk, CommitFails
  <1>5. ASSUME r.links \in 1 .. (MaxLinks - 1), disk' = [disk EXCEPT !.inode[i].links = @ + 1]
        PROVE  Kept(disk, disk')
    <2> DEFINE n == r.links + 1
    <2>1. n \in Nat /\ n # 0 /\ r.links # 0
      BY <1>5, ReclaimAssumption
    <2>2. disk' = Relinked(disk, i, n)
      BY <1>5 DEF Relinked
    <2> HIDE DEF n
    <2>3. i \notin ToSet(Chain(disk))
      BY <1>1, <2>1, NamedOffChain
    <2> QED
      BY <1>1, <2>1, <2>2, <2>3, LinksFrame
  <1>6. ASSUME d2.ok, disk' \in {disk, d2}
        PROVE  Kept(disk, disk')
    <2>1. d2.ok = TRUE /\ one \in Nat /\ one # 0
      BY <1>6
    <2> HIDE DEF one
    <2>2. Kept(disk, d2)
      BY <1>1, <1>6, <2>1, UnchainKept
    <2> QED
      BY <1>1, <1>6, <2>2, KeptItself
  <1>7. Kept(disk, disk')
    BY <1>4, <1>5, <1>6
  <1> QED
    BY <1>1, <1>2, <1>7, CloseQuiet

-----------------------------------------------------------------------------
(* Reclaim and mount *)

\* The generation the capability carries is the inode's, so the lifetime is too.
LEMMA BeginStep ==
    ASSUME IInv, reclaim_inode
    PROVE  IInv'
  <1>1. /\ creating = 0 /\ ChainOK(disk) /\ LifeOK /\ HandlesOK
    BY DEF reclaim_inode, Quiet, Idle, IInv
  <1>2. UNCHANGED <<disk, mode, poisoned, creating, snapshot, life, ops>>
    BY DEF reclaim_inode, bounds
  <1>3. PICK h \in BagToSet(handles) :
        /\ validate_reclaim_inode(disk, h.ino, h.gen)
        /\ job' = [kind |-> "evict", handle |-> h, step |-> "begin"]
        /\ handles' = handles (-) SetToBag({h})
    BY DEF reclaim_inode
  <1>4. h \in DOMAIN handles /\ DOMAIN handles' \subseteq DOMAIN handles
    BY <1>3, BagFacts
  <1>5. HandleOK(h, disk, life) /\ disk.inode[h.ino].gen = h.gen
    BY <1>1, <1>3, <1>4 DEF HandlesOK, validate_reclaim_inode
  <1>6. ASSUME FewCreations PROVE h.life = life[h.ino]
    <2> DEFINE n == life[h.ino] - h.life
    <2>1. /\ h.gen \in 0 .. (GenMod - 1) /\ Ahead(h.gen, h.gen, n)
          /\ h.life \in Nat /\ h.life <= life[h.ino]
      BY <1>5, <1>6 DEF HandleOK
    <2>2. life[h.ino] \in Nat /\ life[h.ino] <= ops /\ ops <= MaxOps /\ ops \in Nat
      BY <1>1, <1>5 DEF LifeOK, HandleOK
    <2>3. n \in Nat /\ n <= MaxOps
      BY <2>1, <2>2, ReclaimAssumption
    <2>4. n = 0
      <3> HIDE DEF n
      <3> QED
        BY <1>6, <2>1, <2>3, AheadNever
    <2> QED
      BY <2>1, <2>2, <2>4
  <1>7. JobOK'
    <2>1. /\ DOMAIN job' = {"kind", "handle", "step"} /\ job'.kind = "evict" /\ job'.handle = h
      BY <1>3
    <2>2. HandleOK(h, disk', life') /\ (FewCreations => h.life = life'[h.ino]) /\ h.ino \in Inodes
      BY <1>2, <1>5, <1>6 DEF HandleOK
    <2> QED
      BY <2>1, <2>2 DEF JobOK
  <1>8. Kept(disk, disk')
    BY <1>1, <1>2, KeptItself
  <1> QED
    BY <1>1, <1>2, <1>4, <1>7, <1>8, Close

\* The end of a job.
LEMMA GiveUpStep ==
    ASSUME IInv, job # NoJob, NEW m, m # "up", GiveUp(m), Kept(disk, disk'),
           life' = life, ops' = ops, creating' = creating
    PROVE  IInv'
  <1>1. /\ creating' = 0 /\ job' = NoJob /\ (mode' = "up" => mode = "up")
        /\ handles' = IF job.kind = "evict" THEN handles (+) SetToBag({job.handle}) ELSE handles
    BY DEF IInv, CreatingOK, GiveUp
  <1>2. JobOK'
    BY <1>1 DEF JobOK, NoJob
  <1>3. job.kind = "evict" => HandleOK(job.handle, disk', life')
    BY HandleKept DEF IInv, JobOK, Kept
  <1>4. \A h \in DOMAIN handles' : h \in DOMAIN handles \/ HandleOK(h, disk', life')
    <2>1. CASE job.kind = "evict"
      <3>1. DOMAIN (handles (+) SetToBag({job.handle})) = DOMAIN handles \union {job.handle}
        BY BagFacts
      <3>2. DOMAIN handles' = DOMAIN handles \union {job.handle}
        BY <1>1, <2>1, <3>1
      <3> QED
        BY <1>3, <2>1, <3>2
    <2>2. CASE job.kind # "evict"
      BY <1>1, <2>2
    <2> QED
      BY <2>1, <2>2
  <1> QED
    BY <1>1, <1>2, <1>4, Close

LEMMA ReclaimStep ==
    ASSUME IInv, reclaim
    PROVE  IInv'
  <1>1. job # NoJob /\ ChainOK(disk) /\ creating = 0
    BY DEF reclaim, reclaim_inode_lifetime, reclaim_commit_fails, reclaim_read_fails,
           reclaim_refused, IInv, CreatingOK
  <1> DEFINE t == Transaction(disk, job)
             i == job.handle.ino
  <1>2. /\ DOMAIN job = {"kind", "handle", "step"} /\ i \in Inodes
        /\ job.kind = "truncate" => disk.inode[i].links # 0
        /\ job.kind = "evict" =>
               /\ HandleOK(job.handle, disk, life)
               /\ FewCreations => job.handle.life = life[job.handle.ino]
    BY <1>1 DEF IInv, JobOK
  <1>3. ASSUME t.disk.ok
        PROVE  Kept(disk, t.disk) /\ (job.kind = "truncate" => t.disk.inode[i].links # 0)
    <2>1. t.disk.ok = TRUE
      BY <1>3
    <2> QED
      BY <1>1, <1>2, <2>1, TransactionKept
  <1>4. Kept(disk, disk)
    BY <1>1, KeptItself
  <1>5. CASE reclaim_inode_lifetime
    <2>1. /\ t.disk.ok /\ disk' = t.disk
          /\ job' = IF t.step = "final" THEN NoJob ELSE [job EXCEPT !.step = t.step]
          /\ UNCHANGED <<mode, creating, handles, life, ops>>
      BY <1>5 DEF reclaim_inode_lifetime, CommitOk, bounds
    <2>2. Kept(disk, disk') /\ (job.kind = "truncate" => disk'.inode[i].links # 0)
      BY <1>3, <2>1
    <2>3. JobOK'
      <3>1. CASE job' = NoJob
        BY <3>1 DEF JobOK, NoJob
      <3>2. CASE job' = [job EXCEPT !.step = t.step]
        <4>1. /\ DOMAIN job' = {"kind", "handle", "step"} /\ job'.kind = job.kind
              /\ job'.handle = job.handle
          <5> HIDE DEF t
          <5> QED
            BY <1>2, <3>2
        <4>2. job.kind \in {"evict", "cleanup", "truncate"}
          BY <1>1 DEF IInv, JobOK
        <4>3. job.kind = "evict" => /\ HandleOK(job.handle, disk', life')
                                    /\ FewCreations => job.handle.life = life'[job.handle.ino]
          BY <1>2, <2>1, <2>2, HandleKept DEF Kept
        <4> QED
          BY <1>2, <2>2, <4>1, <4>2, <4>3 DEF JobOK
      <3> QED
        BY <2>1, <3>1, <3>2
    <2>4. creating' = 0 /\ \A h \in DOMAIN handles' : h \in DOMAIN handles
      BY <1>1, <2>1
    <2> QED
      BY <2>1, <2>2, <2>3, <2>4, Close
  <1>6. CASE reclaim_commit_fails
    <2>1. t.disk.ok /\ disk' \in {disk, t.disk} /\ GiveUp("failed") /\ UNCHANGED <<creating, life, ops>>
      BY <1>6 DEF reclaim_commit_fails, CommitFails
    <2>2. Kept(disk, disk')
      BY <1>3, <1>4, <2>1
    <2> QED
      BY <1>1, <2>1, <2>2, GiveUpStep
  <1>7. CASE reclaim_read_fails
    BY <1>1, <1>4, <1>7, GiveUpStep DEF reclaim_read_fails
  <1>8. CASE reclaim_refused
    BY <1>1, <1>4, <1>8, GiveUpStep DEF reclaim_refused, bounds
  <1> QED
    BY <1>5, <1>6, <1>7, <1>8 DEF reclaim

\* A crash or a remount keeps the disk and nothing else.
LEMMA ForgetStep ==
    ASSUME IInv, Forget
    PROVE  IInv'
  <1>1. /\ mode' = "down" /\ creating' = 0 /\ handles' = EmptyBag /\ job' = NoJob
        /\ disk' = disk /\ life' = life /\ ops' = ops
    BY DEF Forget
  <1>2. Kept(disk, disk')
    BY <1>1, KeptItself DEF IInv
  <1>3. JobOK' /\ DOMAIN handles' = {}
    BY <1>1, BagFacts DEF JobOK, NoJob
  <1> QED
    BY <1>1, <1>2, <1>3, Close

LEMMA LoadStep ==
    ASSUME IInv, load_writable
    PROVE  IInv'
  <1>1. /\ mode = "down" /\ mode' # "up"
        /\ UNCHANGED <<disk, creating, handles, job, life, ops>>
    BY DEF load_writable, bounds
  <1>2. Kept(disk, disk') /\ creating' = 0
    BY <1>1, KeptItself DEF IInv, CreatingOK
  <1>3. JobOK'
    BY <1>1 DEF IInv, JobOK
  <1> QED
    BY <1>1, <1>2, <1>3, Close

\* The mount is complete only when the chain is empty.
LEMMA CleanupStep ==
    ASSUME IInv, cleanup_legacy_orphan_chain
    PROVE  IInv'
  <1> DEFINE i == IF snapshot = <<>> THEN 0 ELSE Head(snapshot)
             succ == IF Len(snapshot) > 1 THEN snapshot[2] ELSE 0
             r == disk.inode[i]
             valid == disk.head = i /\ (i # 0 => r.next = succ /\ r.used)
             h == Handle(i, r.gen, life[i])
  <1>1. /\ mode = "mounting" /\ job = NoJob
        /\ mode' = IF ~valid THEN "refused" ELSE IF i = 0 THEN "up" ELSE mode
        /\ job' = IF ~valid \/ i = 0 THEN NoJob
                  ELSE [kind |-> IF r.links = 0 THEN "cleanup" ELSE "truncate",
                        handle |-> h, step |-> "begin"]
        /\ UNCHANGED <<disk, creating, handles, life, ops>>
    BY DEF cleanup_legacy_orphan_chain, bounds
  <1>2. ChainOK(disk) /\ creating = 0
    BY <1>1 DEF IInv, CreatingOK
  <1>3. valid => disk.head = i
    OBVIOUS
  <1> HIDE DEF valid, i, succ
  <1>4. disk.head \in Inodes \union {0} /\ (disk.head = 0 => Unnamed(disk))
    <2> DEFINE s == Chain(disk)
    <2>1. IsChain(disk, s) /\ \A j \in ToSet(s) : \E k \in 1 .. Len(s) : j = s[k]
      BY <1>2, ChainMembers DEF ChainOK
    <2> HIDE DEF s
    <2>2. /\ s \in Seq(Inodes) /\ disk.head = IF 1 \in 1 .. Len(s) THEN s[1] ELSE 0
      BY <2>1 DEF IsChain, At
    <2>3. disk.head \in Inodes \union {0}
      BY <2>2
    <2>4. disk.head = 0 => Len(s) = 0
      BY <2>2, NoInodeIsZero
    <2>5. disk.head = 0 => ToSet(s) = {}
      BY <2>1, <2>4
    <2> QED
      BY <2>3, <2>5 DEF Unnamed, s
  <1>5. mode' = "up" => Unnamed(disk')
    BY <1>1, <1>3, <1>4
  <1>6. JobOK'
    <2>1. CASE job' = NoJob
      BY <2>1 DEF JobOK, NoJob
    <2>2. CASE job' # NoJob
      <3>1. i \in Inodes /\ job' = [kind |-> IF r.links = 0 THEN "cleanup" ELSE "truncate",
                                    handle |-> h, step |-> "begin"]
        BY <1>1, <1>3, <1>4, <2>2
      <3>2. /\ DOMAIN job' = {"kind", "handle", "step"} /\ job'.handle.ino = i
            /\ job'.kind \in {"cleanup", "truncate"} /\ job'.kind # "evict"
            /\ job'.kind = "truncate" => disk.inode[i].links # 0
        BY <3>1 DEF Handle
      <3> QED
        BY <1>1, <3>1, <3>2 DEF JobOK
    <2> QED
      BY <2>1, <2>2
  <1>7. CreatingOK' /\ Gens(disk, disk') /\ ChainOK(disk')
    BY <1>1, <1>2 DEF CreatingOK, Gens
  <1>8. \A x \in DOMAIN handles' : x \in DOMAIN handles
    BY <1>1
  <1> QED
    BY <1>1, <1>5, <1>6, <1>7, <1>8, CloseFree

LEMMA StutterStep ==
    ASSUME IInv, UNCHANGED vars
    PROVE  IInv'
  BY DEF vars, bounds, IInv, JobOK, CreatingOK, LifeOK, HandlesOK

\* The image's chain was accepted by the walk that a mount makes.
LEMMA InitStep ==
    ASSUME Init
    PROVE  IInv
  <1>1. SoundImage(disk)
    BY ImageAssumption DEF Init
  <1>2. /\ disk \in [inode : [Inodes -> InodeRecord], head : Inodes \union {0},
                     bitmap : SUBSET Blocks, refs : [Blocks -> 0 .. Cardinality(Inodes)],
                     odd : SUBSET Blocks, ok : {TRUE}]
        /\ validate_chain(disk).ok
    BY <1>1 DEF SoundImage
  <1>3. /\ DOMAIN disk = DiskFields /\ DOMAIN disk.inode = Inodes /\ disk.ok = TRUE
        /\ disk.head \in Inodes \union {0}
        /\ \A j \in Inodes : disk.inode[j] \in InodeRecord
    BY <1>2 DEF DiskFields
  <1>4. \A j \in Inodes : RecordOK(disk.inode[j]) /\ disk.inode[j].next \in Inodes \union {0}
    <2> SUFFICES ASSUME NEW r \in InodeRecord PROVE RecordOK(r) /\ r.next \in Inodes \union {0}
      BY <1>3
    <2>1. MaxLinks \in Nat
      BY ReclaimAssumption
    <2> QED
      BY <2>1 DEF InodeRecord, RecordOK, InodeFields
  <1>5. Shape(disk)
    BY <1>3, <1>4 DEF Shape
  <1>6. validate_chain(disk).ok = TRUE
    <2>1. validate_chain(disk).ok \in BOOLEAN
      BY DEF validate_chain
    <2> QED
      BY <1>2, <2>1
  <1>7. ChainOK(disk)
    BY <1>1, <1>3, <1>4, <1>5, <1>6, AcceptedIsChain DEF ChainOK, SoundImage, Chain
  <1>8. JobOK /\ CreatingOK /\ mode # "up"
    BY DEF Init, JobOK, CreatingOK, NoJob
  <1>9. LifeOK
    BY ReclaimAssumption DEF Init, LifeOK
  <1>10. HandlesOK
    BY BagFacts DEF Init, HandlesOK
  <1> QED
    BY <1>7, <1>8, <1>9, <1>10 DEF IInv

-----------------------------------------------------------------------------
(* The theorems *)

\* The inductive invariant: the orphan chain is a list, every inode that lost its
\* last name is on it, and the capabilities held carry generations of their
\* lifetimes.
THEOREM Invariance == Spec => []IInv
  <1>1. Init => IInv
    BY InitStep
  <1>2. IInv /\ [Next]_vars => IInv'
    <2> SUFFICES ASSUME IInv, [Next]_vars PROVE IInv'
      OBVIOUS
    <2>1. CASE namespace
      BY <2>1, CreateStep, LinkNewStep, UnlinkStep, LinkStep DEF namespace
    <2>2. CASE contents
      BY <2>2, ContentsStep
    <2>3. CASE reclaim_inode
      BY <2>3, BeginStep
    <2>4. CASE reclaim
      BY <2>4, ReclaimStep
    <2>5. CASE mount
      BY <2>5, LoadStep, CleanupStep, ForgetStep DEF mount, Remount
    <2>6. CASE Crash
      BY <2>6, ForgetStep DEF Crash
    <2>7. CASE UNCHANGED vars
      BY <2>7, StutterStep
    <2> QED
      BY <2>1, <2>2, <2>3, <2>4, <2>5, <2>6, <2>7 DEF Next
  <1> QED
    BY <1>1, <1>2, PTL DEF Spec

\* An inode that lost its last name (unlink_inode, a rename over it) is on an orphan
\* chain that load_writable can walk, until the transaction that frees or renames it,
\* whatever commit fails, reclaim stops or crash comes between.
THEOREM UnlinkedAreDiscoverable == Spec => []UnlinkedDiscoverable
  <1>1. IInv => UnlinkedDiscoverable
    <2> SUFFICES ASSUME IInv PROVE UnlinkedDiscoverable
      OBVIOUS
    <2>1. IsChain(disk, Chain(disk))
      BY DEF IInv, ChainOK
    <2>2. validate_chain(disk).ok = TRUE
      BY <2>1, ChainIsFound
    <2> QED
      BY <2>2 DEF IInv, ChainOK, Unnamed, Chain, UnlinkedDiscoverable
  <1> QED
    BY <1>1, Invariance, PTL

\* A reclaim capability takes apart only the lifetime of the inode number it was
\* handed out for (reclaim_inode's generation check), as long as a mount does not
\* create so many inodes that a generation comes round.
THEOREM CapabilitiesAreForOneLifetime ==
    ASSUME FewCreations
    PROVE  Spec => []ReclaimsItsLifetime
  <1>1. IInv => ReclaimsItsLifetime
    BY DEF IInv, JobOK, ReclaimsItsLifetime
  <1> QED
    BY <1>1, Invariance, PTL

=============================================================================
