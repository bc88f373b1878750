-------------------------- MODULE JournalLogProofs --------------------------
(***************************************************************************)
(* What recovery makes of a log, for any ring, descriptor capacity and     *)
(* home blocks: every pass of the walk ends; a transaction that            *)
(* journal_transaction.rs logged without its commit block is passed over,  *)
(* and one with it is replayed, each image to its home.                    *)
(***************************************************************************)
EXTENDS JournalLog, FiniteSetTheorems, FunctionTheorems, SequenceTheorems,
        WellFoundedInduction, TLAPS

-----------------------------------------------------------------------------
(* Induction, for a set of natural numbers *)

LEMMA LeastNumber ==
    ASSUME NEW T, T \subseteq Nat, T # {}
    PROVE  \E x \in T : \A y \in T : x <= y
  <1> DEFINE R == {p \in Nat \X Nat : p[1] < p[2]}
  <1>1. IsWellFoundedOn(R, Nat)
    BY NatLessThanWellFounded DEF OpToRel
  <1> HIDE DEF R
  <1>2. PICK x \in T : \A y \in T : ~ (<<y, x>> \in R)
    BY <1>1, WFMin
  <1>3. ASSUME NEW y \in T PROVE x <= y
    <2>1. <<y, x>> \in Nat \X Nat /\ <<y, x>>[1] = y /\ <<y, x>>[2] = x
      OBVIOUS
    <2>2. ~(y < x)
      BY <1>2, <2>1 DEF R
    <2> QED BY <2>2
  <1> QED BY <1>3

LEMMA SetInduction ==
    ASSUME NEW T, 0 \in T, \A n \in Nat : n \in T => n + 1 \in T
    PROVE  Nat \subseteq T
  <1> SUFFICES ASSUME Nat \ T # {} PROVE FALSE
    OBVIOUS
  <1>1. PICK n \in Nat \ T : \A m \in Nat \ T : n <= m
    BY LeastNumber
  <1>2. n # 0 /\ n - 1 \in Nat /\ n - 1 \in T
    BY <1>1
  <1> QED BY <1>1, <1>2

\* Each turn of a loop, taken from the states run, lowers a rank.
Lowers(S, turn, run, rank) ==
    /\ turn \in [S -> S] /\ run \subseteq S /\ rank \in [S -> Nat]
    /\ \A w \in run : rank[turn[w]] < rank[w]

\* Such a loop computes something: the state it ends in.
LEMMA LoopExists ==
    ASSUME NEW S, NEW turn, NEW run, NEW rank, Lowers(S, turn, run, rank)
    PROVE  \E f \in [S -> S] : \A w \in S : f[w] = IF w \in run THEN f[turn[w]] ELSE w
  <1> USE DEF Lowers
  <1> DEFINE Solves(g, n) ==
                 \A w \in S : rank[w] <= n => g[w] = IF w \in run THEN g[turn[w]] ELSE w
             Solved == {n \in Nat : \E g \in [S -> S] : Solves(g, n)}
  <1>1. 0 \in Solved
    <2> DEFINE g == [w \in S |-> w]
    <2>1. g \in [S -> S] /\ Solves(g, 0)
      OBVIOUS
    <2> QED BY <2>1
  <1>2. ASSUME NEW n \in Nat, n \in Solved PROVE n + 1 \in Solved
    <2>1. PICK g \in [S -> S] : Solves(g, n)
      BY <1>2
    <2> DEFINE h == [w \in S |-> IF w \in run THEN g[turn[w]] ELSE w]
    <2>2. h \in [S -> S]
      OBVIOUS
    <2>3. ASSUME NEW w \in S, rank[w] <= n + 1, w \in run PROVE h[w] = h[turn[w]]
      <3>1. turn[w] \in S /\ rank[turn[w]] <= n
        BY <2>3
      <3> QED BY <2>1, <2>3, <3>1
    <2>4. Solves(h, n + 1)
      BY <2>3
    <2> HIDE DEF h
    <2> QED BY <2>2, <2>4
  <1>3. Nat \subseteq Solved
    <2> HIDE DEF Solved
    <2> QED BY <1>1, <1>2, SetInduction
  <1>4. ASSUME NEW g \in [S -> S], NEW h \in [S -> S], NEW m \in Nat, NEW n \in Nat,
               Solves(g, m), Solves(h, n), NEW v \in S, rank[v] <= m, rank[v] <= n
        PROVE  g[v] = h[v]
    <2> DEFINE Differ == {k \in Nat : \E w \in S : /\ rank[w] = k /\ k <= m /\ k <= n
                                                   /\ g[w] # h[w]}
    <2>1. Differ = {}
      <3> SUFFICES ASSUME Differ # {} PROVE FALSE
        OBVIOUS
      <3>1. PICK k \in Differ : \A j \in Differ : k <= j
        <4> HIDE DEF Differ
        <4> Differ \subseteq Nat
          BY DEF Differ
        <4> QED BY LeastNumber
      <3>2. PICK w \in S : rank[w] = k /\ k <= m /\ k <= n /\ g[w] # h[w]
        BY <3>1
      <3>3. w \in run
        BY <1>4, <3>2
      <3>4. turn[w] \in S /\ rank[turn[w]] < k /\ g[turn[w]] # h[turn[w]]
        BY <1>4, <3>2, <3>3
      <3>5. rank[turn[w]] \in Differ
        BY <3>1, <3>2, <3>4
      <3> QED BY <3>1, <3>4, <3>5
    <2> QED BY <1>4, <2>1
  <1> DEFINE Pick(n) == CHOOSE g \in [S -> S] : Solves(g, n)
             f == [w \in S |-> Pick(rank[w])[w]]
  <1>5. \A n \in Nat : Pick(n) \in [S -> S] /\ Solves(Pick(n), n)
    <2> HIDE DEF Solves
    <2> QED BY <1>3
  <1>6. f \in [S -> S]
    <2> HIDE DEF Pick, Solves
    <2> QED BY <1>5
  <1>7. ASSUME NEW w \in S PROVE f[w] = IF w \in run THEN f[turn[w]] ELSE w
    <2> DEFINE g == Pick(rank[w])
    <2>1. g \in [S -> S] /\ Solves(g, rank[w]) /\ f[w] = g[w] /\ rank[w] \in Nat
      <3> HIDE DEF Pick, Solves
      <3> QED BY <1>5
    <2> HIDE DEF Pick
    <2>2. CASE w \in run
      <3>1. f[w] = g[turn[w]]
        <4> HIDE DEF f, g
        <4> QED BY <2>1, <2>2
      <3>2. turn[w] \in S /\ rank[turn[w]] \in Nat /\ rank[turn[w]] <= rank[w]
        BY <2>2
      <3>3. f[turn[w]] = Pick(rank[turn[w]])[turn[w]]
        BY <3>2
      <3>4. Pick(rank[turn[w]])[turn[w]] = g[turn[w]]
        <4> DEFINE h == Pick(rank[turn[w]])
        <4>1. h \in [S -> S] /\ Solves(h, rank[turn[w]])
          <5> HIDE DEF Solves, Pick
          <5> QED BY <1>5, <3>2
        <4> HIDE DEF f, g, h, Solves
        <4>2. h[turn[w]] = g[turn[w]]
          BY <1>4, <2>1, <3>2, <4>1
        <4> QED BY <4>2 DEF h
      <3> HIDE DEF f, g
      <3> QED BY <2>2, <3>1, <3>3, <3>4
    <2>3. CASE w \notin run
      <3> HIDE DEF f, g
      <3> QED BY <2>1, <2>3
    <2> QED BY <2>2, <2>3
  <1> HIDE DEF f
  <1> QED BY <1>6, <1>7

-----------------------------------------------------------------------------
(* Ascending order *)

IsAscending(s, K) ==
    /\ s \in [1 .. Cardinality(K) -> K]
    /\ \A i, j \in 1 .. Cardinality(K) : i < j => s[i] < s[j]

LEMMA AscendingExists ==
    ASSUME NEW S \in SUBSET Nat, IsFiniteSet(S)
    PROVE  \E s : IsAscending(s, S)
  <1> DEFINE Sizes == {n \in Nat : \A K \in SUBSET Nat :
                          IsFiniteSet(K) /\ Cardinality(K) = n => \E s : IsAscending(s, K)}
  <1>1. 0 \in Sizes
    <2> SUFFICES ASSUME NEW K \in SUBSET Nat, IsFiniteSet(K), Cardinality(K) = 0
                 PROVE  \E s : IsAscending(s, K)
      OBVIOUS
    <2>1. IsAscending([i \in 1 .. 0 |-> 0], K)
      BY DEF IsAscending
    <2> QED BY <2>1
  <1>2. ASSUME NEW n \in Nat, n \in Sizes PROVE n + 1 \in Sizes
    <2> SUFFICES ASSUME NEW K \in SUBSET Nat, IsFiniteSet(K), Cardinality(K) = n + 1
                 PROVE  \E s : IsAscending(s, K)
      OBVIOUS
    <2>1. K # {}
      BY FS_EmptySet
    <2>2. PICK k \in K : \A j \in K : k <= j
      BY <2>1, LeastNumber
    <2>3. IsFiniteSet(K \ {k}) /\ Cardinality(K \ {k}) = n
      <3>1. IsFiniteSet(K \ {k}) /\ Cardinality(K \ {k}) = Cardinality(K) - 1
        BY <2>2, FS_RemoveElement
      <3> QED BY <3>1
    <2>4. PICK s : IsAscending(s, K \ {k})
      BY <1>2, <2>3
    <2> DEFINE t == [i \in 1 .. n + 1 |-> IF i = 1 THEN k ELSE s[i - 1]]
    <2>5. \A i \in 1 .. n + 1 : i = 1 \/ i - 1 \in 1 .. n
      OBVIOUS
    <2>6. s \in [1 .. n -> K \ {k}] /\ \A i, j \in 1 .. n : i < j => s[i] < s[j]
      BY <2>3, <2>4 DEF IsAscending
    <2>7. t \in [1 .. n + 1 -> K]
      BY <2>5, <2>6
    <2>8. ASSUME NEW i \in 1 .. n + 1, NEW j \in 1 .. n + 1, i < j PROVE t[i] < t[j]
      <3>1. j - 1 \in 1 .. n /\ t[j] = s[j - 1] /\ s[j - 1] \in K \ {k}
        BY <2>5, <2>6, <2>8
      <3>2. CASE i = 1
        <4>1. t[i] = k /\ k \in Nat /\ t[j] \in Nat /\ k <= t[j] /\ k # t[j]
          BY <2>2, <3>1, <3>2
        <4> HIDE DEF t
        <4> QED BY <4>1
      <3>3. CASE i # 1
        BY <2>5, <2>6, <2>8, <3>1, <3>3
      <3> QED BY <3>2, <3>3
    <2> HIDE DEF t
    <2>9. IsAscending(t, K)
      BY <2>7, <2>8 DEF IsAscending
    <2> QED BY <2>9
  <1>3. Nat \subseteq Sizes
    <2> HIDE DEF Sizes
    <2> QED BY <1>1, <1>2, SetInduction
  <1> QED BY <1>3, FS_CardinalityType

LEMMA AscendingIs ==
    ASSUME NEW K \in SUBSET Nat, IsFiniteSet(K)
    PROVE  IsAscending(ascending(K), K)
  BY AscendingExists DEF IsAscending, ascending

\* Every element has its place, and no element has two.
LEMMA AscendingOnto ==
    ASSUME NEW K \in SUBSET Nat, IsFiniteSet(K), NEW s, IsAscending(s, K)
    PROVE  /\ \A k \in K : \E i \in 1 .. Cardinality(K) : s[i] = k
           /\ \A i, j \in 1 .. Cardinality(K) : s[i] = s[j] => i = j
  <1> DEFINE n == Cardinality(K)
  <1>1. n \in Nat
    BY FS_CardinalityType
  <1>2. s \in [1 .. n -> K] /\ \A i, j \in 1 .. n : i < j => s[i] < s[j]
    BY DEF IsAscending
  <1>3. \A i \in 1 .. n : s[i] \in Nat
    BY <1>2
  <1> HIDE DEF n
  <1>4. ASSUME NEW i \in 1 .. n, NEW j \in 1 .. n, s[i] = s[j] PROVE i = j
    <2>1. ~(s[i] < s[j]) /\ ~(s[j] < s[i]) /\ i \in Int /\ j \in Int
      BY <1>3, <1>4
    <2> QED BY <1>2, <2>1
  <1>5. s \in Injection(1 .. n, K)
    BY <1>2, <1>4 DEF Injection, IsInjective
  <1>6. IsFiniteSet(1 .. n) /\ Cardinality(1 .. n) = n
    BY <1>1, FS_Interval
  <1>7. s \in Surjection(1 .. n, K)
    BY <1>5, <1>6, FS_Injection DEF n
  <1> QED BY <1>4, <1>7 DEF Surjection, n

\* The numbers up to n, in ascending order.
LEMMA AscendingInterval ==
    ASSUME NEW n \in Nat
    PROVE  Cardinality(1 .. n) = n /\ ascending(1 .. n) = [i \in 1 .. n |-> i]
  <1>1. IsFiniteSet(1 .. n) /\ Cardinality(1 .. n) = n
    BY FS_Interval
  <1> DEFINE s == ascending(1 .. n)
  <1>2. s \in [1 .. n -> 1 .. n] /\ \A i, j \in 1 .. n : i < j => s[i] < s[j]
    BY <1>1, AscendingIs DEF IsAscending
  <1> HIDE DEF s
  <1>3. \A i \in 1 .. n : s[i] >= i
    <2> DEFINE T == {i \in Nat : i \in 1 .. n => s[i] >= i}
    <2>1. 0 \in T
      OBVIOUS
    <2>2. ASSUME NEW i \in Nat, i \in T PROVE i + 1 \in T
      <3> SUFFICES ASSUME i + 1 \in 1 .. n PROVE s[i + 1] >= i + 1
        OBVIOUS
      <3>1. s[i + 1] \in 1 .. n
        BY <1>2
      <3>2. CASE i = 0
        BY <3>1, <3>2
      <3>3. CASE i # 0
        <4>1. i \in 1 .. n /\ i < i + 1
          BY <3>3
        <4>2. s[i] < s[i + 1] /\ s[i] >= i /\ s[i] \in 1 .. n
          BY <1>2, <2>2, <4>1
        <4> QED BY <3>1, <4>2
      <3> QED BY <3>2, <3>3
    <2>3. Nat \subseteq T
      <3> HIDE DEF T
      <3> QED BY <2>1, <2>2, SetInduction
    <2> QED BY <2>3
  <1>4. \A i \in 1 .. n : s[i] <= i
    <2> DEFINE T == {k \in Nat : n - k \in 1 .. n => s[n - k] <= n - k}
    <2>1. 0 \in T
      BY <1>2
    <2>2. ASSUME NEW k \in Nat, k \in T PROVE k + 1 \in T
      <3> DEFINE i == n - (k + 1)
      <3> SUFFICES ASSUME i \in 1 .. n PROVE s[i] <= i
        OBVIOUS
      <3>1. n - k = i + 1 /\ i + 1 \in 1 .. n /\ i < i + 1
        OBVIOUS
      <3> HIDE DEF i
      <3>2. s[i] < s[i + 1] /\ s[i + 1] <= i + 1 /\ s[i] \in 1 .. n /\ s[i + 1] \in 1 .. n
        BY <1>2, <2>2, <3>1
      <3> QED BY <3>2
    <2>3. Nat \subseteq T
      <3> HIDE DEF T
      <3> QED BY <2>1, <2>2, SetInduction
    <2>4. ASSUME NEW i \in 1 .. n PROVE s[i] <= i
      <3>1. n - i \in T /\ n - (n - i) = i
        BY <2>3
      <3> QED BY <3>1
    <2> QED BY <2>4
  <1>5. ASSUME NEW i \in 1 .. n PROVE s[i] = i
    <2>1. s[i] \in 1 .. n /\ s[i] >= i /\ s[i] <= i
      BY <1>2, <1>3, <1>4
    <2> QED BY <2>1
  <1> QED BY <1>1, <1>2, <1>5 DEF s

-----------------------------------------------------------------------------
(* Every walk ends *)

Passes == {"scan", "revoke", "replay"}

\* A block any device may hold.
BlockOK(b) ==
    /\ b.type \in {"super", "desc", "data", "commit", "revoke", "garbage"}
    /\ b.type = "desc" => /\ Len(b.tags) \in Nat
                          /\ b.tags = [i \in 1 .. Len(b.tags) |-> b.tags[i]]
    /\ b.type = "data" => b.image \in Image

LogOK(l) == \A n \in LogBlocks : BlockOK(l[n])

Revocations == UNION {[D -> Sequences32] : D \in SUBSET HomeBlocks}

HomeWrites == [home : HomeBlocks, image : Image]

LEMMA RingNumbers ==
    /\ First \in Nat /\ MaxLen \in Nat /\ First > 0 /\ First < MaxLen
    /\ ring_len \in Nat /\ ring_len = MaxLen - First
  BY RingAssumption DEF ring_len

LEMMA NextInLog ==
    ASSUME NEW p \in LogBlocks
    PROVE  ring_next(p) \in LogBlocks
  BY RingNumbers DEF LogBlocks, ring_next

LEMMA PositionInLog ==
    ASSUME NEW p \in LogBlocks, NEW i \in Nat, i < ring_len
    PROVE  ring_position(p, i) \in LogBlocks
  BY RingNumbers DEF LogBlocks, ring_position

LEMMA NextSequenceType ==
    ASSUME NEW s \in Sequences32
    PROVE  next_sequence(s) \in Sequences32
  BY SequenceAssumption DEF Sequences32, next_sequence

\* What a walk keeps, without the writes of the replay.
WalkKeeps(w) ==
    /\ w.pos \in LogBlocks /\ w.seq \in Sequences32 /\ w.consumed \in Nat
    /\ w.tx_start \in LogBlocks /\ w.top \in BOOLEAN /\ w.invalid \in BOOLEAN
    /\ w.out \in {"run", "ok", "err"} /\ w.revokes \in Revocations
    /\ w.writes \in Seq(HomeWrites)

LEMMA WalkStateKeeps ==
    ASSUME NEW w
    PROVE  w \in WalkState => WalkKeeps(w)
  BY DEF WalkState, WalkKeeps, Revocations, HomeWrites

\* One field at a time.
LEMMA WalkStateExcept ==
    ASSUME NEW w \in WalkState
    PROVE  /\ \A o \in {"run", "ok", "err"} : [w EXCEPT !.out = o] \in WalkState
           /\ \A p \in LogBlocks, c \in Nat, t \in BOOLEAN, x \in BOOLEAN :
                 [w EXCEPT !.pos = p, !.consumed = c, !.top = t, !.invalid = x] \in WalkState
           /\ \A r \in Revocations : [w EXCEPT !.revokes = r] \in WalkState
           /\ \A s \in Seq(HomeWrites), o \in {"run", "ok", "err"} :
                 [w EXCEPT !.writes = s, !.out = o] \in WalkState
  BY DEF WalkState, Revocations, HomeWrites

LEMMA UnescapeType ==
    ASSUME NEW t, NEW b, BlockOK(b)
    PROVE  Unescape(t, data_image(b)) \in Image
  BY DEF Unescape, data_image, Image, BlockOK

LEMMA IntervalFinite == \A n \in Nat : IsFiniteSet(1 .. n)
  <1> SUFFICES ASSUME NEW n \in Nat PROVE IsFiniteSet(1 .. n)
    OBVIOUS
  <1> QED BY FS_Interval

\* The replay of one descriptor writes homes of the filesystem.
LEMMA ReplayTagsType ==
    ASSUME NEW w \in WalkState, w.out = "run", NEW tags, NEW data,
           Len(tags) \in Nat, tags = [i \in 1 .. Len(tags) |-> tags[i]],
           data = [i \in 1 .. Len(tags) |-> data[i]],
           \A i \in 1 .. Len(tags) : in_range(tags[i].home) /\ BlockOK(data[i])
    PROVE  /\ ReplayTags(w, tags, data) \in WalkState
           /\ ReplayTags(w, tags, data).consumed = w.consumed
  <1> DEFINE live  == {i \in DOMAIN tags : ~tags[i].deleted}
             hits  == {i \in live : tags[i].home \in JournalBlocks}
             kept  == {i \in live : (\A j \in hits : i < j) /\ ~revoked(w, tags[i].home)}
             order == ascending(kept)
             new   == [k \in 1 .. Cardinality(kept) |->
                          [home  |-> tags[order[k]].home,
                           image |-> Unescape(tags[order[k]], data_image(data[order[k]]))]]
             o     == IF hits = {} THEN w.out ELSE "err"
  <1>1. DOMAIN tags = 1 .. Len(tags)
    OBVIOUS
  <1>2. kept \subseteq 1 .. Len(tags)
    BY <1>1
  <1>3. \A i \in kept : tags[i].home \in HomeBlocks
    <2>1. \A i \in kept : i \notin hits
      BY <1>2
    <2> QED BY <1>1, <1>2, <2>1 DEF in_range
  <1> HIDE DEF kept
  <1>4. IsFiniteSet(kept) /\ Cardinality(kept) \in Nat /\ kept \in SUBSET Nat
    <2>1. IsFiniteSet(1 .. Len(tags))
      BY IntervalFinite
    <2>2. IsFiniteSet(kept)
      BY <1>2, <2>1, FS_Subset
    <2> QED BY <1>2, <2>2, FS_CardinalityType
  <1>5. order \in [1 .. Cardinality(kept) -> kept]
    BY <1>4, AscendingIs DEF IsAscending
  <1> HIDE DEF order
  <1>6. \A k \in 1 .. Cardinality(kept) :
            [home  |-> tags[order[k]].home,
             image |-> Unescape(tags[order[k]], data_image(data[order[k]]))] \in HomeWrites
    BY <1>2, <1>3, <1>5, UnescapeType DEF HomeWrites
  <1>7. new \in Seq(HomeWrites)
    <2>1. new \in [1 .. Cardinality(kept) -> HomeWrites]
      BY <1>6
    <2> HIDE DEF new
    <2> QED BY <1>4, <2>1, SeqDef
  <1> HIDE DEF new
  <1>8. w.writes \in Seq(HomeWrites)
    BY WalkStateKeeps DEF WalkKeeps
  <1>9. w.writes \o new \in Seq(HomeWrites)
    BY <1>7, <1>8, ConcatProperties
  <1>10. ReplayTags(w, tags, data) = [w EXCEPT !.writes = w.writes \o new, !.out = o]
    BY DEF ReplayTags, new, order, kept
  <1>11. o \in {"run", "ok", "err"}
    OBVIOUS
  <1> HIDE DEF o
  <1>12. [w EXCEPT !.writes = w.writes \o new, !.out = o] \in WalkState
    BY <1>9, <1>11, WalkStateExcept
  <1>13. [w EXCEPT !.writes = w.writes \o new, !.out = o].consumed = w.consumed
    BY DEF WalkState
  <1> QED BY <1>10, <1>12, <1>13

\* A turn of the loop: the walk stays within the log, and goes on only after it has
\* consumed a block of the ring.
LEMMA WalkStepType ==
    ASSUME NEW l, LogOK(l), NEW pass \in Passes, NEW stop,
           NEW w \in WalkState, w.out = "run"
    PROVE  /\ WalkStep(l, pass, stop, w) \in WalkState
           /\ WalkStep(l, pass, stop, w).out = "run" =>
                  /\ w.consumed < ring_len
                  /\ WalkStep(l, pass, stop, w).consumed > w.consumed
  <1> DEFINE b == l[w.pos]
             Turn(v) == /\ v \in WalkState
                        /\ v.out = "run" => w.consumed < ring_len /\ v.consumed > w.consumed
  <1>0. WalkKeeps(w) /\ BlockOK(b)
    BY WalkStateKeeps DEF WalkKeeps, LogOK
  <1>1. \A o \in {"ok", "err"} : Turn([w EXCEPT !.out = o])
    <2> SUFFICES ASSUME NEW o \in {"ok", "err"} PROVE Turn([w EXCEPT !.out = o])
      OBVIOUS
    <2>1. [w EXCEPT !.out = o] \in WalkState
      BY WalkStateExcept
    <2>2. [w EXCEPT !.out = o].out = o
      BY DEF WalkState
    <2> QED BY <2>1, <2>2
  <1>2. Turn(LogEnds(pass, w)) /\ Turn(Corrupt(w))
    <2> HIDE DEF Turn
    <2> QED BY <1>1 DEF LogEnds, Corrupt
  <1>3. ASSUME b.type = "desc", w.consumed < ring_len PROVE Turn(WalkDescriptor(l, pass, w, b))
    <2> DEFINE n    == Len(b.tags)
               here == ring_next(w.pos)
               data == [i \in 1 .. n |-> l[ring_position(here, i - 1)]]
               bad  == ~verify_block_checksum(b)
                       \/ \E i \in 1 .. n : ~tag_checksum_ok(b.tags[i], w.seq, data[i])
               w2   == [w EXCEPT !.pos = ring_position(here, n),
                                 !.consumed = @ + 1 + n, !.top = FALSE,
                                 !.invalid = @ \/ bad]
    <2>1. n \in Nat /\ here \in LogBlocks
      BY <1>0, <1>3, NextInLog DEF WalkKeeps, BlockOK
    <2>2. ASSUME ~(w.consumed + 1 + n > ring_len), \A i \in 1 .. n : in_range(b.tags[i].home)
          PROVE  Turn(w2) /\ Turn(ReplayTags(w2, b.tags, data))
      <3>0. b.tags = [i \in 1 .. n |-> b.tags[i]]
        BY <1>0, <1>3 DEF BlockOK
      <3> HIDE DEF n
      <3>1. n < ring_len /\ w.consumed + 1 + n \in Nat /\ w.consumed + 1 + n > w.consumed
        BY <1>0, <2>1, <2>2, RingNumbers DEF WalkKeeps
      <3>2. ring_position(here, n) \in LogBlocks
        BY <2>1, <3>1, PositionInLog
      <3>3. w.invalid \/ bad \in BOOLEAN
        BY <1>0 DEF WalkKeeps
      <3>4. \A i \in 1 .. n : BlockOK(data[i])
        <4> SUFFICES ASSUME NEW i \in 1 .. n PROVE BlockOK(data[i])
          OBVIOUS
        <4>1. i - 1 \in Nat /\ i - 1 < ring_len
          BY <2>1, <3>1, RingNumbers
        <4>2. ring_position(here, i - 1) \in LogBlocks
          BY <2>1, <4>1, PositionInLog
        <4> QED BY <4>2 DEF LogOK
      <3>5. data = [i \in 1 .. n |-> data[i]]
        OBVIOUS
      <3> HIDE DEF here, data, bad
      <3>6. w2 \in WalkState
        BY <1>0, <3>1, <3>2, <3>3, WalkStateExcept DEF WalkKeeps
      <3>7. w2.out = "run" /\ w2.consumed = w.consumed + 1 + n
        BY DEF WalkState
      <3> HIDE DEF w2
      <3>8. Turn(w2)
        BY <1>3, <3>1, <3>6, <3>7
      <3>10. \A i \in 1 .. n : in_range(b.tags[i].home)
        BY <2>2
      <3>9. /\ ReplayTags(w2, b.tags, data) \in WalkState
            /\ ReplayTags(w2, b.tags, data).consumed = w2.consumed
        BY <2>1, <3>0, <3>4, <3>5, <3>6, <3>7, <3>10, ReplayTagsType DEF n
      <3> QED BY <1>3, <3>1, <3>7, <3>8, <3>9
    <2> HIDE DEF Turn
    <2> QED BY <1>2, <2>2 DEF WalkDescriptor
  <1>4. ASSUME w.consumed < ring_len PROVE Turn(WalkRevoke(pass, w, b))
    <2> DEFINE bad == ~verify_block_checksum(b)
               w2  == [w EXCEPT !.pos = ring_next(@), !.consumed = @ + 1, !.top = FALSE,
                                !.invalid = @ \/ bad]
               newer(home) == home \in DOMAIN w.revokes /\ tid_geq(w.revokes[home], w.seq)
               r   == [home \in DOMAIN w.revokes \cup b.blocks |->
                          IF home \in b.blocks /\ ~newer(home) THEN w.seq
                          ELSE w.revokes[home]]
    <2>1. ring_next(w.pos) \in LogBlocks /\ w.consumed + 1 \in Nat
      BY <1>0, NextInLog DEF WalkKeeps
    <2>2. w.invalid \/ bad \in BOOLEAN
      BY <1>0 DEF WalkKeeps
    <2> HIDE DEF bad
    <2>3. w2 \in WalkState
      BY <2>1, <2>2, WalkStateExcept
    <2>4. w2.out = "run" /\ w2.consumed = w.consumed + 1
      BY DEF WalkState
    <2> HIDE DEF w2
    <2>5. Turn(w2)
      BY <1>0, <1>4, <2>3, <2>4 DEF WalkKeeps
    <2>6. ASSUME b.blocks \subseteq HomeBlocks PROVE Turn([w2 EXCEPT !.revokes = r])
      <3>1. r \in Revocations
        <4>1. PICK D \in SUBSET HomeBlocks : w.revokes \in [D -> Sequences32]
          BY <1>0 DEF WalkKeeps, Revocations
        <4>2. w.seq \in Sequences32
          BY <1>0 DEF WalkKeeps
        <4>3. r \in [D \cup b.blocks -> Sequences32]
          <5> HIDE DEF newer
          <5>1. \A home \in D \cup b.blocks :
                    (IF home \in b.blocks /\ ~newer(home) THEN w.seq ELSE w.revokes[home])
                        \in Sequences32
            BY <4>1, <4>2 DEF newer
          <5> QED BY <4>1, <5>1
        <4>4. D \cup b.blocks \in SUBSET HomeBlocks
          BY <2>6
        <4> HIDE DEF r
        <4> QED BY <4>3, <4>4 DEF Revocations
      <3> HIDE DEF r
      <3>2. [w2 EXCEPT !.revokes = r] \in WalkState
        BY <2>3, <3>1, WalkStateExcept
      <3>3. /\ [w2 EXCEPT !.revokes = r].out = w2.out
            /\ [w2 EXCEPT !.revokes = r].consumed = w2.consumed
        BY <2>3 DEF WalkState
      <3> QED BY <2>5, <3>2, <3>3
    <2> HIDE DEF Turn
    <2> QED BY <1>2, <2>5, <2>6 DEF WalkRevoke, w2, bad
  <1>5. ASSUME w.consumed < ring_len PROVE Turn(WalkCommit(pass, w, b))
    <2> DEFINE next == ring_next(w.pos)
               used == w.consumed + 1
               o    == IF next = w.tx_start \/ used >= ring_len THEN "ok" ELSE "run"
               w2   == [w EXCEPT !.pos = next, !.consumed = used, !.tx_start = next,
                                 !.seq = next_sequence(@), !.top = TRUE, !.invalid = FALSE,
                                 !.out = o]
    <2>1. /\ next \in LogBlocks /\ used \in Nat /\ used > w.consumed
          /\ next_sequence(w.seq) \in Sequences32
      BY <1>0, NextInLog, NextSequenceType DEF WalkKeeps
    <2>2. o \in {"run", "ok", "err"}
      OBVIOUS
    <2> HIDE DEF o, next, used
    <2>3. w2 \in WalkState /\ w2.consumed = used
      BY <2>1, <2>2 DEF WalkState
    <2>4. Turn(w2)
      BY <1>5, <2>1, <2>3
    <2> HIDE DEF Turn
    <2> QED BY <1>2, <2>4 DEF WalkCommit, w2, o, next, used
  <1>6. block_type(b) = "desc" => b.type = "desc"
    BY <1>0 DEF block_type, BlockOK
  <1>7. w.consumed < ring_len \/ w.consumed >= ring_len
    BY <1>0, RingNumbers DEF WalkKeeps
  <1> HIDE DEF Turn
  <1>8. Turn(WalkStep(l, pass, stop, w))
    BY <1>1, <1>2, <1>3, <1>4, <1>5, <1>6, <1>7 DEF WalkStep
  <1> QED BY <1>8 DEF Turn

\* walk's inner loop, unfolded: what it computes is where its next turn leads, or, once it
\* has a verdict, the verdict.
LEMMA WalkUnfolds ==
    ASSUME NEW l, LogOK(l), NEW pass \in Passes, NEW stop
    PROVE  \A w \in WalkState :
              walk_from(l, pass, stop)[w] =
                  IF w.out = "run" THEN walk_from(l, pass, stop)[WalkStep(l, pass, stop, w)]
                  ELSE w
  <1> DEFINE run  == {w \in WalkState : w.out = "run"}
             turn == [w \in WalkState |-> IF w \in run THEN WalkStep(l, pass, stop, w) ELSE w]
             rank == [w \in WalkState |->
                         IF w.out # "run" THEN 0
                         ELSE IF w.consumed >= ring_len THEN 1
                         ELSE ring_len - w.consumed + 1]
  <1>1. turn \in [WalkState -> WalkState]
    BY WalkStepType
  <1>2. rank \in [WalkState -> Nat]
    <2>1. \A w \in WalkState : w.consumed \in Nat
      BY WalkStateKeeps DEF WalkKeeps
    <2> QED BY <2>1, RingNumbers
  <1>3. ASSUME NEW w \in run PROVE rank[turn[w]] < rank[w]
    <2>1. turn[w] = WalkStep(l, pass, stop, w) /\ turn[w] \in WalkState
      BY <1>1
    <2>2. turn[w].out = "run" => w.consumed < ring_len /\ turn[w].consumed > w.consumed
      BY <2>1, WalkStepType
    <2>3. w.consumed \in Nat /\ turn[w].consumed \in Nat
      BY <2>1, WalkStateKeeps DEF WalkKeeps
    <2> HIDE DEF turn
    <2> QED BY <2>1, <2>2, <2>3, RingNumbers
  <1>4. run \in SUBSET WalkState
    OBVIOUS
  <1> HIDE DEF run, turn, rank
  <1>5. \E f \in [WalkState -> WalkState] :
            \A w \in WalkState : f[w] = IF w \in run THEN f[turn[w]] ELSE w
    <2>1. \A w \in run : rank[turn[w]] < rank[w]
      BY <1>3
    <2>2. Lowers(WalkState, turn, run, rank)
      BY <1>1, <1>2, <1>4, <2>1 DEF Lowers
    <2> QED BY <2>2, LoopExists
  <1>6. PICK f \in [WalkState -> WalkState] :
            \A w \in WalkState : f[w] = IF w \in run THEN f[turn[w]] ELSE w
    BY <1>5
  <1>7. f = [w \in WalkState |->
                IF w.out = "run" THEN f[WalkStep(l, pass, stop, w)] ELSE w]
    BY <1>6 DEF run, turn
  <1> DEFINE loop == walk_from(l, pass, stop)
  <1>8. loop = [w \in WalkState |->
                   IF w.out = "run" THEN loop[WalkStep(l, pass, stop, w)] ELSE w]
    BY <1>7, Zenon DEF walk_from
  <1> HIDE DEF loop
  <1>9. \A w \in WalkState :
            loop[w] = IF w.out = "run" THEN loop[WalkStep(l, pass, stop, w)] ELSE w
    BY <1>8
  <1> QED BY <1>9 DEF loop

\* What holds of a state if it holds where its turn leads holds of every state.
LEMMA WalkInduction ==
    ASSUME NEW l, LogOK(l), NEW pass \in Passes, NEW stop, NEW G,
           \A w \in WalkState :
               (w.out = "run" => WalkStep(l, pass, stop, w) \in G) => w \in G
    PROVE  WalkState \subseteq G
  <1> DEFINE rank(w) == IF w.out # "run" THEN 0
                        ELSE IF w.consumed >= ring_len THEN 1
                        ELSE ring_len - w.consumed + 1
             Ranks == {k \in Nat : \E w \in WalkState : rank(w) = k /\ w \notin G}
  <1>1. \A w \in WalkState : w.consumed \in Nat /\ rank(w) \in Nat
    <2>1. \A w \in WalkState : w.consumed \in Nat
      BY WalkStateKeeps DEF WalkKeeps
    <2> QED BY <2>1, RingNumbers
  <1>2. ASSUME NEW w \in WalkState, w.out = "run"
        PROVE  /\ WalkStep(l, pass, stop, w) \in WalkState
               /\ rank(WalkStep(l, pass, stop, w)) < rank(w)
    <2> DEFINE v == WalkStep(l, pass, stop, w)
    <2>1. v \in WalkState /\ (v.out = "run" => w.consumed < ring_len /\ v.consumed > w.consumed)
      BY <1>2, WalkStepType
    <2>2. v.consumed \in Nat /\ w.consumed \in Nat
      BY <1>1, <2>1
    <2> HIDE DEF v
    <2>3. rank(v) < rank(w)
      BY <1>2, <2>1, <2>2, RingNumbers
    <2> QED BY <2>1, <2>3 DEF v
  <1> HIDE DEF rank
  <1>3. Ranks = {}
    <2> SUFFICES ASSUME Ranks # {} PROVE FALSE
      OBVIOUS
    <2>1. Ranks \subseteq Nat
      OBVIOUS
    <2>2. PICK k \in Ranks : \A j \in Ranks : k <= j
      <3> HIDE DEF Ranks
      <3> QED BY <2>1, LeastNumber
    <2>3. PICK w \in WalkState : rank(w) = k /\ w \notin G
      BY <2>2
    <2>4. w.out = "run" /\ WalkStep(l, pass, stop, w) \notin G
      BY <2>3
    <2>5. rank(WalkStep(l, pass, stop, w)) \in Ranks
      BY <1>1, <1>2, <2>4
    <2>6. rank(WalkStep(l, pass, stop, w)) < k /\ k \in Nat
      BY <1>2, <2>2, <2>3, <2>4
    <2> QED BY <2>1, <2>2, <2>5, <2>6
  <1> QED BY <1>1, <1>3

\* Every pass over every ring comes to a verdict (the inner loop of walk,
\* journal_recovery.rs:134-254): it neither runs on nor leaves the log.
THEOREM WalkEnds ==
    ASSUME NEW l, LogOK(l), NEW pass \in Passes, NEW stop, NEW w \in WalkState
    PROVE  /\ walk_from(l, pass, stop)[w] \in WalkState
           /\ walk_from(l, pass, stop)[w].out \in {"ok", "err"}
  <1> DEFINE G == {v \in WalkState : /\ walk_from(l, pass, stop)[v] \in WalkState
                                     /\ walk_from(l, pass, stop)[v].out \in {"ok", "err"}}
  <1>1. ASSUME NEW v \in WalkState, v.out = "run" => WalkStep(l, pass, stop, v) \in G
        PROVE  v \in G
    <2>1. v.out \in {"run", "ok", "err"}
      BY WalkStateKeeps DEF WalkKeeps
    <2>2. walk_from(l, pass, stop)[v] =
              IF v.out = "run" THEN walk_from(l, pass, stop)[WalkStep(l, pass, stop, v)] ELSE v
      BY WalkUnfolds
    <2> QED BY <1>1, <2>1, <2>2
  <1>2. WalkState \subseteq G
    <2> HIDE DEF G
    <2> QED BY <1>1, WalkInduction
  <1> QED BY <1>2

\* What initialize_journal acts upon is well formed: recover, on any ring, comes to one of
\* its three verdicts, writes only home blocks of the filesystem and names a sequence.
THEOREM RecoverDecides ==
    ASSUME NEW l, LogOK(l), l[0].seq \in Sequences32, l[0].start \in LogBlocks
    PROVE  /\ recover(l).status \in {"clean", "replay", "err"}
           /\ recover(l).writes \in Seq(HomeWrites)
           /\ recover(l).seq \in Sequences32
  <1>1. ASSUME NEW r \in Revocations PROVE WalkStart(l[0], r) \in WalkState
    <2>1. <<>> \in Seq(HomeWrites)
      OBVIOUS
    <2> QED BY <2>1 DEF WalkStart, WalkState, Revocations, HomeWrites
  <1>2. NoRevokes \in Revocations
    <2>1. NoRevokes \in [{} -> Sequences32]
      BY DEF NoRevokes
    <2> QED BY <2>1 DEF Revocations
  <1>3. ASSUME NEW pass \in Passes, NEW stop, NEW r \in Revocations
        PROVE  /\ walk(l, pass, stop, r).seq \in Sequences32
               /\ walk(l, pass, stop, r).revokes \in Revocations
               /\ walk(l, pass, stop, r).writes \in Seq(HomeWrites)
    <2>1. walk(l, pass, stop, r) \in WalkState
      BY <1>1, WalkEnds DEF walk
    <2> QED BY <2>1, WalkStateKeeps DEF WalkKeeps
  <1> DEFINE scan   == walk(l, "scan", NoStop, NoRevokes)
             revoke == walk(l, "revoke", scan.seq, NoRevokes)
             replay == walk(l, "replay", scan.seq, revoke.revokes)
  <1>4. next_sequence(scan.seq) \in Sequences32
    BY <1>2, <1>3, NextSequenceType DEF Passes
  <1>5. revoke.revokes \in Revocations
    BY <1>2, <1>3 DEF Passes
  <1>6. replay.writes \in Seq(HomeWrites)
    BY <1>3, <1>5 DEF Passes
  <1>7. <<>> \in Seq(HomeWrites)
    OBVIOUS
  <1> QED
    BY <1>4, <1>6, <1>7 DEF recover

-----------------------------------------------------------------------------
(* How a transaction lies in the log *)

\* The images a committed transaction restores, by home.
IsRequest(T) ==
    /\ IsFiniteSet(DOMAIN T) /\ DOMAIN T # {} /\ DOMAIN T \subseteq HomeBlocks
    /\ T = [h \in DOMAIN T |-> T[h]] /\ \A h \in DOMAIN T : T[h] \in Image
    /\ required_log_blocks(Cardinality(DOMAIN T)) <= ring_len

Images(T) == Cardinality(DOMAIN T)
Groups(T) == descriptors(Images(T))

\* Descriptors and images; the commit block comes after them.
LogLengthOf(T) == required_log_blocks(Images(T)) - 1

\* Images logged before descriptor g (from 0), and the offset of that descriptor.
Done(T, g) == IF g < Groups(T) THEN g * PerDescriptor ELSE Images(T)
Offset(T, g) == Done(T, g) + g
GroupSize(T, g) == Done(T, g + 1) - Done(T, g)

LEMMA DivisionIs ==
    ASSUME NEW d \in Nat, d > 0, NEW q \in Nat, NEW r \in Nat, r < d
    PROVE  (q * d + r) \div d = q /\ (q * d + r) % d = r
  <1> DEFINE a == q * d + r
             x == a \div d
             y == a % d
  <1>1. q * d \in Nat /\ a \in Nat
    OBVIOUS
  <1>2. x \in Int /\ y \in 0 .. d - 1 /\ a = d * x + y
    BY <1>1
  <1> HIDE DEF x, y
  <1>3. x = q
    <2>1. CASE x < q
      <3>1. d * (x + 1) <= d * q
        BY <1>2, <2>1
      <3> QED BY <1>1, <1>2, <3>1
    <2>2. CASE x > q
      <3>1. d * (q + 1) <= d * x
        BY <1>2, <2>2
      <3> QED BY <1>1, <1>2, <3>1
    <2> QED BY <1>2, <2>1, <2>2
  <1>4. y = r
    BY <1>1, <1>2, <1>3
  <1> QED BY <1>3, <1>4 DEF x, y

\* The arithmetic of n images in groups of p.
LEMMA GroupCount ==
    ASSUME NEW n \in Nat, n > 0
    PROVE  /\ descriptors(n) \in Nat /\ descriptors(n) > 0
           /\ \A g \in Nat : g < descriptors(n) <=> g * PerDescriptor < n
  <1> DEFINE p == PerDescriptor
             q == (n + p - 1) \div p
  <1>1. p \in Nat /\ p > 0 /\ n + p - 1 \in Nat
    BY RingAssumption
  <1>2. q \in Int /\ p * q <= n + p - 1 /\ n + p - 1 < p * (q + 1)
    BY <1>1
  <1> HIDE DEF p, q
  <1>3. q > 0
    <2> SUFFICES ASSUME q + 1 <= 1 PROVE FALSE
      BY <1>2
    <2>1. p * (q + 1) <= p * 1
      BY <1>1, <1>2
    <2> QED BY <1>1, <1>2, <2>1
  <1>4. ASSUME NEW g \in Nat PROVE g < q <=> g * p < n
    <2>1. CASE g < q
      <3>1. p * (g + 1) <= p * q
        BY <1>1, <1>2, <2>1
      <3>2. p * (g + 1) = g * p + p /\ g * p \in Nat
        BY <1>1
      <3> QED BY <1>1, <1>2, <2>1, <3>1, <3>2
    <2>2. CASE q <= g
      <3>1. p * (q + 1) <= p * (g + 1)
        BY <1>1, <1>2, <2>2
      <3>2. p * (g + 1) = g * p + p /\ g * p \in Nat
        BY <1>1
      <3> QED BY <1>1, <1>2, <2>2, <3>1, <3>2
    <2> QED BY <1>2, <2>1, <2>2
  <1> QED BY <1>2, <1>3, <1>4 DEF descriptors, p, q

LEMMA GroupsOf ==
    ASSUME NEW T, IsRequest(T)
    PROVE  /\ Images(T) \in Nat /\ Images(T) > 0
           /\ Groups(T) \in Nat /\ Groups(T) > 0
           /\ LogLengthOf(T) = Images(T) + Groups(T) /\ LogLengthOf(T) < ring_len
           /\ Done(T, 0) = 0 /\ Done(T, Groups(T)) = Images(T)
           /\ \A g \in 0 .. Groups(T) - 1 :
                 /\ Done(T, g) = g * PerDescriptor
                 /\ Done(T, g) \in Nat /\ GroupSize(T, g) \in 1 .. PerDescriptor
                 /\ Done(T, g + 1) \in Nat /\ Done(T, g + 1) <= Images(T)
                 /\ Done(T, g) + GroupSize(T, g) =
                        IF (g + 1) * PerDescriptor < Images(T) THEN (g + 1) * PerDescriptor
                        ELSE Images(T)
  <1> DEFINE n == Images(T)
             p == PerDescriptor
             q == Groups(T)
  <1>1. n \in Nat /\ n > 0
    BY FS_EmptySet, FS_CardinalityType DEF IsRequest, Images
  <1>2. q \in Nat /\ q > 0 /\ \A g \in Nat : g < q <=> g * p < n
    BY <1>1, GroupCount DEF Groups
  <1>3. LogLengthOf(T) = n + q /\ LogLengthOf(T) < ring_len
    BY <1>1, <1>2, RingNumbers DEF IsRequest, LogLengthOf, Groups, Images, required_log_blocks
  <1>4. p \in Nat /\ p > 0
    BY RingAssumption
  <1>5. Done(T, 0) = 0 /\ Done(T, q) = n
    BY <1>2, <1>4 DEF Done
  <1> HIDE DEF n, p, q
  <1>6. ASSUME NEW g \in 0 .. q - 1
        PROVE  /\ Done(T, g) = g * p
               /\ Done(T, g) \in Nat /\ GroupSize(T, g) \in 1 .. p
               /\ Done(T, g + 1) \in Nat /\ Done(T, g + 1) <= n
               /\ Done(T, g) + GroupSize(T, g) =
                      IF (g + 1) * p < n THEN (g + 1) * p ELSE n
    <2> DEFINE m == g * p
    <2>1. m \in Nat /\ (g + 1) * p = m + p /\ g < q /\ g + 1 \in Nat /\ g \in Nat
      BY <1>2, <1>4
    <2>2. m < n /\ (g + 1 < q <=> m + p < n)
      BY <1>2, <2>1
    <2>3. Done(T, g) = m
      BY <2>1 DEF Done, p, q
    <2>4. Done(T, g + 1) = IF m + p < n THEN m + p ELSE n
      BY <2>1, <2>2 DEF Done, p, q, n
    <2> HIDE DEF m
    <2>5. m + p < n \/ n <= m + p
      BY <1>1, <1>4, <2>1
    <2> QED BY <1>1, <1>4, <2>1, <2>2, <2>3, <2>4, <2>5 DEF GroupSize, m
  <1> QED BY <1>1, <1>2, <1>3, <1>5, <1>6 DEF n, p, q

Order(T) == ascending(DOMAIN T)

LEMMA OrderIs ==
    ASSUME NEW T, IsRequest(T)
    PROVE  /\ Order(T) \in [1 .. Images(T) -> DOMAIN T]
           /\ \A h \in DOMAIN T : \E i \in 1 .. Images(T) : Order(T)[i] = h
           /\ \A i, j \in 1 .. Images(T) : Order(T)[i] = Order(T)[j] => i = j
  <1>1. DOMAIN T \in SUBSET Nat /\ IsFiniteSet(DOMAIN T)
    BY HomesAssumption DEF IsRequest
  <1>2. IsAscending(Order(T), DOMAIN T)
    BY <1>1, AscendingIs DEF Order
  <1> QED BY <1>1, <1>2, AscendingOnto DEF IsAscending, Images

\* The tags of descriptor g, and the i-th home and image after it.
HomeOf(T, g, i) == Order(T)[Done(T, g) + i]
TagsOf(s, T, g) ==
    [i \in 1 .. GroupSize(T, g) |-> encode_tag(s, HomeOf(T, g, i), T[HomeOf(T, g, i)])]

\* Block k (from 1) of the log is at place r of group g.
InGroup(k, g, r) ==
    (k - 1) \div (PerDescriptor + 1) = g /\ (k - 1) % (PerDescriptor + 1) = r

BlockOfGroup(s, T, order, n, g, r) ==
    LET last == IF (g + 1) * PerDescriptor < n THEN (g + 1) * PerDescriptor ELSE n
    IN  IF r = 0
        THEN Descriptor(s, [i \in 1 .. (last - g * PerDescriptor) |->
                 encode_tag(s, order[g * PerDescriptor + i], T[order[g * PerDescriptor + i]])],
                 TRUE)
        ELSE Data(Escaped(T[order[g * PerDescriptor + r]]))

LEMMA BlockWithin ==
    ASSUME NEW s, NEW T, NEW order, NEW n, NEW k, NEW g, NEW r, InGroup(k, g, r)
    PROVE  encode_log_block(s, T, order, n, k) = BlockOfGroup(s, T, order, n, g, r)
  BY Zenon DEF encode_log_block, InGroup, BlockOfGroup

\* encode_log writes, at the offset of a group, its descriptor and then its images.
LEMMA EncodedGroup ==
    ASSUME NEW T, IsRequest(T), NEW s, NEW g \in 0 .. Groups(T) - 1
    PROVE  /\ Offset(T, g) \in Nat /\ Offset(T, g + 1) \in Nat
           /\ Offset(T, g) + 1 + GroupSize(T, g) = Offset(T, g + 1)
           /\ Offset(T, g + 1) <= LogLengthOf(T)
           /\ encode_log(s, T)[Offset(T, g) + 1] = Descriptor(s, TagsOf(s, T, g), TRUE)
           /\ \A i \in 1 .. GroupSize(T, g) :
                 encode_log(s, T)[Offset(T, g) + 1 + i] = Data(Escaped(T[HomeOf(T, g, i)]))
  <1> DEFINE n == Images(T)
             p == PerDescriptor
             q == Groups(T)
             m == Done(T, g)
             z == GroupSize(T, g)
             o == Offset(T, g)
  <1>1. /\ n \in Nat /\ q \in Nat /\ g \in Nat /\ g < q /\ p \in Nat /\ p > 0
        /\ m \in Nat /\ m = g * p /\ z \in 1 .. p /\ m + z <= n
        /\ m + z = IF (g + 1) * p < n THEN (g + 1) * p ELSE n
        /\ Done(T, g + 1) \in Nat /\ Done(T, g + 1) = m + z
        /\ LogLengthOf(T) = n + q
    BY GroupsOf, RingAssumption DEF GroupSize
  <1>2. o = m + g /\ Offset(T, g + 1) = m + z + (g + 1)
    BY <1>1 DEF Offset
  <1>3. /\ o \in Nat /\ Offset(T, g + 1) \in Nat /\ o + 1 + z = Offset(T, g + 1)
        /\ Offset(T, g + 1) <= LogLengthOf(T)
    <2> HIDE DEF n, p, q, m, z, o
    <2> QED BY <1>1, <1>2
  <1>4. ASSUME NEW k \in 1 .. LogLengthOf(T)
        PROVE  encode_log(s, T)[k] = encode_log_block(s, T, Order(T), n, k)
    BY <1>4 DEF encode_log, Order, Images, LogLengthOf
  <1> HIDE DEF n, p, q, m, z, o
  <1>5. ASSUME NEW k, NEW i \in 0 .. z, k = o + 1 + i
        PROVE  k \in 1 .. LogLengthOf(T) /\ InGroup(k, g, i)
    <2>1. i \in Nat /\ i < p + 1 /\ p + 1 \in Nat /\ p + 1 > 0 /\ i <= z
      BY <1>1, <1>5
    <2>2. g * (p + 1) = m + g
      BY <1>1
    <2>3. k - 1 = g * (p + 1) + i
      BY <1>1, <1>2, <1>5, <2>1, <2>2
    <2>4. k \in 1 .. LogLengthOf(T)
      BY <1>1, <1>3, <1>5, <2>1
    <2>5. (g * (p + 1) + i) \div (p + 1) = g /\ (g * (p + 1) + i) % (p + 1) = i
      BY <1>1, <2>1, DivisionIs
    <2> HIDE DEF p
    <2> QED BY <2>3, <2>4, <2>5 DEF InGroup, p
  <1>6. encode_log(s, T)[o + 1] = Descriptor(s, TagsOf(s, T, g), TRUE)
    <2> DEFINE k == o + 1
    <2>1. 0 \in 0 .. z /\ k = o + 1 + 0
      BY <1>1, <1>3
    <2> HIDE DEF k
    <2>2. k \in 1 .. LogLengthOf(T) /\ InGroup(k, g, 0)
      BY <1>5, <2>1
    <2>3. encode_log_block(s, T, Order(T), n, k) = BlockOfGroup(s, T, Order(T), n, g, 0)
      BY <2>2, BlockWithin
    <2>4. g * p = m /\ (IF (g + 1) * p < n THEN (g + 1) * p ELSE n) - g * p = z
      BY <1>1
    <2>5. encode_log_block(s, T, Order(T), n, k) =
              Descriptor(s, [i \in 1 .. z |-> encode_tag(s, Order(T)[m + i], T[Order(T)[m + i]])],
                         TRUE)
      BY <2>3, <2>4 DEF BlockOfGroup, p
    <2> QED BY <1>4, <2>2, <2>5 DEF TagsOf, HomeOf, m, z, k
  <1>7. ASSUME NEW i \in 1 .. z
        PROVE  encode_log(s, T)[o + 1 + i] = Data(Escaped(T[HomeOf(T, g, i)]))
    <2> DEFINE k == o + 1 + i
    <2>1. i \in 0 .. z /\ i # 0
      BY <1>1
    <2>2. k \in 1 .. LogLengthOf(T) /\ InGroup(k, g, i)
      BY <1>5, <2>1
    <2> HIDE DEF k
    <2>3. encode_log_block(s, T, Order(T), n, k) = BlockOfGroup(s, T, Order(T), n, g, i)
      BY <2>2, BlockWithin
    <2>4. g * p = m
      BY <1>1
    <2>5. encode_log_block(s, T, Order(T), n, k) = Data(Escaped(T[Order(T)[m + i]]))
      BY <2>1, <2>3, <2>4 DEF BlockOfGroup, p
    <2> QED BY <1>4, <2>2, <2>5 DEF HomeOf, m, k
  <1> QED BY <1>3, <1>6, <1>7 DEF o, z

-----------------------------------------------------------------------------
(* The walk over a logged transaction *)

\* A block no walk takes for part of the transaction with sequence s, or of the next.
Foreign(b, s) ==
    BlockOK(b) /\ ~header_matches(b, s) /\ ~header_matches(b, next_sequence(s))

\* Where the log of a transaction that starts at p keeps its block k (from 1).
Place(p, k) == ring_position(p, k - 1)

InPlace(l, s, p, T, k) == l[Place(p, k)] = encode_log(s, T)[k]

\* The first n writes that restore a transaction, in the order of its homes.
Restored(T, n) == [i \in 1 .. n |-> [home |-> Order(T)[i], image |-> T[Order(T)[i]]]]

\* A pass has read g groups.
AtGroup(s, p, T, g, inv, ws) ==
    [pos |-> ring_position(p, Offset(T, g)), seq |-> s, consumed |-> Offset(T, g),
     tx_start |-> p, top |-> (g = 0), invalid |-> inv, out |-> "run",
     revokes |-> NoRevokes, writes |-> ws]

Written(pass, T, g) == IF pass = "replay" THEN Restored(T, Done(T, g)) ELSE <<>>

\* Where every pass over the transaction begins.
Begun(s, p, T) == AtGroup(s, p, T, 0, FALSE, <<>>)

\* Counting on along the ring, for less than a turn.
LEMMA PositionSteps ==
    ASSUME NEW p \in Ring, NEW o \in Nat, o < ring_len
    PROVE  /\ ring_position(p, 0) = p
           /\ ring_position(p, o) \in Ring
           /\ ring_next(ring_position(p, o)) = ring_position(p, o + 1)
           /\ \A i \in Nat : o + i < ring_len =>
                 ring_position(ring_position(p, o), i) = ring_position(p, o + i)
  BY RingNumbers DEF Ring, ring_position, ring_next

LEMMA PositionsDiffer ==
    ASSUME NEW p \in Ring, NEW i \in Nat, NEW j \in Nat, i < ring_len, j < ring_len,
           ring_position(p, i) = ring_position(p, j)
    PROVE  i = j
  BY RingNumbers DEF Ring, ring_position

LEMMA EscapeUndone ==
    ASSUME NEW image \in Image, NEW s, NEW home
    PROVE  Unescape(encode_tag(s, home, image), data_image(Data(Escaped(image)))) = image
  <1>1. image = [ver |-> image.ver, magic |-> image.magic] /\ image.magic \in BOOLEAN
    BY DEF Image
  <1>2. Escaped(image) = [ver |-> image.ver, magic |-> FALSE]
    <2>1. /\ Escaped(image) \in Image /\ Escaped(image).ver = image.ver
          /\ ~Escaped(image).magic
      BY DEF Escaped, Image
    <2> QED BY <2>1 DEF Image
  <1>3. encode_tag(s, home, image).escape = image.magic
    BY DEF encode_tag, Tag
  <1>4. data_image(Data(Escaped(image))) = [ver |-> image.ver, magic |-> FALSE]
    BY <1>2 DEF data_image, Data
  <1> QED BY <1>1, <1>3, <1>4 DEF Unescape

LEMMA AtGroupType ==
    ASSUME NEW T, IsRequest(T), NEW s \in Sequences32, NEW p \in Ring,
           NEW g \in 0 .. Groups(T), NEW inv \in BOOLEAN, NEW ws \in Seq(HomeWrites)
    PROVE  /\ AtGroup(s, p, T, g, inv, ws) \in WalkState
           /\ Offset(T, g) \in Nat /\ Offset(T, g) < ring_len
  <1>1. Offset(T, g) \in Nat /\ Offset(T, g) < ring_len
    <2>1. CASE g = Groups(T)
      BY <2>1, GroupsOf, RingNumbers DEF Offset
    <2>2. CASE g # Groups(T)
      <3>1. g \in 0 .. Groups(T) - 1
        BY <2>2, GroupsOf
      <3>2. /\ Offset(T, g) \in Nat /\ Offset(T, g + 1) \in Nat
            /\ Offset(T, g) + 1 + GroupSize(T, g) = Offset(T, g + 1)
            /\ Offset(T, g + 1) <= LogLengthOf(T) /\ GroupSize(T, g) \in 1 .. PerDescriptor
        BY <3>1, EncodedGroup, GroupsOf
      <3> QED BY <3>2, GroupsOf, RingNumbers, RingAssumption
    <2> QED BY <2>1, <2>2
  <1>2. ring_position(p, Offset(T, g)) \in LogBlocks /\ p \in LogBlocks
    <2>1. p \in LogBlocks
      BY RingNumbers DEF Ring, LogBlocks
    <2> QED BY <1>1, <2>1, PositionInLog
  <1>3. NoRevokes \in Revocations
    <2>1. NoRevokes \in [{} -> Sequences32]
      BY DEF NoRevokes
    <2> QED BY <2>1 DEF Revocations
  <1> HIDE DEF NoRevokes
  <1> QED BY <1>1, <1>2, <1>3 DEF AtGroup, WalkState, Revocations, HomeWrites

LEMMA RestoredType ==
    ASSUME NEW T, IsRequest(T), NEW n \in 0 .. Images(T)
    PROVE  Restored(T, n) \in Seq(HomeWrites)
  <1>1. \A i \in 1 .. n : Order(T)[i] \in DOMAIN T
    <2>1. Order(T) \in [1 .. Images(T) -> DOMAIN T]
      BY OrderIs
    <2>2. Images(T) \in Nat
      BY GroupsOf
    <2> QED BY <2>1, <2>2
  <1>2. \A h \in DOMAIN T : h \in HomeBlocks /\ T[h] \in Image
    BY DEF IsRequest
  <1>3. \A i \in 1 .. n : [home |-> Order(T)[i], image |-> T[Order(T)[i]]] \in HomeWrites
    BY <1>1, <1>2 DEF HomeWrites
  <1>4. Restored(T, n) \in [1 .. n -> HomeWrites]
    BY <1>3 DEF Restored
  <1> QED BY <1>4, GroupsOf, SeqDef

\* The tags of a group name homes of the transaction.
LEMMA TagsAre ==
    ASSUME NEW T, IsRequest(T), NEW s, NEW g \in 0 .. Groups(T) - 1
    PROVE  /\ Len(TagsOf(s, T, g)) = GroupSize(T, g) /\ GroupSize(T, g) \in Nat
           /\ DOMAIN TagsOf(s, T, g) = 1 .. GroupSize(T, g)
           /\ \A i \in 1 .. GroupSize(T, g) :
                 /\ TagsOf(s, T, g)[i] = encode_tag(s, HomeOf(T, g, i), T[HomeOf(T, g, i)])
                 /\ HomeOf(T, g, i) \in HomeBlocks /\ T[HomeOf(T, g, i)] \in Image
                 /\ HomeOf(T, g, i) = Order(T)[Done(T, g) + i]
                 /\ Done(T, g) + i \in 1 .. Images(T)
  <1>1. /\ GroupSize(T, g) \in Nat /\ Done(T, g) \in Nat /\ Images(T) \in Nat
        /\ Done(T, g) + GroupSize(T, g) <= Images(T)
    <2>1. /\ Images(T) \in Nat /\ GroupSize(T, g) \in 1 .. PerDescriptor
          /\ Done(T, g) \in Nat /\ Done(T, g + 1) \in Nat /\ Done(T, g + 1) <= Images(T)
      BY GroupsOf
    <2> QED BY <2>1, RingAssumption DEF GroupSize
  <1>2. Len(TagsOf(s, T, g)) = GroupSize(T, g)
    BY <1>1 DEF TagsOf
  <1>3. Order(T) \in [1 .. Images(T) -> DOMAIN T]
    BY OrderIs
  <1>4. ASSUME NEW i \in 1 .. GroupSize(T, g)
        PROVE  /\ HomeOf(T, g, i) \in DOMAIN T /\ Done(T, g) + i \in 1 .. Images(T)
               /\ HomeOf(T, g, i) = Order(T)[Done(T, g) + i]
    <2>1. Done(T, g) + i \in 1 .. Images(T)
      BY <1>1
    <2> QED BY <1>3, <2>1 DEF HomeOf
  <1>5. \A h \in DOMAIN T : h \in HomeBlocks /\ T[h] \in Image
    BY DEF IsRequest
  <1>6. /\ DOMAIN TagsOf(s, T, g) = 1 .. GroupSize(T, g)
        /\ \A i \in 1 .. GroupSize(T, g) :
               TagsOf(s, T, g)[i] = encode_tag(s, HomeOf(T, g, i), T[HomeOf(T, g, i)])
    BY DEF TagsOf
  <1> QED BY <1>1, <1>2, <1>4, <1>5, <1>6

\* Where the data block i of a group is read, and what the walk has then consumed.
LEMMA GroupPlaces ==
    ASSUME NEW T, IsRequest(T), NEW p \in Ring, NEW g \in 0 .. Groups(T) - 1
    PROVE  /\ Offset(T, g) \in Nat /\ Offset(T, g) < ring_len
           /\ Offset(T, g) + 1 + GroupSize(T, g) = Offset(T, g + 1)
           /\ Offset(T, g + 1) <= ring_len
           /\ ring_position(p, Offset(T, g)) = Place(p, Offset(T, g) + 1)
           /\ ring_position(ring_next(ring_position(p, Offset(T, g))), GroupSize(T, g))
                  = ring_position(p, Offset(T, g + 1))
           /\ \A i \in 1 .. GroupSize(T, g) :
                  ring_position(ring_next(ring_position(p, Offset(T, g))), i - 1)
                      = Place(p, Offset(T, g) + 1 + i)
  <1> DEFINE o == Offset(T, g)
             z == GroupSize(T, g)
  <1>1. /\ o \in Nat /\ o + 1 + z = Offset(T, g + 1) /\ z \in Nat
        /\ o + 1 + z < ring_len /\ ring_len \in Nat
    <2>1. o \in Nat /\ o + 1 + z = Offset(T, g + 1) /\ Offset(T, g + 1) <= LogLengthOf(T)
      BY EncodedGroup
    <2>2. LogLengthOf(T) \in Nat /\ LogLengthOf(T) < ring_len /\ z \in 1 .. PerDescriptor
      BY GroupsOf
    <2> HIDE DEF o, z
    <2> QED BY <2>1, <2>2, RingNumbers, RingAssumption
  <1> HIDE DEF o, z
  <1>2. ring_next(ring_position(p, o)) = ring_position(p, o + 1)
    BY <1>1, PositionSteps
  <1>3. \A i \in Nat : o + 1 + i < ring_len =>
            ring_position(ring_position(p, o + 1), i) = ring_position(p, o + 1 + i)
    <2>1. o + 1 \in Nat /\ o + 1 < ring_len
      BY <1>1
    <2> QED BY <2>1, PositionSteps
  <1>4. ASSUME NEW i \in 1 .. z
        PROVE  ring_position(ring_position(p, o + 1), i - 1) = Place(p, o + 1 + i)
    <2>1. i - 1 \in Nat /\ o + 1 + (i - 1) < ring_len /\ o + 1 + (i - 1) = (o + 1 + i) - 1
      BY <1>1
    <2> QED BY <1>3, <2>1 DEF Place
  <1>5. ring_position(p, o) = Place(p, o + 1)
    BY <1>1 DEF Place
  <1>6. ring_position(ring_position(p, o + 1), z) = ring_position(p, o + 1 + z)
    BY <1>1, <1>3
  <1>7. o < ring_len /\ Offset(T, g + 1) <= ring_len
    BY <1>1
  <1> QED BY <1>1, <1>2, <1>4, <1>5, <1>6, <1>7 DEF o, z

\* Whether the data read after descriptor g is not what its tags sum.
BadData(l, s, p, T, g) ==
    \E i \in 1 .. GroupSize(T, g) :
        ~tag_checksum_ok(TagsOf(s, T, g)[i], s, l[Place(p, Offset(T, g) + 1 + i)])

\* The data of group g, as the walk reads it.
DataAt(l, p, T, g) == [i \in 1 .. GroupSize(T, g) |-> l[Place(p, Offset(T, g) + 1 + i)]]

\* The pass is at a descriptor that is in place, and does not mind its data.
AtDescriptor(l, s, p, T, g, pass) ==
    /\ IsRequest(T) /\ s \in Sequences32 /\ p \in Ring
    /\ g \in 0 .. Groups(T) - 1 /\ pass \in Passes
    /\ InPlace(l, s, p, T, Offset(T, g) + 1)
    /\ pass = "scan" \/ ~BadData(l, s, p, T, g)

\* What such a turn leads to.
AfterDescriptor(l, s, p, T, g, pass, inv, ws) ==
    LET w2 == AtGroup(s, p, T, g + 1, inv, ws)
    IN  IF pass = "replay" THEN ReplayTags(w2, TagsOf(s, T, g), DataAt(l, p, T, g)) ELSE w2

LEMMA DescriptorTurn ==
    ASSUME NEW l, NEW s, NEW p, NEW T, NEW g, NEW pass, AtDescriptor(l, s, p, T, g, pass),
           NEW inv \in BOOLEAN, NEW ws, NEW stop, stop # s
    PROVE  \E x \in BOOLEAN :
              /\ ~BadData(l, s, p, T, g) => x = inv
              /\ WalkStep(l, pass, stop, AtGroup(s, p, T, g, inv, ws)) =
                     AfterDescriptor(l, s, p, T, g, pass, x, ws)
  <1> DEFINE w    == AtGroup(s, p, T, g, inv, ws)
             tags == TagsOf(s, T, g)
             b    == Descriptor(s, tags, TRUE)
             z    == GroupSize(T, g)
             o    == Offset(T, g)
  <1>0. /\ IsRequest(T) /\ s \in Sequences32 /\ p \in Ring
        /\ g \in 0 .. Groups(T) - 1 /\ pass \in Passes
        /\ InPlace(l, s, p, T, Offset(T, g) + 1)
        /\ pass = "scan" \/ ~BadData(l, s, p, T, g)
    BY DEF AtDescriptor
  <1> USE <1>0
  <1>1. /\ Len(tags) = z /\ z \in Nat
        /\ \A i \in 1 .. z : /\ tags[i] = encode_tag(s, HomeOf(T, g, i), T[HomeOf(T, g, i)])
                             /\ HomeOf(T, g, i) \in HomeBlocks
    BY TagsAre
  <1>2. /\ o \in Nat /\ o < ring_len /\ o + 1 + z = Offset(T, g + 1)
        /\ Offset(T, g + 1) <= ring_len
        /\ ring_position(p, o) = Place(p, o + 1)
        /\ ring_position(ring_next(ring_position(p, o)), z) = ring_position(p, Offset(T, g + 1))
        /\ \A i \in 1 .. z :
               ring_position(ring_next(ring_position(p, o)), i - 1) = Place(p, o + 1 + i)
    BY GroupPlaces
  <1>3. l[w.pos] = b
    <2>1. encode_log(s, T)[o + 1] = b
      BY EncodedGroup
    <2>2. w.pos = ring_position(p, o)
      BY DEF AtGroup
    <2> HIDE DEF b, w, o
    <2> QED BY <1>2, <2>1, <2>2 DEF InPlace, o
  <1>4. /\ w.pos = ring_position(p, o) /\ w.seq = s /\ w.consumed = o /\ w.invalid = inv
        /\ w.out = "run"
    BY DEF AtGroup
  <1>5. b.type = "desc" /\ b.seq = s /\ b.tags = tags /\ b.sum = TRUE
    BY DEF Descriptor
  <1>6. verify_block_checksum(b) /\ header_matches(b, s) /\ block_type(b) = "desc"
    BY <1>5 DEF verify_block_checksum, header_matches, block_type
  <1>7. WalkStep(l, pass, stop, w) = WalkDescriptor(l, pass, w, b)
    <2> HIDE DEF w, b, o
    <2>1. ~(w.consumed >= ring_len)
      BY <1>2, <1>4, RingNumbers
    <2> QED BY <1>3, <1>4, <1>6, <2>1 DEF WalkStep
  <1>8. \A i \in 1 .. z : in_range(tags[i].home)
    <2>1. \A i \in 1 .. z : tags[i].home = HomeOf(T, g, i)
      BY <1>1 DEF encode_tag, Tag
    <2> HIDE DEF tags, z
    <2> QED BY <1>1, <2>1 DEF in_range
  <1> DEFINE here == ring_next(w.pos)
             data == [i \in 1 .. Len(b.tags) |-> l[ring_position(here, i - 1)]]
             bad  == ~verify_block_checksum(b)
                     \/ \E i \in 1 .. Len(b.tags) : ~tag_checksum_ok(b.tags[i], w.seq, data[i])
             w2   == [w EXCEPT !.pos = ring_position(here, Len(b.tags)),
                               !.consumed = @ + 1 + Len(b.tags), !.top = FALSE,
                               !.invalid = @ \/ bad]
  <1>9. data = DataAt(l, p, T, g)
    <2> HIDE DEF b, w, o, z, tags
    <2> QED BY <1>1, <1>2, <1>4, <1>5 DEF DataAt, o, z
  <1>10. bad = BadData(l, s, p, T, g)
    <2>1. \A i \in 1 .. z : data[i] = l[Place(p, o + 1 + i)]
      BY <1>9 DEF DataAt
    <2> HIDE DEF b, w, o, z, tags, data
    <2>2. 1 .. Len(b.tags) = 1 .. z /\ b.tags = tags /\ w.seq = s
      BY <1>1, <1>4, <1>5
    <2> QED BY <1>6, <2>1, <2>2 DEF BadData, o, z, tags
  <1>11. w2 = AtGroup(s, p, T, g + 1, inv \/ BadData(l, s, p, T, g), ws)
    <2>1. ring_position(here, Len(b.tags)) = ring_position(p, Offset(T, g + 1))
      <3> HIDE DEF b, w, o, z, tags
      <3> QED BY <1>1, <1>2, <1>4, <1>5
    <2>2. o + 1 + Len(b.tags) = Offset(T, g + 1)
      <3> HIDE DEF b, w, o, z, tags
      <3> QED BY <1>1, <1>2, <1>5
    <2>3. (g + 1 = 0) = FALSE
      OBVIOUS
    <2>4. w2 = [w EXCEPT !.pos = ring_position(p, Offset(T, g + 1)),
                         !.consumed = Offset(T, g + 1), !.top = FALSE,
                         !.invalid = inv \/ BadData(l, s, p, T, g)]
      <3> HIDE DEF b, o, z, tags, bad, here
      <3> QED BY <1>4, <1>10, <2>1, <2>2
    <2> HIDE DEF w2, b, o, z, tags, bad, here
    <2> QED BY <2>3, <2>4 DEF AtGroup
  <1>12. ~(w.consumed + 1 + Len(b.tags) > ring_len)
    <2> HIDE DEF b, w, o, z, tags
    <2> QED BY <1>1, <1>2, <1>4, <1>5, RingNumbers
  <1>13. \A i \in 1 .. Len(b.tags) : in_range(b.tags[i].home)
    <2> HIDE DEF b, w, o, z, tags
    <2> QED BY <1>1, <1>5, <1>8
  <1>14. WalkDescriptor(l, pass, w, b) =
             IF pass = "replay" THEN ReplayTags(w2, b.tags, data) ELSE w2
    <2>1. ~(bad /\ pass # "scan")
      BY <1>10
    <2> HIDE DEF b, w, o, z, tags, w2, data, bad, here
    <2> QED BY <1>6, <1>12, <1>13, <2>1 DEF WalkDescriptor, w2, data, bad, here
  <1> DEFINE x == inv \/ BadData(l, s, p, T, g)
  <1>15. x \in BOOLEAN /\ (~BadData(l, s, p, T, g) => x = inv)
    OBVIOUS
  <1>16. w2 = AtGroup(s, p, T, g + 1, x, ws)
    BY <1>11
  <1> HIDE DEF b, w, o, z, w2, data, bad, here, x
  <1>17. WalkStep(l, pass, stop, w) = AfterDescriptor(l, s, p, T, g, pass, x, ws)
    BY <1>5, <1>7, <1>9, <1>14, <1>16 DEF AfterDescriptor
  <1> QED BY <1>15, <1>17 DEF w

\* The data blocks of group g are in place.
DataInPlace(l, s, p, T, g) ==
    \A i \in 1 .. GroupSize(T, g) : InPlace(l, s, p, T, Offset(T, g) + 1 + i)

LEMMA DataIs ==
    ASSUME NEW T, IsRequest(T), NEW s, NEW p \in Ring, NEW g \in 0 .. Groups(T) - 1,
           NEW l, DataInPlace(l, s, p, T, g)
    PROVE  /\ \A i \in 1 .. GroupSize(T, g) :
                 DataAt(l, p, T, g)[i] = Data(Escaped(T[HomeOf(T, g, i)]))
           /\ ~BadData(l, s, p, T, g)
  <1>1. ASSUME NEW i \in 1 .. GroupSize(T, g)
        PROVE  l[Place(p, Offset(T, g) + 1 + i)] = Data(Escaped(T[HomeOf(T, g, i)]))
    BY EncodedGroup DEF DataInPlace, InPlace
  <1>2. ASSUME NEW i \in 1 .. GroupSize(T, g)
        PROVE  tag_checksum_ok(TagsOf(s, T, g)[i], s, l[Place(p, Offset(T, g) + 1 + i)])
    <2> DEFINE image == T[HomeOf(T, g, i)]
               t     == TagsOf(s, T, g)[i]
    <2>1. t = encode_tag(s, HomeOf(T, g, i), image)
      BY TagsAre
    <2> HIDE DEF image
    <2>2. t.sum = IF ChecksumV3 THEN <<s, Escaped(image)>> ELSE NoSum
      BY <2>1 DEF encode_tag, Tag
    <2>3. /\ Data(Escaped(image)).type = "data"
          /\ Data(Escaped(image)).image = Escaped(image)
      BY DEF Data
    <2>4. l[Place(p, Offset(T, g) + 1 + i)] = Data(Escaped(image))
      BY <1>1 DEF image
    <2> QED BY <2>2, <2>3, <2>4 DEF tag_checksum_ok
  <1> QED BY <1>1, <1>2 DEF DataAt, BadData

\* Restoring the images of one more group.
LEMMA RestoredGroup ==
    ASSUME NEW T, IsRequest(T), NEW g \in 0 .. Groups(T) - 1
    PROVE  Restored(T, Done(T, g)) \o
               [k \in 1 .. GroupSize(T, g) |->
                   [home |-> HomeOf(T, g, k), image |-> T[HomeOf(T, g, k)]]]
           = Restored(T, Done(T, g + 1))
  <1> DEFINE m == Done(T, g)
             z == GroupSize(T, g)
             e(i) == [home |-> Order(T)[i], image |-> T[Order(T)[i]]]
  <1>1. m \in Nat /\ z \in Nat /\ m + z = Done(T, g + 1)
    <2>1. m \in Nat /\ z \in 1 .. PerDescriptor /\ Done(T, g + 1) \in Nat
      BY GroupsOf
    <2> HIDE DEF m
    <2> QED BY <2>1, RingAssumption DEF GroupSize, m
  <1>2. \A k \in 1 .. z : HomeOf(T, g, k) = Order(T)[m + k]
    BY DEF HomeOf
  <1> HIDE DEF m, z
  <1>3. [k \in 1 .. z |-> [home |-> HomeOf(T, g, k), image |-> T[HomeOf(T, g, k)]]]
            = [k \in 1 .. z |-> e(m + k)]
    BY <1>2
  <1> HIDE DEF e
  <1>4. [i \in 1 .. m |-> e(i)] \o [k \in 1 .. z |-> e(m + k)] = [i \in 1 .. m + z |-> e(i)]
    BY <1>1
  <1>5. \A n : Restored(T, n) = [i \in 1 .. n |-> e(i)]
    BY DEF Restored, e
  <1> QED BY <1>1, <1>3, <1>4, <1>5 DEF m, z

\* The replay of a group that is in place restores its images.
LEMMA GroupReplayed ==
    ASSUME NEW T, IsRequest(T), NEW s \in Sequences32, NEW p \in Ring,
           NEW g \in 0 .. Groups(T) - 1, NEW l, DataInPlace(l, s, p, T, g)
    PROVE  ReplayTags(AtGroup(s, p, T, g + 1, FALSE, Restored(T, Done(T, g))),
                      TagsOf(s, T, g), DataAt(l, p, T, g))
           = AtGroup(s, p, T, g + 1, FALSE, Restored(T, Done(T, g + 1)))
  <1> DEFINE w     == AtGroup(s, p, T, g + 1, FALSE, Restored(T, Done(T, g)))
             tags  == TagsOf(s, T, g)
             data  == DataAt(l, p, T, g)
             z     == GroupSize(T, g)
             live  == {i \in DOMAIN tags : ~tags[i].deleted}
             hits  == {i \in live : tags[i].home \in JournalBlocks}
             kept  == {i \in live : (\A j \in hits : i < j) /\ ~revoked(w, tags[i].home)}
             order == ascending(kept)
             new   == [k \in 1 .. Cardinality(kept) |->
                          [home  |-> tags[order[k]].home,
                           image |-> Unescape(tags[order[k]], data_image(data[order[k]]))]]
  <1>1. /\ DOMAIN tags = 1 .. z /\ z \in Nat
        /\ \A i \in 1 .. z : /\ tags[i] = encode_tag(s, HomeOf(T, g, i), T[HomeOf(T, g, i)])
                             /\ HomeOf(T, g, i) \in HomeBlocks /\ T[HomeOf(T, g, i)] \in Image
    BY TagsAre
  <1>2. \A i \in 1 .. z : data[i] = Data(Escaped(T[HomeOf(T, g, i)]))
    BY DataIs
  <1>3. \A i \in 1 .. z : /\ ~tags[i].deleted /\ tags[i].home = HomeOf(T, g, i)
                          /\ tags[i].home \notin JournalBlocks
    <2>1. \A i \in 1 .. z : tags[i].deleted = FALSE /\ tags[i].home = HomeOf(T, g, i)
      BY <1>1 DEF encode_tag, Tag
    <2> HIDE DEF tags, z
    <2> QED BY <1>1, <2>1, HomesAssumption
  <1>4. \A h : ~revoked(w, h)
    BY DEF revoked, AtGroup, NoRevokes
  <1> HIDE DEF z, data, w, tags
  <1>5. hits = {} /\ kept = 1 .. z
    BY <1>1, <1>3, <1>4
  <1>6. Cardinality(kept) = z /\ order = [i \in 1 .. z |-> i]
    BY <1>1, <1>5, AscendingInterval
  <1>7. new = [k \in 1 .. z |-> [home |-> HomeOf(T, g, k), image |-> T[HomeOf(T, g, k)]]]
    <2>1. ASSUME NEW k \in 1 .. z
          PROVE  /\ order[k] = k /\ tags[k].home = HomeOf(T, g, k)
                 /\ Unescape(tags[k], data_image(data[k])) = T[HomeOf(T, g, k)]
      <3>1. Unescape(encode_tag(s, HomeOf(T, g, k), T[HomeOf(T, g, k)]),
                     data_image(Data(Escaped(T[HomeOf(T, g, k)])))) = T[HomeOf(T, g, k)]
        BY <1>1, EscapeUndone
      <3> HIDE DEF order
      <3> QED BY <1>1, <1>2, <1>3, <1>6, <3>1
    <2> HIDE DEF order, kept
    <2> QED BY <1>6, <2>1
  <1>8. ReplayTags(w, tags, data) =
            [w EXCEPT !.writes = @ \o new, !.out = IF hits = {} THEN @ ELSE "err"]
    <2> HIDE DEF new, hits
    <2> QED BY Zenon DEF ReplayTags, new, order, kept, hits, live
  <1>9. w.writes = Restored(T, Done(T, g)) /\ w.out = "run"
    BY DEF w, AtGroup
  <1>10. ReplayTags(w, tags, data) =
             [w EXCEPT !.writes = Restored(T, Done(T, g)) \o new, !.out = "run"]
    <2> HIDE DEF new, hits
    <2> QED BY <1>5, <1>8, <1>9
  <1>11. Restored(T, Done(T, g)) \o new = Restored(T, Done(T, g + 1))
    <2> HIDE DEF new
    <2> QED BY <1>7, RestoredGroup DEF z
  <1>12. [w EXCEPT !.writes = Restored(T, Done(T, g + 1)), !.out = "run"]
             = AtGroup(s, p, T, g + 1, FALSE, Restored(T, Done(T, g + 1)))
    <2> DEFINE x == Restored(T, Done(T, g + 1))
    <2> HIDE DEF x
    <2>0. x \in Seq(HomeWrites) /\ Restored(T, Done(T, g)) \in Seq(HomeWrites)
      <3>1. Done(T, g) \in 0 .. Images(T) /\ Done(T, g + 1) \in 0 .. Images(T)
        <4>1. /\ Done(T, g) \in Nat /\ GroupSize(T, g) \in 1 .. PerDescriptor
              /\ Done(T, g + 1) \in Nat /\ Done(T, g + 1) <= Images(T) /\ Images(T) \in Nat
          BY GroupsOf
        <4> QED BY <4>1, RingAssumption DEF GroupSize
      <3> QED BY <3>1, RestoredType DEF x
    <2>1. w \in WalkState /\ AtGroup(s, p, T, g + 1, FALSE, x) \in WalkState
      <3>1. g + 1 \in 0 .. Groups(T)
        BY GroupsOf
      <3> QED BY <2>0, <3>1, AtGroupType DEF w
    <2>2. [w EXCEPT !.writes = x, !.out = "run"] \in WalkState
      BY <2>0, <2>1, WalkStateExcept
    <2>3. [w EXCEPT !.writes = x, !.out = "run"] = AtGroup(s, p, T, g + 1, FALSE, x)
      <3> DEFINE u == [w EXCEPT !.writes = x, !.out = "run"]
                 v == AtGroup(s, p, T, g + 1, FALSE, x)
      <3>1. /\ u.pos = w.pos /\ u.seq = w.seq /\ u.consumed = w.consumed
            /\ u.tx_start = w.tx_start /\ u.top = w.top /\ u.invalid = w.invalid
            /\ u.out = "run" /\ u.revokes = w.revokes /\ u.writes = x
        BY <2>1 DEF WalkState
      <3>2. /\ v.pos = w.pos /\ v.seq = w.seq /\ v.consumed = w.consumed
            /\ v.tx_start = w.tx_start /\ v.top = w.top /\ v.invalid = w.invalid
            /\ v.out = "run" /\ v.revokes = w.revokes /\ v.writes = x
        BY DEF w, AtGroup
      <3> HIDE DEF u, v
      <3>3. u = v
        BY <2>1, <2>2, <3>1, <3>2 DEF WalkState, u, v
      <3> QED BY <3>3 DEF u, v
    <2> QED BY <2>3 DEF x
  <1> HIDE DEF new
  <1> QED BY <1>10, <1>11, <1>12 DEF w, tags, data

\* A walk that stops stays where it is.
Stopped(w, o) == [w EXCEPT !.out = o]

LEMMA WalkStops ==
    ASSUME NEW l, LogOK(l), NEW pass, pass \in Passes, NEW stop, NEW w, w \in WalkState,
           w.out = "run", NEW o, o \in {"ok", "err"},
           WalkStep(l, pass, stop, w) = Stopped(w, o)
    PROVE  /\ walk_from(l, pass, stop)[w] = Stopped(w, o)
           /\ Stopped(w, o) \in WalkState
           /\ Stopped(w, o).out = o
           /\ Stopped(w, o).seq = w.seq
           /\ Stopped(w, o).writes = w.writes
           /\ Stopped(w, o).revokes = w.revokes
  <1> DEFINE v == Stopped(w, o)
  <1>1. v \in WalkState
    BY WalkStateExcept DEF Stopped
  <1>2. v.out = o /\ v.seq = w.seq /\ v.writes = w.writes /\ v.revokes = w.revokes
    BY DEF WalkState, Stopped
  <1> HIDE DEF v
  <1>3. walk_from(l, pass, stop)[w] = walk_from(l, pass, stop)[v]
    BY WalkUnfolds DEF v
  <1>4. walk_from(l, pass, stop)[v] = v
    BY <1>1, <1>2, WalkUnfolds
  <1> QED BY <1>1, <1>2, <1>3, <1>4 DEF v

\* The scan ends at a block that is no part of the transaction it is reading.
LEMMA ScanStops ==
    ASSUME NEW l, LogOK(l), NEW w, w \in WalkState, w.out = "run",
           ~header_matches(l[w.pos], w.seq)
    PROVE  /\ walk_from(l, "scan", NoStop)[w].out = "ok"
           /\ walk_from(l, "scan", NoStop)[w].seq = w.seq
  <1>1. w.seq # NoStop
    BY WalkStateKeeps, SequenceAssumption DEF WalkKeeps, NoStop, Sequences32
  <1>2. WalkStep(l, "scan", NoStop, w) = Stopped(w, "ok")
    BY <1>1 DEF WalkStep, LogEnds, Stopped
  <1>3. "scan" \in Passes /\ "ok" \in {"ok", "err"}
    BY DEF Passes
  <1> QED BY <1>2, <1>3, WalkStops

\* A later pass ends at the transaction where the scan ended.
LEMMA PassStops ==
    ASSUME NEW l, LogOK(l), NEW pass, pass \in Passes, NEW w, w \in WalkState,
           w.out = "run", w.top
    PROVE  /\ walk_from(l, pass, w.seq)[w].out = "ok"
           /\ walk_from(l, pass, w.seq)[w].writes = w.writes
           /\ walk_from(l, pass, w.seq)[w].revokes = w.revokes
  <1>1. WalkStep(l, pass, w.seq, w) = Stopped(w, "ok")
    BY DEF WalkStep, Stopped
  <1>2. "ok" \in {"ok", "err"}
    OBVIOUS
  <1> QED BY <1>1, <1>2, WalkStops

\* A transaction at p whose commit block is not there, its blocks there or not.
PartlyLogged(l, s, p, T) ==
    /\ LogOK(l) /\ l[0] = SuperBlock(s, p)
    /\ \A k \in 1 .. LogLengthOf(T) : InPlace(l, s, p, T, k) \/ Foreign(l[Place(p, k)], s)
    /\ Foreign(l[Place(p, LogLengthOf(T) + 1)], s)

\* A transaction at p that is there, commit block and all, and nothing of a next one.
WhollyLogged(l, s, p, T) ==
    /\ LogOK(l) /\ l[0] = SuperBlock(s, p)
    /\ \A k \in 1 .. LogLengthOf(T) : InPlace(l, s, p, T, k)
    /\ l[Place(p, LogLengthOf(T) + 1)] = encode_commit(s)
    /\ \A n \in Ring : (\A k \in 1 .. LogLengthOf(T) + 1 : n # Place(p, k))
                           => Foreign(l[n], s)

LEMMA StartIs ==
    ASSUME NEW T, IsRequest(T), NEW s \in Sequences32, NEW p \in Ring
    PROVE  /\ WalkStart(SuperBlock(s, p), NoRevokes) = Begun(s, p, T)
           /\ Begun(s, p, T) \in WalkState
           /\ \A pass : Written(pass, T, 0) = <<>>
  <1>1. Done(T, 0) = 0 /\ Offset(T, 0) = 0 /\ Groups(T) \in Nat
    BY GroupsOf DEF Offset
  <1>2. ring_position(p, 0) = p
    BY RingNumbers DEF Ring, ring_position
  <1>3. <<>> \in Seq(HomeWrites)
    OBVIOUS
  <1>4. AtGroup(s, p, T, 0, FALSE, <<>>) \in WalkState
    <2> DEFINE ws == <<>>
               inv == FALSE
    <2>1. 0 \in 0 .. Groups(T) /\ inv \in BOOLEAN /\ ws \in Seq(HomeWrites)
      BY <1>1, <1>3
    <2> HIDE DEF ws, inv
    <2>2. AtGroup(s, p, T, 0, inv, ws) \in WalkState
      BY <2>1, AtGroupType
    <2> QED BY <2>2 DEF ws, inv
  <1>5. Restored(T, 0) = <<>>
    BY DEF Restored
  <1>6. WalkStart(SuperBlock(s, p), NoRevokes) = AtGroup(s, p, T, 0, FALSE, <<>>)
    <2>1. SuperBlock(s, p).seq = s /\ SuperBlock(s, p).start = p
      BY DEF SuperBlock
    <2> HIDE DEF NoRevokes, SuperBlock
    <2> QED BY <1>1, <1>2, <2>1 DEF WalkStart, AtGroup
  <1> QED BY <1>1, <1>4, <1>5, <1>6 DEF Written, Begun

\* The scan that has read g groups ends within the transaction.
ScanEnds(l, s, p, T, g, inv) ==
    LET end == walk_from(l, "scan", NoStop)[AtGroup(s, p, T, g, inv, <<>>)]
    IN  end.out = "ok" /\ end.seq = s

LEMMA PartlyScanned ==
    ASSUME NEW T, IsRequest(T), NEW s \in Sequences32, NEW p \in Ring,
           NEW l, PartlyLogged(l, s, p, T)
    PROVE  ScanEnds(l, s, p, T, 0, FALSE)
  <1> DEFINE w(g, inv) == AtGroup(s, p, T, g, inv, <<>>)
             q == Groups(T)
             K == {k \in Nat : k <= q => \A inv \in BOOLEAN : ScanEnds(l, s, p, T, q - k, inv)}
  <1>1. LogOK(l) /\ q \in Nat
    BY GroupsOf DEF PartlyLogged
  <1>2. ASSUME NEW g \in 0 .. q, NEW inv \in BOOLEAN
        PROVE  /\ w(g, inv) \in WalkState /\ w(g, inv).out = "run" /\ w(g, inv).seq = s
               /\ w(g, inv).pos = Place(p, Offset(T, g) + 1)
    <2>1. <<>> \in Seq(HomeWrites)
      OBVIOUS
    <2>2. w(g, inv) \in WalkState /\ Offset(T, g) \in Nat
      BY <2>1, AtGroupType
    <2>3. (Offset(T, g) + 1) - 1 = Offset(T, g)
      BY <2>2
    <2> QED BY <2>2, <2>3 DEF AtGroup, Place
  <1>3. ASSUME NEW g \in 0 .. q, NEW inv \in BOOLEAN,
               Foreign(l[Place(p, Offset(T, g) + 1)], s)
        PROVE  ScanEnds(l, s, p, T, g, inv)
    <2> HIDE DEF w
    <2>1. /\ walk_from(l, "scan", NoStop)[w(g, inv)].out = "ok"
          /\ walk_from(l, "scan", NoStop)[w(g, inv)].seq = s
      BY <1>1, <1>2, <1>3, ScanStops DEF Foreign
    <2> QED BY <2>1 DEF ScanEnds, w
  <1>4. 0 \in K
    <2>1. Offset(T, q) = LogLengthOf(T) /\ q - 0 = q /\ q \in 0 .. q
      BY GroupsOf DEF Offset
    <2>2. Foreign(l[Place(p, Offset(T, q) + 1)], s)
      BY <2>1 DEF PartlyLogged
    <2> HIDE DEF w, q
    <2> QED BY <1>3, <2>1, <2>2
  <1>5. ASSUME NEW k \in Nat, k \in K PROVE k + 1 \in K
    <2> DEFINE g == q - (k + 1)
    <2> SUFFICES ASSUME k + 1 <= q, NEW inv \in BOOLEAN PROVE ScanEnds(l, s, p, T, g, inv)
      OBVIOUS
    <2>1. g \in 0 .. q - 1 /\ g \in 0 .. q /\ g + 1 = q - k /\ g + 1 \in 0 .. q
      BY <1>1
    <2> HIDE DEF g
    <2>2. CASE Foreign(l[Place(p, Offset(T, g) + 1)], s)
      BY <1>3, <2>1, <2>2
    <2>3. CASE InPlace(l, s, p, T, Offset(T, g) + 1)
      <3>1. s # NoStop
        BY SequenceAssumption DEF NoStop, Sequences32
      <3>2. AtDescriptor(l, s, p, T, g, "scan")
        BY <2>1, <2>3 DEF AtDescriptor, Passes
      <3>3. PICK x \in BOOLEAN : WalkStep(l, "scan", NoStop, AtGroup(s, p, T, g, inv, <<>>))
                                     = AfterDescriptor(l, s, p, T, g, "scan", x, <<>>)
        BY <3>1, <3>2, DescriptorTurn
      <3>4. WalkStep(l, "scan", NoStop, w(g, inv)) = w(g + 1, x)
        BY <3>3 DEF AfterDescriptor
      <3>5. ScanEnds(l, s, p, T, g + 1, x)
        <4>1. k <= q
          BY <1>1, <2>1
        <4> HIDE DEF q
        <4> QED BY <1>5, <2>1, <4>1
      <3>6. walk_from(l, "scan", NoStop)[w(g, inv)] = walk_from(l, "scan", NoStop)[w(g + 1, x)]
        <4> HIDE DEF w
        <4> QED BY <1>1, <1>2, <2>1, <3>4, WalkUnfolds DEF Passes
      <3> QED BY <3>5, <3>6 DEF ScanEnds
    <2>4. Offset(T, g) + 1 \in 1 .. LogLengthOf(T)
      <3>1. /\ Offset(T, g) \in Nat /\ Offset(T, g) + 1 + GroupSize(T, g) = Offset(T, g + 1)
            /\ Offset(T, g + 1) <= LogLengthOf(T)
        BY <2>1, EncodedGroup
      <3>2. GroupSize(T, g) \in Nat /\ LogLengthOf(T) \in Nat
        BY <2>1, GroupsOf, RingAssumption
      <3> QED BY <3>1, <3>2
    <2> QED BY <2>2, <2>3, <2>4 DEF PartlyLogged
  <1>6. Nat \subseteq K
    <2> HIDE DEF K
    <2> QED BY <1>4, <1>5, SetInduction
  <1> HIDE DEF q
  <1>7. q \in K /\ q - q = 0 /\ q <= q
    BY <1>1, <1>6
  <1> QED BY <1>7


\* A transaction without its commit block, whichever of its other blocks are there and
\* whatever stale blocks the rest of the ring holds, leaves no trace: recover writes nothing
\* and moves on to the next sequence number (the scan of walk, journal_recovery.rs:240-250).
THEOREM PartialLogPassedOver ==
    ASSUME NEW T, IsRequest(T), NEW s \in Sequences32, NEW p \in Ring,
           NEW l, PartlyLogged(l, s, p, T)
    PROVE  recover(l) = [status |-> "replay", writes |-> <<>>, seq |-> next_sequence(s)]
  <1> DEFINE w      == Begun(s, p, T)
             scan   == walk(l, "scan", NoStop, NoRevokes)
             revoke == walk(l, "revoke", scan.seq, NoRevokes)
             replay == walk(l, "replay", scan.seq, revoke.revokes)
  <1>1. LogOK(l) /\ l[0] = SuperBlock(s, p) /\ l[0].start = p /\ p # 0
    <2>1. l[0].start = p
      BY DEF PartlyLogged, SuperBlock
    <2> QED BY <2>1, RingNumbers DEF PartlyLogged, Ring
  <1>2. /\ WalkStart(l[0], NoRevokes) = w /\ w \in WalkState
        /\ w.out = "run" /\ w.top /\ w.seq = s /\ w.writes = <<>> /\ w.revokes = NoRevokes
    <2>1. WalkStart(l[0], NoRevokes) = w /\ w \in WalkState
      BY <1>1, StartIs
    <2> QED BY <2>1 DEF Begun, AtGroup
  <1>3. scan.out = "ok" /\ scan.seq = s
    <2>1. ScanEnds(l, s, p, T, 0, FALSE)
      BY PartlyScanned
    <2> HIDE DEF NoRevokes
    <2> QED BY <1>2, <2>1 DEF ScanEnds, Begun, walk
  <1> HIDE DEF scan, w
  <1>4. revoke.out = "ok" /\ revoke.revokes = NoRevokes
    <2>1. "revoke" \in Passes
      BY DEF Passes
    <2>2. revoke = walk_from(l, "revoke", w.seq)[w]
      BY <1>2, <1>3, Zenon DEF walk
    <2> HIDE DEF revoke
    <2> QED BY <1>1, <1>2, <2>1, <2>2, PassStops
  <1> HIDE DEF revoke
  <1>5. replay.out = "ok" /\ replay.writes = <<>>
    <2>1. "replay" \in Passes
      BY DEF Passes
    <2>2. replay = walk_from(l, "replay", w.seq)[w]
      BY <1>2, <1>3, <1>4, Zenon DEF walk
    <2> HIDE DEF replay
    <2> QED BY <1>1, <1>2, <2>1, <2>2, PassStops
  <1> HIDE DEF replay
  <1>6. recover(l) =
            IF l[0].start = 0
            THEN [status |-> "clean", writes |-> <<>>, seq |-> l[0].seq]
            ELSE IF scan.out = "err" \/ revoke.out = "err"
            THEN [status |-> "err", writes |-> <<>>, seq |-> l[0].seq]
            ELSE [status |-> IF replay.out = "err" THEN "err" ELSE "replay",
                  writes |-> replay.writes,
                  seq    |-> next_sequence(scan.seq)]
    BY Zenon DEF recover, scan, revoke, replay
  <1> QED BY <1>1, <1>3, <1>4, <1>5, <1>6

\* A pass that wants more than what is before a logged transaction reads all its groups.
Reads(l, s, p, T, pass, stop) ==
    /\ IsRequest(T) /\ s \in Sequences32 /\ p \in Ring /\ WhollyLogged(l, s, p, T)
    /\ pass \in Passes /\ stop # s

AllRead(s, p, T, pass) ==
    AtGroup(s, p, T, Groups(T), FALSE, Written(pass, T, Groups(T)))

LEMMA WhollyRead ==
    ASSUME NEW l, NEW s, NEW p, NEW T, NEW pass, NEW stop, Reads(l, s, p, T, pass, stop)
    PROVE  /\ walk_from(l, pass, stop)[Begun(s, p, T)] =
                  walk_from(l, pass, stop)[AllRead(s, p, T, pass)]
           /\ AllRead(s, p, T, pass) \in WalkState
           /\ AllRead(s, p, T, pass).out = "run"
  <1> DEFINE w(g) == AtGroup(s, p, T, g, FALSE, Written(pass, T, g))
             q == Groups(T)
             K == {k \in Nat : k <= q => walk_from(l, pass, stop)[w(k)]
                                             = walk_from(l, pass, stop)[w(0)]}
  <1>0. /\ IsRequest(T) /\ s \in Sequences32 /\ p \in Ring /\ WhollyLogged(l, s, p, T)
        /\ pass \in Passes /\ stop # s
    BY DEF Reads
  <1> USE <1>0
  <1>1. LogOK(l) /\ q \in Nat
    BY GroupsOf DEF WhollyLogged
  <1>2. ASSUME NEW g \in 0 .. q PROVE w(g) \in WalkState /\ w(g).out = "run"
    <2>1. Done(T, g) \in 0 .. Images(T)
      <3>1. CASE g = q
        BY <3>1, GroupsOf
      <3>2. CASE g # q
        <4>1. g \in 0 .. q - 1
          BY <1>1, <3>2
        <4>2. /\ Done(T, g) \in Nat /\ GroupSize(T, g) \in 1 .. PerDescriptor
              /\ Done(T, g + 1) \in Nat /\ Done(T, g + 1) <= Images(T) /\ Images(T) \in Nat
          BY <4>1, GroupsOf
        <4> QED BY <4>2, RingAssumption DEF GroupSize
      <3> QED BY <3>1, <3>2
    <2>2. Written(pass, T, g) \in Seq(HomeWrites)
      BY <2>1, RestoredType DEF Written
    <2>3. FALSE \in BOOLEAN
      OBVIOUS
    <2>4. w(g) \in WalkState
      BY <2>2, <2>3, AtGroupType
    <2> QED BY <2>4 DEF AtGroup
  <1>3. 0 \in K
    OBVIOUS
  <1>4. ASSUME NEW g \in Nat, g \in K PROVE g + 1 \in K
    <2> HIDE DEF w
    <2> SUFFICES ASSUME g + 1 <= q
                 PROVE  walk_from(l, pass, stop)[w(g + 1)] = walk_from(l, pass, stop)[w(0)]
      OBVIOUS
    <2> USE DEF w
    <2>1. g \in 0 .. q - 1 /\ g \in 0 .. q
      BY <1>1
    <2>2. walk_from(l, pass, stop)[w(g)] = walk_from(l, pass, stop)[w(0)]
      <3>1. g <= q
        BY <1>1, <2>1
      <3> QED BY <1>4, <3>1
    <2>3. InPlace(l, s, p, T, Offset(T, g) + 1) /\ DataInPlace(l, s, p, T, g)
      <3>1. /\ Offset(T, g) \in Nat /\ Offset(T, g) + 1 + GroupSize(T, g) = Offset(T, g + 1)
            /\ Offset(T, g + 1) <= LogLengthOf(T)
        BY <2>1, EncodedGroup
      <3>2. GroupSize(T, g) \in Nat /\ LogLengthOf(T) \in Nat
        BY <2>1, GroupsOf, RingAssumption
      <3>3. \A i \in 0 .. GroupSize(T, g) : Offset(T, g) + 1 + i \in 1 .. LogLengthOf(T)
        BY <3>1, <3>2
      <3>4. \A i \in 0 .. GroupSize(T, g) : InPlace(l, s, p, T, Offset(T, g) + 1 + i)
        BY <3>3 DEF WhollyLogged
      <3>5. 0 \in 0 .. GroupSize(T, g) /\ Offset(T, g) + 1 + 0 = Offset(T, g) + 1
        BY <3>1, <3>2
      <3>6. InPlace(l, s, p, T, Offset(T, g) + 1)
        <4>1. InPlace(l, s, p, T, Offset(T, g) + 1 + 0)
          BY <3>4, <3>5
        <4> QED BY <3>5, <4>1
      <3> QED BY <3>2, <3>4, <3>6 DEF DataInPlace
    <2>4. AtDescriptor(l, s, p, T, g, pass)
      BY <2>1, <2>3, DataIs DEF AtDescriptor
    <2>5. PICK x \in BOOLEAN :
              /\ ~BadData(l, s, p, T, g) => x = FALSE
              /\ WalkStep(l, pass, stop, w(g)) =
                     AfterDescriptor(l, s, p, T, g, pass, x, Written(pass, T, g))
      <3> DEFINE inv == FALSE
                 ws  == Written(pass, T, g)
      <3>1. inv \in BOOLEAN
        OBVIOUS
      <3> HIDE DEF inv, ws
      <3>2. \E x \in BOOLEAN :
                /\ ~BadData(l, s, p, T, g) => x = inv
                /\ WalkStep(l, pass, stop, AtGroup(s, p, T, g, inv, ws)) =
                       AfterDescriptor(l, s, p, T, g, pass, x, ws)
        BY <2>4, <3>1, DescriptorTurn
      <3> QED BY <3>2 DEF inv, ws
    <2>6. AfterDescriptor(l, s, p, T, g, pass, FALSE, Written(pass, T, g)) = w(g + 1)
      <3>1. CASE pass = "replay"
        <4>1. ReplayTags(AtGroup(s, p, T, g + 1, FALSE, Restored(T, Done(T, g))),
                         TagsOf(s, T, g), DataAt(l, p, T, g))
                  = AtGroup(s, p, T, g + 1, FALSE, Restored(T, Done(T, g + 1)))
          BY <2>1, <2>3, GroupReplayed
        <4> QED BY <3>1, <4>1 DEF AfterDescriptor, Written
      <3>2. CASE pass # "replay"
        BY <3>2 DEF AfterDescriptor, Written
      <3> QED BY <3>1, <3>2
    <2>7. WalkStep(l, pass, stop, w(g)) = w(g + 1)
      <3>1. ~BadData(l, s, p, T, g)
        BY <2>1, <2>3, DataIs
      <3>2. x = FALSE
        BY <2>5, <3>1
      <3> HIDE DEF w
      <3> QED BY <2>5, <2>6, <3>2
    <2>8. walk_from(l, pass, stop)[w(g)] = walk_from(l, pass, stop)[WalkStep(l, pass, stop, w(g))]
      <3> HIDE DEF w
      <3> QED BY <1>1, <1>2, <2>1, WalkUnfolds
    <2> HIDE DEF w
    <2> QED BY <2>2, <2>7, <2>8
  <1>5. Nat \subseteq K
    <2> HIDE DEF K
    <2> QED BY <1>3, <1>4, SetInduction
  <1>6. q \in K /\ q \in 0 .. q /\ q <= q
    <2> HIDE DEF K, q
    <2> QED BY <1>1, <1>5
  <1>7. Begun(s, p, T) = w(0)
    BY StartIs DEF Begun
  <1>8. walk_from(l, pass, stop)[w(q)] = walk_from(l, pass, stop)[w(0)]
    <2> HIDE DEF q, w
    <2> QED BY <1>6
  <1> HIDE DEF K
  <1> QED BY <1>2, <1>6, <1>7, <1>8 DEF AllRead


\* A pass has come to the commit block of the transaction.
AfterCommit(l, s, p, T, pass, stop) == WalkStep(l, pass, stop, AllRead(s, p, T, pass))

LEMMA CommitTurn ==
    ASSUME NEW l, NEW s, NEW p, NEW T, NEW pass, NEW stop, Reads(l, s, p, T, pass, stop)
    PROVE  LET v == AfterCommit(l, s, p, T, pass, stop)
           IN  /\ v \in WalkState
               /\ v.seq = next_sequence(s) /\ v.revokes = NoRevokes /\ v.top
               /\ v.writes = IF pass = "replay" THEN Restored(T, Images(T)) ELSE <<>>
               /\ v.out \in {"run", "ok"}
               /\ v.out = "run" => ~header_matches(l[v.pos], next_sequence(s))
  <1> DEFINE q == Groups(T)
             w == AtGroup(s, p, T, q, FALSE, Written(pass, T, q))
             b == encode_commit(s)
             v == WalkStep(l, pass, stop, w)
             n == LogLengthOf(T)
             o == IF ring_position(p, n + 1) = p \/ n + 1 >= ring_len THEN "ok" ELSE "run"
  <1>0. /\ IsRequest(T) /\ s \in Sequences32 /\ p \in Ring /\ WhollyLogged(l, s, p, T)
        /\ pass \in Passes /\ stop # s
    BY DEF Reads
  <1> USE <1>0
  <1>1. /\ LogOK(l) /\ q \in Nat /\ q > 0 /\ n \in Nat /\ n < ring_len
        /\ Offset(T, q) = n /\ Done(T, q) = Images(T)
    BY GroupsOf DEF WhollyLogged, Offset
  <1>2. w \in WalkState
    BY WhollyRead DEF AllRead
  <1>3. /\ w.pos = ring_position(p, n) /\ w.seq = s /\ w.consumed = n /\ w.tx_start = p
        /\ w.invalid = FALSE /\ w.out = "run" /\ w.revokes = NoRevokes
        /\ w.writes = IF pass = "replay" THEN Restored(T, Images(T)) ELSE <<>>
    BY <1>1 DEF AtGroup, Written
  <1>4. l[w.pos] = b /\ ring_next(w.pos) = ring_position(p, n + 1)
    <2>1. Place(p, n + 1) = ring_position(p, n)
      <3>1. (n + 1) - 1 = n
        BY <1>1
      <3> QED BY <3>1 DEF Place
    <2> HIDE DEF w, b, n
    <2> QED BY <1>1, <1>3, <2>1, PositionSteps DEF WhollyLogged, b, n
  <1>5. /\ header_matches(b, s) /\ commit_header_ok(b) /\ block_type(b) = "commit"
    BY DEF encode_commit, CommitRecord, header_matches, commit_header_ok, block_type
  <1>6. v = [w EXCEPT !.pos = ring_position(p, n + 1), !.consumed = n + 1,
                      !.tx_start = ring_position(p, n + 1),
                      !.seq = next_sequence(s), !.top = TRUE, !.invalid = FALSE, !.out = o]
    <2>1. stop # w.seq
      BY <1>3
    <2>2. ~(w.consumed >= ring_len)
      <3> HIDE DEF w, n, q
      <3> QED BY <1>1, <1>3, RingNumbers
    <2> HIDE DEF w, b, n, q
    <2>3. v = WalkCommit(pass, w, b)
      BY <1>3, <1>4, <1>5, <2>1, <2>2 DEF WalkStep
    <2> HIDE DEF v
    <2> QED BY <1>3, <1>4, <1>5, <2>3 DEF WalkCommit
  <1> HIDE DEF w, b, v, o, q
  <1>7. v \in WalkState
    BY <1>1, <1>2, <1>3, WalkStepType DEF v
  <1>8. /\ v.seq = next_sequence(s) /\ v.revokes = w.revokes /\ v.top
        /\ v.writes = w.writes /\ v.out = o /\ v.pos = ring_position(p, n + 1)
    BY <1>2, <1>6 DEF WalkState
  <1>9. o \in {"run", "ok"}
    BY DEF o
  <1>10. ASSUME o = "run" PROVE ~header_matches(l[ring_position(p, n + 1)], next_sequence(s))
    <2>1. n + 1 < ring_len /\ n + 1 \in Nat /\ ring_position(p, n + 1) \in Ring
      BY <1>1, <1>10, RingNumbers, PositionSteps DEF o
    <2>2. ASSUME NEW k \in 1 .. n + 1 PROVE ring_position(p, n + 1) # Place(p, k)
      <3>1. k - 1 \in Nat /\ k - 1 < ring_len /\ k - 1 # n + 1
        BY <1>1, <2>1, RingNumbers
      <3> QED BY <2>1, <3>1, PositionsDiffer DEF Place
    <2>3. Foreign(l[ring_position(p, n + 1)], s)
      BY <2>1, <2>2 DEF WhollyLogged
    <2> QED BY <2>3 DEF Foreign
  <1>11. AfterCommit(l, s, p, T, pass, stop) = v
    BY DEF AfterCommit, AllRead, v, w, q
  <1> QED BY <1>3, <1>7, <1>8, <1>9, <1>10, <1>11

LEMMA NextSequenceDiffers ==
    ASSUME NEW s \in Sequences32
    PROVE  next_sequence(s) # s /\ next_sequence(s) # NoStop /\ s # NoStop
  BY SequenceAssumption DEF Sequences32, next_sequence, NoStop

\* What each pass makes of a wholly logged transaction.
IsStop(stop, pass, s) == stop = IF pass = "scan" THEN NoStop ELSE next_sequence(s)

LEMMA WhollyWalked ==
    ASSUME NEW l, NEW s, NEW p, NEW T, NEW pass, NEW stop, Reads(l, s, p, T, pass, stop),
           IsStop(stop, pass, s)
    PROVE  LET end == walk_from(l, pass, stop)[Begun(s, p, T)]
           IN  /\ end.out = "ok"
               /\ pass = "scan" => end.seq = next_sequence(s)
               /\ pass # "scan" => end.revokes = NoRevokes
               /\ pass = "replay" => end.writes = Restored(T, Images(T))
  <1> DEFINE loop == walk_from(l, pass, stop)
             w0 == Begun(s, p, T)
             w  == AllRead(s, p, T, pass)
             v  == AfterCommit(l, s, p, T, pass, stop)
  <1>1. LogOK(l) /\ pass \in Passes /\ s \in Sequences32
    BY DEF Reads, WhollyLogged
  <1>2. loop[w0] = loop[w] /\ w \in WalkState /\ w.out = "run"
    BY WhollyRead
  <1>4. loop[w] = loop[v]
    <2> HIDE DEF w
    <2> QED BY <1>1, <1>2, WalkUnfolds DEF AfterCommit, w
  <1>5. /\ v \in WalkState
        /\ v.seq = next_sequence(s) /\ v.revokes = NoRevokes /\ v.top
        /\ v.writes = IF pass = "replay" THEN Restored(T, Images(T)) ELSE <<>>
        /\ v.out \in {"run", "ok"}
        /\ v.out = "run" => ~header_matches(l[v.pos], next_sequence(s))
    BY CommitTurn
  <1> HIDE DEF v, w, w0
  <1>6. /\ loop[v].out = "ok"
        /\ pass = "scan" => loop[v].seq = next_sequence(s)
        /\ pass # "scan" => loop[v].revokes = NoRevokes
        /\ pass = "replay" => loop[v].writes = Restored(T, Images(T))
    <2>1. CASE v.out = "ok"
      <3>1. loop[v] = v
        BY <1>1, <1>5, <2>1, WalkUnfolds
      <3> HIDE DEF loop
      <3> QED BY <1>5, <2>1, <3>1
    <2>2. CASE v.out = "run" /\ pass = "scan"
      <3>1. loop[v].out = "ok" /\ loop[v].seq = v.seq
        <4>1. /\ walk_from(l, "scan", NoStop)[v].out = "ok"
              /\ walk_from(l, "scan", NoStop)[v].seq = v.seq
          BY <1>1, <1>5, <2>2, ScanStops
        <4> QED BY <2>2, <4>1 DEF IsStop
      <3> HIDE DEF loop
      <3> QED BY <1>5, <2>2, <3>1
    <2>3. CASE v.out = "run" /\ pass # "scan"
      <3>1. stop = v.seq
        BY <1>5, <2>3 DEF IsStop
      <3>2. /\ walk_from(l, pass, v.seq)[v].out = "ok"
            /\ walk_from(l, pass, v.seq)[v].writes = v.writes
            /\ walk_from(l, pass, v.seq)[v].revokes = v.revokes
        BY <1>1, <1>5, <2>3, PassStops
      <3> QED BY <1>5, <2>3, <3>1, <3>2
    <2> QED BY <1>5, <2>1, <2>2, <2>3
  <1>7. loop[w0] = loop[v]
    BY <1>2, <1>4
  <1> HIDE DEF loop
  <1> QED BY <1>6, <1>7 DEF loop, w0

\* A transaction that is in the log with its commit block is replayed, wherever the ring
\* wraps: recover writes each of its images, the escaped ones unescaped, to its home and
\* passes the sequence number after the next one (walk, journal_recovery.rs:111-256).
THEOREM CompleteLogReplayed ==
    ASSUME NEW T, IsRequest(T), NEW s \in Sequences32, NEW p \in Ring,
           NEW l, WhollyLogged(l, s, p, T)
    PROVE  recover(l) = [status |-> "replay", writes |-> Restored(T, Images(T)),
                         seq |-> next_sequence(next_sequence(s))]
  <1> DEFINE w      == Begun(s, p, T)
             scan   == walk(l, "scan", NoStop, NoRevokes)
             revoke == walk(l, "revoke", scan.seq, NoRevokes)
             replay == walk(l, "replay", scan.seq, revoke.revokes)
             t      == next_sequence(s)
  <1>1. LogOK(l) /\ l[0] = SuperBlock(s, p) /\ l[0].start = p /\ p # 0
    <2>1. l[0].start = p
      BY DEF WhollyLogged, SuperBlock
    <2> QED BY <2>1, RingNumbers DEF WhollyLogged, Ring
  <1>2. WalkStart(l[0], NoRevokes) = w
    BY <1>1, StartIs
  <1> HIDE DEF w
  <1>3. ASSUME NEW pass, pass \in Passes, NEW stop, IsStop(stop, pass, s)
        PROVE  LET end == walk(l, pass, stop, NoRevokes)
               IN  /\ end.out = "ok"
                   /\ pass = "scan" => end.seq = t
                   /\ pass # "scan" => end.revokes = NoRevokes
                   /\ pass = "replay" => end.writes = Restored(T, Images(T))
    <2>1. walk(l, pass, stop, NoRevokes) = walk_from(l, pass, stop)[w]
      BY <1>2, Zenon DEF walk
    <2>2. Reads(l, s, p, T, pass, stop)
      BY <1>3, NextSequenceDiffers DEF Reads, IsStop
    <2>3. LET end == walk_from(l, pass, stop)[w]
          IN  /\ end.out = "ok"
              /\ pass = "scan" => end.seq = t
              /\ pass # "scan" => end.revokes = NoRevokes
              /\ pass = "replay" => end.writes = Restored(T, Images(T))
      BY <1>3, <2>2, WhollyWalked DEF w
    <2> QED BY <2>1, <2>3
  <1>4. scan.out = "ok" /\ scan.seq = t
    <2>1. "scan" \in Passes
      BY DEF Passes
    <2>2. IsStop(NoStop, "scan", s)
      BY DEF IsStop
    <2> HIDE DEF t
    <2> QED BY <1>3, <2>1, <2>2
  <1> HIDE DEF scan
  <1>5. revoke.out = "ok" /\ revoke.revokes = NoRevokes
    <2>1. "revoke" \in Passes
      BY DEF Passes
    <2>2. IsStop(scan.seq, "revoke", s)
      BY <1>4 DEF IsStop
    <2> HIDE DEF t
    <2> QED BY <1>3, <2>1, <2>2
  <1> HIDE DEF revoke
  <1>6. replay.out = "ok" /\ replay.writes = Restored(T, Images(T))
    <2>1. "replay" \in Passes
      BY DEF Passes
    <2>2. IsStop(scan.seq, "replay", s)
      BY <1>4 DEF IsStop
    <2> HIDE DEF t
    <2> QED BY <1>3, <1>5, <2>1, <2>2
  <1> HIDE DEF replay
  <1>7. recover(l) =
            IF l[0].start = 0
            THEN [status |-> "clean", writes |-> <<>>, seq |-> l[0].seq]
            ELSE IF scan.out = "err" \/ revoke.out = "err"
            THEN [status |-> "err", writes |-> <<>>, seq |-> l[0].seq]
            ELSE [status |-> IF replay.out = "err" THEN "err" ELSE "replay",
                  writes |-> replay.writes,
                  seq    |-> next_sequence(scan.seq)]
    BY Zenon DEF recover, scan, revoke, replay
  <1> QED BY <1>1, <1>4, <1>5, <1>6, <1>7

\* Applying those writes leaves the images of the transaction and nothing else changed.
LEMMA RestoredApplied ==
    ASSUME NEW T, IsRequest(T), NEW home
    PROVE  Applied(home, Restored(T, Images(T)))
               = [h \in DOMAIN home |-> IF h \in DOMAIN T THEN T[h] ELSE home[h]]
  <1> DEFINE n  == Images(T)
             ws == Restored(T, n)
             to(h) == {i \in DOMAIN ws : ws[i].home = h}
             last(h) == CHOOSE i \in to(h) : \A j \in to(h) : j <= i
  <1>1. n \in Nat /\ Order(T) \in [1 .. n -> DOMAIN T]
        /\ (\A h \in DOMAIN T : \E i \in 1 .. n : Order(T)[i] = h)
        /\ (\A i, j \in 1 .. n : Order(T)[i] = Order(T)[j] => i = j)
    BY GroupsOf, OrderIs
  <1>2. DOMAIN ws = 1 .. n /\ \A i \in 1 .. n : /\ ws[i].home = Order(T)[i]
                                                /\ ws[i].image = T[Order(T)[i]]
    BY DEF Restored
  <1> HIDE DEF n, ws
  <1>3. ASSUME NEW h PROVE to(h) = {} <=> h \notin DOMAIN T
    BY <1>1, <1>2
  <1>4. ASSUME NEW h \in DOMAIN T PROVE ws[last(h)].image = T[h]
    <2>1. PICK i \in 1 .. n : Order(T)[i] = h
      BY <1>1
    <2>2. to(h) = {i}
      BY <1>1, <1>2, <2>1
    <2>3. last(h) = i
      <3>1. \A j \in to(h) : j = i
        BY <2>2
      <3>2. \E k \in to(h) : \A j \in to(h) : j <= k
        BY <2>1, <2>2
      <3> HIDE DEF to
      <3>3. last(h) \in to(h)
        BY <3>2
      <3> QED BY <3>1, <3>3
    <2> QED BY <1>2, <2>1, <2>3
  <1>5. Applied(home, ws) = [h \in DOMAIN home |-> IF to(h) = {} THEN home[h]
                                                   ELSE ws[last(h)].image]
    BY Zenon DEF Applied
  <1> HIDE DEF to, last
  <1> QED BY <1>3, <1>4, <1>5 DEF ws, n
=============================================================================
