--------------------------- MODULE OrphanReclaim ---------------------------
(***************************************************************************)
(* The life and death of inodes on a journaled mount: the final unlink     *)
(* puts an inode on the on-disk orphan chain (link.rs, orphan.rs), reclaim *)
(* takes it apart in several transactions (alloc.rs, xattr_reclaim.rs) and *)
(* a mount reclaims what a crash left on the chain.                        *)
(*                                                                         *)
(* A transaction is the new disk it computes: by the contract of           *)
(* CrashStore it happens wholly or not at all, and one whose commit fails  *)
(* may have happened.  Reclaim, link and unlink hold the exclusive guard   *)
(* of MetadataGate, so they do not overlap other mutations.  A direct      *)
(* writer (write, setxattr, a further link) is one step; of its failures   *)
(* the one that leaves i_blocks behind is here (write_stops_half_way).     *)
(* An extent tree is a sequence of leaves, of which the one with node 0 is *)
(* the root in the inode itself; no file has holes.  Only regular files:   *)
(* directories differ in what happens to their parent.  A rename over an   *)
(* existing name does to the replaced inode what unlink does.              *)
(* Two fields of an inode are ghosts: named, whether it ever had a name,   *)
(* and excess, what i_blocks counts beyond the blocks of the extent tree:  *)
(* an xattr block that another implementation counted, or less than none,  *)
(* the blocks that a write which failed half way mapped.  Of the contents  *)
(* of an xattr block only this is told: whether its layout is one that the *)
(* validation before its release refuses (disk.odd).                       *)
(***************************************************************************)
EXTENDS Integers, Sequences, FiniteSets, SequencesExt, FiniteSetsExt, Bags

CONSTANTS
    Inodes,         \* inode numbers an orphan may have
    BlockCount,     \* data blocks are 1 .. BlockCount
    PerGroup,       \* blocks per block group
    LeafCap,        \* extents per leaf
    GenMod,         \* generations are counted modulo GenMod (2^32)
    Images,         \* disks a first mount may find
    MaxLinks,       \* bound: links of an inode
    MaxOps,         \* bound: creates, writes, links and xattrs in all
    MaxFaults,      \* bound: commits and reads that fail
    MaxCrashes      \* bound: crashes of a mount

Blocks == 1 .. BlockCount

ASSUME ReclaimAssumption ==
    /\ Inodes \subseteq Nat \ {0} /\ IsFiniteSet(Inodes)
    /\ {BlockCount, PerGroup, LeafCap, MaxLinks} \subseteq Nat \ {0}
    /\ {MaxOps, MaxFaults, MaxCrashes} \subseteq Nat
    /\ GenMod \in Nat \ {0, 1}

VARIABLES
    disk,           \* [inode, head, bitmap, refs, odd, ok]: the durable metadata
    mode,           \* "down", "mounting", "up"; "failed": the mount met an I/O error;
                    \* "refused": the mount found a disk it will never accept
    poisoned,       \* Ext4.poisoned
    creating,       \* the inode a create has allocated and not yet named, or 0
    handles,        \* a bag: the InodeReclaimHandles the VFS holds
    job,            \* the reclaim under way
    snapshot,       \* cleanup_legacy_orphan_chain: inodes not yet visited
    life,           \* ghost: how often each inode number was created
    ops, faults, crashes

bounds == <<ops, faults, crashes>>
vars == <<disk, mode, poisoned, creating, handles, job, snapshot, life, bounds>>

Handle(i, g, l) == [ino |-> i, gen |-> g, life |-> l]

NoJob == [kind |-> "none", handle |-> Handle(0, 0, 0), step |-> "none"]

-----------------------------------------------------------------------------
(* Transactions as functions of the disk d.  ok becomes FALSE where the code *)
(* returns an error instead of staging.                                      *)

Reject(d) == [d EXCEPT !.ok = FALSE]

Put(d, i, r) == [d EXCEPT !.inode[i] = r]

group(b) == (b - 1) \div PerGroup

\* The k-th link of the orphan chain, from 0.
Link(d) ==
    LET f[k \in 0 .. Cardinality(Inodes)] ==
            LET pred == f[k - 1]
            IN  IF k = 0 THEN d.head ELSE IF pred = 0 THEN 0 ELSE d.inode[pred].next
    IN  f

\* A walk of at most inode_count links that meets allocated inodes only and ends;
\* a cycle does not end.
validate_chain(d) ==
    LET f    == Link(d)
        ends == {k \in DOMAIN f : f[k] = 0}
        len  == Min(ends)
    IN  IF ends = {} THEN [ok |-> FALSE, inodes |-> <<>>]
        ELSE [ok     |-> \A k \in 0 .. (len - 1) : d.inode[f[k]].used,
              inodes |-> [k \in 1 .. len |-> f[k - 1]]]

legacy_orphan_contains(d, i) ==
    LET chain == validate_chain(d) IN chain.ok /\ i \in ToSet(chain.inodes)

\* Fault variant: the chain's old head is dropped.
OrphanAddAlone(d, i) ==
    [Put(d, i, [d.inode[i] EXCEPT !.next = 0]) EXCEPT !.head = i]

transaction_orphan_add(d, i) ==
    IF d.head = i \/ d.inode[i].links # 0 THEN Reject(d)
    ELSE [Put(d, i, [d.inode[i] EXCEPT !.next = d.head]) EXCEPT !.head = i]

\* The predecessor, or the superblock, takes over the target's link.
transaction_orphan_del(d, i) ==
    LET chain == validate_chain(d).inodes
        pred  == {chain[k] : k \in {k \in 1 .. (Len(chain) - 1) : chain[k + 1] = i}}
    IN  IF ~legacy_orphan_contains(d, i) THEN Reject(d)
        ELSE IF d.head = i THEN [d EXCEPT !.head = d.inode[i].next]
        ELSE [d EXCEPT !.inode[CHOOSE p \in pred : TRUE].next = d.inode[i].next]

\* One group only, and no block of the range free already.
transaction_dealloc_block_range(d, first, count) ==
    LET range == first .. (first + count - 1)
    IN  IF range = {} \/ ~(range \subseteq d.bitmap) \/ group(first) # group(first + count - 1)
        THEN Reject(d)
        ELSE [d EXCEPT !.bitmap = @ \ range]

transaction_dealloc_inode(d, i) ==
    IF ~d.inode[i].used THEN Reject(d) ELSE [d EXCEPT !.inode[i].used = FALSE]

-----------------------------------------------------------------------------
(* Extents *)

ExtentBlocks(e) == e.p .. (e.p + e.n - 1)

DataBlocks(r) == UNION {UNION {ExtentBlocks(e) : e \in ToSet(l.exts)} : l \in ToSet(r.leaves)}

TreeBlocks(r) == {l.node : l \in ToSet(r.leaves)} \ {0}

extent_tail(r) == Last(Last(r.leaves).exts)

\* Fault variant: the whole extent at once.
WholeExtent(start, count) == count

\* The right edge of an extent, up to the last group boundary in it.
extent_tail_batch_limit(start, count) == Min({count, ((start + count - 2) % PerGroup) + 1})

\* Fault variant: the tail is removed though it begins before the end of the file.
RemoveBelowSize(keep, tail_start, count, limit) == IF tail_start + count <= keep THEN 0 ELSE limit

\* 0 when the tail ends within the blocks to keep.
linked_orphan_tail_remove_limit(keep, tail_start, count, limit) ==
    IF tail_start + count <= keep THEN 0
    ELSE Min({limit, tail_start + count - Max({keep, tail_start})})

\* The inode without the last n blocks of its tail extent; a leaf that becomes
\* empty is detached.
extent_remove_tail(r, n) ==
    LET leaf == Last(r.leaves)
        tail == Last(leaf.exts)
        exts == IF n < tail.n THEN Front(leaf.exts) \o <<[tail EXCEPT !.n = @ - n]>>
                ELSE Front(leaf.exts)
    IN  [r EXCEPT !.leaves = Front(@) \o
            IF exts = <<>> THEN <<>> ELSE <<[leaf EXCEPT !.exts = exts]>>]

\* One transaction of the extent loops: at most limit blocks of the tail go, with
\* the leaf if it was the last extent of it.
RemoveTail(d, i, limit) ==
    LET r     == d.inode[i]
        tail  == extent_tail(r)
        n     == Min({limit, tail.n})
        r2    == extent_remove_tail(r, n)
        nodes == TreeBlocks(r) \ TreeBlocks(r2)
        d2    == transaction_dealloc_block_range(d, tail.p + tail.n - n, n)
        d3    == IF nodes = {} THEN d2
                 ELSE transaction_dealloc_block_range(d2, CHOOSE b \in nodes : TRUE, 1)
    IN  IF r.iblocks < n + Cardinality(nodes) THEN Reject(d)
        ELSE Put(d3, i, [r2 EXCEPT !.iblocks = @ - n - Cardinality(nodes)])

-----------------------------------------------------------------------------
(* Reclaim: each step builds one transaction from the durable inode *)

next_inode_generation(g) == IF (g + 1) % GenMod = 0 THEN 1 ELSE (g + 1) % GenMod

Cleared(r) == [used |-> FALSE, links |-> 0, gen |-> r.gen, next |-> 0, size |-> 0,
               leaves |-> <<>>, xattr |-> 0, iblocks |-> 0, named |-> FALSE, excess |-> 0]

\* Fault variant: the generation is not compared.
ValidateAnyLifetime(d, i, g) == d.inode[i].used /\ d.inode[i].links = 0

validate_reclaim_inode(d, i, g) ==
    d.inode[i].used /\ d.inode[i].links = 0 /\ d.inode[i].gen = g

Mapped(r) == Cardinality(DataBlocks(r))

\* The tail's blocks go up to a group boundary, and the size follows them.
ReclaimExtents(d, i) ==
    LET r    == d.inode[i]
        tail == extent_tail(r)
        d2   == RemoveTail(d, i, extent_tail_batch_limit(tail.p, tail.n))
    IN  [d2 EXCEPT !.inode[i].size = Min({r.size, Mapped(d2.inode[i])})]

\* Fault variant: the shared block loses a reference and the inode keeps its own.
ReleaseKeepsReference(d, i) ==
    LET b == d.inode[i].xattr
    IN  IF d.refs[b] > 1 THEN [d EXCEPT !.refs[b] = @ - 1]
        ELSE transaction_dealloc_block_range(
                 [d EXCEPT !.refs[b] = 0, !.inode[i].xattr = 0], b, 1)

\* A shared block loses one reference, an exclusive one is freed; either is
\* validated first (validate_xattr_block_for_release).
transaction_release_xattr(d, i) ==
    LET b  == d.inode[i].xattr
        d2 == [d EXCEPT !.refs[b] = @ - 1, !.inode[i].xattr = 0]
    IN  IF b \notin d.bitmap \/ b \in d.odd THEN Reject(d)
        ELSE IF d.refs[b] > 1 THEN d2
        ELSE transaction_dealloc_block_range(d2, b, 1)

\* Only this transaction takes the inode off the chain.
ReclaimFinal(d, i) ==
    LET r  == d.inode[i]
        d2 == transaction_dealloc_inode(transaction_orphan_del(d, i), i)
    IN  IF r.iblocks # 0 THEN Reject(d) ELSE Put(d2, i, Cleared(r))

TruncateLimit(r) ==
    LET tail == extent_tail(r)
    IN  linked_orphan_tail_remove_limit(r.size, Mapped(r) - tail.n, tail.n,
                                        extent_tail_batch_limit(tail.p, tail.n))

\* Fault variant: the inode is written but the chain still starts at it.
TruncateStaysOnChain(d, i) == [d EXCEPT !.inode[i].next = 0]

TruncateFinal(d, i) ==
    LET d2 == transaction_orphan_del(d, i) IN [d2 EXCEPT !.inode[i].next = 0]

\* The transaction the job builds next: its disk, and whether it is the last.
Transaction(d, j) ==
    LET i == j.handle.ino
        r == d.inode[i]
        more == r.leaves # <<>>
    IN  IF j.kind = "truncate"
        THEN IF more /\ TruncateLimit(r) > 0
             THEN [step |-> "extents", disk |-> RemoveTail(d, i, TruncateLimit(r))]
             ELSE [step |-> "final", disk |-> TruncateFinal(d, i)]
        ELSE IF ~validate_reclaim_inode(d, i, j.handle.gen)
             THEN [step |-> "final", disk |-> Reject(d)]
        ELSE IF more THEN [step |-> "extents", disk |-> ReclaimExtents(d, i)]
        ELSE IF r.xattr # 0 THEN [step |-> "xattr", disk |-> transaction_release_xattr(d, i)]
        ELSE [step |-> "final", disk |-> ReclaimFinal(d, i)]

-----------------------------------------------------------------------------
(* Steps *)

Op == ops < MaxOps /\ ops' = ops + 1
Fault == faults < MaxFaults /\ faults' = faults + 1

\* No reclaim and no create is under way: the guards of both exclude the others.
Idle == mode = "up" /\ job = NoJob /\ ~poisoned

Quiet == Idle /\ creating = 0

\* A commit either applies the new disk or fails, having applied it or not.
CommitOk(d) == d.ok /\ disk' = d /\ UNCHANGED poisoned
CommitFails(d) ==
    /\ d.ok /\ Fault
    /\ disk' \in {disk, d}
    /\ poisoned' = TRUE

InodeRecord ==
    [used : BOOLEAN, links : 0 .. MaxLinks, gen : 0 .. (GenMod - 1), next : Inodes \union {0},
     size : 0 .. BlockCount,
     leaves : Seq([node : Blocks \union {0}, exts : Seq([p : Blocks, n : Blocks])]),
     xattr : Blocks \union {0}, iblocks : 0 .. BlockCount, named : BOOLEAN,
     excess : (0 - BlockCount) .. 1]

\* A first mount finds a disk whose orphan chain can be walked and has every inode
\* that lost its last name.
SoundImage(d) ==
    /\ d \in [inode : [Inodes -> InodeRecord], head : Inodes \union {0},
              bitmap : SUBSET Blocks, refs : [Blocks -> 0 .. Cardinality(Inodes)],
              odd : SUBSET Blocks, ok : {TRUE}]
    /\ validate_chain(d).ok
    /\ \A i \in Inodes :
           d.inode[i].named /\ d.inode[i].links = 0 => i \in ToSet(validate_chain(d).inodes)

ASSUME ImageAssumption == \A d \in Images : SoundImage(d)

Init ==
    /\ disk \in Images
    /\ mode = "down" /\ poisoned = FALSE /\ creating = 0
    /\ handles = EmptyBag /\ job = NoJob /\ snapshot = <<>>
    /\ life = [i \in Inodes |-> 0]
    /\ ops = 0 /\ faults = 0 /\ crashes = 0

\* The lowest free inode is allocated and initialised; its name comes later.
create_inode ==
    /\ Quiet /\ Op
    /\ \E i \in Inodes :
        /\ ~disk.inode[i].used
        /\ \A k \in Inodes : k < i => disk.inode[k].used
        /\ disk' = Put(disk, i, [Cleared(disk.inode[i]) EXCEPT
                                     !.used = TRUE,
                                     !.gen = next_inode_generation(@)])
        /\ creating' = i
        /\ life' = [life EXCEPT ![i] = @ + 1]
    /\ UNCHANGED <<mode, poisoned, handles, job, snapshot, faults, crashes>>

\* link_inode names the new inode, or fails and the inode is freed again.
link_new_inode_or_free ==
    /\ Idle /\ creating # 0
    /\ \/ disk' = [disk EXCEPT !.inode[creating].links = 1, !.inode[creating].named = TRUE]
       \/ disk' = Put(disk, creating, Cleared(disk.inode[creating]))
    /\ creating' = 0
    /\ UNCHANGED <<mode, poisoned, handles, job, snapshot, life, bounds>>

\* The VFS reaches an inode by a name, or keeps it open after its last unlink.
Reachable(i) ==
    /\ disk.inode[i].used
    /\ \/ disk.inode[i].links > 0
       \/ \E h \in BagToSet(handles) : h.ino = i /\ h.life = life[i]

AppendBlock(leaf, b) ==
    LET tail == Last(leaf.exts)
    IN  IF leaf.exts # <<>> /\ tail.p + tail.n = b
        THEN [leaf EXCEPT !.exts = Front(@) \o <<[tail EXCEPT !.n = @ + 1]>>]
        ELSE [leaf EXCEPT !.exts = Append(@, [p |-> b, n |-> 1])]

\* The inode with block b at its end; the tree does not grow another level or leaf.
Grown(r, b) ==
    LET leaf == IF r.leaves = <<>> THEN [node |-> 0, exts |-> <<>>] ELSE Last(r.leaves)
    IN  [r EXCEPT !.leaves = (IF @ = <<>> THEN <<>> ELSE Front(@)) \o <<AppendBlock(leaf, b)>>]

OwnBlocks(r) == DataBlocks(r) \union TreeBlocks(r)

recompute_inode_block_count(r) == [r EXCEPT !.iblocks = Cardinality(OwnBlocks(r)), !.excess = 0]

\* extent_query_or_create allocates b and inserts it, which makes inode i the record r.
Append1(i, b, r) ==
    /\ Reachable(i) /\ Len(Last(r.leaves).exts) <= LeafCap
    /\ disk' = [Put(disk, i, r) EXCEPT !.bitmap = @ \union {b}]

\* One block is appended.
write ==
    /\ Quiet /\ Op
    /\ \E i \in Inodes, b \in Blocks \ disk.bitmap :
           LET r == Grown(disk.inode[i], b)
           IN  Append1(i, b, [recompute_inode_block_count(r) EXCEPT !.size = Mapped(r)])
    /\ UNCHANGED <<mode, poisoned, creating, handles, job, snapshot, life, faults, crashes>>

\* A write of several blocks maps its first one and fails at the next, for want of a
\* free block or at a device error: neither i_blocks nor the size is written.
write_stops_half_way ==
    /\ Quiet /\ Op
    /\ \E i \in Inodes, b \in Blocks \ disk.bitmap :
           Append1(i, b, [Grown(disk.inode[i], b) EXCEPT !.excess = @ - 1])
    /\ UNCHANGED <<mode, poisoned, creating, handles, job, snapshot, life, faults, crashes>>

\* The first attribute allocates a block; the i_blocks count does not include it.
\* This and any later change of the attributes, setxattr's or removexattr's, lays the
\* block out in a way the release accepts or not (XattrBlock::insert).
setxattr ==
    /\ Quiet /\ Op
    /\ \E i \in Inodes, b \in Blocks :
        /\ Reachable(i)
        /\ \E odd \in {disk.odd \union {b}, disk.odd \ {b}} :
            \/ /\ disk.inode[i].xattr = 0 /\ b \notin disk.bitmap
               /\ disk' = [disk EXCEPT !.inode[i].xattr = b, !.refs[b] = 1,
                                       !.bitmap = @ \union {b}, !.odd = odd]
            \/ /\ disk.inode[i].xattr = b
               /\ disk' = [disk EXCEPT !.odd = odd]
    /\ UNCHANGED <<mode, poisoned, creating, handles, job, snapshot, life, faults, crashes>>

\* The last name, the zero link count and the orphan chain change in one
\* transaction, which hands out the reclaim capability.
unlink_inode ==
    /\ Quiet
    /\ \E i \in Inodes :
        LET r  == disk.inode[i]
            d2 == transaction_orphan_add([disk EXCEPT !.inode[i].links = 0], i)
            h  == Handle(i, r.gen, life[i])
        IN  /\ r.used /\ r.links > 0
            /\ \/ /\ r.links > 1
                  /\ disk' = [disk EXCEPT !.inode[i].links = @ - 1]
                  /\ UNCHANGED <<poisoned, handles, faults>>
               \/ /\ r.links = 1 /\ CommitOk(d2)
                  /\ handles' = handles (+) SetToBag({h})
                  /\ UNCHANGED faults
               \/ r.links = 1 /\ CommitFails(d2) /\ UNCHANGED handles
    /\ UNCHANGED <<mode, creating, job, snapshot, life, ops, crashes>>

\* A zero-link inode leaves the chain in the transaction that names it again.
link_inode ==
    /\ Quiet /\ Op
    /\ \E i \in Inodes :
        LET r  == disk.inode[i]
            d  == transaction_orphan_del(disk, i)
            d2 == [d EXCEPT !.inode[i].links = 1, !.inode[i].next = 0]
        IN  /\ Reachable(i)
            /\ \/ /\ r.links \in 1 .. (MaxLinks - 1)
                  /\ disk' = [disk EXCEPT !.inode[i].links = @ + 1]
                  /\ UNCHANGED <<poisoned, faults>>
               \/ r.links = 0 /\ CommitOk(d2) /\ UNCHANGED faults
               \/ r.links = 0 /\ CommitFails(d2)
    /\ UNCHANGED <<mode, creating, handles, job, snapshot, life, crashes>>

\* Final close: a refused capability goes back to the caller.
reclaim_inode ==
    /\ Quiet
    /\ \E h \in BagToSet(handles) :
        /\ validate_reclaim_inode(disk, h.ino, h.gen)
        /\ legacy_orphan_contains(disk, h.ino)
        /\ job' = [kind |-> "evict", handle |-> h, step |-> "begin"]
        /\ handles' = handles (-) SetToBag({h})
    /\ UNCHANGED <<disk, mode, poisoned, creating, snapshot, life, bounds>>

\* The job ends: the capability returns to the VFS, or the mount ends with it.
GiveUp(m) ==
    /\ job' = NoJob
    /\ mode' = IF mode = "mounting" THEN m ELSE mode
    /\ snapshot' = IF mode = "mounting" THEN <<>> ELSE snapshot
    /\ handles' = IF job.kind = "evict" THEN handles (+) SetToBag({job.handle}) ELSE handles

\* One transaction of reclaim_inode_lifetime or recover_linked_orphan_inode_by_id.
reclaim_inode_lifetime ==
    /\ job # NoJob
    /\ LET t == Transaction(disk, job)
       IN  /\ CommitOk(t.disk)
           /\ job' = IF t.step = "final" THEN NoJob ELSE [job EXCEPT !.step = t.step]
    /\ UNCHANGED <<mode, creating, handles, snapshot, life, bounds>>

reclaim_commit_fails ==
    /\ job # NoJob
    /\ CommitFails(Transaction(disk, job).disk)
    /\ GiveUp("failed")
    /\ UNCHANGED <<creating, life, ops, crashes>>

\* A read between two transactions fails: nothing is poisoned.
reclaim_read_fails ==
    /\ job # NoJob /\ Fault
    /\ GiveUp("failed")
    /\ UNCHANGED <<disk, poisoned, creating, life, ops, crashes>>

reclaim_refused ==
    /\ job # NoJob /\ ~Transaction(disk, job).disk.ok
    /\ GiveUp("refused")
    /\ UNCHANGED <<disk, poisoned, creating, life, bounds>>

\* The whole chain is validated before the first transaction.
load_writable ==
    /\ mode = "down"
    /\ LET chain == validate_chain(disk)
       IN  IF chain.ok THEN mode' = "mounting" /\ snapshot' = chain.inodes
           ELSE mode' = "refused" /\ UNCHANGED snapshot
    /\ UNCHANGED <<disk, poisoned, creating, handles, job, life, bounds>>

\* The durable head must still be the next inode of the snapshot, with the same
\* successor; after the last one the chain must be empty.
cleanup_legacy_orphan_chain ==
    /\ mode = "mounting" /\ job = NoJob
    /\ LET i     == IF snapshot = <<>> THEN 0 ELSE Head(snapshot)
           succ  == IF Len(snapshot) > 1 THEN snapshot[2] ELSE 0
           r     == disk.inode[i]
           valid == disk.head = i /\ (i # 0 => r.next = succ /\ r.used)
       IN  /\ mode' = IF ~valid THEN "refused" ELSE IF i = 0 THEN "up" ELSE mode
           /\ snapshot' = IF valid /\ i # 0 THEN Tail(snapshot) ELSE <<>>
           /\ job' = IF ~valid \/ i = 0 THEN NoJob
                     ELSE [kind |-> IF r.links = 0 THEN "cleanup" ELSE "truncate",
                           handle |-> Handle(i, r.gen, life[i]), step |-> "begin"]
    /\ UNCHANGED <<disk, poisoned, creating, handles, life, bounds>>

\* What memory holds is gone.
Forget ==
    /\ mode' = "down" /\ poisoned' = FALSE /\ creating' = 0
    /\ handles' = EmptyBag /\ job' = NoJob /\ snapshot' = <<>>
    /\ UNCHANGED <<disk, life, ops, faults>>

Crash == mode # "down" /\ crashes < MaxCrashes /\ crashes' = crashes + 1 /\ Forget

\* The operator mounts again after a failed mount or a fail-stopped one.
Remount == (mode = "failed" \/ (poisoned /\ mode = "up")) /\ Forget /\ UNCHANGED crashes

reclaim == reclaim_inode_lifetime \/ reclaim_commit_fails \/ reclaim_read_fails \/ reclaim_refused
namespace == create_inode \/ link_new_inode_or_free \/ unlink_inode \/ link_inode
contents == write \/ write_stops_half_way \/ setxattr
mount == load_writable \/ cleanup_legacy_orphan_chain \/ Remount

Next == namespace \/ contents \/ reclaim_inode \/ reclaim \/ mount \/ Crash

Spec == Init /\ [][Next]_vars

\* A reclaim runs to its end in the calling thread, so does a mount, and the
\* operator remounts what stopped.  The second conjunct is WF_vars(reclaim), with
\* ENABLED reclaim written as job # NoJob (a transaction is accepted or refused).
FairSpec ==
    /\ Spec
    /\ []<>(job = NoJob) \/ []<><<reclaim>>_vars
    /\ WF_vars(mount)

-----------------------------------------------------------------------------
(* Properties *)

\* The values of the variables.
TypeOK ==
    /\ DOMAIN disk.inode = Inodes
    /\ \A i \in Inodes : disk.inode[i] \in InodeRecord
    /\ disk.head \in Inodes \union {0} /\ disk.bitmap \subseteq Blocks
    /\ DOMAIN disk.refs = Blocks /\ \A b \in Blocks : disk.refs[b] \in 0 .. Cardinality(Inodes)
    /\ disk.odd \subseteq Blocks /\ disk.ok = TRUE
    /\ mode \in {"down", "mounting", "up", "failed", "refused"}
    /\ poisoned \in BOOLEAN /\ creating \in Inodes \union {0} /\ IsABag(handles)
    /\ job = NoJob \/ (job.kind \in {"evict", "cleanup", "truncate"} /\ job.handle.ino \in Inodes)
    /\ snapshot \in Seq(Inodes)

\* Whatever crash, failed commit or interrupted reclaim comes between, an inode
\* that lost its last name is on a chain that can be walked (link.rs: "after
\* recovery the inode is either still named, or unreachable and discoverable from
\* the on-disk orphan head"); outside mount cleanup no named inode is on it.
UnlinkedDiscoverable ==
    LET chain == validate_chain(disk)
    IN  /\ chain.ok
        /\ \A i \in Inodes :
            LET r == disk.inode[i]
            IN  /\ r.named /\ r.links = 0 => i \in ToSet(chain.inodes)
                /\ i \in ToSet(chain.inodes) /\ mode = "up" => r.links = 0

Owned(i) ==
    IF disk.inode[i].used THEN OwnBlocks(disk.inode[i]) ELSE {}

Sharers(b) == {i \in Inodes : disk.inode[i].used /\ disk.inode[i].xattr = b}

\* After every transaction of a reclaim, committed, torn from the next or retried,
\* a block is allocated exactly when one inode maps it or an xattr reference names
\* it, the reference count is the number of inodes sharing it, and i_blocks follows
\* the inode's own, up to what it was wrong by before: nothing leaks and nothing is
\* freed twice (alloc.rs, xattr_reclaim.rs).
BlocksAccounted ==
    LET xattrs == {b \in Blocks : Sharers(b) # {}}
        owned  == [i \in Inodes |-> Owned(i)]
    IN  /\ disk.bitmap = UNION {owned[i] : i \in Inodes} \union xattrs
        /\ \A i, k \in Inodes : i # k => owned[i] \intersect owned[k] = {}
        /\ \A i \in Inodes :
            /\ owned[i] \intersect xattrs = {}
            /\ disk.inode[i].used =>
                   disk.inode[i].iblocks = Cardinality(owned[i]) + disk.inode[i].excess
        /\ \A b \in Blocks : disk.refs[b] = Cardinality(Sharers(b))

\* The reclaim capability names one lifetime of an inode number: a capability that
\* survived a relink, a failed reclaim or the number's reuse never takes another
\* file apart (reclaim_inode's generation check).
ReclaimsItsLifetime == job.kind = "evict" => job.handle.life = life[job.handle.ino]

\* The blocks of a file in logical order.
Contents(r) ==
    FlattenSeq([k \in 1 .. Len(r.leaves) |->
        FlattenSeq([e \in 1 .. Len(r.leaves[k].exts) |->
            [b \in 1 .. r.leaves[k].exts[e].n |-> r.leaves[k].exts[e].p + b - 1]])])

\* No step takes from a file that has a name, before and after, a block below its
\* size, its xattrs or its generation: completing an interrupted truncate keeps
\* what lies below i_size, and reclaim works on unnamed inodes only.
NamedFilesKept ==
    [][\A i \in Inodes :
        LET old == disk.inode[i]
            new == disk'.inode[i]
        IN  old # new /\ old.used /\ old.links > 0 =>
                /\ new.used /\ new.gen = old.gen /\ new.size >= old.size
                /\ SubSeq(Contents(new), 1, Min({old.size, Len(Contents(new))}))
                       = SubSeq(Contents(old), 1, Min({old.size, Len(Contents(old))}))
                /\ old.xattr # 0 => new.xattr = old.xattr]_vars

\* Nothing in the inode is of the kind that reclaim refuses: an i_blocks that counts
\* an xattr block, which the final transaction rejects (alloc.rs:786), or fewer blocks
\* than the file has (alloc.rs:750-754, left by low_level.rs:396-415), or an xattr
\* block whose layout the release rejects (xattr_reclaim.rs:87, written by setxattr).
Reclaimable(i) ==
    LET r == disk.inode[i] IN r.excess = 0 /\ r.xattr \notin disk.odd

\* A reclaim, and the cleanup of a mount, meet a disk their own checks refuse for one
\* of the three causes above only, which the inode brings along: each transaction
\* leaves a disk that the next one accepts, inside one block group, after any crash
\* or failure, and no inode is refused for another's sake.
RefusedForCause ==
    /\ mode = "refused" => \E i \in ToSet(validate_chain(disk).inodes) : ~Reclaimable(i)
    /\ job # NoJob /\ ~Transaction(disk, job).disk.ok => ~Reclaimable(job.handle.ino)

\* Once I/O errors and crashes stop, a mount gets through its orphans: the extent
\* loops end and no crash leaves a disk that can never be mounted again, unless an
\* orphan is one that reclaim refuses, which stops every mount.
MountSucceeds ==
    mode # "up" /\ (\A i \in ToSet(validate_chain(disk).inodes) : Reclaimable(i)) ~> mode = "up"

=============================================================================
