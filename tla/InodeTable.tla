----------------------------- MODULE InodeTable -----------------------------
(***************************************************************************)
(* Inodes as value snapshots: the inode table on disk, InodeCache (mod.rs) *)
(* and the read, read-modify-write and transactional paths through them    *)
(* (rw.rs, journal.rs), under the namespace lock and the sharded inode     *)
(* mutation locks that the operations of low_level.rs take.                *)
(*                                                                         *)
(* An operation is the list of its accesses, in the order of the code.     *)
(* Several inodes share a block of the table; block reads and writes and   *)
(* cache accesses are steps of their own.  The content of an inode is the  *)
(* set of threads whose update it contains.  The gate of MetadataGate is   *)
(* reduced to what GateExclusion says of it.                               *)
(***************************************************************************)
EXTENDS Integers, Sequences, FiniteSets, SequencesExt

CONSTANTS
    Threads,
    NoThread,
    Inodes,         \* inode numbers
    PerBlock,       \* inodes per block of the inode table
    Shards,         \* INODE_MUTATION_LOCK_SHARDS
    CacheSize,      \* INODE_CACHE_SIZE
    Kinds           \* the operations the threads run

AllKinds == {"setattr", "getattr", "mkdir", "rename_exchange", "rmdir"}

ASSUME InodeAssumption ==
    /\ Inodes \subseteq Nat \ {0} /\ IsFiniteSet(Inodes)
    /\ {PerBlock, Shards, CacheSize} \subseteq Nat \ {0}
    /\ NoThread \notin Threads
    /\ Kinds \subseteq AllKinds

VARIABLES
    disk,           \* content of each inode-table entry
    cache,          \* InodeCache.entries
    lock,           \* inode_mutation_locks
    namespace,      \* namespace_lock
    held,           \* per thread: its MetadataMutationGuard
    prog,           \* per thread: accesses still to do
    sub,            \* per thread: place within the first of them
    snap,           \* per thread: its InodeRefs
    blk,            \* per thread: the table block it has read
    staged,         \* per thread: images of its transaction, by block
    reverted,       \* inodes put back by a step outside their lock (history)
    goal, status    \* per thread: inodes it updates; "run", "ok", "again" (EAGAIN)

locks == <<lock, namespace, held>>
local == <<snap, blk, staged>>
vars == <<disk, cache, locks, prog, sub, local, goal, status, reverted>>

inode_mutation_lock_index(i) == i % Shards

\* inode_disk_pos, for one block group.
table_block(i) == (i - 1) \div PerBlock

Content == SUBSET Threads

\* What reading table block b returns.
Block(b) == [i \in {j \in Inodes : table_block(j) = b} |-> disk[i]]

WithBlock(image) == [i \in Inodes |-> IF i \in DOMAIN image THEN image[i] ELSE disk[i]]

NoEntries == [i \in {} |-> {}]

Put(f, x, v) == [y \in DOMAIN f \cup {x} |-> IF y = x THEN v ELSE f[y]]

-----------------------------------------------------------------------------
(* Operations as lists of accesses *)

Access(op, n) == [op |-> op, n |-> n]

Shared == Access("guard", "shared")
Exclusive == Access("guard", "exclusive")
Namespace == Access("namespace", 0)
Read(i) == Access("read", i)
Write(i) == Access("write", i)
StageInode(i) == Access("stage", i)
Commit == Access("commit", 0)

\* The locks of a list of inodes, sorted and without duplicates.
lock_inode_mutations(ids) ==
    LET shards == {inode_mutation_lock_index(i) : i \in ToSet(ids)}
        n      == Cardinality(shards)
        sorted == CHOOSE f \in [1 .. n -> shards] : \A k, l \in 1 .. n : k < l => f[k] < f[l]
    IN  [k \in 1 .. n |-> Access("lock", sorted[k])]

\* Fault variant: no inode lock.
SetattrUnlocked(i) == <<Shared, Read(i), Write(i)>>

setattr(i) == <<Shared>> \o lock_inode_mutations(<<i>>) \o <<Read(i), Write(i)>>

getattr(i) == <<Read(i)>>

\* Fault variant: the parent's lock before the namespace lock.
MkdirLocksFirst(p) ==
    <<Shared>> \o lock_inode_mutations(<<p>>) \o <<Namespace, Read(p), Write(p)>>

\* The new inode has no name yet and is left out.
mkdir(p) ==
    <<Shared, Namespace>> \o lock_inode_mutations(<<p>>) \o <<Read(p), Write(p)>>

\* A directory of p is exchanged with a file of n.
rename_exchange(p, n) ==
    <<Shared, Namespace, Read(p), Read(n)>> \o lock_inode_mutations(<<p, n>>)
    \o <<Read(p), Read(n), Write(p), Write(n)>>

rmdir(p, c) ==
    <<Exclusive, Namespace, Read(p)>> \o lock_inode_mutations(<<p, c>>)
    \o <<Read(p), Read(c), StageInode(p), StageInode(c), Commit>>

Program(k, i, j) ==
    CASE k = "setattr"         -> setattr(i)
      [] k = "getattr"         -> getattr(i)
      [] k = "mkdir"           -> mkdir(i)
      [] k = "rename_exchange" -> rename_exchange(i, j)
      [] k = "rmdir"           -> rmdir(i, j)

Goal(k, i, j) ==
    CASE k = "getattr"             -> {}
      [] k \in {"setattr", "mkdir"} -> {i}
      [] OTHER                     -> {i, j}

\* What a thread may be asked to do: an operation on one inode or on two.
Calls ==
    {c \in Kinds \X Inodes \X Inodes : c[1] \in {"rename_exchange", "rmdir"} <=> c[2] # c[3]}

-----------------------------------------------------------------------------
\* Each thread is about to run one operation, at some time.
Init ==
    /\ disk = [i \in Inodes |-> {}]
    /\ cache = NoEntries
    /\ lock = [s \in 0 .. (Shards - 1) |-> NoThread] /\ namespace = NoThread
    /\ held = [t \in Threads |-> "none"]
    /\ sub = [t \in Threads |-> "top"]
    /\ snap = [t \in Threads |-> NoEntries]
    /\ blk = [t \in Threads |-> NoEntries]
    /\ staged = [t \in Threads |-> <<>>]
    /\ reverted = {}
    /\ \E call \in [Threads -> Calls] :
        /\ prog = [t \in Threads |-> Program(call[t][1], call[t][2], call[t][3])]
        /\ goal = [t \in Threads |-> Goal(call[t][1], call[t][2], call[t][3])]
    /\ status = [t \in Threads |-> "run"]

\* The next access of t is op, and t is at place s of it.
At(t, op, s) == prog[t] # <<>> /\ Head(prog[t]).op = op /\ sub[t] = s

Arg(t) == Head(prog[t]).n

Inside(t, s) == sub' = [sub EXCEPT ![t] = s] /\ UNCHANGED <<prog, goal, status>>

Done(t) ==
    /\ prog' = [prog EXCEPT ![t] = Tail(@)] /\ sub' = [sub EXCEPT ![t] = "top"]
    /\ UNCHANGED <<goal, status>>

\* try_direct and try_transactional: a guard, or EAGAIN.
Guard(t) ==
    /\ At(t, "guard", "top")
    /\ LET free == IF Arg(t) = "shared" THEN \A u \in Threads : held[u] # "exclusive"
                   ELSE \A u \in Threads : held[u] = "none"
       IN  \/ /\ free
              /\ held' = [held EXCEPT ![t] = Arg(t)]
              /\ Done(t)
           \/ /\ ~free
              /\ prog' = [prog EXCEPT ![t] = <<>>]
              /\ status' = [status EXCEPT ![t] = "again"]
              /\ UNCHANGED <<held, sub, goal>>
    /\ UNCHANGED <<disk, cache, lock, namespace, local, reverted>>

LockNamespace(t) ==
    /\ At(t, "namespace", "top") /\ namespace = NoThread
    /\ namespace' = t
    /\ Done(t)
    /\ UNCHANGED <<disk, cache, lock, held, local, reverted>>

\* A spin lock: a thread that holds it already waits for itself.
LockShard(t) ==
    /\ At(t, "lock", "top") /\ lock[Arg(t)] = NoThread
    /\ lock' = [lock EXCEPT ![Arg(t)] = t]
    /\ Done(t)
    /\ UNCHANGED <<disk, cache, namespace, held, local, reverted>>

-----------------------------------------------------------------------------
(* read_inode *)

Keep(t, v) == snap' = [snap EXCEPT ![t] = Put(@, Arg(t), v)] /\ UNCHANGED <<blk, staged>>

Lookup(t) ==
    /\ At(t, "read", "top")
    /\ \/ Arg(t) \in DOMAIN cache /\ Keep(t, cache[Arg(t)]) /\ Done(t)
       \/ Arg(t) \notin DOMAIN cache /\ UNCHANGED local /\ Inside(t, "miss")
    /\ UNCHANGED <<disk, cache, locks, reverted>>

Fetch(t) ==
    /\ At(t, "read", "miss")
    /\ Keep(t, disk[Arg(t)])
    /\ Inside(t, "fetched")
    /\ UNCHANGED <<disk, cache, locks, reverted>>

\* InodeCache::insert clears a full cache first.  A reader without the inode's lock
\* may put in what an update has replaced since it read the table.
Insert(t) ==
    /\ At(t, "read", "fetched")
    /\ cache' = Put(IF Cardinality(DOMAIN cache) >= CacheSize THEN NoEntries ELSE cache,
                    Arg(t), snap[t][Arg(t)])
    /\ reverted' = IF snap[t][Arg(t)] = disk[Arg(t)] THEN reverted ELSE reverted \cup {Arg(t)}
    /\ Done(t)
    /\ UNCHANGED <<disk, locks, local>>

-----------------------------------------------------------------------------
(* write_inode_without_csum: the caller's snapshot with its own change *)

Changed(t) == snap[t][Arg(t)] \cup {t}

ReadBlock(t) ==
    /\ At(t, "write", "top")
    /\ blk' = [blk EXCEPT ![t] = Block(table_block(Arg(t)))]
    /\ Inside(t, "read")
    /\ UNCHANGED <<disk, cache, locks, snap, staged, reverted>>

\* The neighbours in the block are written back as they were when it was read.
WriteBlock(t) ==
    /\ At(t, "write", "read")
    /\ disk' = WithBlock(Put(blk[t], Arg(t), Changed(t)))
    /\ reverted' = reverted \cup {j \in DOMAIN blk[t] \ {Arg(t)} : blk[t][j] # disk[j]}
    /\ blk' = [blk EXCEPT ![t] = NoEntries]
    /\ Inside(t, "written")
    /\ UNCHANGED <<cache, locks, snap, staged>>

\* InodeCache::update
UpdateCache(t) ==
    /\ At(t, "write", "written")
    /\ cache' = IF Arg(t) \in DOMAIN cache THEN Put(cache, Arg(t), Changed(t)) ELSE cache
    /\ Done(t)
    /\ UNCHANGED <<disk, locks, local, reverted>>

-----------------------------------------------------------------------------
(* Transactions *)

\* transaction_stage_inode_with_csum: the block is read when it is first staged.
Stage(t) ==
    /\ At(t, "stage", "top")
    /\ LET b     == table_block(Arg(t))
           image == IF b \in DOMAIN staged[t] THEN staged[t][b] ELSE Block(b)
       IN  staged' = [staged EXCEPT ![t] = Put(@, b, Put(image, Arg(t), Changed(t)))]
    /\ Done(t)
    /\ UNCHANGED <<disk, cache, locks, snap, blk, reverted>>

\* The checkpoint writes the lowest block not yet written.
WriteHome(t) ==
    /\ At(t, "commit", "top") /\ staged[t] # <<>>
    /\ \E b \in DOMAIN staged[t] :
        /\ \A c \in DOMAIN staged[t] : b <= c
        /\ disk' = WithBlock(staged[t][b])
        /\ staged' = [staged EXCEPT ![t] = [c \in DOMAIN @ \ {b} |-> @[c]]]
    /\ UNCHANGED <<cache, locks, prog, sub, snap, blk, goal, status, reverted>>

\* Fault variant: the cache keeps the entries of a committed transaction.
PublishNothing(t) ==
    /\ At(t, "commit", "top") /\ staged[t] = <<>>
    /\ Done(t)
    /\ UNCHANGED <<disk, cache, locks, local, reverted>>

\* publish drops the cached inodes of every staged block.
Publish(t) ==
    /\ At(t, "commit", "top") /\ staged[t] = <<>>
    /\ LET blocks == {table_block(i) : i \in goal[t]}
       IN  cache' = [i \in {j \in DOMAIN cache : table_block(j) \notin blocks} |-> cache[i]]
    /\ Done(t)
    /\ UNCHANGED <<disk, locks, local, reverted>>

-----------------------------------------------------------------------------
\* The operation returns and its guards are dropped.
Return(t) ==
    /\ status[t] = "run" /\ prog[t] = <<>>
    /\ status' = [status EXCEPT ![t] = "ok"]
    /\ lock' = [s \in DOMAIN lock |-> IF lock[s] = t THEN NoThread ELSE lock[s]]
    /\ namespace' = IF namespace = t THEN NoThread ELSE namespace
    /\ held' = [held EXCEPT ![t] = "none"]
    /\ snap' = [snap EXCEPT ![t] = NoEntries]
    /\ UNCHANGED <<disk, cache, prog, sub, blk, staged, goal, reverted>>

Step(t) ==
    \/ Guard(t) \/ LockNamespace(t) \/ LockShard(t)
    \/ Lookup(t) \/ Fetch(t) \/ Insert(t)
    \/ ReadBlock(t) \/ WriteBlock(t) \/ UpdateCache(t)
    \/ Stage(t) \/ WriteHome(t) \/ Publish(t)
    \/ Return(t)

\* All operations have returned.
Quiet == (\A t \in Threads : status[t] \in {"ok", "again"}) /\ UNCHANGED vars

Next == (\E t \in Threads : Step(t)) \/ Quiet

Spec == Init /\ [][Next]_vars

\* Some thread goes on while any can, however the locks choose among those that wait.
FairSpec == Spec /\ WF_vars(\E t \in Threads : Step(t))

-----------------------------------------------------------------------------
(* Properties *)

Entries == UNION {[D -> Content] : D \in SUBSET Inodes}

TypeOK ==
    /\ disk \in [Inodes -> Content]
    /\ cache \in Entries /\ Cardinality(DOMAIN cache) <= CacheSize
    /\ lock \in [0 .. (Shards - 1) -> Threads \cup {NoThread}]
    /\ namespace \in Threads \cup {NoThread}
    /\ held \in [Threads -> {"none", "shared", "exclusive"}]
    /\ sub \in [Threads -> {"top", "miss", "fetched", "read", "written"}]
    /\ snap \in [Threads -> Entries] /\ blk \in [Threads -> Entries]
    /\ goal \in [Threads -> SUBSET Inodes]
    /\ status \in [Threads -> {"run", "ok", "again"}]
    /\ reverted \subseteq Inodes

\* An update whose operation has returned is in the inode table for good: "Without
\* this lock, two writers can clone the same cached inode, mutate disjoint fields,
\* then write stale extent roots or sizes back over each other" (mod.rs:103).  With
\* it they still can, as MCInodeNeighbour and MCInodeReader show.
NoLostUpdate ==
    \A t \in Threads : status[t] = "ok" => \A i \in goal[t] : t \in disk[i]

\* What the shard locks and the gate do give: an update is lost only to a write of a
\* neighbour in its table block (rw.rs:180) or to a snapshot that a reader without
\* the lock put into the cache after it was stale (rw.rs:149), never to another
\* update of the same inode, whichever of the two kinds of path either takes.
OnlyRevertedUpdatesAreLost ==
    \A t \in Threads : status[t] = "ok" => \A i \in goal[t] : t \in disk[i] \/ i \in reverted

Writing(t, i) ==
    \/ At(t, "write", "written") /\ Arg(t) = i
    \/ At(t, "commit", "top") /\ i \in goal[t]

\* A cached inode is what the table holds, except between a write and the cache
\* access that completes it (InodeCache::update, mod.rs:54, and publish,
\* journal.rs:390), and except for the inodes that one of those two steps has put
\* back: no update, of either kind, leaves behind an entry from before it.
CacheCoherent ==
    \A i \in DOMAIN cache :
        cache[i] = disk[i] \/ i \in reverted \/ \E t \in Threads : Writing(t, i)

\* Whatever inodes the operations name, and whatever shards these fall in, no
\* thread waits for a lock forever: the namespace lock comes before the shards, and
\* these are sorted and without duplicates (lock_inode_mutations, mod.rs:754),
\* while operations under the shared guard contend for both.
EveryoneReturns == <>(\A t \in Threads : status[t] # "run")

=============================================================================
