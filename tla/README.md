# A TLA+ model of another_ext4

`another_ext4` is an ext4 implementation in Rust (`src/src/`), usable without an
operating system. This directory models the parts of it where a mistake costs data and
where a test would hardly find it: the metadata journal with its crash recovery, the
gate that decides who may change metadata, the inode cache with its locks, the allocator, the
reclaim of unlinked inodes, the commits of a mount without a journal, extent trees, the namespace, and the blocks of directory
entries and attributes. The modules are
checked by TLC on small instances (the runs of `PROJECT.json`) and, where TLAPS can, proved for every
instance (the `theorems` of `PROJECT.json`).

Source paths below are relative to `src/src/` unless they start with `src/`.

## 1. Inventory of the system

| Component | State it keeps | Operations | What makes it correct |
|---|---|---|---|
| JBD2 format (`jbd2.rs`) | log blocks: superblock, descriptors with tags, data, commit and revoke records | parse and encode, checksums | what the encoder writes the walk reads back; an image can never be mistaken for a header |
| Journal recovery (`ext4/journal_recovery.rs`) | position, sequence, revoke table | `recover`: scan, revoke and replay passes; flush; new superblock | each home block ends as the last committed, unrevoked image; nothing uncommitted is applied; failing leaves a retry possible |
| Journal transaction engine (`ext4/journal_transaction.rs`) | the writer slot, the poison mark, ring head and sequence, staged images | `start`, `stage`, `commit`, `abort` on a journal or a Direct core | atomicity and durability of a commit under I/O errors and power loss |
| Mount lifecycle (`ext4/journal.rs`) | RECOVER bit, mutation mode | `initialize_journal`, `shutdown_writable`, cache publication | RECOVER is durable while transactions run; no reachable device is refused |
| Mutation gate and fail-stop (`ext4/mod.rs`) | one atomic word, `Ext4.poisoned`, the core's poison mark | `try_direct`, `try_transactional`, guard drops, `ensure_mutable`, `fail_stop_mutations` | direct writers and transactions exclude each other; a failure is known before anyone else can mutate |
| Inode cache and locks (`ext4/mod.rs`, `ext4/rw.rs`) | `InodeCache`, sharded spin locks, namespace lock | `read_inode`, `write_inode_*`, staged inode writes, `publish` | no update is overwritten by a stale snapshot; no thread waits for ever |
| Superblock and group descriptors (`ext4/rw.rs`, `ext4_defs/`) | cached value snapshots | read, write, staged writes | counters agree with bitmaps |
| Allocator (`ext4/alloc.rs`, `ext4_defs/bitmap.rs`) | bitmaps, per-group and global free counters | allocate and free blocks and inodes, with a rollback on failure | no block is given out twice; counters equal what the bitmaps say, also after a partial failure |
| Reclaim and orphan chain (`ext4/alloc.rs`, `ext4/orphan.rs`, `ext4/xattr_reclaim.rs`) | the on-disk list of unlinked inodes | add, remove, walk at mount, bounded reclaim transactions | an unlinked inode is reclaimed exactly once, whatever crash interrupts it |
| Extent trees (`ext4/extent.rs`) | tree of extents, its root in the inode, nodes in blocks; `i_blocks` | search, insert with merge, split and root growth, contiguous append, tail removal, full validation | a search finds what was inserted; each block has one owner; a reader sees its file and never old blocks |
| Directories and links (`ext4/dir.rs`, `ext4/link.rs`, `ext4_defs/dir.rs`) | records in directory blocks, `..`, link counts | add, remove, replace entries; link, unlink, relink | directories form a tree, link counts match the names, no name dangles, also after a failure half way |
| Extended attributes (`ext4_defs/xattr.rs`) | one block per inode: entries growing up, values growing down | set with create and replace flags, remove, get, list; validation before release | a dictionary; a refused change leaves the old value |
| Low-level API (`ext4/low_level.rs`) | none of its own | setattr, read, write, prepared writes, rename, exchange, rmdir, xattr calls | each operation is under the right guard and locks; its row of writes can be cut anywhere |
| Path API (`ext4/high_level.rs`), field accessors (`ext4_defs/inode.rs`), FUSE adapter, test program | - | sequential compositions and byte layouts | - |

How they interact. Every mutating call of the low-level API first asks `ensure_mutable`, then takes a
`MetadataMutationGuard`: shared (*direct*: several at once, each under the locks of its inodes) or exclusive
(*transactional*). A transactional call starts a `Transaction` on the mount's
core - the journal, or the Direct core when there is no journal -, stages block images, and
commits; the commit writes log, commit block and homes in order with flushes between, and
publishes the new images to the caches. A failure in a commit poisons the core, and the caller then
poisons the filesystem. `shutdown_writable` takes the exclusive guard and clears RECOVER or marks the
filesystem clean. A mount recovers the journal before anything else.

What is hard here: power loss between any two writes, with any subset of unflushed blocks
surviving; a second loss during recovery; a failed shutdown or mount whose half-done work stays in the
device's cache; sequence numbers that wrap and stale log blocks of earlier laps; checks made before a guard is
held; read-modify-write of shared table blocks; a cache filled without its lock; rows of unjournaled writes (rename, create,
an extent insertion, a direct range) cut by an error or a stop, and rollbacks that fail; entries, values and extents that shift, split
and merge until a block is exactly full. `PROJECT.json` lists each as a
hazard, at its line.

## 2. Modules

| Module | Models | Notes |
|---|---|---|
| `JournalLog` | block formats, ring arithmetic, `encode_log`, the three-pass `walk`, `recover` | constant-level: pure operators |
| `JournalLogProofs` | theorems about what `recover` makes of a log | |
| `JournalRecovery`, `MCJournalRecovery` | `recover` against a declarative reading of the log | state: a ring being filled |
| `CrashStore` | what a journaled mount promises | abstract specification |
| `JournalTransaction`, `MCJournalTransaction` | mount, recovery, transactions, shutdown over a device with a volatile cache | implements `CrashStore` |
| `JournalTransactionProofs` | theorems about it, and that it implements `CrashStore` | uses `JournalLogProofs` |
| `MetadataGate`, `MCMetadataGate` | gate, poison marks, writer slot, shutdown checks, any number of threads | |
| `MetadataGateProofs` | theorems about it | |
| `InodeTable`, `MCInodeTable` | inode table, cache, inode locks, direct and staged writes | uses `GateExclusion` as the gate's contract |
| `InodeTableProofs` | theorems about it | |
| `OrphanReclaim`, `MCOrphanReclaim` | unlink, relink, reclaim in several transactions, orphan cleanup at mount | uses `CrashStore` as the contract of a transaction, `GateExclusion` as the gate's |
| `OrphanReclaimProofs` | theorems about it | |
| `Allocator`, `MCAllocator` | bitmaps, counters, the three writes of an allocation and the restore after a failure | uses `CrashStore` as the contract of a transaction |
| `AllocatorProofs` | theorems about it | |
| `DirectRange`, `MCDirectRange` | `commit_direct_range` with its rollback and `commit_direct`, on a device with a volatile cache | the mount without a journal |
| `DirectRangeProofs` | theorems about it | |
| `ExtentTree`, `MCExtentTree` | one file's extent tree under every operation that grows or trims it, write by write | implements `FileContent` |
| `FileContent` | what a file promises its readers | abstract specification |
| `Namespace`, `MCNamespace` | create, mknod, mkdir, link, unlink, rmdir, rename, exchange as rows of writes and transactions | `OrphanReclaim` has the steps of its `Reclaim`, `PackedBlocks` the blocks of its entries |
| `NamespaceProofs` | theorems about it, with the lemmas on `check_ancestor_cycle` they need | |
| `DirBlock`, `XattrBlock` | the layout of a directory leaf and of an attribute block | constant-level: pure operators |
| `PackedBlocks`, `MCPackedBlocks` | any sequence of operations on such a block | implements `Dictionary` |
| `Dictionary` | what a block of names promises | abstract specification |

Operators named "Fault variant" in the modules are the mutated forms of the definition that follows them;
no specification uses them. Each run's properties are known to fail when such a form replaces the
definition.

### JournalLog

A log block is a record with a type, the sequence number of its header, and what the walk looks at: the tags
of a descriptor (home block, escape and deleted flags, checksum), the image of a data block, the set of
revoked blocks, and whether the block's own checksum matches. An image is a version and one property of its
bytes: whether it starts with the JBD2 magic number. The encoder clears that property (`Escaped`,
`encode_log`), the replay restores it (`Unescape`). A data block whose image was *not* escaped is read by the
walk in the worst way its bytes allow, as a commit header for the sequence it looks for (`header_matches`).
A V3 tag checksum covers the sequence and the logged bytes, so it *is* that pair.

`WalkStep` is one iteration of the loop in `walk`; `walk` iterates it to the end, `recover` runs it as scan, revoke and
replay pass and yields the decision and the home writes *in order*, so that `JournalTransaction` can perform them
one at a time. Sequence numbers are counted modulo `SeqMod` (2^32 in the code) and compared with the wrapping
`tid_geq`. The journal inode's mapping, feature negotiation and byte parsing are abstracted: a log block is
addressed by its logical number.

### JournalRecovery

Logs found at mount may come from Linux, so they hold revoke records and deleted tags which this code never
writes. The state is a ring filled one block at a time with blocks of `Alphabet`; in each ring `recover` is compared
with a reference that has no passes, positions or budgets: `Records` are the headers that
follow one another with the right sequence numbers, `Committed` those up to a commit block, and a home block
must receive the image of the last live tag. That gives three properties: `ReplayMeansLog`,
`SequenceSkipsTail`, and `FailsOnlyOnCorruption`.

### JournalTransaction and CrashStore

The device keeps for each block what a read returns and the set of contents a power loss may leave (`homeDur`,
`logDur`, `flagDur`). A write adds its content and a torn block, a flush reduces the set to the
current content, a failed write may have happened wholly, partly or not at all, a failed flush promises nothing. The journal
superblock's fields and the RECOVER bit lie within one sector and do not tear. The device is external code, modelled from
how `src/` uses `BlockDevice`.

`phase` is the program counter of the one thread that mounts, commits or shuts down (the writer slot and the
exclusive guard make it one). Each device operation of `initialize_journal`, `recover`, `commit_journal` and
`shutdown_writable` is an action with its success and its failure. `pub` is what the caches show.
`Discard` covers each way a transaction ends before its first write. `PowerLoss` picks one content per block;
`WarmRestart` is a process restart, or a mount retried, with the device still powered.

`CrashStore` says what this promises: `possible`, the stores the next successful mount may find, is one
store outside a commit; a commit may add exactly the store with all requested blocks replaced; what is
visible is only ever a store no crash can take back. The refinement mapping computes `possible` by running
recovery on every outcome of a power loss *now* (`CrashStores`), so the property `AtomicAndDurable`
checks the recoverability of each intermediate state and not just of those where TLC happens to crash.

### MetadataGate

One action per atomic operation on the gate word, per lock-protected access to a poison mark and per access to the
core's writer slot. `try_direct` is a load followed by a bounded loop of weak compare-exchanges, which may fail spuriously.
A direct operation ends well or leaves metadata half written (`DirectTears`), then poisons the filesystem under its guard; a
transaction ends well or fails, poisons its core, releases the slot and is poisoned for the whole filesystem by its caller.
`prepare_buffered_write` drops one kind of guard and asks for the other. `torn` is a history variable.
`DirectTears` stands for those failing direct paths that call `poison_on_error` or `fail_stop_mutations`. Others (a failed
restore in `alloc_block`, a node split cut half way, a parent whose link count cannot be written) return the error without poisoning: `DirectLeaves`,
which the history variable `quiet` remembers. `CleanMarkEarned` is about running operations and about failures that poison; it does not say that
metadata is whole when the clean mark is written (`CleanMarkTrue` would, and does not hold: section 5).

### InodeTable

An operation is the list of its accesses, in the order of the code (`setattr`, `getattr`, `mkdir`, `rename_exchange`, `rmdir`), with
the locks it takes; the first four run beside each other. Block reads, block writes and cache accesses are separate steps; a table block holds `PerBlock` inodes. The content of an
inode is the set of threads whose update it contains, so a lost update is a missing thread. The history variable `reverted` holds the inodes that one of two
steps has put back, for which no lock of theirs is held: a write of another inode in the same table block, and the insertion of a snapshot that is stale by then into the cache. Reads and writes of one device block
are atomic, as the device's own lock makes them. Guards follow the contract `GateExclusion` that `MetadataGate` establishes.

### OrphanReclaim

The disk is one record: inodes, orphan head, block bitmap, xattr reference counts. A transaction is a function from the disk to the disk it
commits, with `ok` FALSE where the code returns an error instead; `CommitOk` and `CommitFails` give it the contract of `CrashStore`: it
happens wholly or not at all, and a failed commit poisons the mount. `Transaction` is the next transaction of a reclaim, computed
from the durable inode alone, as the code re-reads it: extents from the tail, one block group at a time, then the xattr block, then the
chain, the inode number and the cleared table entry together. A mount validates the chain, keeps it as `snapshot`, compares each
durable link with it, and reclaims or completes the truncate of one inode after the other. A crash or a failure may come between any two transactions. `handles` is a bag because an
inode that is unlinked, named again and unlinked has two equal capabilities. Creation is two steps: an inode exists before it has a name.

Abstracted: directory entries (a name is a link), the free counters that follow the bitmap, checksums, the position of blocks in a bitmap;
direct writers are one step (their interleavings are `InodeTable`'s, their partial failures are in `Allocator`, `ExtentTree` and `Namespace`, except the
one that reclaim meets again, below). `write` appends to the last leaf and never splits it, which `ExtentTree` does.

The code refuses to reclaim an inode for three causes, all of which can come about in ordinary use or from an ordinary image, and all of which stop every later
mount at that orphan:

* `i_blocks` counts the inode's xattr block, as other implementations write it: this code neither counts it in `setxattr` nor subtracts it in
  `transaction_release_xattr`, so the final transaction finds blocks left ("Final reclaim with owned blocks"). One image of the run has such inodes.
* `i_blocks` counts less than the file has: a write of several blocks that fails after the first has mapped it and not counted it
  (`write_stops_half_way`, `low_level.rs:396-415`), and the subtraction in `alloc.rs:750-754` would become negative. The next write that maps a block
  recomputes the count.
* The release's validation rejects the layout of the xattr block (`disk.odd`), which `setxattr` and `removexattr` choose here freely; the run `xattr_release` shows that
  they do write such blocks.

The ghost field `excess` is the first two. `RefusedForCause` says that nothing else is ever refused, and `MountSucceeds` that a mount gets through every chain
without such an inode.

### Allocator

`alloc_lock` makes an allocation or a release one operation at a time; `op` is that operation, with the images it read before (`old`) and a program counter
over its writes: bitmap, group descriptor, superblock, then the first write of the new unit or the cleared inode. Each write has a success and a failure.
A failure of the second or third write leads through the three restoring writes, each of which may fail too. A write that fails may have reached the device (`alloc.rs:545-547`): for a
bitmap, which every operation reads anew, and for an inode's slot the model has both cases. Descriptors and superblock are those of the
cache, which the code goes by and sets after a write that succeeded. Reads do not fail. Blocks and inodes are both *units* counted from 0,
told apart by `kind`, as the code does the same for both except in the search for a free bit, the fields of the descriptor, and
`poison`: a failed restore poisons the mount for an inode and not for a block. The latter leaves counts and bitmap of a group apart on a mount that goes on, and so does a bitmap
write that failed and yet reached the device, whose error is returned by a plain `?` (`alloc.rs:936, 1045, 1112, 1196`). `unrepaired` remembers these groups: `Accounting` is stated for all
others and `NoSpuriousENOSPC` while there is none; `NoDoubleAllocation` has no exception. `owned` is what callers hold; a release whose
writes fail leaves the unit to nobody, which leaks it and is allowed. The direct path releases only inodes of failed creates
(`link_new_inode_or_free`), transactions release any, block by block where the code takes a range within a group. A transaction is one step, as `CrashStore` promises.

### DirectRange

Without a journal a prepared range of new blocks is committed by ordering alone: zeros and a flush; bitmap, descriptor and superblock and a
flush; then the inode. Each write and flush is an action with its failure, each failure leads to the rollback the code makes (of the homes
written so far *and* of the one whose write failed, in reverse, then a flush), whose steps can fail as well; only then is the core poisoned. The device
keeps, per block, the images a power loss may leave. `commit_direct`, by which reclaim takes blocks back, has no flush and no rollback; the code says of it "It is
deterministic, not crash atomic". So nothing is claimed after a power loss or an error cut a release (`torn`): `loose` holds
the blocks whose release is not durable. The allocation homes of one group stand for all, and a file's blocks are a set.

### ExtentTree and FileContent

`disk` holds the inode with the root, the blocks with nodes and data, and the bitmap. Code and model work on a private copy of the inode; an operation
is a record `x` that is passed through the code's helpers (`extent_query_or_create`, `insert_extent`, `split`, `split_root`, ...) and collects
`x.log`, the devices its successive writes produce. `Completes` takes the last of them, `IsCut` any, which is a failing write that reached the device or
not. An allocation without a free block ends the operation where it is, as `?` does. `harm` is what an unfinished insertion left: `leak` (a block
that is allocated and not in the tree) or `cut` (a node was shrunk or replaced and the rest of its entries is not yet linked in). The code neither repairs nor
poisons after `cut`, so nothing is claimed from there on (`Whole`); the hazard at `extent.rs:849` says so. A failed inode write that reached the device is seen only after
the cached inode was dropped; the model explores both views by continuing from either device. `FileContent` is the promise to readers, and
`content` is always computed by the code's own search (`read_blocks`). The tail removal of reclaim is one transaction; its
cascade through emptied nodes and the `i_blocks` it subtracts are here, its batches in `OrphanReclaim`. Sizes count blocks; a partial block is not told apart.

### Namespace

`fs` is one record: kind, link count, `..` and entries of each inode, and the orphan chain as a set. The namespace lock makes operations exclude each other, so an operation is
one step, but a step of three kinds (`Runs`): it completes; one of its writes fails and the code's rollback for this write, successful or not, decides what is left and whether the
mount is poisoned; or the process stops after any write. Final removals, replacements by rename and the relink of an orphan are one transaction each. `harm` records the failures after which the
code leaves a count or a name behind without poisoning (`link_inode`'s last write, `mkdir`'s counts); the properties name it where they
depend on it. The module models a journaled mount on a device that keeps the order of writes; a power loss could reorder unflushed direct writes, and
on a mount without a journal the transactions would be rows too.
When the last write of a new name fails though it reached the device, `link_inode` takes the count back, `link_new_inode_or_free` frees the new inode, and
neither poisons the mount (`link.rs:61-71`, `low_level.rs:539-550`): "name" enters `harm`. The operations go on, as `ensure_mutable` lets them, for `MaxAftermath` more;
`MCLinkRollback.cfg` shows what is then lost, and the properties on names and counts are stated up to such a failure (`Trusted`). In what follows it, an inode enrolled a second time stays
once in `orphans`, which is a set here. `AllOrNothing` also excepts the two writes that can fail without poison although they took effect: this one, and the first
of an unlink that leaves other names (`link.rs:131`). New names are the callers' duty, as `create`'s comment says ("call `lookup` to check beforehand").

### DirBlock, XattrBlock, PackedBlocks and Dictionary

A directory block is a sequence of records with lengths; an attribute block is its entry table and its value area, byte by byte, because
`insert` and `remove` shift it. Lengths and alignment are the code's; names are numbers with lengths, in the order of `compare_name`. `PackedBlocks` runs any sequence of
requests on one block: `IsDictionary` says that a reader finds what it should after each, `LayoutSound` that the layout is what the code's own
validation of directories and other implementations expect, that nothing is lost to removed entries, and that listings agree with lookups.

## 3. Runs

| Run | Cfg | Instance | Result |
|---|---|---|---|
| `recovery` | `MCJournalRecovery` | all rings of 5 blocks over 13 blocks, starting at the last sequence number before the wrap and in the middle of the ring | three properties hold |
| `journal_crash` | `MCJournalCrash` | 2 home blocks, one of which starts with the magic number, ring of 5 blocks, 1 tag per descriptor, 2 transactions, 1 I/O error, 1 crash of a healthy mount (a poisoned mount may always be abandoned) | refinement of `CrashStore` and three invariants hold |
| `journal_live` | `MCJournalLive` | the same with V3 checksums, warm restarts and fairness | liveness, sequence freshness and reservation hold |
| `gate_direct` | `MCGateDirect` | 3 threads, count saturating at 2, 2 retries, Direct mount | all hold |
| `inode_table` | `MCInodeTable` | 3 threads, any of the five operations each, 2 inodes in one table block and 2 shards, cache of 1 | all hold |
| `orphan_reclaim` | `MCOrphanReclaim` | 3 inodes, 8 blocks in 2 groups, 3 images, 2 operations beside unlinks and reclaims, 1 failed commit or read, 2 crashes | all hold |
| `allocator` | `MCAllocator` | groups of 3 and 2 blocks and of 2 and 1 inodes, partly used; 3 allocations, any releases, 2 failing writes | all hold |
| `direct_range` | `MCDirectRange` | 2 files, 3 blocks, ranges of 1 and 2, 3 of them, any releases, 2 device errors, 1 power loss | all hold |
| `extent_tree` | `MCExtentTree` | 6 file blocks on 10 device blocks, root and nodes of 2 entries, extents of at most 2 blocks, requests of at most 3; 3 growing operations and any tail removals, 1 failing write | refinement of `FileContent` and two invariants hold |
| `namespace` | `MCNamespace` | 2 names (interchangeable: `SYMMETRY`), the root and 3 inodes, 1 failing write, 2 operations after one that left a name, a stop anywhere | all hold |
| `packed_blocks` | `MCPackedBlocks` | 4 names of different lengths; a directory block of 52 bytes, an attribute block of 28, values of 0, 1, 3 and 4 bytes | refinement of `Dictionary` and the layout hold |
| `xattr_release` | `MCXattrRelease` | the same | **violation** of `Releasable` |

`MCInodeShards.cfg` is a further instance of `MCInodeTable`, with two threads and three inodes of which two share a shard; its properties hold as well.

Why the bounds are enough for what the runs ask. Two transactions let a log start where the previous one ended, wrap
around the ring and leave stale blocks under it; a credit count of 3 does not fit the ring with one tag per
descriptor, so reservation matters. One fault and one crash already give
every pair (failed operation, cut-off point), since `CrashStores` quantifies over all outcomes at each state, and a
failed mount may be cut again. `SeqMod = 8` with a start just below it makes the sequence number wrap inside each run.
Three threads are needed for a reader, an updater and the victim of a stale snapshot, and for two shared holders beside an
exclusive attempt; a saturation limit of 2 is reached. In `orphan_reclaim` three inodes give chains with a middle; an extent crosses the
group boundary, a leaf is emptied; two operations are a relink and a create, which a capability needs to outlive its inode; two crashes hit a
reclaim and then the cleanup of what it left. In `allocator` three allocations fill what is free of either kind, in either group; two failures are
a write and its restore, or a first write and its undo. In `direct_range` two errors are a write and its rollback, and a block passes from one file to the
other between releases. In `extent_tree` three scattered requests of three blocks make five extents and more, which takes two splits and a root that has
grown; ten blocks run out in the middle of an insertion. In `namespace` three inodes are enough for a directory in a directory beside a third one to move, replace or exchange
with it, and two names for a free and a taken one in each; two operations are enough to show what a left name can lead to. In `packed_blocks` neither block holds all names, a freed record can be too short for the
next name, and a longer value may not fit where the old one was.

`CHECK_DEADLOCK FALSE` appears only in `recovery`, where a full ring has no next
step, in `orphan_reclaim`, where a mounted filesystem may have nothing left to do, and in the allocator's runs, where a poisoned mount
allocates nothing. `Ended`, `LeftAlone` and `Halted` are the stuttering steps of the states in which a bound is reached or the mount takes no more
mutations. `MaxTx`, `MaxFaults`, `MaxCrashes`, `MaxLosses`, `MaxCredits`, `MaxOps`, `MaxRun`, `MaxRange`, `MaxLblock`, `MaxInode`, `MaxLinks` and `MaxAftermath` are
the only bounds the code does not have; the capacities (`RootCap`, `NodeCap`, `InitMaxLen`, `DirectMin`, block sizes) are the code's constants made small.

## 4. Fairness

`JournalTransaction!FairSpec`: a mount, a commit or a shutdown that has begun is a function that runs to its end (weak fairness of its
steps); a filesystem that is down is mounted again, and a machine whose mount failed is restarted. Nothing is assumed of faults, crashes or new
transactions. `MetadataGate!FairSpec`: a thread inside an acquisition takes its next step; nothing is assumed of
the outcome of a weak compare-exchange or of the owners. `InodeTable!FairSpec`: while any thread can go on, some thread
does, whichever of its waiters a spin lock admits; each runs one operation, so all return unless some wait for each other. `OrphanReclaim!FairSpec`: a reclaim and a mount that have begun run to their
end, and a failed or poisoned mount is mounted again.

## 5. What the code does not promise

`xattr_release`: `XattrBlock::insert` puts each value directly below the previous one, without alignment, and leaves one byte to end the table;
`validate_xattr_block_for_release` wants values at multiples of four and four bytes at the end. After one `setxattr` with a value of one byte, an
unlinked inode cannot be reclaimed: the release is refused, at each mount again.

The following situations are excluded by the constants or the statements of the passing runs. Each has a cfg with which TLC shows the counterexample
(`tlc -config X.cfg M`):

* `MCJournalWarmReplay.cfg` (`MCJournalTransaction`, `HomesRepairable`, the part of `RetryRepairs` about home blocks): `recover` replays from a log it has read but not flushed. After a process restart, the commit block may
  exist only in the device's cache; home writes of the replay may then survive a power loss that the log does not, and no
  later mount can retry. A mount that trusts a RECOVER bit it finds set (`journal.rs:342`) relies on the same cache, and a later one can be refused.
* `MCGateJournalShutdown.cfg` (`MCMetadataGate`, `CleanMarkEarned`): a journaled mount's shutdown asks the journal core only; a half-done direct mutation, which
  poisons `Ext4.poisoned`, does not keep RECOVER set.
* `MCGateQuietFailure.cfg` (`MCMetadataGate`, `CleanMarkTrue`): a direct operation that fails half way and returns the error without poisoning is not known to the
  shutdown, on a Direct mount either: the filesystem is marked clean over half-done metadata.
* `MCInodeNeighbour.cfg` (`MCInodeTable`, `NoLostUpdate`): an inode-table block is read, patched and written under the lock of one inode's shard; its neighbours have other
  locks.
* `MCInodeReader.cfg` (`MCInodeTable`, `NoLostUpdate`): `getattr`, and the first lookups of other operations, fill the cache without the shard lock, so an old
  snapshot can enter it after an update.
* `MCAllocatorItable.cfg` (`MCAllocator`, `UnusedTailIsUnused`): the direct `dealloc_inode` increments `itable_unused`, the length of the inode table's never-used tail, when it frees a
  slot that has been written; the transactional release leaves it alone, and says why.
* `MCExtentHoles.cfg` (`MCExtentTree`, `EveryBlockReadable`): the search in an index node whose first key is greater than the block returns EIO, so a hole before the first
  extent of a file with more extents than the root holds can be neither read nor written.
* `MCLinkRollback.cfg` (`MCNamespace`, `OrphansUnnamed`): a second name's directory write reports an error though it reached the device; `link_inode` writes the link
  count back and does not poison (`link.rs:61-71`), so with two names on disk the count is one. The unlink of either is judged final: the inode is given to
  reclaim and the other name leads to whatever gets its number next.
* `MCRenameExchange.cfg` (`MCNamespace`, `ExchangeAtomic`): `rename_exchange` replaces one entry after the other, so a process that stops in between leaves one inode under both
  names and the other under none, although the comment says "Atomically exchange two directory entries".

`journal_crash` excludes the first of these by its constants (`WarmRestarts` FALSE). `ResumeAfterFailedShutdown` FALSE excludes another:
`shutdown_writable` clears RECOVER and, if the flush fails, returns without restoring the bit or poisoning the mount; were the mount
used on, transactions would run without RECOVER (with TRUE, TLC finds `RecoverDurable` violated). The two inode situations are *in* the run
`inode_table`; its properties except what they put back (`reverted`). The comment of the inode locks ("Without this lock, two writers can clone the same cached inode, mutate disjoint fields,
then write stale extent roots or sizes back over each other", `ext4/mod.rs:103`) promises more: with the lock, they still can.

## 6. Proofs

`MetadataGateProofs`, for any finite set of threads, any saturation limit and retry count: `GateExclusionHolds`, `StartIsSafeHolds`,
`FailureIsPublishedHolds`, `TypeCorrect`, and `CleanMarkEarnedHolds` on Direct mounts (`~Journal`;
`MCGateJournalShutdown.cfg` shows why not otherwise, `MCGateQuietFailure.cfg` what it leaves out). `GateExclusion` equates the gate word with the number of shared holders, or with the exclusive
bit and exactly one owner; with `TypeOK` it is inductive (`ExclusionStep`; the counting is `SharedCounts`, from the
cardinality theorems). It does not suffice for the rest: that `start` may check the poison mark and take the writer slot in two steps
holds because the slot is taken only while its taker is the exclusive owner. `OwnerOK` says that, and that a poisoned core
without a poisoned filesystem means its owner is still on the way to tell. `TornOK` does the same for half-written
metadata. `IInv` is the conjunction of the four.

`JournalTransactionProofs`, for any blocks, ring, descriptor capacity, and number of transactions, faults and crashes:
`WriteAheadHolds` and, when failures are followed by a power loss and a failed shutdown is final, `RecoverDurableHolds`.
Both assume `~WarmRestarts` and `~ResumeAfterFailedShutdown` (section 5 says what happens otherwise). Neither property is inductive. `IInv` adds
which phases belong to which mode (`ControlOK`), that nothing is in the cache between mounts (`DownClean`), that the superblock
points at the transaction being logged from its first flush to the home flush (`TailActive`; here the ring lemmas are needed,
that no log write hits logical block 0), and where homes may be dirty (`HomeDiscipline`): only in the checkpoint and in a replay, or after a
failure of one of these, and then behind a durable log.

The same module has two theorems on any device, without `Orderly`: `ReservationSufficesHolds` and `LogNeverOverlaps`. `start` refuses a transaction whose credits would
not fit the ring and `stage` one block more than the credits; `required_log_blocks` is monotone (`RequiredMonotone`), so what is staged fits, and the
log blocks of one transaction, counted modulo the ring, are distinct.

`JournalLogProofs` is about `recover` alone, for any ring, descriptor capacity, checksum mode and home blocks. `walk_from` is a recursive function on the states of the walk; every step either ends the
walk or lowers a rank (blocks left of the ring), so the function is what its equation says (`WalkUnfolds`) and comes to a verdict (`WalkEnds`). The library's induction theorems take an operator, which the
provers cannot instantiate; the module has induction over a *set* of numbers instead (`SetInduction`), from the well-foundedness of `<` and the existence of minimal elements. From it follow
`RecoverDecides`, and the two theorems about the logs `commit_journal` writes: `PartialLogPassedOver` (no commit block: nothing is written, the next sequence is named) and `CompleteLogReplayed` (with it: exactly the images go to their
homes, unescaped). A block that is missing may be any stale block that carries neither the transaction's sequence nor the one after it (`Foreign`); the second theorem asks the same of the rest of the ring, where the walk looks for a next transaction.

Crash atomicity (`CrashAtomicity`: the specification implements `CrashStore`), `RetryAlwaysRepairs` and `SequencesAreFresh` rest on these. `CrashStore`'s variable is the *set* of homes a power loss now and an undisturbed
recovery could leave (`CrashStores`), computed by `recover` over every combination of durable and cached blocks. No invariant over that set is inductive by itself. `RInv` says instead which values each
block of the device may have in each phase (`DeviceHolds`, `PhaseTable`): which log blocks of the current transaction are already there, whether its superblock and commit block may be, which homes may be old, new or torn. `Stores`
is what recovery makes of each line of that table, one or two homes (`CrashStoresAre`, by the two theorems on `recover`). There is one lemma for each action (`...Keeps`), which keeps `RInv` and says which kind of step it is for the abstract store:
`Quiet` (nothing changes), `Offered` (the commit block is written: both outcomes), `Decided` (it is flushed, or a crash chooses), `Shown` (the commit returns), `Replaced`, `Leaving`, `Opening`; `StepRefines` maps each kind to a step or a stutter of `CrashStore`.
What keeps recovery from reading blocks of an earlier lap is that every stale block is *older* than the sequence in use, by less than the modulus.
Hence the two assumptions, besides those of the constants:

* `Orderly` (`~WarmRestarts /\ ~ResumeAfterFailedShutdown`): as for `RecoverDurableHolds`; section 5 shows what happens otherwise.
* `FewTransactions` (`2 * MaxTx < SeqMod`): a transaction uses up at most two sequence numbers, its own and the one recovery skips. Stale blocks stay in the ring over mounts, the code's numbers have 32 bits, and nothing clears the
  ring: after 2^32 numbers a forgotten block could carry the current one. The theorems hold for behaviours of fewer than 2^31 transactions, from an empty journal (`Init`). `journal_crash` satisfies it (`MaxTx` 2, `SeqMod` 8) and starts just below the wrap.

`InodeTableProofs`, for any threads, inodes, shards, inodes per block and size of the cache, and any mix of the operations: `OnlyRevertedUpdatesAreLostHolds` and `CacheCoherentHolds`.
The *owner* of an inode holds the shared guard and its lock, or the exclusive guard; there is one at most (`OneOwner`). The invariant does not follow each operation from line to line; it says that what a thread is still to do
is `Disciplined`: whatever it is going to write, it owns and has read, or will lock before it reads it and read before it writes it. That is shown once of each operation (`CallsAreSound`, with the lemmas on
`lock_inode_mutations`) and kept by every step (`Advance`). What an owner has read stays true of the table, unless the inode was put back (`Have`, `OthersKept`), and a cached value that is not the table's means that its owner is between two writes.

`OrphanReclaimProofs`, for any inodes and any number of operations, failed commits and crashes: `UnlinkedAreDiscoverable`, and `CapabilitiesAreForOneLifetime`
when the generation of a number cannot come round within the behaviour (`FewCreations`; the code compares a 32-bit generation, so 2^32 - 1 creations in one slot would defeat it). The images of the first mount have a chain
that can be walked and that holds every inode without a name (`ImageAssumption`; TLC evaluates it on the images of the run). `UnlinkedDiscoverable` is not inductive: the chain has to be a list without repetition that
the transactions can splice (`ChainOK`), its members must have no name while the mount is up (`Unnamed`), and a reclaim under way must still be about a member (`JobOK`).
`HandlesOK` relates a capability's generation to the number of lifetimes since, which is why a capability of an earlier one is refused.

`AllocatorProofs`, for any geometry of groups and any operations and failing writes: `UnitsAreOwnedOnce`, `CountsAreTrue`, and the action property `ENOSPCIsTrue`. The assumption is that the groups cover the
units and that a count fits its field (`AllocatorAssumption`). The properties speak of the time between operations; `Progress` says which of
bitmap, descriptor and superblock are the old and which the new images at each step of an operation and of its restore, and `OldAgrees` that
the images it started from agreed, outside the groups in `unrepaired` (`Agrees`); `ElsewhereAgrees` says that an operation that adds its group to them keeps all
others right. The counting is from the cardinality theorems.

`DirectRangeProofs`, for any files, blocks, ranges, errors and power losses: `BlocksAreOwnedOnce`, `DataIsTheFilesOwn`, `AbortsAreClean`. A power loss replaces what the device reads back by any images written since the last flush, so
`Survivors` says what the properties say of *every* such combination, as long as no release is loose; `RangeAt` and `ReleaseAt` say which homes hold staged
and which original images, in a commit as in a rollback.

`NamespaceProofs`, for any finite set of names, any number of inodes and any failed or stopped operations up to a failure that leaves a "name" (`Trusted`; the invariant is `Kept`, `Trusted => IInv`): `NamesLeadToLinkedInodes`, `CountsFollowNames` and `DirectoriesFormATree` (all of `TreeSound`). `EntriesLive` needs the link counts, as the code
decides by them whether a name is the last one; those need that a directory has one name and that its `..` is where that name is (`Sound`, while the mount takes mutations). That following `..` ends at the root is kept because
`check_ancestor_cycle` refuses to move a directory below itself; its bounded loop is shown to see all ancestors, by counting: a set that
still grows after k steps has more than k members. The same module proves the two action properties, `NamesAreKept` (`NamesKept`) and `OperationsAreExact` (`AllOrNothing`).
An operation is a row of writes, each of which may fail, and a failed one may be restored or not. `WritesFrom` compares every write of a row, and every state a failure of it can leave (`Outcomes`), with the names
the operation began with; there is one lemma for each row (`LinkFrom`, `MkdirFrom`, `RenameReplaceFrom`, ...), and `RowKeeps` turns what holds of the row into what holds of the step, whichever write fails. That a link count says which name is the last one
comes from `IInv`; that the last write of a create or link leaves at most a new name, and that the only name changed by another failure without poison is one whose removal is not final (`Spared`), is
part of `Outcomes`. `NamesAreKept` leaves `rename_exchange` out.

Model-checked only:

* liveness (`RecoveryCompletes`, `WriterReleased`, `AcquisitionDecides`, `EveryoneReturns`, `MountSucceeds`), which is out of the prover's reach;
* the properties of `JournalRecovery`, which compare `recover` with a declarative reading of *any* ring, with several transactions, revoke records, deleted tags and broken checksums; the theorems above are about one transaction
  among stale blocks, which is all that `commit_journal` leaves;
* `ExtentTree`, which computes by recursive functions over the tree, and `PackedBlocks`, whose blocks are searched and shifted record by record: each would need the kind of argument `JournalLogProofs` has for the walk;
* `BlocksAccounted`, `RefusedForCause` and `NamedFilesKept` of `OrphanReclaim`, which count the blocks of extent lists (a sum over sequences).

`TypeOK` of each module is stated for its proofs; the runs check properties that imply what matters of it.

## 7. Plan

Done: the journal, the gate, the inode cache, reclaim, the allocator, the Direct commits, extent trees, the namespace, the blocks of entries and attributes; theorems about all but
extent trees and packed blocks. Next, in this order:

1. `JournalRecovery`: `SequenceSkipsTail` and `ReplayMeansLog` for every ring, by the induction of `JournalLogProofs`.
2. `OrphanReclaim`: the part of `BlocksAccounted` that says no block is in two places.

Not modelled: byte layouts and checksum arithmetic; htree index blocks (recognised and skipped by the code) and the growth of a directory by a block; failing reads, except in
`OrphanReclaim`; an attribute name that is empty after its prefix, which the table would take for its end; `mknod`'s release of a device inode after a failed link; symbolic links; a
lock-free read that races the split of a node; the path API, which composes low-level calls without a lock around them; field accessors; the FUSE
adapter and the test program.
