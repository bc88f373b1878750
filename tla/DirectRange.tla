----------------------------- MODULE DirectRange -----------------------------
(***************************************************************************)
(* The two commits of the Direct transaction core                          *)
(* (ext4/journal_transaction.rs) on a mount without a journal:             *)
(* commit_direct_range, which gives a file a run of new blocks, with its   *)
(* rollback, and commit_direct, by which reclaim takes blocks back; with   *)
(* try_prepare_direct_range, which drives the first (ext4/low_level.rs).   *)
(*                                                                         *)
(* The device has a volatile cache: a write is certain to survive a power  *)
(* loss only after a flush, and until then any image written since the     *)
(* last one may be what is found.  A failed write may have reached the     *)
(* device.  One block group, whose bitmap, descriptor and superblock are   *)
(* the homes an allocation writes; each file's inode is in a home of its   *)
(* own.  The gate makes transactions exclude each other.                   *)
(***************************************************************************)
EXTENDS Integers, Sequences, FiniteSets, SequencesExt

CONSTANTS
    Files,          \* names of the inode homes
    BlockCount,     \* data blocks 1 .. BlockCount
    RunLengths,     \* lengths of the ranges that are prepared
    MaxOps,         \* bound: transactions
    MaxFaults,      \* bound: writes and flushes that fail
    MaxLosses       \* bound: power losses

Blocks == 1 .. BlockCount
AllocationHomes == <<"bitmap", "gdt", "sb">>
Homes == ToSet(AllocationHomes) \cup Files

ASSUME DirectRangeAssumption ==
    /\ {BlockCount, MaxOps, MaxFaults, MaxLosses} \subseteq Nat
    /\ RunLengths \subseteq Nat \ {0}
    /\ Files \cap ToSet(AllocationHomes) = {}

VARIABLES
    home,       \* each home as the device reads it back
    homes,      \* the images of each home that may survive a power loss
    data,       \* each data block: what it holds (a file's data, zeros, garbage)
    datas,      \* the images of each data block that may survive
    cache,      \* the published images: superblock, descriptor, inodes
    tx,         \* the transaction of the single writer
    poisoned,   \* the core's mark, and the file system's
    loose,      \* ghost: blocks whose release no flush has made durable
    torn,       \* ghost: a release was cut by a failure or a power loss
    ops, faults, losses

device == <<home, homes, data, datas>>
vars == <<device, cache, tx, poisoned, loose, torn, ops, faults, losses>>

Zero == "zero"
Garbage == "garbage"
Idle == [pc |-> "idle"]

Fault == faults < MaxFaults /\ faults' = faults + 1
NoFault == faults' = faults

-----------------------------------------------------------------------------
(* The device. *)

\* write_bytes of image x to home h.
write_bytes(h, x) ==
    /\ home' = [home EXCEPT ![h] = x]
    /\ homes' = [homes EXCEPT ![h] = @ \cup {x}]
    /\ UNCHANGED <<data, datas>>

\* A write that fails may have reached the device.
FailedWrite(h, x) == Fault /\ (write_bytes(h, x) \/ UNCHANGED device)

WriteData(B, x) ==
    /\ data' = [b \in Blocks |-> IF b \in B THEN x ELSE data[b]]
    /\ datas' = [b \in Blocks |-> IF b \in B THEN datas[b] \cup {x} ELSE datas[b]]
    /\ UNCHANGED <<home, homes>>

flush ==
    /\ homes' = [h \in Homes |-> {home[h]}]
    /\ datas' = [b \in Blocks |-> {data[b]}]
    /\ loose' = {}
    /\ UNCHANGED <<home, data>>

-----------------------------------------------------------------------------
(* Preparing a range. *)

Free == Blocks \ home["bitmap"]

\* The group is skipped, and the subtraction refused, when the counts do not cover n.
enough_free(n) == home["gdt"] >= n /\ home["sb"] >= n

\* try_prepare_direct_range up to the staged images: a clear run is reserved in them and
\* nothing is written.  The inode's image comes from the cache, the others from the device.
Begin(f, run) ==
    /\ tx = Idle /\ ~poisoned /\ ~torn
    /\ ops < MaxOps /\ ops' = ops + 1
    /\ run \subseteq Free
    /\ enough_free(Cardinality(run))
    /\ tx' = [pc |-> "zero", file |-> f, run |-> run, k |-> 1,
              order |-> AllocationHomes,
              original |-> home,
              staged |-> [home EXCEPT !["bitmap"] = @ \cup run,
                                      !["gdt"] = @ - Cardinality(run),
                                      !["sb"] = @ - Cardinality(run),
                                      ![f] = cache[f] \cup run]]
    /\ UNCHANGED <<device, cache, poisoned, loose, torn, faults, losses>>

Prepare == \E f \in Files, n \in RunLengths, b \in Blocks :
    b + n - 1 \in Blocks /\ Begin(f, b .. b + n - 1)

\* The writer slot is given back; poison says whether the core failed for good.
fail(poison) == tx' = Idle /\ poisoned' = poison /\ UNCHANGED <<cache, torn, ops, losses>>

Continue(pc, k) ==
    /\ tx' = [tx EXCEPT !.pc = pc, !.k = k]
    /\ UNCHANGED <<cache, poisoned, torn, ops, losses>>

\* Fault variant: the blocks are not written before they are mapped.
initialize_nothing == tx.pc = "zero" /\ UNCHANGED <<device, loose>> /\ NoFault /\ Continue("homes", 1)

\* initialize_direct_range: zeros, then a flush; a failure aborts the transaction.
initialize_direct_range ==
    \/ /\ tx.pc = "zero"
       /\ \/ WriteData(tx.run, Zero) /\ NoFault /\ Continue("zeroflush", 1)
          \/ Fault /\ \E B \in SUBSET tx.run : WriteData(B, Zero) /\ fail(FALSE)
       /\ UNCHANGED loose
    \/ /\ tx.pc = "zeroflush"
       /\ \/ flush /\ NoFault /\ Continue("homes", 1)
          \/ Fault /\ UNCHANGED <<device, loose>> /\ fail(FALSE)

-----------------------------------------------------------------------------
(* commit_direct_range and its rollback. *)

\* Fault variant: the home whose write failed is not rolled back.
rollback_completed(k) == k - 1

\* How many homes a failed write of the k-th one rolls back: itself too.
rollback_from(k) == k

WriteHome ==
    /\ tx.pc = "homes"
    /\ LET h == tx.order[tx.k] IN
       \/ /\ write_bytes(h, tx.staged[h]) /\ NoFault
          /\ IF tx.k < Len(tx.order) THEN Continue("homes", tx.k + 1) ELSE Continue("flush", 1)
       \/ FailedWrite(h, tx.staged[h]) /\ Continue("rollback", rollback_from(tx.k))
    /\ UNCHANGED loose

\* Fault variant: the inode is written without waiting for the allocation homes.
FlushHomesSkipped ==
    tx.pc = "flush" /\ UNCHANGED <<device, loose>> /\ NoFault /\ Continue("inode", 1)

FlushHomes ==
    /\ tx.pc = "flush"
    /\ \/ flush /\ NoFault /\ Continue("inode", 1)
       \/ Fault /\ UNCHANGED <<device, loose>> /\ Continue("rollback", Len(tx.order))

\* publish after the last write; a failure there leaves the commit uncertain.
WriteInode ==
    /\ tx.pc = "inode"
    /\ \/ /\ write_bytes(tx.file, tx.staged[tx.file]) /\ NoFault
          /\ cache' = [h \in DOMAIN cache |-> tx.staged[h]]
          /\ tx' = Idle
          /\ UNCHANGED <<poisoned, torn, ops, losses>>
       \/ FailedWrite(tx.file, tx.staged[tx.file]) /\ fail(TRUE)
    /\ UNCHANGED loose

\* rollback_direct_range: the original images in reverse order, then a flush.
Rollback ==
    \/ /\ tx.pc = "rollback" /\ tx.k > 0
       /\ LET h == tx.order[tx.k] IN
          \/ write_bytes(h, tx.original[h]) /\ NoFault /\ Continue("rollback", tx.k - 1)
          \/ FailedWrite(h, tx.original[h]) /\ fail(TRUE)
       /\ UNCHANGED loose
    \/ /\ tx.pc = "rollback" /\ tx.k = 0
       /\ \/ flush /\ NoFault /\ fail(FALSE)
          \/ Fault /\ UNCHANGED <<device, loose>> /\ fail(TRUE)

-----------------------------------------------------------------------------
(* commit_direct, the file's data, and power. *)

\* Reclaim of all blocks of an unlinked file, staged and committed in block order.
Release == \E f \in Files :
    /\ tx = Idle /\ ~poisoned /\ ~torn
    /\ cache[f] # {}
    /\ tx' = [pc |-> "direct", file |-> f, run |-> cache[f], k |-> 1,
              order |-> <<"sb", "gdt", "bitmap", f>>,
              original |-> home,
              staged |-> [home EXCEPT !["bitmap"] = @ \ cache[f],
                                      !["gdt"] = @ + Cardinality(cache[f]),
                                      !["sb"] = @ + Cardinality(cache[f]),
                                      ![f] = {}]]
    /\ loose' = loose \cup cache[f]
    /\ UNCHANGED <<device, cache, poisoned, torn, ops, faults, losses>>

commit_direct ==
    /\ tx.pc = "direct"
    /\ LET h == tx.order[tx.k] IN
       \/ /\ write_bytes(h, tx.staged[h]) /\ NoFault
          /\ \/ tx.k < Len(tx.order) /\ Continue("direct", tx.k + 1)
             \/ /\ tx.k = Len(tx.order)
                /\ cache' = [g \in DOMAIN cache |-> tx.staged[g]] /\ tx' = Idle
                /\ UNCHANGED <<poisoned, torn, ops, losses>>
       \/ /\ FailedWrite(h, tx.staged[h])
          /\ tx' = Idle /\ poisoned' = TRUE /\ torn' = TRUE
          /\ UNCHANGED <<cache, ops, losses>>
    /\ UNCHANGED loose

\* A file's data goes into its blocks.
Fill == \E f \in Files :
    /\ tx = Idle /\ ~torn
    /\ \E b \in cache[f] : data[b] # f /\ WriteData({b}, f)
    /\ UNCHANGED <<cache, tx, poisoned, loose, torn, ops, faults, losses>>

\* Power is lost, any image not flushed over survives, and the next mount reads the caches
\* from it.  A release that was not durable may be half there: nothing is said after that.
PowerLoss ==
    /\ losses < MaxLosses /\ losses' = losses + 1
    /\ ~torn
    /\ \E b \in homes["bitmap"], g \in homes["gdt"], s \in homes["sb"] :
       \E i \in [Files -> UNION {homes[f] : f \in Files}] :
           /\ \A f \in Files : i[f] \in homes[f]
           /\ home' = [h \in Homes |-> IF h \in Files THEN i[h]
                                       ELSE IF h = "bitmap" THEN b ELSE IF h = "gdt" THEN g ELSE s]
    /\ data' \in [Blocks -> {Zero, Garbage} \cup Files]
    /\ \A b \in Blocks : data'[b] \in datas[b]
    /\ homes' = [h \in Homes |-> {home'[h]}]
    /\ datas' = [b \in Blocks |-> {data'[b]}]
    /\ cache' = [h \in DOMAIN cache |-> home'[h]]
    /\ tx' = Idle /\ poisoned' = FALSE
    /\ torn' = (loose # {})
    /\ loose' = {}
    /\ UNCHANGED <<ops, faults>>

Init ==
    /\ home = [h \in Homes |-> IF h \in {"gdt", "sb"} THEN BlockCount ELSE {}]
    /\ homes = [h \in Homes |-> {home[h]}]
    /\ data = [b \in Blocks |-> Garbage]
    /\ datas = [b \in Blocks |-> {data[b]}]
    /\ cache = [h \in Homes \ {"bitmap"} |-> home[h]]
    /\ tx = Idle
    /\ poisoned = FALSE /\ loose = {} /\ torn = FALSE
    /\ ops = 0 /\ faults = 0 /\ losses = 0

\* Nothing is left to explore.
Ended == tx = Idle /\ UNCHANGED vars

Next ==
    \/ Prepare \/ initialize_direct_range \/ WriteHome \/ FlushHomes \/ WriteInode \/ Rollback
    \/ Release \/ commit_direct \/ Fill \/ PowerLoss \/ Ended

Spec == Init /\ [][Next]_vars

-----------------------------------------------------------------------------
(* Properties. *)

\* The shape of the state: no count leaves its range.
TypeOK ==
    /\ \A f \in Files : home[f] \subseteq Blocks
    /\ home["bitmap"] \subseteq Blocks
    /\ {home["gdt"], home["sb"]} \subseteq 0 .. BlockCount
    /\ \A h \in Homes : home[h] \in homes[h]
    /\ data \in [Blocks -> {Zero, Garbage} \cup Files]
    /\ loose \subseteq Blocks
    /\ poisoned \in BOOLEAN /\ torn \in BOOLEAN

\* A block that a file's inode maps is taken in the bitmap and mapped by no other file, at
\* every moment and after a power loss at any moment, however a range's commit or its
\* rollback failed before: "The inode must never become durable before the allocation
\* metadata that owns its blocks."  (Blocks of a release that is under way excepted.)
OwnedOnce ==
    ~torn =>
        /\ \A f \in Files : home[f] \ loose \subseteq home["bitmap"]
        /\ \A f, g \in Files : f # g => home[f] \cap home[g] = {}

\* A block a file maps holds zeros or the file's own data, never what a file that owned it
\* before wrote or what the device was made with, after a power loss too.
NoStaleData ==
    ~torn => \A f \in Files : \A b \in home[f] \ loose : data[b] \in {Zero, f}

\* A transaction that fails without poisoning the mount has left every home as it was, so
\* the caches, which it did not touch, still describe the device and counts and bitmap
\* still agree.
AbortIsClean ==
    tx = Idle /\ ~poisoned =>
        /\ \A h \in DOMAIN cache : cache[h] = home[h]
        /\ losses = 0 => home["gdt"] = Cardinality(Free) /\ home["sb"] = Cardinality(Free)

=============================================================================
