------------------------------ MODULE Allocator ------------------------------
(***************************************************************************)
(* The direct allocator of blocks and inodes (alloc.rs).  An allocation or *)
(* a release writes the bitmap, the group descriptor and the superblock    *)
(* one after the other; when one of the last two writes fails, the old     *)
(* images are written back in the same order, which can fail as well.  The *)
(* alloc_lock makes it one operation at a time.                            *)
(*                                                                         *)
(* A write that fails may have reached the device (alloc.rs:545).  The     *)
(* bitmaps are those of the device, which every operation reads anew; the  *)
(* descriptors and the superblock are the cached ones, which the code goes *)
(* by and sets after a write that succeeded.  Units of both kinds count    *)
(* from 0.  A transaction is one step (CrashStore).                        *)
(***************************************************************************)
EXTENDS Integers, FiniteSets, FiniteSetsExt

CONSTANTS
    GroupCount,     \* block groups
    PerGroup,       \* per kind: units per group
    Total,          \* per kind: units in all; the last group may be shorter
    UsedAtFirst,    \* per kind: units allocated in the initial state
    Word,           \* where the unsigned counters wrap
    MaxProbes,      \* DIRECT_RANGE_MAX_GROUP_PROBES
    MaxRun,         \* bound: blocks of a direct range
    MaxOps,         \* bound: allocations
    MaxFaults       \* bound: writes that fail

Kinds == {"block", "inode"}
Groups == 0 .. (GroupCount - 1)
Units(k) == 0 .. (Total[k] - 1)

ASSUME AllocatorAssumption ==
    /\ {GroupCount, Word, MaxProbes} \subseteq Nat \ {0} /\ {MaxOps, MaxFaults, MaxRun} \subseteq Nat
    /\ {PerGroup, Total} \subseteq [Kinds -> Nat \ {0}] /\ UsedAtFirst \in [Kinds -> SUBSET Nat]
    /\ \A k \in Kinds :
        /\ Total[k] <= GroupCount * PerGroup[k] /\ Total[k] < Word
        /\ UsedAtFirst[k] \subseteq Units(k)

VARIABLES
    bitmap,         \* per kind: the units whose bit is set
    free,           \* per kind and group: the descriptor's free count
    super,          \* per kind: the superblock's free count
    unused,         \* per group: itable_unused
    dirs,           \* per group: used_dirs_count
    op,             \* the operation under way
    owned,          \* per kind: the units callers were given and have not given back
    directories,    \* inodes whose table entry has the mode of a directory
    initialized,    \* ghost: inode slots that were ever written
    full,           \* kinds for which the last allocation found no space
    poisoned,       \* Ext4.poisoned
    unrepaired,     \* ghost: kinds and groups whose bitmap was changed by a write that
                    \* failed, or where writing back a block's bitmap or counts failed
    ops, faults

counts == <<free, super, unused, dirs>>
callers == <<owned, directories, initialized>>
vars == <<bitmap, counts, op, callers, full, poisoned, unrepaired, ops, faults>>

NoOp == [pc |-> "idle"]

-----------------------------------------------------------------------------
(* Geometry *)

group(k, u) == u \div PerGroup[k]

block_group_first_block(k, g) == g * PerGroup[k]

\* The units of a group; inode_count_in_group and block_group_block_count.
InGroup(k, g) == {u \in Units(k) : group(k, u) = g}

index(k, u) == u - block_group_first_block(k, group(k, u))

Clear(k, g) == InGroup(k, g) \ bitmap[k]

\* The n-th group of a search that starts at the preferred one.
Probe(pref, n) == (pref + n) % GroupCount

-----------------------------------------------------------------------------
(* An operation is prepared in memory, with the old images, and then written *)

Old == [bitmap |-> bitmap, free |-> free, super |-> super, unused |-> unused, dirs |-> dirs]

\* init: the unit is written before its caller gets it; undo: this releases a unit
\* whose first write failed.
Prepared(k, u, alloc, dir, init, undo) ==
    [pc |-> "bitmap", kind |-> k, unit |-> u, alloc |-> alloc, dir |-> dir,
     init |-> init, undo |-> undo, old |-> Old]

\* The high-water mark: how many inodes at the end of the table were never used.
UnusedAfterAlloc(g, idx) ==
    LET n == Cardinality(InGroup("inode", g))
    IN  IF idx >= (n - unused[g]) % Word THEN n - (idx + 1) ELSE unused[g]

Init ==
    /\ bitmap = UsedAtFirst /\ owned = UsedAtFirst
    /\ free = [k \in Kinds |-> [g \in Groups |-> Cardinality(InGroup(k, g) \ UsedAtFirst[k])]]
    /\ super = [k \in Kinds |-> Cardinality(Units(k) \ UsedAtFirst[k])]
    /\ unused = [g \in Groups |->
                    Cardinality({u \in InGroup("inode", g) :
                        \A v \in InGroup("inode", g) : v >= u => v \notin UsedAtFirst["inode"]})]
    /\ dirs = [g \in Groups |-> 0]
    /\ op = NoOp /\ directories = {} /\ initialized = UsedAtFirst["inode"]
    /\ full = {} /\ poisoned = FALSE /\ unrepaired = {}
    /\ ops = 0 /\ faults = 0

Begin == op = NoOp /\ ~poisoned /\ ops < MaxOps /\ ops' = ops + 1

NoSpace(k) ==
    /\ full' = full \union {k}
    /\ UNCHANGED <<bitmap, counts, op, callers, poisoned, unrepaired, faults>>

Take(k, u, dir, init) ==
    /\ op' = Prepared(k, u, TRUE, dir, init, FALSE)
    /\ full' = full \ {k}
    /\ UNCHANGED <<bitmap, counts, callers, poisoned, unrepaired, faults>>

\* Fault variant: the bit is taken for the block, without the group's first block.
AllocWithoutGroupBase ==
    /\ Begin
    /\ \E pref \in Groups, init \in BOOLEAN :
        IF free["block"][pref] # 0 /\ Clear("block", pref) # {}
        THEN Take("block", index("block", Min(Clear("block", pref))), FALSE, init)
        ELSE NoSpace("block")

\* Fault variant: only the preferred group is tried.
AllocPreferredOnly ==
    /\ Begin
    /\ \E pref \in Groups, init \in BOOLEAN :
        IF free["block"][pref] # 0 /\ Clear("block", pref) # {}
        THEN Take("block", Min(Clear("block", pref)), FALSE, init)
        ELSE NoSpace("block")

\* The first clear bit of the first group, from the preferred one on, whose count
\* and bitmap offer one.
alloc_block ==
    /\ Begin
    /\ \E pref \in Groups, init \in BOOLEAN :
        LET offers == {n \in Groups : LET g == Probe(pref, n)
                                      IN  free["block"][g] # 0 /\ Clear("block", g) # {}}
        IN  IF offers = {} THEN NoSpace("block")
            ELSE Take("block", Min(Clear("block", Probe(pref, Min(offers)))), FALSE, init)

\* The first group with a free count decides; its bitmap must agree.
alloc_inode ==
    /\ Begin
    /\ \E dir \in BOOLEAN :
        LET offers == {g \in Groups : free["inode"][g] # 0}
        IN  IF offers = {} \/ Clear("inode", Min(offers)) = {} THEN NoSpace("inode")
            ELSE Take("inode", Min(Clear("inode", Min(offers))), dir, TRUE)

\* A caller gives a unit back: dealloc_block, or dealloc_inode of a new inode that
\* could not be named.
dealloc ==
    /\ op = NoOp /\ ~poisoned
    /\ \E k \in Kinds : \E u \in owned[k] :
        /\ k = "inode" => u \notin UsedAtFirst[k]
        /\ op' = Prepared(k, u, FALSE, k = "inode" /\ u \in directories, FALSE, FALSE)
        /\ owned' = [owned EXCEPT ![k] = @ \ {u}]
    /\ UNCHANGED <<bitmap, counts, directories, initialized, full, poisoned, unrepaired, ops, faults>>

\* The reclaim transactions: bitmap and counts change together, itable_unused not.
transaction_dealloc ==
    /\ op = NoOp /\ ~poisoned
    /\ \E k \in Kinds : \E u \in owned[k] \intersect bitmap[k] :
        LET g == group(k, u)
        IN  /\ free[k][g] < Cardinality(InGroup(k, g)) /\ super[k] < Total[k]
            /\ bitmap' = [bitmap EXCEPT ![k] = @ \ {u}]
            /\ free' = [free EXCEPT ![k][g] = @ + 1]
            /\ super' = [super EXCEPT ![k] = @ + 1]
            /\ dirs' = IF k = "inode" /\ u \in directories THEN [dirs EXCEPT ![g] = @ - 1] ELSE dirs
            /\ owned' = [owned EXCEPT ![k] = @ \ {u}]
            /\ directories' = IF k = "inode" THEN directories \ {u} ELSE directories
    /\ UNCHANGED <<unused, op, initialized, full, poisoned, unrepaired, ops, faults>>

\* The clear runs of n blocks in a group, by their first block.
Runs(g, n) == {u \in InGroup("block", g) : (u .. (u + n - 1)) \subseteq Clear("block", g)}

\* The hint if it is clear and in the first group probed, else the first clear run.
transaction_alloc_direct_range ==
    /\ Begin
    /\ \E n \in 1 .. MaxRun, hint \in Units("block"), required \in BOOLEAN :
        LET pref   == group("block", hint)
            exact  == hint \in Runs(pref, n)
            fits(g) == free["block"][g] >= n
            offers == {i \in 0 .. (Min({GroupCount, MaxProbes}) - 1) :
                        /\ fits(Probe(pref, i))
                        /\ \/ i = 0 /\ exact
                           \/ ~required /\ Runs(Probe(pref, i), n) # {}}
            g      == Probe(pref, Min(offers))
            first  == IF Min(offers) = 0 /\ exact THEN hint ELSE Min(Runs(g, n))
            range  == first .. (first + n - 1)
        IN  /\ offers # {} /\ super["block"] >= n
            /\ bitmap' = [bitmap EXCEPT !["block"] = @ \union range]
            /\ owned' = [owned EXCEPT !["block"] = @ \union range]
            /\ free' = [free EXCEPT !["block"][g] = @ - n]
            /\ super' = [super EXCEPT !["block"] = @ - n]
    /\ UNCHANGED <<unused, dirs, op, directories, initialized, full, poisoned, unrepaired, faults>>

-----------------------------------------------------------------------------
(* The writes *)

Fails == faults < MaxFaults /\ faults' = faults + 1

Goto(pc) == op' = [op EXCEPT !.pc = pc]

\* Its error ends the operation; a failed undo poisons the mount.
EndsInError ==
    /\ op' = NoOp
    /\ poisoned' = (poisoned \/ op.undo)

Toggled == [bitmap EXCEPT ![op.kind] = IF op.alloc THEN @ \union {op.unit} ELSE @ \ {op.unit}]

Unrepaired == unrepaired' = unrepaired \union {<<op.kind, group(op.kind, op.unit)>>}

write_bitmap ==
    /\ op.pc = "bitmap"
    /\ bitmap' = Toggled
    /\ Goto("group")
    /\ UNCHANGED <<counts, callers, full, poisoned, unrepaired, ops, faults>>

\* The error is returned as it is, whether the bitmap reached the device or not.
write_bitmap_fails ==
    /\ op.pc = "bitmap" /\ Fails /\ EndsInError
    /\ \/ UNCHANGED <<bitmap, unrepaired>>
       \/ bitmap' = Toggled /\ Unrepaired
    /\ UNCHANGED <<counts, callers, full, ops>>

Delta == IF op.alloc THEN -1 ELSE 1

\* Fault variant: the directory count is not taken down.
GroupForgetsDirectory ==
    LET g == group(op.kind, op.unit)
    IN  /\ op.pc = "group"
        /\ free' = [free EXCEPT ![op.kind][g] = @ + Delta]
        /\ Goto("super")
        /\ UNCHANGED <<bitmap, super, dirs, unused, callers, full, poisoned, unrepaired, ops, faults>>

write_block_group ==
    LET g == group(op.kind, op.unit)
    IN  /\ op.pc = "group"
        /\ free' = [free EXCEPT ![op.kind][g] = @ + Delta]
        /\ dirs' = IF op.dir THEN [dirs EXCEPT ![g] = @ - Delta] ELSE dirs
        /\ unused' = IF op.kind = "block" THEN unused
                     ELSE [unused EXCEPT ![g] = IF op.alloc
                                                THEN UnusedAfterAlloc(g, index("inode", op.unit))
                                                ELSE @ + 1]
        /\ Goto("super")
        /\ UNCHANGED <<bitmap, super, callers, full, poisoned, unrepaired, ops, faults>>

write_block_group_fails ==
    /\ op.pc = "group" /\ Fails /\ Goto("restore_bitmap")
    /\ UNCHANGED <<bitmap, counts, callers, full, poisoned, unrepaired, ops>>

\* A new unit now belongs to the caller.
Hand == owned' = [owned EXCEPT ![op.kind] = IF op.alloc THEN @ \union {op.unit} ELSE @]

\* The table entry of a new inode has its mode, that of a released one is cleared.
Inscribe ==
    /\ directories' = IF op.alloc /\ op.dir THEN directories \union {op.unit}
                      ELSE IF op.kind = "inode" THEN directories \ {op.unit} ELSE directories
    /\ initialized' = IF op.kind = "inode" THEN initialized \union {op.unit} ELSE initialized

write_super_block ==
    /\ op.pc = "super"
    /\ super' = [super EXCEPT ![op.kind] = (@ + Delta) % Word]
    /\ IF op.init \/ (op.kind = "inode" /\ ~op.alloc)
       THEN Goto("init") /\ UNCHANGED callers
       ELSE op' = NoOp /\ Hand /\ UNCHANGED <<directories, initialized>>
    /\ UNCHANGED <<bitmap, free, unused, dirs, full, poisoned, unrepaired, ops, faults>>

write_super_block_fails ==
    /\ op.pc = "super" /\ Fails /\ Goto("restore_bitmap")
    /\ UNCHANGED <<bitmap, counts, callers, full, poisoned, unrepaired, ops>>

\* The first write of the unit: a zeroed data block, a fresh inode, or the cleared
\* inode of a release.
initialize ==
    /\ op.pc = "init"
    /\ op' = NoOp
    /\ Hand /\ Inscribe
    /\ UNCHANGED <<bitmap, counts, full, poisoned, unrepaired, ops, faults>>

\* alloc_initialized_data_block and rollback_new_inode release the unit again.
initialize_fails ==
    /\ op.pc = "init" /\ Fails
    /\ IF op.alloc
       THEN op' = Prepared(op.kind, op.unit, FALSE, op.dir, FALSE, TRUE) /\ UNCHANGED poisoned
       ELSE EndsInError
    /\ Inscribe \/ UNCHANGED <<directories, initialized>>
    /\ UNCHANGED <<bitmap, counts, owned, full, unrepaired, ops>>

-----------------------------------------------------------------------------
(* restore_block_allocation_state and restore_inode_allocation_state *)

restore_bitmap ==
    /\ op.pc = "restore_bitmap"
    /\ bitmap' = op.old.bitmap
    /\ Goto("restore_group")
    /\ UNCHANGED <<counts, callers, full, poisoned, unrepaired, ops, faults>>

\* Fault variant: the descriptor is not written back.
RestoreGroupSkipped ==
    /\ op.pc = "restore_group"
    /\ Goto("restore_super")
    /\ UNCHANGED <<bitmap, counts, callers, full, poisoned, unrepaired, ops, faults>>

restore_group ==
    /\ op.pc = "restore_group"
    /\ free' = op.old.free /\ unused' = op.old.unused /\ dirs' = op.old.dirs
    /\ Goto("restore_super")
    /\ UNCHANGED <<bitmap, super, callers, full, poisoned, unrepaired, ops, faults>>

restore_super ==
    /\ op.pc = "restore_super"
    /\ super' = op.old.super
    /\ EndsInError
    /\ UNCHANGED <<bitmap, free, unused, dirs, callers, full, unrepaired, ops, faults>>

\* For an inode this poisons the mount; for a block the error is only returned.
restore_fails ==
    /\ op.pc \in {"restore_bitmap", "restore_group", "restore_super"} /\ Fails
    /\ bitmap' \in {bitmap, IF op.pc = "restore_bitmap" THEN op.old.bitmap ELSE bitmap}
    /\ op' = NoOp
    /\ poisoned' = (poisoned \/ op.undo \/ op.kind = "inode")
    /\ IF op.kind = "block" THEN Unrepaired ELSE UNCHANGED unrepaired
    /\ UNCHANGED <<counts, callers, full, ops>>

begins == alloc_block \/ alloc_inode \/ dealloc \/ transaction_dealloc \/ transaction_alloc_direct_range
writes == write_bitmap \/ write_block_group \/ write_super_block \/ initialize
fails == write_bitmap_fails \/ write_block_group_fails \/ write_super_block_fails \/ initialize_fails
restores == restore_bitmap \/ restore_group \/ restore_super \/ restore_fails

Next == begins \/ writes \/ fails \/ restores

Spec == Init /\ [][Next]_vars

-----------------------------------------------------------------------------
(* Properties *)

\* The values of the variables.
TypeOK ==
    /\ \A k \in Kinds : bitmap[k] \subseteq Units(k) /\ owned[k] \subseteq Units(k)
    /\ \A k \in Kinds, g \in Groups : free[k][g] \in 0 .. Cardinality(InGroup(k, g))
    /\ directories \subseteq Units("inode") /\ initialized \subseteq Units("inode")
    /\ full \subseteq Kinds /\ poisoned \in BOOLEAN /\ unrepaired \subseteq Kinds \X Groups

\* Whatever writes and restores fail, a unit a caller holds keeps its bit, so that
\* no later allocation hands it out again; an allocation under way is of a unit
\* nobody holds, and none is of a unit beyond the end of the last, shorter group
\* (alloc_block, alloc_inode and their rollbacks).
NoDoubleAllocation ==
    /\ \A k \in Kinds : owned[k] \subseteq bitmap[k] /\ bitmap[k] \subseteq Units(k)
    /\ op # NoOp => op.unit \notin owned[op.kind]

CountsMatch(k, g) == free[k][g] = Cardinality(Clear(k, g))

Directories(g) == directories \intersect (InGroup("inode", g) \ Clear("inode", g))

\* Between operations, after any failed writes and restores, the mount is poisoned or
\* the free counts of a group say what its bitmap says, used_dirs_count counts its
\* allocated directories, and the superblock has the total.  Excepted are the groups
\* where a bitmap write failed and yet reached the device, which is returned as an
\* error like any other (alloc.rs:936, 1045, 1112, 1196), and those where a block's
\* restore failed (alloc.rs:943-963): of these the code tells nobody, and no later
\* operation makes any other group's counts wrong.
Accounting ==
    op = NoOp /\ ~poisoned =>
        /\ \A k \in Kinds, g \in Groups : <<k, g>> \notin unrepaired => CountsMatch(k, g)
        /\ \A g \in Groups : <<"inode", g>> \notin unrepaired => dirs[g] = Cardinality(Directories(g))
        /\ \A k \in Kinds :
            (\A g \in Groups : <<k, g>> \notin unrepaired)
                => super[k] = Cardinality(Units(k) \ bitmap[k])

\* ENOSPC is the truth: when an allocation gives up, no group has a clear bit, unless
\* the counts and the bitmap of a group were left apart as in Accounting.
NoSpuriousENOSPC ==
    [][\A k \in full' \ full :
        ~poisoned /\ (\A g \in Groups : <<k, g>> \notin unrepaired) => bitmap[k] = Units(k)]_vars

\* What lies beyond the high-water mark of the inode table was never used:
\* "`itable_unused` describes the never-initialized tail of the inode table, not
\* reusable inode slots, so freeing an inode must leave it unchanged" (alloc.rs:317).
UnusedTailIsUnused ==
    op = NoOp =>
        \A u \in initialized :
            index("inode", u) < Cardinality(InGroup("inode", group("inode", u))) - unused[group("inode", u)]

=============================================================================
