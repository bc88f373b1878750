----------------------------- MODULE ExtentTree -----------------------------
(***************************************************************************)
(* The extent tree of one file (ext4/extent.rs, ext4_defs/extent.rs) under *)
(* the operations that grow and trim it: write, write_data_only,           *)
(* prepare_buffered_write with its contiguous range, inode_append_block,   *)
(* and the tail removal of reclaim.                                        *)
(*                                                                         *)
(* The root is in the inode, other nodes are blocks.  An operation works   *)
(* on a private copy of the inode and writes nodes, bitmaps and the inode  *)
(* one after the other, so it is modelled by the sequence of devices these *)
(* writes produce (its log): a write that fails leaves one of them, and an *)
(* allocation without a free block stops the operation where it is.  The   *)
(* inode's lock makes operations on one file exclude each other.           *)
(*                                                                         *)
(* Sizes count blocks and one block group is enough.  No extent is         *)
(* unwritten: this implementation never creates one.  A block of data      *)
(* holds Zero, a token of the file block it was written for, or Stale.     *)
(***************************************************************************)
EXTENDS Integers, Sequences, FiniteSets, SequencesExt, FiniteSetsExt

CONSTANTS
    MaxLblock,      \* bound: the file has blocks 0 .. MaxLblock
    BlockCount,     \* the device has blocks 1 .. BlockCount
    RootCap,        \* entries of the root in the inode (4)
    NodeCap,        \* entries of a node in a block (340)
    InitMaxLen,     \* Extent::INIT_MAX_LEN (32768)
    MaxRange,       \* bound: blocks of one request
    Sizes,          \* sizes a caller commits
    DirectMin,      \* DIRECT_RANGE_MIN_BLOCKS (16)
    DirectRanges,   \* whether the mount stages direct ranges
    MaxOps,         \* bound: operations in all
    MaxFaults       \* bound: writes that fail

LBlocks == 0 .. MaxLblock
Blocks == 1 .. BlockCount
MaxExtentDepth == 5

ASSUME ExtentAssumption ==
    /\ {MaxLblock, MaxOps, MaxFaults} \subseteq Nat
    /\ {BlockCount, InitMaxLen, MaxRange, DirectMin} \subseteq Nat \ {0}
    /\ RootCap \in Nat \ {0, 1} /\ NodeCap \in Nat /\ NodeCap >= RootCap
    /\ DirectRanges \in BOOLEAN
    /\ Sizes \subseteq 0 .. MaxLblock + 1

VARIABLES
    disk,           \* [ino, block, used, harm]: the device, see Node and Inode below
    content,        \* what a read of each file block gives: always read_blocks(disk)
    counted,        \* ghost: i_blocks was brought up to date after the last allocation
    request,        \* ghost: the last operation, as FileContent has it
    ops, faults

vars == <<disk, content, counted, request, ops, faults>>

Zero == 0
Stale == -1
Token(l) == l + 1

\* What a block holds; magic tells a node from data.
DataImage(v) == [magic |-> FALSE, depth |-> 0, entries |-> <<>>, data |-> v]
Node(depth, entries) == [magic |-> TRUE, depth |-> depth, entries |-> entries, data |-> Stale]

Extent(lblock, pblock, count) == [first |-> lblock, start |-> pblock, len |-> count]
ExtentIndex(lblock, pblock) == [first |-> lblock, leaf |-> pblock]

\* i_blocks is kept in blocks; size is rounded up to blocks.
Inode(root, blocks, size) == [root |-> root, blocks |-> blocks, size |-> size]

-----------------------------------------------------------------------------
(* One node. *)

\* Fault variant: an extent is appended whatever block it starts at.
can_append_anywhere(ex1, ex2) ==
    /\ ex1.first + ex1.len = ex2.first
    /\ ex1.len + ex2.len <= InitMaxLen

can_append(ex1, ex2) ==
    /\ ex1.start + ex1.len = ex2.start
    /\ ex1.first + ex1.len = ex2.first
    /\ ex1.len + ex2.len <= InitMaxLen

covers(ex, l) == ex.first <= l /\ l < ex.first + ex.len

\* Fault variant: the search stops at an entry that starts at l.
entries_before(node, l) == Cardinality({i \in DOMAIN node.entries : node.entries[i].first < l})

\* How many entries start at or before l: for an index the child to descend to, for a
\* leaf the place after which a new extent goes.
entries_upto(node, l) == Cardinality({i \in DOMAIN node.entries : node.entries[i].first <= l})

search_extent(node, l) ==
    LET i == entries_upto(node, l)
    IN  [found |-> i > 0 /\ covers(node.entries[i], l), pos |-> i]

validate_extent_node(node, cap) ==
    LET e == node.entries
    IN  /\ node.magic
        /\ node.depth <= MaxExtentDepth
        /\ Len(e) <= cap
        /\ node.depth > 0 =>
               e # <<>> /\ \A i \in 1 .. Len(e) - 1 : e[i].first < e[i + 1].first
        /\ node.depth = 0 =>
               /\ \A i \in DOMAIN e : e[i].len > 0
               /\ \A i \in 1 .. Len(e) - 1 : e[i].first + e[i].len <= e[i + 1].first

\* insert_extent and insert_extent_index: the entry becomes the pos-th; a full node keeps
\* two thirds and hands back the rest.
insert_entry(node, pos, entry, cap) ==
    LET all  == InsertAt(node.entries, pos, entry)
        mid  == (Len(node.entries) * 2) \div 3
        left == IF pos <= mid THEN mid + 1 ELSE mid
    IN  IF Len(node.entries) < cap
        THEN [node |-> [node EXCEPT !.entries = all], split |-> <<>>]
        ELSE [node |-> [node EXCEPT !.entries = SubSeq(all, 1, left)],
              split |-> SubSeq(all, left + 1, Len(all))]

-----------------------------------------------------------------------------
(* One tree t: an inode and the blocks it leads to.  A node is named by its  *)
(* block, the root by 0.                                                     *)

Eio == -1

node_at(t, b) == IF b = 0 THEN t.ino.root ELSE t.block[b]

cap_at(b) == IF b = 0 THEN RootCap ELSE NodeCap

\* The nodes from the root to the leaf for l, or Eio from where the search failed.
find_extent(t, l) ==
    LET path[k \in 0 .. t.ino.root.depth] ==
            IF k = 0 THEN 0
            ELSE LET up   == path[k - 1]
                     node == node_at(t, up)
                     i    == entries_upto(node, l)
                 IN  IF up = Eio \/ i = 0 THEN Eio
                     ELSE LET b == node.entries[i].leaf
                          IN  IF validate_extent_node(t.block[b], NodeCap) THEN b ELSE Eio
    IN  path

leaf_of(t, l) == find_extent(t, l)[t.ino.root.depth]

\* The block that holds l, 0 for a hole (ENOENT), Eio for an error.
extent_query(t, l) ==
    LET b == leaf_of(t, l)
        s == search_extent(node_at(t, b), l)
    IN  IF b = Eio THEN Eio
        ELSE IF s.found
             THEN node_at(t, b).entries[s.pos].start + l - node_at(t, b).entries[s.pos].first
             ELSE 0

\* read_extent_or_hole for every block: a hole reads as zeros.
read_blocks(t) ==
    [l \in LBlocks |-> LET q == extent_query(t, l)
                       IN  IF q <= 0 THEN Zero ELSE t.block[q].data]

\* The nodes at each level, and what the leaves hold.
level(t) ==
    LET f[k \in 0 .. t.ino.root.depth] ==
            IF k = 0 THEN {0}
            ELSE UNION {{e.leaf : e \in ToSet(node_at(t, b).entries)} : b \in f[k - 1]}
    IN  f

extent_all_tree_blocks(t) == UNION {level(t)[k] : k \in 1 .. t.ino.root.depth}

extents(t) == UNION {ToSet(node_at(t, b).entries) : b \in level(t)[t.ino.root.depth]}

extent_all_data_blocks(t) == UNION {ex.start .. ex.start + ex.len - 1 : ex \in extents(t)}

extent_next_data_lblock(t) == Max({0} \cup {ex.first + ex.len : ex \in extents(t)})

owned(t) == extent_all_tree_blocks(t) \cup extent_all_data_blocks(t)

-----------------------------------------------------------------------------
(* An operation x: its copy of the inode, its log of devices, whether it may *)
(* go on and whether it created an extent.  harm says what a failure at that *)
(* point costs: nothing, a block that nothing refers to, or a tree that has  *)
(* lost the entries it was about to move.                                    *)

Begin == [ino |-> disk.ino, log |-> <<disk>>, ok |-> TRUE, changed |-> FALSE]

Device(x) == Last(x.log)

Tree(x) == [ino |-> x.ino, block |-> Device(x).block]

Record(x, d) == [x EXCEPT !.log = Append(@, d)]

Fails(x) == [x EXCEPT !.ok = FALSE]

WriteNode(x, b, node, harm) ==
    Record(x, [Device(x) EXCEPT !.block[b] = node, !.harm = harm])

WriteInode(x, harm) == Record(x, [Device(x) EXCEPT !.ino = x.ino, !.harm = harm])

\* A node is written to its block, the root with the inode.
WriteAt(x, b, node, harm) ==
    IF b = 0 THEN WriteInode([x EXCEPT !.ino.root = node], harm) ELSE WriteNode(x, b, node, harm)

free(x) == Blocks \ Device(x).used

\* The first clear bit of the bitmap.  The block is Min(free(x)) of the x before.
alloc_block(x, harm) ==
    IF free(x) = {} THEN Fails(x)
    ELSE Record(x, [Device(x) EXCEPT !.used = @ \cup {Min(free(x))}, !.harm = harm])

\* A block whose initialization fails is given back, so allocation and
\* initialization are one step.
alloc_zeroed_data_block(x) ==
    IF free(x) = {} THEN Fails(x)
    ELSE LET b == Min(free(x))
         IN  Record(x, [Device(x) EXCEPT !.used = @ \cup {b}, !.block[b] = DataImage(Zero),
                                         !.harm = "leak"])

-----------------------------------------------------------------------------
(* Insertion. *)

\* An insertion y on its way up: the operation y.x, and the entries a node hands to its parent.
Ends(y) == ~y.x.ok \/ y.split = <<>>

insert_at_leaf(x, b, ins) ==
    [x |-> WriteAt(x, b, ins.node, IF ins.split = <<>> THEN "none" ELSE "cut"),
     split |-> ins.split]

\* The entries a child handed back become a node to its right.
split(y, parent, child_pos) ==
    LET x     == y.x
        right == Min(free(x))
        node  == node_at(Tree(x), parent)
        ins   == insert_entry(node, child_pos + 1, ExtentIndex(y.split[1].first, right),
                              cap_at(parent))
        x1    == alloc_block(x, "cut")
        x2    == WriteAt(x1, parent, ins.node, "cut")
        x3    == WriteNode(x2, right, Node(node.depth - 1, y.split),
                           IF ins.split = <<>> THEN "none" ELSE "cut")
    IN  IF Ends(y) THEN y
        ELSE IF ~x1.ok THEN [x |-> x1, split |-> <<>>] ELSE [x |-> x3, split |-> ins.split]

\* What is left in the root and what it handed back become its two children.
split_root(y) ==
    LET x    == y.x
        l    == Min(free(x))
        x1   == alloc_block(x, "cut")
        r    == Min(free(x1))
        x2   == alloc_block(x1, "cut")
        root == x.ino.root
        x3   == WriteNode(x2, l, Node(root.depth, root.entries), "cut")
        x4   == WriteNode(x3, r, Node(root.depth, y.split), "cut")
        top  == Node(root.depth + 1, <<ExtentIndex(root.entries[1].first, l),
                                       ExtentIndex(y.split[1].first, r)>>)
    IN  IF Ends(y) THEN x
        ELSE IF ~x1.ok THEN x1 ELSE IF ~x2.ok THEN x2 ELSE WriteAt(x4, 0, top, "none")

\* From the leaf up, as long as a node hands entries back.
insert_extent(x, l, ext) ==
    LET t     == Tree(x)
        path  == find_extent(t, l)
        depth == t.ino.root.depth
        leaf  == node_at(t, path[depth])
        up[k \in 0 .. depth] ==
            IF k = 0
            THEN insert_at_leaf(x, path[depth],
                                insert_entry(leaf, search_extent(leaf, l).pos + 1, ext,
                                             cap_at(path[depth])))
            ELSE split(up[k - 1], path[depth - k], entries_upto(node_at(t, path[depth - k]), l))
    IN  split_root(up[depth])

\* The new extent is appended to the one before it in the leaf, or inserted.
extent_query_or_create(x, l) ==
    LET t    == Tree(x)
        b    == leaf_of(t, l)
        leaf == node_at(t, b)
        i    == search_extent(leaf, l).pos
        new  == Extent(l, Min(free(x)), 1)
        x1   == alloc_zeroed_data_block(x)
        x2   == [x1 EXCEPT !.changed = TRUE]
    IN  CASE b = Eio -> Fails(x)
          [] b # Eio /\ extent_query(t, l) > 0 -> x
          [] OTHER ->
                IF ~x1.ok THEN x1
                ELSE IF i > 0 /\ can_append(leaf.entries[i], new)
                     THEN WriteAt(x2, b, [leaf EXCEPT !.entries[i].len = @ + 1], "none")
                     ELSE insert_extent(x2, l, new)

-----------------------------------------------------------------------------
(* Operations of one request. *)

recompute_inode_block_count(x) ==
    [x EXCEPT !.ino.blocks = Cardinality(extent_all_data_blocks(Tree(x)))
                             + Cardinality(extent_all_tree_blocks(Tree(x)))]

\* Each missing block is created; a block that is still missing then is an error.
StillMapped(x, l) == IF x.ok /\ extent_query(Tree(x), l) <= 0 THEN Fails(x) ELSE x

ensure_block(x, l) ==
    LET q == extent_query(Tree(x), l)
    IN  IF ~x.ok \/ q > 0 THEN x
        ELSE IF q = Eio THEN Fails(x) ELSE StillMapped(extent_query_or_create(x, l), l)

CountIfChanged(x) ==
    IF x.ok /\ x.changed THEN WriteInode(recompute_inode_block_count(x), "none") ELSE x

ensure_blocks_for_write_range(x, lo, hi) ==
    LET f[l \in lo - 1 .. hi] == IF l = lo - 1 THEN x ELSE ensure_block(f[l - 1], l)
    IN  CountIfChanged(f[hi])

\* The data of blocks lo .. hi, which are all mapped.
write_blocks(x, lo, hi) ==
    LET f[l \in lo - 1 .. hi] ==
            IF l = lo - 1 THEN x
            ELSE WriteNode(f[l - 1], extent_query(Tree(x), l), DataImage(Token(l)), "none")
    IN  f[hi]

Larger(m, n) == IF m >= n THEN m ELSE n

WriteMapped(x, lo, hi) ==
    IF ~x.ok THEN x
    ELSE WriteInode([write_blocks(x, lo, hi) EXCEPT !.ino.size = Larger(@, hi + 1)], "none")

write(x, lo, hi) == WriteMapped(ensure_blocks_for_write_range(x, lo, hi), lo, hi)

write_data_only(x, lo, hi) ==
    IF \A l \in lo .. hi : extent_query(Tree(x), l) > 0 THEN write_blocks(x, lo, hi) ELSE Fails(x)

inode_append_block(x) ==
    LET y == extent_query_or_create(x, extent_next_data_lblock(Tree(x)))
    IN  IF y.ok THEN WriteInode(recompute_inode_block_count(y), "none") ELSE y

commit_inode_size(x, size) == WriteInode([x EXCEPT !.ino.size = size], "none")

-----------------------------------------------------------------------------
(* A contiguous range in one transaction of the Direct core. *)

\* Where the range should start (0: anywhere) and whether it must start there.
NoPlan == [ok |-> FALSE, preferred |-> 0, required |-> FALSE]

direct_append_shape(t, lo, count) ==
    LET root == t.ino.root
        last == Last(root.entries)
        full == Len(root.entries) = RootCap
        at   == last.start + last.len
    IN  IF ~validate_extent_node(root, RootCap) \/ root.depth # 0 THEN NoPlan
        ELSE IF root.entries = <<>>
             THEN [ok |-> lo = 0, preferred |-> 0, required |-> FALSE]
        ELSE [ok |-> /\ last.first + last.len = lo
                     /\ full => can_append(last, Extent(lo, at, count)),
              preferred |-> at, required |-> full]

direct_range_plan(t, lo, hi) ==
    IF hi - lo + 1 < DirectMin \/ lo < t.ino.size THEN NoPlan
    ELSE direct_append_shape(t, lo, hi - lo + 1)

\* The first block of the range, 0 if there is none (ENOSPC).
transaction_alloc_direct_range(x, plan, count) ==
    LET runs == {b \in Blocks : b .. b + count - 1 \subseteq free(x)}
    IN  CASE plan.preferred \in runs -> plan.preferred
          [] plan.preferred \notin runs /\ ~plan.required /\ runs # {} -> Min(runs)
          [] OTHER -> 0

stage_direct_append_extent(ino, lo, first, count) ==
    LET new == Extent(lo, first, count)
        e   == ino.root.entries
        n   == Len(e)
    IN  [ino EXCEPT !.blocks = @ + count,
                    !.root.entries =
                        IF n > 0 /\ can_append(e[n], new)
                        THEN [e EXCEPT ![n].len = @ + count]
                        ELSE Append(e, new)]

\* The blocks are zeroed and flushed first.  What a failure of the transaction leaves is
\* the subject of DirectRange; here it happens or not.
try_prepare_direct_range(x, lo, hi, first) ==
    LET count == hi - lo + 1
        ino   == stage_direct_append_extent(x.ino, lo, first, count)
    IN  Record([x EXCEPT !.ino = ino],
               [Device(x) EXCEPT
                  !.ino = ino,
                  !.used = @ \cup (first .. first + count - 1),
                  !.block = [b \in Blocks |-> IF b \in first .. first + count - 1
                                              THEN DataImage(Zero) ELSE @[b]]])

prepare_buffered_write(x, lo, hi) ==
    LET plan  == direct_range_plan(Tree(x), lo, hi)
        first == transaction_alloc_direct_range(x, plan, hi - lo + 1)
    IN  IF DirectRanges /\ plan.ok /\ first > 0
        THEN try_prepare_direct_range(x, lo, hi, first)
        ELSE ensure_blocks_for_write_range(x, lo, hi)

-----------------------------------------------------------------------------
(* Removal of at most max blocks from the end, in one transaction.  Nobody   *)
(* reads a free block before it is written again, so what it held is Stale.  *)

\* The right spine, from the root to the last leaf.
spine(t) ==
    LET f[k \in 0 .. t.ino.root.depth] ==
            IF k = 0 THEN 0 ELSE Last(node_at(t, f[k - 1]).entries).leaf
    IN  f

extent_tail(t) == Last(node_at(t, spine(t)[t.ino.root.depth]).entries)

\* Fault variant: emptied nodes above the leaf stay allocated.
emptied_leaf(t, keep) == {spine(t)[k] : k \in {t.ino.root.depth} \ {keep}}

\* The nodes of the spine below the last one that keeps an entry.
emptied(t, keep) == {spine(t)[k] : k \in keep + 1 .. t.ino.root.depth}

\* The lowest node of the spine with more than one entry, or the root.
keeper(t) ==
    Max({0} \cup {k \in 1 .. t.ino.root.depth : Len(node_at(t, spine(t)[k]).entries) > 1})

\* The device d after the removal.
extent_remove_tail(d, max) ==
    LET tail   == extent_tail(d)
        depth  == d.ino.root.depth
        remove == IF max < tail.len THEN max ELSE tail.len
        keep   == IF remove < tail.len THEN depth ELSE keeper(d)
        at     == spine(d)[keep]
        node   == node_at(d, at)
        rest   == IF remove < tail.len
                  THEN [node EXCEPT !.entries[Len(node.entries)].len = @ - remove]
                  ELSE [node EXCEPT !.entries = Front(@)]
        new    == IF at = 0 /\ rest.entries = <<>> THEN Node(0, <<>>) ELSE rest
        end    == tail.start + tail.len
        gone   == (end - remove .. end - 1) \cup emptied(d, keep)
        ino    == [d.ino EXCEPT !.blocks = @ - Cardinality(gone),
                                !.size = IF @ < tail.first + tail.len - remove THEN @
                                         ELSE tail.first + tail.len - remove]
    IN  [d EXCEPT !.used = @ \ gone,
                  !.ino = IF at = 0 THEN [ino EXCEPT !.root = new] ELSE ino,
                  !.block = [b \in Blocks |-> CASE b \in gone -> DataImage(Stale)
                                                 [] b = at -> new
                                                 [] OTHER -> @[b]]]

-----------------------------------------------------------------------------
(* The steps. *)

Ask(op, lo, hi, ok) == [op |-> op, range |-> lo .. hi, ok |-> ok]

Worse(a, b) == IF "cut" \in {a, b} THEN "cut" ELSE IF "leak" \in {a, b} THEN "leak" ELSE "none"

Becomes(d) == disk' = d /\ content' = read_blocks(d)

\* The operation x ends after its k-th write; nothing is claimed after a cut.
EndsAt(x, k, ok, op, lo, hi) ==
    /\ Becomes([x.log[k] EXCEPT !.harm = Worse(disk.harm, @)])
    /\ request' = Ask(op, lo, hi, ok)
    /\ counted' = \/ ok /\ x.changed
                  \/ counted /\ x.log[k].used = disk.used
                  \/ counted /\ ok /\ ~x.changed

Completes(x, op, lo, hi) == EndsAt(x, Len(x.log), x.ok, op, lo, hi) /\ UNCHANGED faults

\* The k-th write of the operation fails; it may have reached the device.
IsCut(x, op, lo, hi) ==
    /\ faults < MaxFaults /\ faults' = faults + 1
    /\ \E k \in DOMAIN x.log : EndsAt(x, k, FALSE, op, lo, hi)

Runs(x, op, lo, hi) == Completes(x, op, lo, hi) \/ IsCut(x, op, lo, hi)

Whole == disk.harm # "cut"

Open == Whole /\ ops < MaxOps /\ ops' = ops + 1

Init ==
    /\ disk = [ino |-> Inode(Node(0, <<>>), 0, 0),
               block |-> [b \in Blocks |-> DataImage(Stale)],
               used |-> {}, harm |-> "none"]
    /\ content = [l \in LBlocks |-> Zero]
    /\ counted = TRUE
    /\ request = [op |-> "none", range |-> {}, ok |-> TRUE]
    /\ ops = 0 /\ faults = 0

Ranges == {r \in LBlocks \X LBlocks : r[1] <= r[2] /\ r[2] - r[1] < MaxRange}

Write == Open /\ \E r \in Ranges : Runs(write(Begin, r[1], r[2]), "write", r[1], r[2])

WriteDataOnly ==
    Open /\ \E r \in Ranges : Runs(write_data_only(Begin, r[1], r[2]), "write", r[1], r[2])

PrepareWrite ==
    Open /\ \E r \in Ranges :
                 Runs(prepare_buffered_write(Begin, r[1], r[2]), "prepare", 1, 0)

AppendBlock ==
    /\ Open
    /\ extent_next_data_lblock(disk) <= MaxLblock
    /\ Runs(inode_append_block(Begin), "prepare", 1, 0)

CommitSize == Open /\ \E n \in Sizes : Runs(commit_inode_size(Begin, n), "size", 1, 0)

\* Reclaim of an orphan, at most an extent at a time.  When i_blocks is less than what is
\* released, it returns EIO and its transaction, like any that is dropped, changes nothing.
RemoveTail ==
    /\ Whole
    /\ disk.ino.root.entries # <<>>
    /\ \E max \in 1 .. InitMaxLen :
           LET d  == extent_remove_tail(disk, max)
               ok == d.ino.blocks >= 0
           IN  /\ Becomes(IF ok THEN d ELSE disk)
               /\ request' = Ask("cut", 1, 0, ok)
    /\ UNCHANGED <<counted, ops, faults>>

\* A file whose tree was cut is left alone, and the bound ends the exploration.
LeftAlone == (~Whole \/ ops = MaxOps) /\ UNCHANGED vars

Next ==
    \/ Write \/ WriteDataOnly \/ PrepareWrite \/ AppendBlock \/ CommitSize \/ RemoveTail
    \/ LeftAlone

Spec == Init /\ [][Next]_vars

-----------------------------------------------------------------------------
(* Properties. *)

\* Every node is valid, is one level below its parent and has one parent.
validate_complete_extent_tree(t) ==
    /\ validate_extent_node(t.ino.root, RootCap)
    /\ \A k \in 1 .. t.ino.root.depth :
           /\ \A b \in level(t)[k] :
                  /\ validate_extent_node(t.block[b], NodeCap)
                  /\ t.block[b].depth = t.ino.root.depth - k
           /\ Cardinality(level(t)[k])
              = FoldSet(LAMBDA b, n : n + Len(node_at(t, b).entries), 0, level(t)[k - 1])
    /\ \A j, k \in 0 .. t.ino.root.depth : j # k => level(t)[j] \cap level(t)[k] = {}

\* The shape of the state.
TypeOK ==
    /\ disk.used \subseteq Blocks
    /\ disk.harm \in {"none", "leak", "cut"}
    /\ disk.ino.size \in 0 .. MaxLblock + 1
    /\ disk.ino.root.depth \in 0 .. MaxExtentDepth
    /\ \A b \in {0} \cup Blocks : Len(node_at(disk, b).entries) <= cap_at(b)
    /\ \A b \in Blocks : disk.block[b].data \in {Stale, Zero} \cup {Token(l) : l \in LBlocks}
    /\ counted \in BOOLEAN
    /\ faults \in 0 .. MaxFaults

\* After any sequence of insertions, merges, splits, growth and tail removals, completed
\* or failed before they moved an entry, the tree passes the code's own full validation,
\* and a search reaches every extent: each entry of a node lies at or after the key that
\* leads to it and before the next one.
TreeIsSearchable ==
    Whole =>
        /\ validate_complete_extent_tree(disk)
        /\ \A ex \in extents(disk) : \A l \in ex.first .. ex.first + ex.len - 1 :
               extent_query(disk, l) = ex.start + l - ex.first
        /\ \A l \in LBlocks : extent_query(disk, l) = Eio => l < disk.ino.root.entries[1].first

\* No block is used twice, by extents or by nodes, none of them is free in the bitmap, and
\* unless an insertion failed between its allocation and its first tree write no other
\* block is taken.
BlocksOwnedOnce ==
    Whole =>
        /\ extent_all_data_blocks(disk) \cap extent_all_tree_blocks(disk) = {}
        /\ \A e1, e2 \in extents(disk) :
               e1 # e2 => (e1.start .. e1.start + e1.len - 1)
                          \cap (e2.start .. e2.start + e2.len - 1) = {}
        /\ owned(disk) \subseteq disk.used
        /\ disk.harm = "none" => owned(disk) = disk.used

\* i_blocks is the number of blocks the file owns whenever the last allocating operation
\* succeeded, also after earlier ones failed, and reclaim, which subtracts what it frees
\* from it, keeps it so.  Reclaim is refused for want of i_blocks (alloc.rs:750) only
\* while the last allocating operation is one that failed half way.
BlockCountExact ==
    Whole =>
        /\ counted => disk.ino.blocks = Cardinality(owned(disk))
        /\ request.op = "cut" /\ ~request.ok => ~counted

\* The tree, the bitmap and i_blocks tell the same story about the file's blocks, after
\* every sequence of insertions that split, removals that cascade, and failures of either.
BlocksAccounted == BlocksOwnedOnce /\ BlockCountExact

\* A reader of the file sees what FileContent promises: a write changes the blocks it
\* names, a block that was prepared or never written reads as zeros and not as what the
\* device held before, and only a tail removal takes anything away.
File == INSTANCE FileContent WITH
            Written <- Token,
            damaged <- ~Whole

IsFile == File!Spec

\* read gives the bytes asked for: a block of the file is either mapped or a hole, and
\* both can be read.
EveryBlockReadable == Whole => \A l \in LBlocks : extent_query(disk, l) # Eio

=============================================================================
