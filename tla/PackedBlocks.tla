---------------------------- MODULE PackedBlocks ----------------------------
(***************************************************************************)
(* A directory block, or the attribute block of an inode, under any        *)
(* sequence of the operations on it: DirBlock's insert, remove and replace *)
(* as dir_add_entry, dir_remove_entry and dir_replace_entry call them, and *)
(* setxattr_with_flags and removexattr (ext4/low_level.rs).  Both kinds of *)
(* block are maps from names to values; here the value of a directory      *)
(* entry is the sequence of its inode.                                     *)
(***************************************************************************)
EXTENDS Integers, Sequences, FiniteSets, SequencesExt

CONSTANTS
    Names,      \* names, numbered
    NameLen,    \* their lengths as directory entries
    DataEnd,
    EntrySize,  \* their sizes as entries of an attribute table
    BlockSize,
    HeaderSize,
    Inodes,     \* inodes a directory entry may have
    AttrValues  \* values of attributes, sequences of bytes

Dir == INSTANCE DirBlock
Xattr == INSTANCE XattrBlock

ASSUME PackedAssumption ==
    /\ DataEnd % 4 = 0 /\ BlockSize % 4 = 0 /\ HeaderSize % 4 = 0
    /\ Inodes \subseteq Nat \ {0}
    /\ \A n \in Names : NameLen[n] > 0 /\ EntrySize[n] % 4 = 0 /\ EntrySize[n] > 0

VARIABLES
    kind,       \* "dir" or "xattr"
    block,      \* the block; an inode without an attribute block has <<>>
    asked       \* ghost: the last request and its answer

vars == <<kind, block, asked>>

NoBlock == <<>>
Absent == <<0>>

Answer(n, v, ok) == asked' = [key |-> n, value |-> v, ok |-> ok]

Init ==
    /\ kind \in {"dir", "xattr"}
    /\ block = IF kind = "dir" THEN Dir!init ELSE NoBlock
    /\ asked = [key |-> 0, value |-> Absent, ok |-> FALSE]

\* dir_add_entry in this block; the caller knows that the name is new.
AddEntry == \E n \in Names, i \in Inodes :
    /\ kind = "dir" /\ Dir!get(block, n) = 0
    /\ IF Dir!can_insert(block, n)
       THEN block' = Dir!insert(block, n, i) /\ Answer(n, <<i>>, TRUE)
       ELSE UNCHANGED block /\ Answer(n, <<i>>, FALSE)
    /\ UNCHANGED kind

RemoveEntry == \E n \in Names :
    /\ kind = "dir"
    /\ IF Dir!get(block, n) # 0
       THEN block' = Dir!remove(block, n) /\ Answer(n, Absent, TRUE)
       ELSE UNCHANGED block /\ Answer(n, Absent, FALSE)
    /\ UNCHANGED kind

ReplaceEntry == \E n \in Names, i \in Inodes :
    /\ kind = "dir"
    /\ IF Dir!get(block, n) # 0
       THEN block' = Dir!replace(block, n, i) /\ Answer(n, <<i>>, TRUE)
       ELSE UNCHANGED block /\ Answer(n, <<i>>, FALSE)
    /\ UNCHANGED kind

Has(b, n) == b # NoBlock /\ Xattr!contains(b, n)

\* Fault variant: the old value is removed in the block itself, before the new one is known
\* to fit.
set_in_place(n, v, create, replace) ==
    LET old == IF block = NoBlock THEN Xattr!init ELSE block
        cleared == IF Has(old, n) THEN Xattr!remove(old, n) ELSE old
        ok == ~(Has(block, n) /\ create) /\ ~(~Has(block, n) /\ replace)
    IN  IF ok /\ Xattr!can_insert(cleared, n, v)
        THEN block' = Xattr!insert(cleared, n, v) /\ Answer(n, v, TRUE)
        ELSE block' = (IF ok THEN cleared ELSE block) /\ Answer(n, v, FALSE)

\* setxattr_with_flags: a block is made on the first use, an existing value is removed in a
\* copy first, and the copy is written only when the new value fits.
setxattr_with_flags(n, v, create, replace) ==
    LET old == IF block = NoBlock THEN Xattr!init ELSE block
        cleared == IF Has(old, n) THEN Xattr!remove(old, n) ELSE old
        ok == /\ ~(Has(block, n) /\ create)
              /\ ~(~Has(block, n) /\ replace)
              /\ Xattr!can_insert(cleared, n, v)
    IN  /\ block' = IF ok THEN Xattr!insert(cleared, n, v) ELSE block
        /\ Answer(n, v, ok)

SetXattr == \E n \in Names, v \in AttrValues, flags \in {<<FALSE, FALSE>>, <<TRUE, FALSE>>, <<FALSE, TRUE>>} :
    kind = "xattr" /\ setxattr_with_flags(n, v, flags[1], flags[2]) /\ UNCHANGED kind

removexattr(n) ==
    /\ block' = IF Has(block, n) THEN Xattr!remove(block, n) ELSE block
    /\ Answer(n, Absent, Has(block, n))

RemoveXattr == \E n \in Names : kind = "xattr" /\ removexattr(n) /\ UNCHANGED kind

Next == AddEntry \/ RemoveEntry \/ ReplaceEntry \/ SetXattr \/ RemoveXattr

Spec == Init /\ [][Next]_vars

-----------------------------------------------------------------------------
(* Properties. *)

\* What a reader of the block finds: dir_find_entry, getxattr.
Lookup(n) ==
    IF kind = "dir" THEN <<Dir!get(block, n)>>
    ELSE IF Has(block, n) THEN Xattr!get(block, n) ELSE Absent

Listed ==
    IF kind = "dir" THEN [i \in DOMAIN Dir!list(block) |-> Dir!list(block)[i].name]
    ELSE IF block = NoBlock THEN <<>> ELSE Xattr!list(block)

\* Both kinds of block are dictionaries: whatever was inserted, shifted, split, coalesced or
\* refused before, each name leads to the value it was last given, and a refused request,
\* a replacement that does not fit included, leaves every value as it was.
AsMap == INSTANCE Dictionary WITH
             Keys <- Names,
             Values <- {<<i>> : i \in Inodes} \cup AttrValues,
             map <- [n \in Names |-> Lookup(n)]

IsDictionary == AsMap!Spec

\* listdir and listxattr name what can be looked up, each once.
ListAgrees ==
    /\ ToSet(Listed) = {n \in Names : Lookup(n) # Absent}
    /\ Len(Listed) = Cardinality(ToSet(Listed))

\* Directory records tile the block, only the first may be unused, and an emptied block is
\* as good as a new one.
DirSound ==
    /\ Dir!validate_leaf(block)
    /\ \A i \in 2 .. Len(block) : ~Dir!unused(block[i])
    /\ Listed = <<>> => Len(block) = 1

\* Attribute entries are sorted, their values follow each other down from the end and never
\* reach the table's end mark, and what neither takes is blank and free.
XattrSound ==
    /\ \A i \in 2 .. Len(block.entries) : block.entries[i - 1].name < block.entries[i].name
    /\ \A i \in DOMAIN block.entries :
           block.entries[i].off + block.entries[i].size = Xattr!ValueEnd(block, i)
    /\ Xattr!p_entry(block) < Xattr!p_value(block)
    /\ \A at \in Xattr!p_entry(block) .. Xattr!p_value(block) - 1 : block.data[at] = 0
    /\ Xattr!p_value(block) - Xattr!p_entry(block)
       = BlockSize - HeaderSize
         - FoldSeq(LAMBDA e, n : n + EntrySize[e.name] + e.size, 0, block.entries)

\* After any sequence of insertions and removals the layout is what the next mount and other
\* implementations accept, no space is lost to what was removed, and a listing names
\* exactly what can be looked up.
LayoutSound ==
    /\ ListAgrees
    /\ kind = "dir" => DirSound
    /\ kind = "xattr" /\ block # NoBlock => XattrSound

\* The attribute block of an unlinked inode can be released: it passes the validation that
\* transaction_release_xattr makes before it detaches the block.
Releasable ==
    kind = "xattr" /\ block # NoBlock => Xattr!validate_xattr_block_for_release(block)

=============================================================================
