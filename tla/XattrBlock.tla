----------------------------- MODULE XattrBlock -----------------------------
(***************************************************************************)
(* The block of extended attributes of an inode (ext4_defs/xattr.rs): a    *)
(* table of entries, sorted, that grows from the header up, and values     *)
(* that grow from the end of the block down, in the order of the entries.  *)
(* Positions and lengths are in bytes; the value area is modelled byte by  *)
(* byte, since insertion and removal shift it.  Names are numbered in the  *)
(* order compare_name gives them, which is by prefix, length and letters;  *)
(* none is empty after its prefix.                                         *)
(***************************************************************************)
LOCAL INSTANCE Integers
LOCAL INSTANCE Sequences
LOCAL INSTANCE SequencesExt
LOCAL INSTANCE FiniteSetsExt

CONSTANTS
    BlockSize,  \* BLOCK_SIZE
    HeaderSize, \* size_of::<XattrHeader>() (32)
    EntrySize   \* XattrEntry::required_size of each name, a multiple of 4

XattrEntry(name, off, size) == [name |-> name, off |-> off, size |-> size]

Blank == [at \in 0 .. BlockSize - 1 |-> 0]

init == [entries |-> <<>>, data |-> Blank]

Find(b, name) == {i \in DOMAIN b.entries : b.entries[i].name = name}

contains(b, name) == Find(b, name) # {}

get(b, name) ==
    LET e == b.entries[Min(Find(b, name))]
    IN  [k \in 1 .. e.size |-> b.data[e.off + k - 1]]

list(b) == [i \in DOMAIN b.entries |-> b.entries[i].name]

\* The start of the blank area, and the last value, which ends it.
p_entry(b) == HeaderSize + FoldSeq(LAMBDA e, n : n + EntrySize[e.name], 0, b.entries)
p_value(b) == IF b.entries = <<>> THEN BlockSize ELSE Last(b.entries).off

\* Where the value of the i-th entry ends: the one before it begins there.
ValueEnd(b, i) == IF i = 1 THEN BlockSize ELSE b.entries[i - 1].off

\* data[from .. to) moved by k bytes.
copy_within(data, from, to, k) ==
    [at \in DOMAIN data |-> IF at - k \in from .. to - 1 THEN data[at - k] ELSE data[at]]

fill(data, from, to) == [at \in DOMAIN data |-> IF at \in from .. to - 1 THEN 0 ELSE data[at]]

write_offset(data, from, v) ==
    [at \in DOMAIN data |-> IF at \in from .. from + Len(v) - 1 THEN v[at - from + 1] ELSE data[at]]

Shift(entries, k) == [i \in DOMAIN entries |-> [entries[i] EXCEPT !.off = @ + k]]

\* Room for the entry, the value and one byte to end the table.
can_insert(b, name, v) == p_value(b) - p_entry(b) >= EntrySize[name] + Len(v) + 1

\* The first entry that is greater, or the end of the table.
InsertPosition(b, name) ==
    Min({i \in DOMAIN b.entries : b.entries[i].name > name} \cup {Len(b.entries) + 1})

\* The entries and values behind the place move by the size of the new ones.
insert(b, name, v) ==
    LET i == InsertPosition(b, name)
        end == ValueEnd(b, i)
        moved == copy_within(b.data, p_value(b), end, -Len(v))
    IN  [entries |-> SubSeq(b.entries, 1, i - 1)
                     \o <<XattrEntry(name, end - Len(v), Len(v))>>
                     \o Shift(SubSeq(b.entries, i, Len(b.entries)), -Len(v)),
         data |-> write_offset(moved, end - Len(v), v)]

remove(b, name) ==
    LET i == Min(Find(b, name))
        e == b.entries[i]
        moved == copy_within(b.data, p_value(b), e.off, e.size)
    IN  [entries |-> SubSeq(b.entries, 1, i - 1)
                     \o Shift(SubSeq(b.entries, i + 1, Len(b.entries)), e.size),
         data |-> fill(moved, p_value(b), p_value(b) + e.size)]

\* What reclaim demands of a block before it gives it back: four zero bytes after the
\* table, and values that are aligned, behind them, and apart when padded to four bytes.
validate_xattr_block_for_release(b) ==
    LET names_end == p_entry(b) + 4
        padded(e) == ((e.size + 3) \div 4) * 4
        inline == {i \in DOMAIN b.entries : b.entries[i].size # 0}
    IN  /\ names_end <= BlockSize
        /\ \A at \in p_entry(b) .. names_end - 1 : b.data[at] = 0
        /\ \A i \in inline :
               LET e == b.entries[i]
               IN  e.off % 4 = 0 /\ names_end <= e.off /\ e.off + padded(e) <= BlockSize
        /\ \A i, j \in inline :
               b.entries[i].off < b.entries[j].off
                   => b.entries[i].off + padded(b.entries[i]) <= b.entries[j].off
=============================================================================
