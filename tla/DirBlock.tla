------------------------------ MODULE DirBlock ------------------------------
(***************************************************************************)
(* One leaf block of a directory (ext4_defs/dir.rs): records that follow   *)
(* each other, each with the length from its start to the next one's.  A   *)
(* record is live when its inode is not zero; a removed one gives its      *)
(* length to the one before it, or stays, unused, when it is the first.    *)
(* Lengths are in bytes; a name is what NameLen says of it.                *)
(***************************************************************************)
LOCAL INSTANCE Integers
LOCAL INSTANCE Sequences
LOCAL INSTANCE SequencesExt
LOCAL INSTANCE FiniteSetsExt

CONSTANTS
    NameLen,    \* the length of each name in bytes
    DataEnd     \* BLOCK_SIZE, less the 12 bytes of the tail under metadata_csum

LOCAL Fixed == 8    \* size_of::<FakeDirEntry>()

DirEntry(inode, rec_len, name) == [inode |-> inode, rec_len |-> rec_len, name |-> name]

\* The empty name of the record init makes; names are numbered from one.
NoName == 0

required_size(name) == ((Fixed + (IF name = NoName THEN 0 ELSE NameLen[name]) + 3) \div 4) * 4
used_size(de) == required_size(de.name)
unused(de) == de.inode = 0

init == <<DirEntry(0, DataEnd, NoName)>>

\* Where the records with this name are, in the order of a scan.
Matches(block, name) == {i \in DOMAIN block : ~unused(block[i]) /\ block[i].name = name}

get(block, name) == IF Matches(block, name) = {} THEN 0 ELSE block[Min(Matches(block, name))].inode

list(block) == SelectSeq(block, LAMBDA de : ~unused(de))

\* Whether an unused record can be taken as it is, or a live one has room behind its name.
Reusable(de, name) == unused(de) /\ de.rec_len >= required_size(name)
Splittable(de, name) == de.rec_len - used_size(de) >= required_size(name)

Rooms(block, name) == {i \in DOMAIN block : Reusable(block[i], name) \/ Splittable(block[i], name)}

can_insert(block, name) == Rooms(block, name) # {}

\* Fault variant: the new record is given only what its name needs.
insert_tight(block, name, inode) ==
    LET i == Min(Rooms(block, name))
        de == block[i]
    IN  IF Reusable(de, name) THEN [block EXCEPT ![i] = DirEntry(inode, de.rec_len, name)]
        ELSE InsertAt([block EXCEPT ![i].rec_len = used_size(de)], i + 1,
                      DirEntry(inode, required_size(name), name))

\* The first record with room takes the name.
insert(block, name, inode) ==
    LET i == Min(Rooms(block, name))
        de == block[i]
    IN  IF Reusable(de, name) THEN [block EXCEPT ![i] = DirEntry(inode, de.rec_len, name)]
        ELSE InsertAt([block EXCEPT ![i].rec_len = used_size(de)], i + 1,
                      DirEntry(inode, de.rec_len - used_size(de), name))

remove(block, name) ==
    LET i == Min(Matches(block, name))
    IN  IF i = 1 THEN [block EXCEPT ![1].inode = 0]
        ELSE RemoveAt([block EXCEPT ![i - 1].rec_len = @ + block[i].rec_len], i)

replace(block, name, inode) == [block EXCEPT ![Min(Matches(block, name))].inode = inode]

\* The records fill the block exactly, each is aligned and holds its name.
validate_leaf(block) ==
    /\ \A i \in DOMAIN block :
           /\ block[i].rec_len >= Fixed /\ block[i].rec_len % 4 = 0
           /\ (block[i].name # NoName => NameLen[block[i].name] <= block[i].rec_len - Fixed)
    /\ FoldSeq(LAMBDA de, n : n + de.rec_len, 0, block) = DataEnd
=============================================================================
