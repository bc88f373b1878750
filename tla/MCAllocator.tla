---------------------------- MODULE MCAllocator ----------------------------
EXTENDS Allocator

\* Two groups of which the last is shorter: 3 + 2 blocks, 2 + 1 inodes.
MCPerGroup == [k \in Kinds |-> IF k = "block" THEN 3 ELSE 2]
MCTotal == [k \in Kinds |-> IF k = "block" THEN 5 ELSE 3]
MCUsedAtFirst == [k \in Kinds |-> IF k = "block" THEN {0, 3} ELSE {0}]

=============================================================================
