-------------------------- MODULE MCOrphanReclaim --------------------------
EXTENDS OrphanReclaim

Ext(p, n) == [p |-> p, n |-> n]

Free == [used |-> FALSE, links |-> 0, gen |-> 0, next |-> 0, size |-> 0,
         leaves |-> <<>>, xattr |-> 0, iblocks |-> 0, named |-> FALSE, excess |-> 0]

\* An extent that crosses the group boundary between 4 and 5.
Crossing == [Free EXCEPT !.used = TRUE, !.links = 1, !.gen = 1, !.size = 3, !.named = TRUE,
                         !.leaves = <<[node |-> 0, exts |-> <<Ext(3, 3)>>]>>, !.iblocks = 3]

\* Two names, one leaf block (6) with one extent.
Leafy == [Free EXCEPT !.used = TRUE, !.links = 2, !.gen = 1, !.size = 1, !.named = TRUE,
                      !.leaves = <<[node |-> 6, exts |-> <<Ext(1, 1)>>]>>, !.iblocks = 2]

Orphan(r, next) == [r EXCEPT !.links = 0, !.next = next]

\* An xattr block in the way this code sets one, and shared and counted in i_blocks
\* in the way of another implementation.
WithXattr(r) == [r EXCEPT !.xattr = 8]
SharedXattr(r) == [r EXCEPT !.xattr = 8, !.iblocks = @ + 1, !.excess = 1]

Disk(a, b, head) ==
    LET used == {i \in {1, 2} : <<a, b>>[i].xattr = 8}
    IN  [inode  |-> [i \in {11, 12, 13} |-> IF i = 11 THEN a ELSE IF i = 12 THEN b ELSE Free],
         head   |-> head,
         bitmap |-> {1, 3, 4, 5, 6} \union (IF used = {} THEN {} ELSE {8}),
         refs   |-> [k \in 1 .. 8 |-> IF k = 8 THEN Cardinality(used) ELSE 0],
         odd    |-> {},
         ok     |-> TRUE]

\* A quiet disk; one with a chain, whose first inode is still named and was being
\* truncated to one block; one with an orphan made by another implementation.
MCImages ==
    {Disk(WithXattr(Crossing), Leafy, 0),
     Disk([Crossing EXCEPT !.size = 1, !.next = 12], Orphan(Leafy, 0), 11),
     Disk(SharedXattr(Crossing), SharedXattr(Orphan(Leafy, 0)), 12)}

=============================================================================
