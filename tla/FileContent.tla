---------------------------- MODULE FileContent ----------------------------
(***************************************************************************)
(* What the extent tree of a file is for: a file is a function from its    *)
(* blocks to their content.  A block that was never written, or was cut    *)
(* off, reads as zeros.  A write changes the blocks it names and no other; *)
(* one that fails may have changed some of them.  A file whose tree was    *)
(* left half changed is damaged and promises nothing any more.             *)
(***************************************************************************)
EXTENDS Integers

CONSTANTS
    LBlocks,        \* the blocks a file may have
    Zero,           \* the content of a hole
    Written(_)      \* what a write leaves in a block

VARIABLES
    content,    \* what a read of each block gives
    request,    \* the last operation: [op, range, ok]
    damaged

vars == <<content, request, damaged>>

Init ==
    /\ content = [l \in LBlocks |-> Zero]
    /\ request = [op |-> "none", range |-> {}, ok |-> TRUE]
    /\ damaged = FALSE

Damage == ~damaged /\ damaged' = TRUE

Write ==
    LET old == content
        new == content'
    IN  /\ ~damaged /\ UNCHANGED damaged
        /\ request'.op = "write"
        /\ \A l \in LBlocks :
               IF l \in request'.range
               THEN new[l] \in {old[l], Written(l)}
               ELSE new[l] = old[l]
        /\ request'.ok => \A l \in request'.range : new[l] = Written(l)

\* Preparing a write gives the file blocks and changes nothing a reader sees.
Prepare ==
    /\ ~damaged /\ UNCHANGED <<content, damaged>>
    /\ request'.op \in {"prepare", "size"}

\* A tail of the file is cut off, or that is refused.
Cut ==
    LET old == content
        new == content'
    IN  /\ ~damaged /\ UNCHANGED damaged
        /\ request'.op = "cut"
        /\ IF request'.ok
           THEN \E n \in LBlocks : new = [l \in LBlocks |-> IF l < n THEN old[l] ELSE Zero]
           ELSE new = old

Next == Damage \/ Write \/ Prepare \/ Cut

Spec == Init /\ [][Next]_vars

=============================================================================
