--------------------------- MODULE MCDirectRange ---------------------------
(* Two files that hand a few blocks to each other. *)
EXTENDS DirectRange
=============================================================================
