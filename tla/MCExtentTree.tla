---------------------------- MODULE MCExtentTree ----------------------------
(* A file of few blocks on a small device. *)
EXTENDS ExtentTree
=============================================================================
