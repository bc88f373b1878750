--------------------------- MODULE MCMetadataGate ---------------------------
(***************************************************************************)
(* Three threads and a shared count that saturates at two, so overflow     *)
(* into the exclusive bit, contention and refusal all happen.              *)
(***************************************************************************)
EXTENDS MetadataGate
=============================================================================
