------------------------ MODULE MCJournalTransaction ------------------------
(***************************************************************************)
(* Two home blocks, one of whose new images starts with the journal's      *)
(* magic number, and a ring of five blocks: a two-block transaction fills  *)
(* it or nearly does, so the second transaction wraps.  The first sequence *)
(* number is the largest one.                                              *)
(***************************************************************************)
EXTENDS JournalTransaction

MCSeqMod == 8
MCInitSeq == MCSeqMod - 1

=============================================================================
