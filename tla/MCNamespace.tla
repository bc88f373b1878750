---------------------------- MODULE MCNamespace ----------------------------
(* Two names and three inodes beside the root.  Names are interchangeable. *)
EXTENDS Namespace, TLC

NameSymmetry == Permutations(Names)

=============================================================================
