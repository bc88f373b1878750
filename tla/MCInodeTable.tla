---------------------------- MODULE MCInodeTable ----------------------------
(***************************************************************************)
(* Two or three threads, one operation each, on inodes that share a shard  *)
(* or a table block as the configuration says.                             *)
(***************************************************************************)
EXTENDS InodeTable
=============================================================================
