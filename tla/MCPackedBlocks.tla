--------------------------- MODULE MCPackedBlocks ---------------------------
(***************************************************************************)
(* Four names.  As directory entries they need 12, 12, 16 and 20 bytes, of *)
(* a block that holds 52: not all fit, and a freed record may be too short *)
(* for the next name.  As attributes they need 4 or 8 bytes of a table, of *)
(* a block in which two to four fit, depending on their values.            *)
(***************************************************************************)
EXTENDS PackedBlocks

MCNames == 1 .. 4
MCNameLen == <<1, 4, 5, 9>>
MCEntrySize == <<4, 4, 8, 4>>
MCAttrValues == {<<>>, <<1>>, <<2, 2, 2>>, <<3, 3, 3, 3>>}

=============================================================================
