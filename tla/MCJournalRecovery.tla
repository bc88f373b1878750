-------------------------- MODULE MCJournalRecovery --------------------------
(***************************************************************************)
(* Rings of five blocks.  Sequence numbers start at the largest value, so  *)
(* the second transaction's is 0.                                          *)
(***************************************************************************)
EXTENDS JournalRecovery

MCSeqMod == 8
MCStartSeq == MCSeqMod - 1

Img(v) == [ver |-> v, magic |-> FALSE]

T(home, seq, v) == Tag(home, FALSE, FALSE, <<seq, Img(v)>>)

\* Two transactions that log home 1, the first escaped; revocations in either; a
\* deleted tag; a bad commit block; descriptors with an out-of-range target, a checksum that does not
\* match and a journal block as target; data that matches some of the tags.
MCAlphabet ==
    {Descriptor(MCStartSeq, <<Tag(1, TRUE, FALSE, <<MCStartSeq, Img(2)>>)>>, TRUE),
     Descriptor(MCStartSeq, <<Tag(7, FALSE, TRUE, <<MCStartSeq, Img(1)>>)>>, TRUE),
     Descriptor(MCStartSeq, <<T(9, MCStartSeq, 1)>>, TRUE),
     Descriptor(0, <<T(1, 0, 1)>>, TRUE),
     Descriptor(0, <<T(2, 0, 1)>>, FALSE),
     Descriptor(0, <<T(7, 0, 1)>>, TRUE),
     CommitRecord(MCStartSeq, TRUE), CommitRecord(0, TRUE), CommitRecord(0, FALSE),
     RevokeRecord(MCStartSeq, {1}, TRUE), RevokeRecord(0, {1}, TRUE),
     Data(Img(1)), Data(Img(2))}

=============================================================================
