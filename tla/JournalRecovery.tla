-------------------------- MODULE JournalRecovery --------------------------
(***************************************************************************)
(* journal_recovery::recover against a declarative reading of the log.     *)
(*                                                                         *)
(* A mount can meet any ring: logs written by Linux (with revoke records   *)
(* and deleted tags), torn logs, stale blocks of earlier laps.  The state  *)
(* is such a ring, filled one block at a time from Alphabet; in every      *)
(* reachable ring the three-pass walk must do what the reference below,    *)
(* which knows nothing of passes, positions or budgets, says the ring      *)
(* means.                                                                  *)
(***************************************************************************)
EXTENDS JournalLog

CONSTANTS
    Alphabet,   \* the log blocks a ring is filled with
    StartSeq,   \* s_sequence of the journal superblock
    StartPos    \* s_start of the journal superblock, not 0

ASSUME StartAssumption == StartSeq \in Sequences32 /\ StartPos \in Ring

VARIABLES
    log,      \* the journal's blocks
    filled,   \* number of ring blocks written so far
    result    \* what recover makes of the log

vars == <<log, filled, result>>

Init ==
    /\ log = [n \in LogBlocks |->
                 IF n = 0 THEN SuperBlock(StartSeq, StartPos) ELSE Garbage]
    /\ filled = 0
    /\ result = recover(log)

Fill(b) ==
    /\ filled < ring_len
    /\ log' = [log EXCEPT ![ring_position(StartPos, filled)] = b]
    /\ filled' = filled + 1
    /\ result' = recover(log')

Next == \E b \in Alphabet : Fill(b)

Spec == Init /\ [][Next]_vars

-----------------------------------------------------------------------------
(* The reference: which offsets of the ring are headers of committed        *)
(* transactions, and what they say of each home block.                      *)

Offsets == 1 .. ring_len

At(i) == log[ring_position(StartPos, i - 1)]

Size(i) == IF At(i).type = "desc" THEN 1 + Len(At(i).tags) ELSE 1

\* The commit blocks of H before offset i.
CommitsBelow(H, i) == {c \in H : At(c).type = "commit" /\ c < i}

SequenceAt(H, i) == (StartSeq + Cardinality(CommitsBelow(H, i))) % SeqMod

Headers == {i \in Offsets : At(i).type \in {"desc", "revoke", "commit"}}

\* The record at offset i continues the records H before it: it follows one of
\* them, fits the ring and carries the sequence number its place demands.
Continues(H, i) ==
    /\ i = 1 \/ \E j \in H : j + Size(j) = i
    /\ i + Size(i) - 1 <= ring_len
    /\ At(i).type = "commit" => commit_header_ok(At(i))
    /\ At(i).seq = SequenceAt(H, i)

\* Every record of the log.
Records ==
    LET upto[i \in 0 .. ring_len] ==
            IF i = 0 THEN {}
            ELSE upto[i - 1] \cup
                    {j \in Headers \cap {i} : Continues(upto[i - 1], j)}
    IN  upto[ring_len]

Commits(R) == {c \in R : At(c).type = "commit"}

\* The part of the records R that is committed.
Committed(R) == {i \in R : \E c \in Commits(R) : i <= c}

\* Positions <<i, k>>: tag k of the descriptor at offset i.
Tags(C) == UNION {{i} \X DOMAIN At(i).tags : i \in {d \in C : At(d).type = "desc"}}

TagAt(t) == At(t[1]).tags[t[2]]

\* A block is not restored by a tag if its transaction or a later committed one
\* revokes it.
RevokedAt(C, t) ==
    \E r \in C :
        /\ At(r).type = "revoke"
        /\ TagAt(t).home \in At(r).blocks
        /\ CommitsBelow(C, t[1]) \subseteq CommitsBelow(C, r)

Live(C, h) ==
    {t \in Tags(C) : TagAt(t).home = h /\ ~TagAt(t).deleted /\ ~RevokedAt(C, t)}

Last(T) == CHOOSE t \in T : \A u \in T : u[1] < t[1] \/ (u[1] = t[1] /\ u[2] <= t[2])

\* The image the log demands of home h, given what it holds now.
Restored(C, h, old) ==
    LET live == Live(C, h)
        t    == Last(live)
    IN  IF live = {} THEN old
        ELSE Unescape(TagAt(t), data_image(At(t[1] + t[2])))

\* Checksums of a committed transaction that do not match what they cover.
BadChecksum(C) ==
    \/ \E i \in C : At(i).type # "commit" /\ ~verify_block_checksum(At(i))
    \/ \E t \in Tags(C) : ~tag_checksum_ok(TagAt(t), At(t[1]).seq, At(t[1] + t[2]))

\* The walk arrives at a descriptor, whether or not its data fits the ring.
Arrives(R, i) ==
    /\ At(i).type = "desc"
    /\ i = 1 \/ \E j \in R : j + Size(j) = i
    /\ At(i).seq = SequenceAt(R, i)

\* Targets outside the filesystem, journal blocks to overwrite, and revocations
\* that may not be.
BadTarget(R, C) ==
    \/ \E i \in Offsets : /\ Arrives(R, i)
                          /\ \E k \in DOMAIN At(i).tags :
                              At(i).tags[k].home \notin HomeBlocks \cup JournalBlocks
    \/ \E t \in Tags(C) : ~TagAt(t).deleted /\ TagAt(t).home \in JournalBlocks
    \/ \E r \in C : At(r).type = "revoke" /\ ~(HasRevoke /\ At(r).blocks \subseteq HomeBlocks)

-----------------------------------------------------------------------------
(* Properties *)

OldHome == [h \in HomeBlocks |-> [ver |-> 0, magic |-> FALSE]]

\* recover (journal_recovery.rs:50) leaves each home block with the image of the
\* last committed, unrevoked, undeleted tag that names it, and nothing from a
\* transaction without a commit block.
ReplayMeansLog ==
    result.status = "replay" =>
        \A C \in {Committed(Records)} : \A h \in HomeBlocks :
            Applied(OldHome, result.writes)[h] = Restored(C, h, OldHome[h])

\* The sequence recover writes into the clean superblock (journal_recovery.rs:98)
\* is one past the first sequence without a commit block, so no record of the
\* abandoned tail carries it.
SequenceSkipsTail ==
    result.status = "replay" =>
        \A R \in {Records} :
            /\ result.seq = (StartSeq + Cardinality(Commits(R)) + 1) % SeqMod
            /\ \A i \in R : At(i).seq # result.seq

\* recover fails exactly on a log with a committed transaction it must not apply
\* or a reachable descriptor it cannot parse; in particular the revoke and replay
\* passes never trip over something the scan accepted (walk, Pass::Revoke and
\* Pass::Replay error returns, journal_recovery.rs:134-254).
FailsOnlyOnCorruption ==
    \A R \in {Records} : \A C \in {Committed(R)} :
        result.status = "err" <=> BadChecksum(C) \/ BadTarget(R, C)

=============================================================================
