----------------------------- MODULE JournalLog -----------------------------
(***************************************************************************)
(* The on-disk JBD2 log of the internal journal: block formats, the ring,  *)
(* the encoder used by a committing transaction (journal_transaction.rs)   *)
(* and the three-pass walk used at mount (journal_recovery.rs).            *)
(*                                                                         *)
(* Bytes are abstracted to records.  A metadata image is a version and the *)
(* one property of its bytes the log format depends on: whether its first  *)
(* four bytes are the JBD2 magic number.  Checksums are abstracted to      *)
(* whether they match; the checksum in a V3 tag covers the sequence number *)
(* and the logged image, so it is modelled by the pair it covers.          *)
(***************************************************************************)
EXTENDS Integers, Sequences, FiniteSets

CONSTANTS
    HomeBlocks,     \* filesystem blocks a transaction may legally journal
    JournalBlocks,  \* filesystem blocks owned by the journal itself
    First,          \* s_first: first logical block of the ring
    MaxLen,         \* s_maxlen: number of logical blocks of the journal
    PerDescriptor,  \* tags_per_descriptor(features)
    SeqMod,         \* sequence numbers are counted modulo SeqMod (2^32)
    ChecksumV3,     \* ChecksumMode::V3 (TRUE) or ChecksumMode::None (FALSE)
    HasRevoke       \* FEATURE_INCOMPAT_REVOKE

ASSUME HomesAssumption ==
    /\ HomeBlocks \subseteq Nat
    /\ JournalBlocks \subseteq Nat
    /\ HomeBlocks \cap JournalBlocks = {}

ASSUME RingAssumption ==
    /\ First \in Nat \ {0}
    /\ MaxLen \in Nat
    /\ First < MaxLen
    /\ PerDescriptor \in Nat \ {0}

ASSUME SequenceAssumption == SeqMod \in Nat \ {0, 1}

ASSUME FeatureAssumption == ChecksumV3 \in BOOLEAN /\ HasRevoke \in BOOLEAN

LogBlocks == 0 .. (MaxLen - 1)

Ring == First .. (MaxLen - 1)

Sequences32 == 0 .. (SeqMod - 1)

Image == [ver : Nat, magic : BOOLEAN]

-----------------------------------------------------------------------------
(* Block formats *)

\* No checksum is recorded (ChecksumMode::None).
NoSum == <<>>

SuperBlock(seq, start) == [type |-> "super", seq |-> seq, start |-> start]

Tag(home, escape, deleted, sum) ==
    [home |-> home, escape |-> escape, deleted |-> deleted, sum |-> sum]

Descriptor(seq, tags, sum) ==
    [type |-> "desc", seq |-> seq, tags |-> tags, sum |-> sum]

Data(image) == [type |-> "data", image |-> image]

CommitRecord(seq, sum) == [type |-> "commit", seq |-> seq, sum |-> sum]

RevokeRecord(seq, blocks, sum) ==
    [type |-> "revoke", seq |-> seq, blocks |-> blocks, sum |-> sum]

Garbage == [type |-> "garbage"]

\* encode_log zeroes the magic number of an image that starts with it.
Escaped(image) == [image EXCEPT !.magic = FALSE]

\* walk restores it when the tag carries FLAG_ESCAPE.
Unescape(tag, image) == IF tag.escape THEN [image EXCEPT !.magic = TRUE] ELSE image

-----------------------------------------------------------------------------
(* The ring *)

ring_len == MaxLen - First

\* ring_next and the recovery's advance are the same function.
ring_next(current) == IF current + 1 = MaxLen THEN First ELSE current + 1

\* The i-th (from 0) element of ring_positions(sb, head, count), i < ring_len.
ring_position(head, i) ==
    IF head + i < MaxLen THEN head + i ELSE head + i - ring_len

next_sequence(seq) == (seq + 1) % SeqMod

\* (a.wrapping_sub(b) as i32) >= 0
tid_geq(a, b) == (a - b) % SeqMod < SeqMod \div 2

descriptors(blocks) == (blocks + PerDescriptor - 1) \div PerDescriptor

required_log_blocks(blocks) == blocks + descriptors(blocks) + 1

-----------------------------------------------------------------------------
(* Encoding a transaction.  staged maps homes to images. *)

\* BTreeMap order: ascending numbers, of home blocks or of tags.
ascending(S) ==
    CHOOSE s \in [1 .. Cardinality(S) -> S] :
        \A i, j \in 1 .. Cardinality(S) : i < j => s[i] < s[j]

encode_tag(seq, home, image) ==
    Tag(home, image.magic, FALSE,
        IF ChecksumV3 THEN <<seq, Escaped(image)>> ELSE NoSum)

\* Block k of encode_log: one descriptor per PerDescriptor images, followed by
\* the escaped images it describes.  order lists the n staged homes.
encode_log_block(seq, staged, order, n, k) ==
    LET group  == (k - 1) \div (PerDescriptor + 1)
        within == (k - 1) % (PerDescriptor + 1)
        last   == IF (group + 1) * PerDescriptor < n
                  THEN (group + 1) * PerDescriptor ELSE n
    IN  IF within = 0
        THEN Descriptor(seq,
                [i \in 1 .. (last - group * PerDescriptor) |->
                    LET home == order[group * PerDescriptor + i]
                    IN  encode_tag(seq, home, staged[home])], TRUE)
        ELSE Data(Escaped(staged[order[group * PerDescriptor + within]]))

encode_log(seq, staged) ==
    LET order == ascending(DOMAIN staged)
        n     == Cardinality(DOMAIN staged)
    IN  [k \in 1 .. (required_log_blocks(n) - 1) |->
            encode_log_block(seq, staged, order, n, k)]

encode_commit(seq) == CommitRecord(seq, TRUE)

-----------------------------------------------------------------------------
(* Reading blocks back *)

\* Header::parse succeeds with the wanted sequence.  An image that starts with
\* the magic number has arbitrary bytes after it; the worst case is a commit
\* header for exactly the sequence the walk is looking for.
header_matches(b, seq) ==
    \/ b.type \in {"desc", "revoke", "commit", "super"} /\ b.seq = seq
    \/ b.type = "data" /\ b.image.magic

block_type(b) == IF b.type = "data" THEN "commit" ELSE b.type

\* CommitHeader::parse once the header has matched.
commit_header_ok(b) == IF b.type = "data" THEN ~ChecksumV3 ELSE ChecksumV3 => b.sum

verify_block_checksum(b) == ChecksumV3 => b.sum

\* The bytes of a log block read where a tag says its data is.
data_image(b) == IF b.type = "data" THEN b.image ELSE [ver |-> 0, magic |-> TRUE]

tag_checksum_ok(tag, seq, b) ==
    tag.sum # NoSum => b.type = "data" /\ tag.sum = <<seq, b.image>>

\* Fault variant: targets are not range-checked.
InRangeAlways(home) == TRUE

\* Every target a descriptor or revoke record names is a filesystem block.
in_range(home) == home \in HomeBlocks \cup JournalBlocks

-----------------------------------------------------------------------------
(* journal_recovery::walk.  One WalkStep is one iteration of the inner loop *)
(* (a descriptor together with the data blocks it describes).               *)

WalkStart(sb, revokes) ==
    [pos |-> sb.start, seq |-> sb.seq, consumed |-> 0, tx_start |-> sb.start,
     top |-> TRUE, invalid |-> FALSE, out |-> "run",
     revokes |-> revokes, writes |-> <<>>]

\* The log ends here: normal for the scan, corruption for the later passes.
LogEnds(pass, w) == [w EXCEPT !.out = IF pass = "scan" THEN "ok" ELSE "err"]

Corrupt(w) == [w EXCEPT !.out = "err"]

\* Fault variant: revocations are not honoured.
RevokedNever(w, home) == FALSE

revoked(w, home) ==
    home \in DOMAIN w.revokes /\ tid_geq(w.revokes[home], w.seq)

\* The home writes of one descriptor, in tag order, and whether the walk goes
\* on: it stops at the first tag that targets the journal.
ReplayTags(w, tags, data) ==
    LET live  == {i \in DOMAIN tags : ~tags[i].deleted}
        hits  == {i \in live : tags[i].home \in JournalBlocks}
        kept  == {i \in live : (\A j \in hits : i < j) /\ ~revoked(w, tags[i].home)}
        order == ascending(kept)
    IN  [w EXCEPT !.writes = @ \o [k \in 1 .. Cardinality(kept) |->
                     [home  |-> tags[order[k]].home,
                      image |-> Unescape(tags[order[k]], data_image(data[order[k]]))]],
                  !.out = IF hits = {} THEN @ ELSE "err"]

WalkDescriptor(log, pass, w, b) ==
    LET n    == Len(b.tags)
        here == ring_next(w.pos)
        data == [i \in 1 .. n |-> log[ring_position(here, i - 1)]]
        bad  == ~verify_block_checksum(b)
                \/ \E i \in 1 .. n : ~tag_checksum_ok(b.tags[i], w.seq, data[i])
        w2   == [w EXCEPT !.pos = ring_position(here, n),
                          !.consumed = @ + 1 + n, !.top = FALSE,
                          !.invalid = @ \/ bad]
    IN  IF ~verify_block_checksum(b) /\ pass # "scan" THEN Corrupt(w)
        ELSE IF \E i \in 1 .. n : ~in_range(b.tags[i].home) THEN Corrupt(w)
        ELSE IF w.consumed + 1 + n > ring_len THEN LogEnds(pass, w)
        ELSE IF bad /\ pass # "scan" THEN Corrupt(w)
        ELSE IF pass = "replay" THEN ReplayTags(w2, b.tags, data)
        ELSE w2

WalkRevoke(pass, w, b) ==
    LET w2 == [w EXCEPT !.pos = ring_next(@), !.consumed = @ + 1, !.top = FALSE,
                        !.invalid = @ \/ ~verify_block_checksum(b)]
        newer(home) == home \in DOMAIN w.revokes /\ tid_geq(w.revokes[home], w.seq)
    IN  IF ~verify_block_checksum(b) /\ pass # "scan" THEN Corrupt(w)
        ELSE IF pass # "revoke" THEN w2
        ELSE IF ~HasRevoke \/ ~(b.blocks \subseteq HomeBlocks) THEN Corrupt(w)
        ELSE [w2 EXCEPT !.revokes =
                 [home \in DOMAIN w.revokes \cup b.blocks |->
                     IF home \in b.blocks /\ ~newer(home) THEN w.seq
                     ELSE w.revokes[home]]]

WalkCommit(pass, w, b) ==
    LET next == ring_next(w.pos)
        used == w.consumed + 1
    IN  IF ~commit_header_ok(b) THEN LogEnds(pass, w)
        ELSE IF w.invalid THEN Corrupt(w)
        ELSE [w EXCEPT !.pos = next, !.consumed = used, !.tx_start = next,
                       !.seq = next_sequence(@), !.top = TRUE, !.invalid = FALSE,
                       !.out = IF next = w.tx_start \/ used >= ring_len
                               THEN "ok" ELSE "run"]

WalkStep(log, pass, stop, w) ==
    LET b == log[w.pos]
    IN  IF w.top /\ stop = w.seq THEN [w EXCEPT !.out = "ok"]
        ELSE IF w.consumed >= ring_len \/ ~header_matches(b, w.seq)
        THEN LogEnds(pass, w)
        ELSE CASE block_type(b) = "desc"   -> WalkDescriptor(log, pass, w, b)
               [] block_type(b) = "revoke" -> WalkRevoke(pass, w, b)
               [] block_type(b) = "commit" -> WalkCommit(pass, w, b)
               [] OTHER                    -> LogEnds(pass, w)

WalkState ==
    [pos : LogBlocks, seq : Sequences32, consumed : Nat, tx_start : LogBlocks,
     top : BOOLEAN, invalid : BOOLEAN, out : {"run", "ok", "err"},
     revokes : UNION {[D -> Sequences32] : D \in SUBSET HomeBlocks},
     writes : Seq([home : HomeBlocks, image : Image])]

\* Every step consumes a block or ends the walk.
walk_from(log, pass, stop) ==
    LET loop[w \in WalkState] ==
            IF w.out = "run" THEN loop[WalkStep(log, pass, stop, w)] ELSE w
    IN  loop

walk(log, pass, stop, revokes) == walk_from(log, pass, stop)[WalkStart(log[0], revokes)]

NoStop == -1

NoRevokes == [home \in {} |-> 0]

\* Fault variant: recovery reuses the sequence of the abandoned tail.
RecoverReusingSequence(log) ==
    LET scan   == walk(log, "scan", NoStop, NoRevokes)
        revoke == walk(log, "revoke", scan.seq, NoRevokes)
        replay == walk(log, "replay", scan.seq, revoke.revokes)
    IN  IF log[0].start = 0
        THEN [status |-> "clean", writes |-> <<>>, seq |-> log[0].seq]
        ELSE IF scan.out = "err" \/ revoke.out = "err"
        THEN [status |-> "err", writes |-> <<>>, seq |-> log[0].seq]
        ELSE [status |-> IF replay.out = "err" THEN "err" ELSE "replay",
              writes |-> replay.writes,
              seq    |-> scan.seq]

\* What journal_recovery::recover decides to do with a log: nothing ("clean"),
\* replay the writes and advance to end_sequence + 1 ("replay"), or fail, after
\* the writes already issued ("err").
recover(log) ==
    LET scan   == walk(log, "scan", NoStop, NoRevokes)
        revoke == walk(log, "revoke", scan.seq, NoRevokes)
        replay == walk(log, "replay", scan.seq, revoke.revokes)
    IN  IF log[0].start = 0
        THEN [status |-> "clean", writes |-> <<>>, seq |-> log[0].seq]
        ELSE IF scan.out = "err" \/ revoke.out = "err"
        THEN [status |-> "err", writes |-> <<>>, seq |-> log[0].seq]
        ELSE [status |-> IF replay.out = "err" THEN "err" ELSE "replay",
              writes |-> replay.writes,
              seq    |-> next_sequence(scan.seq)]

\* Home contents after a sequence of home writes.
Applied(home, writes) ==
    [h \in DOMAIN home |->
        LET to == {i \in DOMAIN writes : writes[i].home = h}
        IN  IF to = {} THEN home[h]
            ELSE writes[CHOOSE i \in to : \A j \in to : j <= i].image]

=============================================================================
