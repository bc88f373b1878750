------------------------- MODULE JournalTransaction -------------------------
(***************************************************************************)
(* The journaled metadata path: JournalTransactionCore and Transaction     *)
(* (journal_transaction.rs), the writable mount and its recovery           *)
(* (Ext4::initialize_journal in journal.rs, journal_recovery::recover) and *)
(* Ext4::shutdown_writable, over a block device that loses unflushed       *)
(* writes when the power fails.                                            *)
(*                                                                         *)
(* The device.  Each block has a current content, which reads return, and  *)
(* a set of contents a power loss may leave: a write adds its block, and a *)
(* torn version of it when it changes anything; a successful flush reduces *)
(* the set to the current content.  A failed write may have reached the    *)
(* device whole, in part or not at all; a failed flush promises nothing.   *)
(* The journal superblock and the RECOVER feature bit fit one sector and   *)
(* do not tear.                                                            *)
(***************************************************************************)
EXTENDS JournalLog

CONSTANTS
    InitSeq,        \* s_sequence of the freshly made journal
    MagicHomes,     \* homes whose new images start with the JBD2 magic number
    MaxCredits,     \* largest credit count a caller asks for
    MaxTx,          \* bound: transactions started
    MaxFaults,      \* bound: I/O errors
    MaxCrashes,     \* bound: crashes of a healthy mount
    WarmRestarts,   \* a mount may follow a failure while the device keeps its cache
    ResumeAfterFailedShutdown  \* the caller keeps using a mount that failed to shut down

ASSUME TransactionAssumption ==
    /\ InitSeq \in Sequences32
    /\ MagicHomes \subseteq HomeBlocks
    /\ {MaxCredits, MaxTx, MaxFaults, MaxCrashes} \subseteq Nat
    /\ WarmRestarts \in BOOLEAN
    /\ ResumeAfterFailedShutdown \in BOOLEAN

VARIABLES
    home, homeDur,  \* metadata home blocks: current content, contents a power loss may leave
    log, logDur,    \* the journal's logical blocks
    flag, flagDur,  \* FEATURE_INCOMPAT_RECOVER in the ext4 superblock
    mode,           \* "down", "mounting", "up"; "failed": a mount or shutdown met an I/O error;
                    \* "refused": the mount found the device contents unacceptable
    phase,          \* program counter of the thread that mounts, commits or shuts down
    idx,            \* next log block, or next replayed write
    rec,            \* what recover decided at this mount
    seq, head,      \* JournalContext.superblock.sequence, JournalContext.head
    writer,         \* JournalTransactionCore.writer
    poisoned,       \* JournalTransactionCore.poison
    credits, staged,\* the open Transaction
    todo,           \* homes the checkpoint has not written yet
    pub,            \* the images the in-memory caches show
    ntx, faults, crashes

device == <<home, homeDur, log, logDur, flag, flagDur>>
core == <<seq, head, writer, poisoned>>
transaction == <<credits, staged, todo>>
bounds == <<ntx, faults, crashes>>
vars == <<device, mode, phase, idx, rec, core, transaction, pub, bounds>>

-----------------------------------------------------------------------------
(* The device *)

TornImage == [ver |-> MaxTx + 1, magic |-> FALSE]

NoImages == [h \in {} |-> TornImage]

\* Writing what is there already tears nothing.
Reach(dur, n, v, torn) ==
    [dur EXCEPT ![n] = IF @ = {v} THEN @ ELSE @ \cup {v} \cup torn]

TornLog(n) == IF n = 0 THEN {} ELSE {Garbage}

Fault == faults < MaxFaults /\ faults' = faults + 1 /\ UNCHANGED <<ntx, crashes>>

LogWrite(n, b) ==
    /\ log' = [log EXCEPT ![n] = b]
    /\ logDur' = Reach(logDur, n, b, TornLog(n))
    /\ UNCHANGED <<home, homeDur, flag, flagDur, bounds>>

LogWriteFails(n, b) ==
    /\ logDur' = Reach(logDur, n, b, TornLog(n))
    /\ \E left \in logDur'[n] \cap ({log[n], b} \cup TornLog(n)) :
           log' = [log EXCEPT ![n] = left]
    /\ UNCHANGED <<home, homeDur, flag, flagDur>>
    /\ Fault

HomeWrite(h, v) ==
    /\ home' = [home EXCEPT ![h] = v]
    /\ homeDur' = Reach(homeDur, h, v, {TornImage})
    /\ UNCHANGED <<log, logDur, flag, flagDur, bounds>>

HomeWriteFails(h, v) ==
    /\ homeDur' = Reach(homeDur, h, v, {TornImage})
    /\ \E left \in homeDur'[h] \cap {home[h], v, TornImage} :
           home' = [home EXCEPT ![h] = left]
    /\ UNCHANGED <<log, logDur, flag, flagDur>>
    /\ Fault

FlagWrite(v) ==
    /\ flag' = v
    /\ flagDur' = flagDur \cup {v}
    /\ UNCHANGED <<home, homeDur, log, logDur, bounds>>

FlagWriteFails(v) ==
    /\ flag' \in {flag, v}
    /\ flagDur' = flagDur \cup {v}
    /\ UNCHANGED <<home, homeDur, log, logDur>>
    /\ Fault

Flush ==
    /\ homeDur' = [h \in HomeBlocks |-> {home[h]}]
    /\ logDur' = [n \in LogBlocks |-> {log[n]}]
    /\ flagDur' = {flag}
    /\ UNCHANGED <<home, log, flag, bounds>>

FlushFails == UNCHANGED device /\ Fault

\* Blocks whose content a power loss could change.
Dirty(cur, dur) == {n \in DOMAIN cur : dur[n] # {cur[n]}}

\* Every way a power loss can pick one content per block.
Outcomes(cur, dur) ==
    LET dirty == Dirty(cur, dur)
        picks == [dirty -> UNION {dur[n] : n \in dirty}]
    IN  {f \in {[n \in DOMAIN cur |-> IF n \in dirty THEN g[n] ELSE cur[n]] : g \in picks} :
            \A n \in DOMAIN cur : f[n] \in dur[n]}

-----------------------------------------------------------------------------
(* Initially: a clean filesystem with an empty journal, not mounted. *)

Init ==
    /\ home = [h \in HomeBlocks |-> [ver |-> 0, magic |-> FALSE]]
    /\ homeDur = [h \in HomeBlocks |-> {home[h]}]
    /\ log = [n \in LogBlocks |-> IF n = 0 THEN SuperBlock(InitSeq, 0) ELSE Garbage]
    /\ logDur = [n \in LogBlocks |-> {log[n]}]
    /\ flag = FALSE /\ flagDur = {FALSE}
    /\ mode = "down" /\ phase = "idle" /\ idx = 0
    /\ rec = [status |-> "clean", writes |-> <<>>, seq |-> InitSeq]
    /\ seq = InitSeq /\ head = First /\ writer = FALSE /\ poisoned = FALSE
    /\ credits = 0 /\ staged = NoImages /\ todo = {}
    /\ pub = home
    /\ ntx = 0 /\ faults = 0 /\ crashes = 0

-----------------------------------------------------------------------------
(* Mounting: Ext4::initialize_journal *)

\* The mount call returns an error; nothing in memory survives it.
MountFails == mode' = "failed" /\ phase' = "idle" /\ UNCHANGED pub

\* The in-memory state of a successful mount.
GoUp(sequence) ==
    /\ mode' = "up" /\ phase' = "idle"
    /\ seq' = sequence /\ head' = First
    /\ writer' = FALSE /\ poisoned' = FALSE
    /\ pub' = home

Mount ==
    /\ mode = "down"
    /\ rec' = recover(log)
    /\ idx' = 1
    /\ \/ /\ ~flag /\ log[0].start # 0
          /\ mode' = "refused" /\ UNCHANGED <<phase, core, pub>>
       \/ /\ ~flag /\ log[0].start = 0
          /\ mode' = "mounting" /\ phase' = "enable" /\ UNCHANGED <<core, pub>>
       \/ /\ flag /\ rec'.status = "clean"
          /\ GoUp(log[0].seq)
       \/ /\ flag /\ rec'.status # "clean"
          /\ mode' = "mounting" /\ phase' = "replay" /\ UNCHANGED <<core, pub>>
    /\ UNCHANGED <<device, transaction, bounds>>

\* Fault variant: the replay never moves on to the next write.
ReplayHomeStuck ==
    /\ phase = "replay" /\ idx <= Len(rec.writes)
    /\ HomeWrite(rec.writes[idx].home, rec.writes[idx].image)
    /\ UNCHANGED <<mode, phase, idx, pub, rec, core, transaction>>

\* walk in Pass::Replay: one home write.
ReplayHome ==
    /\ phase = "replay" /\ idx <= Len(rec.writes)
    /\ \/ /\ HomeWrite(rec.writes[idx].home, rec.writes[idx].image)
          /\ idx' = idx + 1 /\ UNCHANGED <<mode, phase, pub>>
       \/ /\ HomeWriteFails(rec.writes[idx].home, rec.writes[idx].image)
          /\ MountFails /\ UNCHANGED idx
    /\ UNCHANGED <<rec, core, transaction>>

\* Fault variant: the log is retired without flushing the replayed homes.
ReplayFlushSkipped ==
    /\ phase = "replay" /\ idx > Len(rec.writes)
    /\ IF rec.status = "err" THEN mode' = "refused" /\ phase' = "idle"
       ELSE phase' = "retire" /\ UNCHANGED mode
    /\ UNCHANGED <<device, bounds, pub, idx, rec, core, transaction>>

\* io.flush_home, unless the walk ended in an error.
ReplayFlush ==
    /\ phase = "replay" /\ idx > Len(rec.writes)
    /\ IF rec.status = "err"
       THEN mode' = "refused" /\ phase' = "idle" /\ UNCHANGED <<device, bounds, pub>>
       ELSE \/ Flush /\ phase' = "retire" /\ UNCHANGED <<mode, pub>>
            \/ FlushFails /\ MountFails
    /\ UNCHANGED <<idx, rec, core, transaction>>

\* recover's journal superblock: end_sequence + 1, s_start = 0.
RetireLog ==
    /\ phase = "retire"
    /\ \/ LogWrite(0, SuperBlock(rec.seq, 0)) /\ phase' = "retireflush" /\ UNCHANGED <<mode, pub>>
       \/ LogWriteFails(0, SuperBlock(rec.seq, 0)) /\ MountFails
    /\ UNCHANGED <<idx, rec, core, transaction>>

RetireFlush ==
    /\ phase = "retireflush"
    /\ \/ Flush /\ GoUp(log[0].seq)
       \/ FlushFails /\ MountFails /\ UNCHANGED core
    /\ UNCHANGED <<idx, rec, transaction>>

\* The first writable mount of a clean filesystem sets RECOVER.
EnableRecover ==
    /\ phase = "enable"
    /\ \/ FlagWrite(TRUE) /\ phase' = "enableflush" /\ UNCHANGED <<mode, pub>>
       \/ FlagWriteFails(TRUE) /\ MountFails
    /\ UNCHANGED <<idx, rec, core, transaction>>

\* Fault variant: RECOVER is not flushed before the mount is used.
EnableFlushSkipped ==
    /\ phase = "enableflush"
    /\ GoUp(log[0].seq)
    /\ UNCHANGED <<device, bounds, idx, rec, transaction>>

EnableFlush ==
    /\ phase = "enableflush"
    /\ \/ Flush /\ GoUp(log[0].seq)
       \/ FlushFails /\ MountFails /\ UNCHANGED core
    /\ UNCHANGED <<idx, rec, transaction>>

MountStep ==
    \/ ReplayHome \/ ReplayFlush \/ RetireLog \/ RetireFlush
    \/ EnableRecover \/ EnableFlush

-----------------------------------------------------------------------------
(* Transactions *)

\* Fault variant: start does not compare the reservation with the ring.
StartUnreserved(n) ==
    /\ mode = "up" /\ phase = "idle" /\ ntx < MaxTx
    /\ n # 0 /\ ~poisoned
    /\ ~writer
    /\ writer' = TRUE /\ credits' = n /\ staged' = NoImages
    /\ phase' = "open"
    /\ ntx' = ntx + 1
    /\ UNCHANGED <<device, mode, idx, rec, seq, head, poisoned, todo, pub, faults, crashes>>

\* JournalTransactionCore::start, when it succeeds.
Start(n) ==
    /\ mode = "up" /\ phase = "idle" /\ ntx < MaxTx
    /\ n # 0 /\ ~poisoned
    /\ ~writer
    /\ required_log_blocks(n) <= ring_len
    /\ writer' = TRUE /\ credits' = n /\ staged' = NoImages
    /\ phase' = "open"
    /\ ntx' = ntx + 1
    /\ UNCHANGED <<device, mode, idx, rec, seq, head, poisoned, todo, pub, faults, crashes>>

NewImage(h) == [ver |-> ntx, magic |-> h \in MagicHomes]

Stage(h) ==
    /\ phase = "open"
    /\ h \in DOMAIN staged \/ Cardinality(DOMAIN staged) # credits
    /\ staged' = [g \in DOMAIN staged \cup {h} |->
                     IF g = h THEN NewImage(h) ELSE staged[g]]
    /\ UNCHANGED <<device, mode, phase, idx, rec, core, credits, todo, pub, bounds>>

\* release_writer, and the Transaction value is gone.
Release == writer' = FALSE /\ phase' = "idle" /\ credits' = 0 /\ staged' = NoImages /\ todo' = {}

\* abort, Drop, a commit of nothing, and a commit refused before its first write
\* (E2BIG, or EINVAL for a target that is outside the filesystem or in the
\* journal): all of them only release the writer.
Committable ==
    /\ staged # NoImages
    /\ required_log_blocks(Cardinality(DOMAIN staged)) <= ring_len
    /\ DOMAIN staged \subseteq HomeBlocks

Discard ==
    /\ phase = "open"
    /\ Release
    /\ UNCHANGED <<device, mode, idx, rec, seq, head, poisoned, pub, bounds>>

Commit ==
    /\ phase = "open" /\ Committable
    /\ phase' = "tail" /\ idx' = 1 /\ todo' = DOMAIN staged
    /\ UNCHANGED <<device, mode, rec, core, credits, staged, pub, bounds>>

\* Fault variant: an I/O error leaves the writer slot taken.
FailKeepingWriter ==
    /\ poisoned' = TRUE /\ writer' = TRUE
    /\ phase' = "idle" /\ credits' = 0 /\ staged' = NoImages /\ todo' = {}
    /\ UNCHANGED <<idx, seq, head, pub>>

\* Transaction::fail with poison set: every I/O error of a commit.
Fail ==
    /\ poisoned' = TRUE
    /\ Release
    /\ UNCHANGED <<idx, seq, head, pub>>

Goto(p) == phase' = p /\ UNCHANGED <<idx, core, transaction, pub>>

Encoded == encode_log(seq, staged)

\* Descriptors and images; the commit block takes the next ring position.
LogLength == required_log_blocks(Cardinality(DOMAIN staged)) - 1

CommitPosition == ring_position(head, LogLength)

\* The active tail.
WriteTail ==
    /\ phase = "tail"
    /\ \/ LogWrite(0, SuperBlock(seq, head)) /\ Goto("tailflush")
       \/ LogWriteFails(0, SuperBlock(seq, head)) /\ Fail
    /\ UNCHANGED <<mode, rec>>

FlushTail ==
    /\ phase = "tailflush"
    /\ (Flush /\ Goto("log")) \/ (FlushFails /\ Fail)
    /\ UNCHANGED <<mode, rec>>

\* Descriptors and escaped images.
WriteLog ==
    /\ phase = "log" /\ idx <= LogLength
    /\ \/ /\ LogWrite(ring_position(head, idx - 1), Encoded[idx])
          /\ idx' = idx + 1 /\ UNCHANGED <<phase, core, transaction, pub>>
       \/ LogWriteFails(ring_position(head, idx - 1), Encoded[idx]) /\ Fail
    /\ UNCHANGED <<mode, rec>>

\* Fault variant: the commit block is written before the log is durable.
FlushLogSkipped ==
    /\ phase = "log" /\ idx > LogLength
    /\ Goto("commit")
    /\ UNCHANGED <<device, bounds, mode, rec>>

FlushLog ==
    /\ phase = "log" /\ idx > LogLength
    /\ (Flush /\ Goto("commit")) \/ (FlushFails /\ Fail)
    /\ UNCHANGED <<mode, rec>>

WriteCommit ==
    /\ phase = "commit"
    /\ \/ LogWrite(CommitPosition, encode_commit(seq)) /\ Goto("commitflush")
       \/ LogWriteFails(CommitPosition, encode_commit(seq)) /\ Fail
    /\ UNCHANGED <<mode, rec>>

\* Fault variant: the homes are written before the commit block is durable.
FlushCommitSkipped ==
    /\ phase = "commitflush"
    /\ Goto("home")
    /\ UNCHANGED <<device, bounds, mode, rec>>

FlushCommit ==
    /\ phase = "commitflush"
    /\ (Flush /\ Goto("home")) \/ (FlushFails /\ Fail)
    /\ UNCHANGED <<mode, rec>>

\* The checkpoint writes the homes in ascending order.
WriteHome ==
    /\ phase = "home"
    /\ \E h \in todo :
        /\ \A g \in todo : h <= g
        /\ \/ /\ HomeWrite(h, staged[h])
              /\ todo' = todo \ {h}
              /\ UNCHANGED <<phase, idx, core, credits, staged, pub>>
           \/ HomeWriteFails(h, staged[h]) /\ Fail
    /\ UNCHANGED <<mode, rec>>

\* The caches are updated once the homes are durable.
FlushHome ==
    /\ phase = "home" /\ todo = {}
    /\ \/ /\ Flush
          /\ pub' = [h \in HomeBlocks |-> IF h \in DOMAIN staged THEN staged[h] ELSE pub[h]]
          /\ phase' = "clean" /\ UNCHANGED <<idx, core, transaction>>
       \/ FlushFails /\ Fail
    /\ UNCHANGED <<mode, rec>>

WriteClean ==
    /\ phase = "clean"
    /\ \/ LogWrite(0, SuperBlock(next_sequence(seq), 0)) /\ Goto("cleanflush")
       \/ LogWriteFails(0, SuperBlock(next_sequence(seq), 0)) /\ Fail
    /\ UNCHANGED <<mode, rec>>

FlushClean ==
    /\ phase = "cleanflush"
    /\ \/ /\ Flush
          /\ seq' = next_sequence(seq)
          /\ head' = ring_next(CommitPosition)
          /\ Release
          /\ UNCHANGED <<poisoned, idx, pub>>
       \/ FlushFails /\ Fail
    /\ UNCHANGED <<mode, rec>>

CommitStep ==
    \/ WriteTail \/ FlushTail \/ WriteLog \/ FlushLog \/ WriteCommit \/ FlushCommit
    \/ WriteHome \/ FlushHome \/ WriteClean \/ FlushClean

-----------------------------------------------------------------------------
(* Leaving: shutdown_writable, power loss, process restart *)

can_shutdown == ~writer /\ ~poisoned

Shutdown ==
    /\ mode = "up" /\ phase = "idle" /\ can_shutdown
    /\ phase' = "disable"
    /\ UNCHANGED <<device, mode, idx, rec, core, transaction, pub, bounds>>

ShutdownFails ==
    /\ mode' = IF ResumeAfterFailedShutdown THEN "up" ELSE "failed"
    /\ phase' = "idle"

DisableRecover ==
    /\ phase = "disable"
    /\ \/ FlagWrite(FALSE) /\ phase' = "disableflush" /\ UNCHANGED mode
       \/ FlagWriteFails(FALSE) /\ ShutdownFails
    /\ UNCHANGED <<idx, rec, core, transaction, pub>>

DisableFlush ==
    /\ phase = "disableflush"
    /\ \/ Flush /\ mode' = "down" /\ phase' = "idle"
       \/ FlushFails /\ ShutdownFails
    /\ UNCHANGED <<idx, rec, core, transaction, pub>>

ShutdownStep == DisableRecover \/ DisableFlush

\* A poisoned or failed mount can only be abandoned, so its crashes need no bound.
Abandoned == poisoned \/ mode \in {"failed", "refused"}

Crash ==
    /\ mode # "down"
    /\ Abandoned \/ crashes < MaxCrashes
    /\ crashes' = IF Abandoned THEN crashes ELSE crashes + 1
    /\ mode' = "down" /\ phase' = "idle" /\ writer' = FALSE /\ poisoned' = FALSE
    /\ credits' = 0 /\ staged' = NoImages /\ todo' = {} /\ idx' = 0
    /\ UNCHANGED <<rec, seq, head, pub, ntx, faults>>

PowerLoss ==
    /\ Crash
    /\ home' \in Outcomes(home, homeDur) /\ homeDur' = [h \in HomeBlocks |-> {home'[h]}]
    /\ log' \in Outcomes(log, logDur) /\ logDur' = [n \in LogBlocks |-> {log'[n]}]
    /\ flag' \in flagDur /\ flagDur' = {flag'}

\* The process dies, or the caller tries again, and the device loses nothing.
WarmRestart == WarmRestarts /\ Crash /\ UNCHANGED device

-----------------------------------------------------------------------------
Next ==
    \/ Mount \/ MountStep
    \/ \E n \in 1 .. MaxCredits : Start(n)
    \/ \E h \in HomeBlocks \cup JournalBlocks : Stage(h)
    \/ Discard \/ Commit \/ CommitStep
    \/ Shutdown \/ ShutdownStep
    \/ PowerLoss \/ WarmRestart

Spec == Init /\ [][Next]_vars

\* A mount or a commit, once begun, is run to its end by the thread that called
\* it; a filesystem that went down is mounted again, and a machine that could not
\* mount it is restarted.
FairSpec ==
    /\ Spec
    /\ WF_vars(Mount) /\ WF_vars(MountStep)
    /\ WF_vars(mode = "failed" /\ PowerLoss)
    /\ WF_vars(CommitStep) /\ WF_vars(ShutdownStep)

-----------------------------------------------------------------------------
(* Properties *)

Committing == {"tail", "tailflush", "log", "commit", "commitflush",
               "home", "clean", "cleanflush"}

Mounting == {"replay", "retire", "retireflush", "enable", "enableflush"}

LogBlock ==
    [type : {"super"}, seq : Sequences32, start : {0} \cup Ring]
    \cup [type : {"desc"}, seq : Sequences32, sum : {TRUE},
          tags : Seq([home : HomeBlocks, escape : BOOLEAN, deleted : {FALSE},
                      sum : {NoSum} \cup (Sequences32 \X Image)])]
    \cup [type : {"data"}, image : Image]
    \cup [type : {"commit"}, seq : Sequences32, sum : {TRUE}]
    \cup {Garbage}

TypeOK ==
    /\ home \in [HomeBlocks -> Image]
    /\ homeDur \in [HomeBlocks -> SUBSET Image]
    /\ \A h \in HomeBlocks : home[h] \in homeDur[h]
    /\ log \in [LogBlocks -> LogBlock]
    /\ \A n \in LogBlocks : log[n] \in logDur[n] /\ \A b \in logDur[n] : b \in LogBlock
    /\ flag \in flagDur /\ flagDur \subseteq BOOLEAN
    /\ mode \in {"down", "mounting", "up", "failed", "refused"}
    /\ phase \in {"idle", "open", "disable", "disableflush"} \cup Committing \cup Mounting
    /\ idx \in Nat
    /\ seq \in Sequences32 /\ head \in Ring
    /\ writer \in BOOLEAN /\ poisoned \in BOOLEAN
    /\ credits \in Nat
    /\ DOMAIN staged \subseteq HomeBlocks \cup JournalBlocks
    /\ \A h \in DOMAIN staged : staged[h] \in Image
    /\ todo \subseteq DOMAIN staged
    /\ pub \in [HomeBlocks -> Image]

\* Write-ahead logging: while any home block is not yet
\* durable, the journal superblock, the log, the commit block and RECOVER all
\* are, and the superblock points at the log (the flushes of commit_journal,
\* journal_transaction.rs:591-622).
WriteAhead ==
    Dirty(home, homeDur) # {} =>
        Dirty(log, logDur) = {} /\ log[0].start # 0 /\ flag /\ flagDur = {flag}

\* What a mount that finds log l and RECOVER f would do, and what it would make
\* of the homes h.
Decision(l, f) ==
    IF f THEN recover(l)
    ELSE [status |-> IF l[0].start = 0 THEN "clean" ELSE "err", writes |-> <<>>, seq |-> 0]

Broken == [h \in HomeBlocks |-> TornImage]

Recovered(h, decision) ==
    IF decision.status = "err" THEN Broken ELSE Applied(h, decision.writes)

CrashStores ==
    {Recovered(h, d) :
        h \in Outcomes(home, homeDur),
        d \in {Decision(l, f) : l \in Outcomes(log, logDur), f \in flagDur}}

Abstract == INSTANCE CrashStore WITH
    Homes <- HomeBlocks, Images <- Image,
    possible <- CrashStores, visible <- pub, request <- staged, up <- (mode = "up")

\* Transactions are atomic and durable whatever the power does, and the caches
\* show a store only when no crash can take it back (CachePublisher::publish is
\* called after the home flush): the mount, commit and recovery implement
\* CrashStore.
AtomicAndDurable == Abstract!Spec

\* RECOVER is durably set from before the first transaction of a mount until
\* its shutdown begins: "Linux keeps RECOVER set for the complete read-write mount
\* lifetime. Publish it before the first new journal transaction."
\* (journal.rs:339-341)
RecoverDurable ==
    mode = "up" /\ phase \notin {"disable", "disableflush"} => flagDur = {TRUE}

\* While a mount is under way or has failed, recovery after a power loss now would
\* leave no home block half written (recover, journal_recovery.rs:69-98).
HomesRepairable ==
    mode \in {"mounting", "failed"} =>
        \A s \in CrashStores : \A h \in HomeBlocks : s[h] # TornImage

\* "On any error the journal superblock is not changed, so a later mount can retry
\* recovery" (journal_recovery.rs:48): whatever interrupts a mount, no later one
\* is left with a half-written home block, and none is refused on a device this
\* code wrote: not because a start is set without RECOVER (journal.rs:264), and
\* not because the walk finds corruption in a log that a crash cut short
\* (journal_recovery.rs:111-256).
RetryRepairs == mode # "refused" /\ HomesRepairable

\* A transaction may start only under a sequence number that no block left in
\* the ring by an earlier one carries, or could carry after a crash: otherwise
\* the scan would read on into stale blocks (the + 1 of journal_recovery.rs:98
\* and the sequence step of journal_transaction.rs:589).
SequenceFresh ==
    mode = "up" /\ phase \in {"idle", "open"} /\ ~poisoned =>
        \A n \in Ring : \A b \in logDur[n] : ~header_matches(b, seq)

\* What start reserved is enough for what commit needs, and the log positions of
\* one transaction are distinct (journal_transaction.rs:236 and 532).
ReservationSuffices ==
    writer => /\ required_log_blocks(Cardinality(DOMAIN staged)) <= ring_len
              /\ Cardinality(DOMAIN staged) <= credits

\* A mount that has begun does not fail and start over forever: it ends mounted,
\* or refused (which RetryRepairs excludes when every failure is followed by a
\* power loss), however it is cut short by I/O errors, power losses and restarts
\* (initialize_journal, journal.rs:267-345).
RecoveryCompletes == mode = "mounting" ~> mode \in {"up", "refused"}

\* Every commit gives the single writer slot back (Transaction::fail and
\* release_writer on each path).
WriterReleased == phase \in Committing ~> ~writer

=============================================================================
