---------------------- MODULE JournalTransactionProofs ----------------------
(***************************************************************************)
(* Write-ahead logging and crash atomicity hold for every set of home      *)
(* blocks, every ring, every descriptor capacity and any number of I/O     *)
(* errors and power losses, on a device whose cache does not outlive the   *)
(* mount: the mount implements CrashStore.  A commit fits the ring that    *)
(* start reserved it in, on any device.                                    *)
(*                                                                         *)
(* Crash atomicity rests on what JournalLogProofs shows of recover.  Its   *)
(* invariant, RInv, says which contents each block of the device may have  *)
(* in each phase of a mount, a commit, a recovery or a shutdown; Stores is *)
(* what recovery makes of them; and one lemma for each action shows that   *)
(* it keeps RInv and which step of CrashStore it is.                       *)
(***************************************************************************)
EXTENDS JournalTransaction, JournalLogProofs

-----------------------------------------------------------------------------
(* The inductive invariant *)

\* The device keeps its shape.
DeviceOK ==
    /\ home = [h \in HomeBlocks |-> home[h]]
    /\ homeDur = [h \in HomeBlocks |-> homeDur[h]]
    /\ log = [n \in LogBlocks |-> log[n]]
    /\ logDur = [n \in LogBlocks |-> logDur[n]]
    /\ flag \in BOOLEAN /\ flagDur \subseteq BOOLEAN

\* Which thread is where, and what it keeps in memory.
ControlOK ==
    /\ idx \in Nat /\ (phase \in {"tail", "tailflush", "log"} => idx > 0)
    /\ head \in Nat /\ head > 0
    /\ IsFiniteSet(DOMAIN staged)
    /\ phase \in {"idle", "open", "disable", "disableflush"} \cup Committing \cup Mounting
    /\ phase \in Mounting => mode = "mounting"
    /\ phase \in Committing \cup {"open", "disable", "disableflush"} => mode = "up"

HomesClean == \A h \in HomeBlocks : homeDur[h] = {home[h]}

LogClean == \A n \in LogBlocks : logDur[n] = {log[n]}

RecoverSet == flag = TRUE /\ flagDur = {TRUE}

\* The log is durable and the next mount would read it.
Protected == LogClean /\ log[0].start # 0 /\ RecoverSet

\* Between mounts nothing is in the device's cache.
DownClean == mode = "down" => HomesClean /\ LogClean /\ flagDur = {flag}

\* RECOVER is set throughout the mount.
UpRecover ==
    /\ mode = "up" /\ phase \notin {"disable", "disableflush"} => RecoverSet
    /\ phase \in {"retire", "retireflush", "enableflush"} => flag = TRUE

\* The superblock points at the transaction that is being logged.
TailActive ==
    phase \in {"tailflush", "log", "commit", "commitflush", "home"} =>
        log[0] = SuperBlock(seq, head)

\* Home blocks are dirty only between a durable log and the next flush.
HomeDiscipline ==
    /\ phase \in {"home", "replay"} => Protected
    /\ phase \notin {"home", "replay", "idle"} => HomesClean
    /\ mode = "up" /\ phase = "idle" /\ poisoned = FALSE => HomesClean
    /\ HomesClean \/ Protected

IInv == DeviceOK /\ ControlOK /\ DownClean /\ UpRecover /\ TailActive /\ HomeDiscipline

-----------------------------------------------------------------------------
(* Facts about the ring *)

LEMMA LogZero == 0 \in LogBlocks
  BY RingAssumption DEF LogBlocks

\* The log never overwrites the journal superblock at logical block 0.
LEMMA PositionNotZero ==
    ASSUME NEW p \in Nat, p > 0, NEW i \in Nat
    PROVE  ring_position(p, i) \in Nat /\ ring_position(p, i) > 0 /\ ring_position(p, i) # 0
  BY RingAssumption DEF ring_position, ring_len

LEMMA NextNotZero ==
    ASSUME NEW p \in Nat, p > 0
    PROVE  ring_next(p) \in Nat /\ ring_next(p) > 0
  BY RingAssumption DEF ring_next

LEMMA DescriptorsNat ==
    ASSUME NEW n \in Nat
    PROVE  descriptors(n) \in Nat
  <1> DEFINE a == n + PerDescriptor - 1
             q == a \div PerDescriptor
  <1>1. PerDescriptor \in Nat /\ PerDescriptor > 0 /\ a \in Nat
    BY RingAssumption
  <1>2. q \in Int /\ a < PerDescriptor * (q + 1)
    BY <1>1
  <1>3. q >= 0
    <2>1. SUFFICES ASSUME q + 1 <= 0 PROVE FALSE
      BY <1>2
    <2>2. PerDescriptor * (q + 1) <= 0
      BY <1>1, <1>2, <2>1
    <2> QED BY <1>1, <1>2, <2>2
  <1> QED BY <1>2, <1>3 DEF descriptors

LEMMA LogLengthNat ==
    ASSUME IsFiniteSet(DOMAIN staged)
    PROVE  LogLength \in Nat
  <1>1. Cardinality(DOMAIN staged) \in Nat
    BY FS_CardinalityType
  <1> QED BY <1>1, DescriptorsNat DEF LogLength, required_log_blocks

LEMMA RecoverClean == log[0].start = 0 => recover(log).status = "clean"
  BY DEF recover

-----------------------------------------------------------------------------
(* Facts about the device *)

LEMMA FlushEffect ==
    ASSUME DeviceOK, Flush
    PROVE  /\ DeviceOK' /\ HomesClean' /\ LogClean'
           /\ log' = log /\ flag' = flag /\ flagDur' = {flag}
  BY DEF Flush, DeviceOK, HomesClean, LogClean

LEMMA LogWriteEffect ==
    ASSUME DeviceOK, NEW n \in Nat, NEW b, LogWrite(n, b) \/ LogWriteFails(n, b)
    PROVE  /\ DeviceOK'
           /\ HomesClean => HomesClean'
           /\ UNCHANGED <<flag, flagDur>>
           /\ n # 0 => log'[0] = log[0]
           /\ LogWrite(n, b) /\ n \in LogBlocks => log'[n] = b
  BY LogZero DEF LogWrite, LogWriteFails, DeviceOK, HomesClean, Reach

LEMMA HomeWriteEffect ==
    ASSUME DeviceOK, NEW h, NEW v, HomeWrite(h, v) \/ HomeWriteFails(h, v)
    PROVE  DeviceOK' /\ UNCHANGED <<log, logDur, flag, flagDur>>
  BY DEF HomeWrite, HomeWriteFails, DeviceOK, Reach

LEMMA FlagWriteEffect ==
    ASSUME DeviceOK, NEW v \in BOOLEAN, FlagWrite(v) \/ FlagWriteFails(v)
    PROVE  /\ DeviceOK' /\ UNCHANGED <<home, homeDur, log, logDur>>
           /\ FlagWrite(v) => flag' = v
  BY DEF FlagWrite, FlagWriteFails, DeviceOK

LEMMA PowerLossEffect ==
    ASSUME DeviceOK, PowerLoss
    PROVE  DeviceOK' /\ HomesClean' /\ LogClean' /\ flagDur' = {flag'}
  BY DEF PowerLoss, DeviceOK, HomesClean, LogClean, Outcomes

-----------------------------------------------------------------------------
(* The induction *)

LEMMA InitIInv == Init => IInv
  <1> SUFFICES ASSUME Init PROVE IInv
    OBVIOUS
  <1>1. DeviceOK
    BY DEF Init, DeviceOK
  <1>2. HomesClean /\ LogClean
    BY DEF Init, HomesClean, LogClean
  <1>3. ControlOK
    <2>1. IsFiniteSet(DOMAIN staged)
      BY FS_EmptySet DEF Init, NoImages
    <2> QED BY <2>1, RingAssumption DEF Init, ControlOK, Committing, Mounting
  <1>4. DownClean /\ UpRecover /\ TailActive /\ HomeDiscipline
    BY <1>2 DEF Init, DownClean, UpRecover, TailActive, HomeDiscipline
  <1> QED BY <1>1, <1>3, <1>4 DEF IInv

\* A step that leaves the device alone.
LEMMA SameDevice ==
    ASSUME UNCHANGED device
    PROVE  /\ DeviceOK => DeviceOK'
           /\ HomesClean => HomesClean'
           /\ LogClean => LogClean'
           /\ Protected => Protected'
           /\ RecoverSet => RecoverSet'
           /\ log' = log /\ flag' = flag /\ flagDur' = flagDur
  BY DEF device, DeviceOK, HomesClean, LogClean, Protected, RecoverSet

-----------------------------------------------------------------------------
(* Control: an invariant of its own *)

LEMMA StageFinite ==
    ASSUME NEW h, IsFiniteSet(DOMAIN staged), Stage(h)
    PROVE  IsFiniteSet(DOMAIN staged')
  <1>1. DOMAIN staged' = DOMAIN staged \cup {h}
    BY DEF Stage
  <1> QED BY <1>1, FS_AddElement

LEMMA NoImagesFinite == IsFiniteSet(DOMAIN NoImages)
  <1>1. DOMAIN NoImages = {}
    BY DEF NoImages
  <1> QED BY <1>1, FS_EmptySet

LEMMA ControlStep ==
    ASSUME ControlOK, [Next]_vars
    PROVE  ControlOK'
  <1> USE DEF ControlOK, Committing, Mounting, core, transaction
  <1>1. CASE UNCHANGED vars
    BY <1>1 DEF vars
  <1>2. CASE Mount
    BY <1>2, RingAssumption DEF Mount, GoUp
  <1>3. CASE MountStep
    <2>1. CASE ReplayHome \/ ReplayFlush
      BY <2>1 DEF ReplayHome, ReplayFlush, MountFails
    <2>2. CASE RetireLog \/ EnableRecover
      BY <2>2 DEF RetireLog, EnableRecover, MountFails
    <2>3. CASE RetireFlush \/ EnableFlush
      BY <2>3, RingAssumption DEF RetireFlush, EnableFlush, MountFails, GoUp
    <2> QED BY <1>3, <2>1, <2>2, <2>3 DEF MountStep
  <1>4. ASSUME NEW n \in 1 .. MaxCredits, Start(n) PROVE ControlOK'
    BY <1>4, NoImagesFinite DEF Start
  <1>5. ASSUME NEW h, Stage(h) PROVE ControlOK'
    BY <1>5, StageFinite DEF Stage
  <1>6. CASE Discard
    BY <1>6, NoImagesFinite DEF Discard, Release
  <1>7. CASE Commit
    BY <1>7 DEF Commit
  <1>8. CASE CommitStep
    <2>1. CASE Fail /\ UNCHANGED <<mode, rec>>
      BY <2>1, NoImagesFinite DEF Fail, Release
    <2>2. CASE FlushClean /\ ~Fail
      <3>1. LogLength \in Nat
        BY LogLengthNat
      <3>2. head' \in Nat /\ head' > 0
        BY <2>2, <3>1, PositionNotZero, NextNotZero DEF FlushClean, CommitPosition
      <3> QED BY <2>2, <3>2, NoImagesFinite DEF FlushClean, Release
    <2> QED
      BY <1>8, <2>1, <2>2
      DEF CommitStep, WriteTail, FlushTail, WriteLog, FlushLog, WriteCommit, FlushCommit,
          WriteHome, FlushHome, WriteClean, FlushClean, Goto
  <1>9. CASE Shutdown \/ ShutdownStep
    BY <1>9 DEF Shutdown, ShutdownStep, DisableRecover, DisableFlush, ShutdownFails
  <1>10. CASE PowerLoss \/ WarmRestart
    BY <1>10, NoImagesFinite DEF PowerLoss, WarmRestart, Crash
  <1> QED
    BY <1>1, <1>2, <1>3, <1>4, <1>5, <1>6, <1>7, <1>8, <1>9, <1>10 DEF Next

-----------------------------------------------------------------------------
(* Durability: how the invariant is re-established *)

\* A step after which no thread is at work.
LEMMA CloseIdle ==
    ASSUME DeviceOK', ControlOK', phase' = "idle", mode' # "down",
           HomesClean' \/ Protected',
           mode' = "up" => RecoverSet' /\ (poisoned' = FALSE => HomesClean')
    PROVE  IInv'
  BY DEF IInv, DownClean, UpRecover, TailActive, HomeDiscipline

\* A step after which a thread goes on with clean homes.
LEMMA CloseClean ==
    ASSUME DeviceOK', ControlOK', mode' # "down",
           phase' \notin {"idle", "home", "replay"},
           HomesClean', UpRecover', TailActive'
    PROVE  IInv'
  BY DEF IInv, DownClean, HomeDiscipline

\* A step after which a thread goes on writing homes.
LEMMA CloseProtected ==
    ASSUME DeviceOK', ControlOK', mode' # "down", phase' \in {"home", "replay"},
           Protected', TailActive'
    PROVE  IInv'
  BY DEF IInv, DownClean, UpRecover, HomeDiscipline, Protected

\* Mounting and recovery.
LEMMA MountStepIInv ==
    ASSUME IInv, Mount \/ MountStep, ControlOK'
    PROVE  IInv'
  <1> USE DEF IInv, HomeDiscipline
  <1>0. flag \in BOOLEAN
    BY DEF DeviceOK
  <1>1. CASE Mount
    <2>1. UNCHANGED device /\ DeviceOK'
      BY <1>1, SameDevice DEF Mount
    <2>2. HomesClean /\ LogClean /\ flagDur = {flag} /\ HomesClean'
      BY <1>1, <2>1, SameDevice DEF Mount, DownClean
    <2>3. CASE mode' = "refused"
      BY <1>1, <2>1, <2>2, <2>3, CloseIdle
      DEF Mount, ControlOK, Committing, Mounting, GoUp
    <2>4. CASE phase' = "enable"
      BY <1>1, <2>1, <2>2, <2>4, CloseClean DEF Mount, UpRecover, TailActive, GoUp
    <2>5. CASE flag /\ GoUp(log[0].seq)
      <3>1. RecoverSet'
        BY <1>0, <2>1, <2>2, <2>5, SameDevice DEF RecoverSet
      <3> QED BY <2>1, <2>2, <2>5, <3>1, CloseIdle DEF GoUp
    <2>6. CASE flag /\ rec'.status # "clean" /\ mode' = "mounting" /\ phase' = "replay"
      <3>1. log[0].start # 0
        BY <1>1, <2>6, RecoverClean DEF Mount
      <3>2. Protected'
        BY <1>0, <2>1, <2>2, <2>6, <3>1, SameDevice DEF Protected, RecoverSet
      <3> QED BY <2>1, <2>6, <3>2, CloseProtected DEF TailActive
    <2> QED BY <1>1, <2>3, <2>4, <2>5, <2>6 DEF Mount
  <1>2. CASE ReplayHome
    <2>1. DeviceOK' /\ UNCHANGED <<log, logDur, flag, flagDur>>
      BY <1>2, HomeWriteEffect DEF ReplayHome
    <2>2. Protected'
      BY <1>2, <2>1 DEF ReplayHome, Protected, LogClean, RecoverSet
    <2>3. CASE MountFails
      BY <2>1, <2>2, <2>3, CloseIdle DEF MountFails
    <2>4. CASE UNCHANGED <<mode, phase>>
      BY <1>2, <2>1, <2>2, <2>4, CloseProtected DEF ReplayHome, TailActive, ControlOK, Mounting
    <2> QED BY <1>2, <2>3, <2>4 DEF ReplayHome
  <1>3. CASE ReplayFlush
    <2>1. mode = "mounting" /\ Protected
      BY <1>3 DEF ReplayFlush, ControlOK, Mounting
    <2>2. CASE Flush /\ phase' = "retire" /\ UNCHANGED mode
      BY <2>1, <2>2, FlushEffect, CloseClean DEF Protected, RecoverSet, UpRecover, TailActive
    <2>3. CASE UNCHANGED device /\ phase' = "idle" /\ mode' \in {"refused", "failed"}
      BY <2>1, <2>3, SameDevice, CloseIdle
    <2> QED BY <1>3, <2>2, <2>3 DEF ReplayFlush, FlushFails, MountFails
  <1>4. CASE RetireLog
    <2>1. DeviceOK' /\ HomesClean' /\ UNCHANGED <<flag, flagDur>>
      BY <1>4, LogWriteEffect DEF RetireLog
    <2>2. CASE MountFails
      BY <2>1, <2>2, CloseIdle DEF MountFails
    <2>3. CASE phase' = "retireflush" /\ UNCHANGED mode
      BY <1>4, <2>1, <2>3, CloseClean
      DEF RetireLog, UpRecover, TailActive, ControlOK, Mounting
    <2> QED BY <1>4, <2>2, <2>3 DEF RetireLog
  <1>5. CASE RetireFlush \/ EnableFlush
    <2>1. HomesClean /\ flag = TRUE
      BY <1>5 DEF RetireFlush, EnableFlush, UpRecover
    <2>2. CASE Flush /\ GoUp(log[0].seq)
      BY <2>1, <2>2, FlushEffect, CloseIdle DEF GoUp, RecoverSet
    <2>3. CASE UNCHANGED device /\ MountFails
      BY <2>1, <2>3, SameDevice, CloseIdle DEF MountFails
    <2> QED BY <1>5, <2>2, <2>3 DEF RetireFlush, EnableFlush, FlushFails
  <1>6. CASE EnableRecover
    <2>1. DeviceOK' /\ UNCHANGED <<home, homeDur>>
      BY <1>6, FlagWriteEffect DEF EnableRecover
    <2>2. HomesClean'
      BY <1>6, <2>1 DEF EnableRecover, HomesClean
    <2>3. CASE MountFails
      BY <2>1, <2>2, <2>3, CloseIdle DEF MountFails
    <2>4. CASE FlagWrite(TRUE) /\ phase' = "enableflush" /\ UNCHANGED mode
      BY <1>6, <2>1, <2>2, <2>4, CloseClean
      DEF EnableRecover, FlagWrite, UpRecover, TailActive, ControlOK, Mounting
    <2> QED BY <1>6, <2>3, <2>4 DEF EnableRecover
  <1> QED BY <1>1, <1>2, <1>3, <1>4, <1>5, <1>6 DEF MountStep

\* Starting, filling, dropping a transaction, and entering its commit.
LEMMA OpenStepIInv ==
    ASSUME IInv, ControlOK', UNCHANGED <<device, mode>>, mode = "up",
           phase \in {"idle", "open"}, HomesClean,
           phase' \in {"idle", "open", "tail", "disable"}
    PROVE  IInv'
  <1>1. DeviceOK' /\ HomesClean' /\ RecoverSet'
    BY SameDevice DEF IInv, UpRecover
  <1>2. CASE phase' = "idle"
    BY <1>1, <1>2, CloseIdle
  <1>3. CASE phase' # "idle"
    BY <1>1, <1>3, CloseClean DEF UpRecover, TailActive
  <1> QED BY <1>2, <1>3

\* Transaction::fail, wherever it is called.
LEMMA FailIInv ==
    ASSUME Fail, UNCHANGED mode, mode = "up", DeviceOK', ControlOK', RecoverSet',
           HomesClean' \/ Protected'
    PROVE  IInv'
  BY CloseIdle DEF Fail, Release

LEMMA CommitStepIInv ==
    ASSUME IInv, CommitStep, ControlOK'
    PROVE  IInv'
  <1> USE DEF IInv
  <1>0. /\ mode = "up" /\ UNCHANGED <<mode, rec>> /\ RecoverSet
        /\ phase # "home" => HomesClean
        /\ phase = "home" => Protected
    BY DEF CommitStep, WriteTail, FlushTail, WriteLog, FlushLog, WriteCommit, FlushCommit,
           WriteHome, FlushHome, WriteClean, FlushClean, ControlOK, Committing, UpRecover,
           HomeDiscipline
  <1>h. head \in Nat /\ head > 0
    BY DEF ControlOK
  <1>1. CASE WriteTail
    <2>1. DeviceOK' /\ HomesClean' /\ RecoverSet'
      BY <1>0, <1>1, LogWriteEffect DEF WriteTail, RecoverSet
    <2>2. CASE Fail
      BY <1>0, <2>1, <2>2, FailIInv
    <2>3. CASE LogWrite(0, SuperBlock(seq, head)) /\ Goto("tailflush")
      <3>1. log'[0] = SuperBlock(seq, head) /\ seq' = seq /\ head' = head
        BY <2>3, LogWriteEffect, LogZero DEF Goto, core
      <3> QED
        BY <1>0, <2>1, <2>3, <3>1, CloseClean DEF Goto, UpRecover, TailActive, SuperBlock
    <2> QED BY <1>1, <2>2, <2>3 DEF WriteTail
  <1>2. CASE WriteLog
    <2>1. idx - 1 \in Nat
      BY <1>2 DEF WriteLog, ControlOK
    <2>2. ring_position(head, idx - 1) \in Nat /\ ring_position(head, idx - 1) # 0
      BY <1>h, <2>1, PositionNotZero
    <2>3. DeviceOK' /\ HomesClean' /\ RecoverSet' /\ log'[0] = log[0]
      BY <1>0, <1>2, <2>2, LogWriteEffect DEF WriteLog, RecoverSet
    <2>4. CASE Fail
      BY <1>0, <2>3, <2>4, FailIInv
    <2>5. CASE UNCHANGED <<phase, core>>
      BY <1>0, <1>2, <2>3, <2>5, CloseClean
      DEF WriteLog, UpRecover, TailActive, core, SuperBlock
    <2> QED BY <1>2, <2>4, <2>5 DEF WriteLog
  <1>3. CASE WriteCommit
    <2>1. CommitPosition \in Nat /\ CommitPosition # 0
      <3>1. LogLength \in Nat
        BY LogLengthNat DEF ControlOK
      <3> QED BY <1>h, <3>1, PositionNotZero DEF CommitPosition
    <2>2. DeviceOK' /\ HomesClean' /\ RecoverSet' /\ log'[0] = log[0]
      BY <1>0, <1>3, <2>1, LogWriteEffect DEF WriteCommit, RecoverSet
    <2>3. CASE Fail
      BY <1>0, <2>2, <2>3, FailIInv
    <2>4. CASE Goto("commitflush")
      BY <1>0, <1>3, <2>2, <2>4, CloseClean
      DEF WriteCommit, Goto, UpRecover, TailActive, core, SuperBlock
    <2> QED BY <1>3, <2>3, <2>4 DEF WriteCommit
  <1>4. CASE FlushTail \/ FlushLog \/ FlushCommit
    <2>1. CASE Flush /\ (Goto("log") \/ Goto("commit") \/ Goto("home"))
      <3>1. DeviceOK' /\ HomesClean' /\ LogClean' /\ RecoverSet'
        BY <1>0, <2>1, FlushEffect DEF RecoverSet
      <3>2. log'[0] = SuperBlock(seq, head) /\ seq' = seq /\ head' = head
        BY <1>4, <2>1, FlushEffect
        DEF FlushTail, FlushLog, FlushCommit, TailActive, Goto, core
      <3>3. TailActive'
        BY <3>2 DEF TailActive, SuperBlock
      <3>4. CASE phase' = "home"
        <4>1. log'[0].start # 0
          BY <1>h, <3>2 DEF SuperBlock
        <4> QED
          BY <1>0, <3>1, <3>3, <3>4, <4>1, CloseProtected DEF Protected
      <3>5. CASE phase' \in {"log", "commit"}
        BY <1>0, <3>1, <3>3, <3>5, CloseClean DEF UpRecover
      <3> QED BY <2>1, <3>4, <3>5 DEF Goto
    <2>2. CASE UNCHANGED device /\ Fail
      <3>1. phase # "home"
        BY <1>4 DEF FlushTail, FlushLog, FlushCommit
      <3> QED BY <1>0, <2>2, <3>1, SameDevice, FailIInv
    <2> QED BY <1>4, <2>1, <2>2 DEF FlushTail, FlushLog, FlushCommit, FlushFails
  <1>5. CASE WriteHome
    <2>1. DeviceOK' /\ UNCHANGED <<log, logDur, flag, flagDur>>
      BY <1>5, HomeWriteEffect DEF WriteHome
    <2>2. Protected'
      BY <1>0, <1>5, <2>1 DEF WriteHome, Protected, LogClean, RecoverSet
    <2>3. CASE Fail
      BY <1>0, <2>1, <2>2, <2>3, FailIInv DEF Protected
    <2>4. CASE UNCHANGED <<phase, core>>
      BY <1>0, <1>5, <2>1, <2>2, <2>4, CloseProtected
      DEF WriteHome, TailActive, core, SuperBlock
    <2> QED BY <1>5, <2>3, <2>4 DEF WriteHome
  <1>6. CASE FlushHome
    <2>1. CASE Flush /\ phase' = "clean"
      BY <1>0, <2>1, FlushEffect, CloseClean DEF UpRecover, TailActive, RecoverSet
    <2>2. CASE UNCHANGED device /\ Fail
      BY <1>0, <1>6, <2>2, SameDevice, FailIInv DEF FlushHome
    <2> QED BY <1>6, <2>1, <2>2 DEF FlushHome, FlushFails
  <1>7. CASE WriteClean
    <2>1. DeviceOK' /\ HomesClean' /\ RecoverSet'
      BY <1>0, <1>7, LogWriteEffect DEF WriteClean, RecoverSet
    <2>2. CASE Fail
      BY <1>0, <2>1, <2>2, FailIInv
    <2>3. CASE Goto("cleanflush")
      BY <1>0, <2>1, <2>3, CloseClean DEF Goto, UpRecover, TailActive
    <2> QED BY <1>7, <2>2, <2>3 DEF WriteClean
  <1>8. CASE FlushClean
    <2>1. CASE Flush /\ Release
      BY <1>0, <2>1, FlushEffect, CloseIdle DEF Release, RecoverSet
    <2>2. CASE UNCHANGED device /\ Fail
      BY <1>0, <1>8, <2>2, SameDevice, FailIInv DEF FlushClean
    <2> QED BY <1>8, <2>1, <2>2 DEF FlushClean, FlushFails
  <1> QED BY <1>1, <1>2, <1>3, <1>4, <1>5, <1>6, <1>7, <1>8 DEF CommitStep

\* shutdown_writable, when a caller gives a mount up that failed to shut down.
LEMMA ShutdownStepIInv ==
    ASSUME IInv, ShutdownStep, ControlOK', ~ResumeAfterFailedShutdown
    PROVE  IInv'
  <1> USE DEF IInv
  <1>0. HomesClean /\ mode = "up"
    BY DEF ShutdownStep, DisableRecover, DisableFlush, HomeDiscipline, ControlOK
  <1>1. CASE DisableRecover
    <2>1. DeviceOK' /\ UNCHANGED <<home, homeDur>>
      BY <1>1, FlagWriteEffect DEF DisableRecover
    <2>2. HomesClean'
      BY <1>0, <2>1 DEF HomesClean
    <2>3. CASE ShutdownFails
      BY <2>1, <2>2, <2>3, CloseIdle DEF ShutdownFails
    <2>4. CASE phase' = "disableflush" /\ UNCHANGED mode
      BY <1>0, <2>1, <2>2, <2>4, CloseClean DEF UpRecover, TailActive
    <2> QED BY <1>1, <2>3, <2>4 DEF DisableRecover
  <1>2. CASE DisableFlush
    <2>1. CASE Flush /\ mode' = "down" /\ phase' = "idle"
      BY <2>1, FlushEffect DEF DownClean, UpRecover, TailActive, HomeDiscipline
    <2>2. CASE UNCHANGED device /\ ShutdownFails
      BY <1>0, <2>2, SameDevice, CloseIdle DEF ShutdownFails
    <2> QED BY <1>2, <2>1, <2>2 DEF DisableFlush, FlushFails
  <1> QED BY <1>1, <1>2 DEF ShutdownStep

LEMMA StepIInv ==
    ASSUME ~WarmRestarts, ~ResumeAfterFailedShutdown, IInv, [Next]_vars
    PROVE  IInv'
  <1>0. ControlOK'
    BY ControlStep DEF IInv
  <1>1. CASE UNCHANGED vars
    <2>1. UNCHANGED <<device, mode, phase, poisoned, seq, head, flag>>
      BY <1>1 DEF vars, core, device
    <2> QED
      BY <1>0, <2>1, SameDevice
      DEF IInv, DownClean, UpRecover, TailActive, HomeDiscipline, SuperBlock
  <1>2. CASE Mount \/ MountStep
    BY <1>0, <1>2, MountStepIInv
  <1>3. ASSUME NEW n \in 1 .. MaxCredits, Start(n) PROVE IInv'
    <2>1. HomesClean
      BY <1>3 DEF Start, IInv, HomeDiscipline
    <2> QED BY <1>0, <1>3, <2>1, OpenStepIInv DEF Start
  <1>4. ASSUME NEW h, Stage(h) \/ Discard \/ Commit PROVE IInv'
    <2>1. phase = "open" /\ mode = "up" /\ HomesClean
      BY <1>4 DEF Stage, Discard, Commit, IInv, HomeDiscipline, ControlOK
    <2> QED BY <1>0, <1>4, <2>1, OpenStepIInv DEF Stage, Discard, Commit, Release
  <1>5. CASE CommitStep
    BY <1>0, <1>5, CommitStepIInv
  <1>6. CASE Shutdown
    <2>1. mode = "up" /\ phase = "idle" /\ HomesClean
      BY <1>6 DEF Shutdown, can_shutdown, IInv, HomeDiscipline
    <2> QED BY <1>0, <1>6, <2>1, OpenStepIInv DEF Shutdown
  <1>7. CASE ShutdownStep
    BY <1>0, <1>7, ShutdownStepIInv
  <1>8. CASE PowerLoss
    <2>1. mode' = "down" /\ phase' = "idle"
      BY <1>8 DEF PowerLoss, Crash
    <2> QED
      BY <1>0, <1>8, <2>1, PowerLossEffect
      DEF IInv, DownClean, UpRecover, TailActive, HomeDiscipline
  <1>9. CASE WarmRestart
    BY <1>9 DEF WarmRestart
  <1> QED
    BY <1>1, <1>2, <1>3, <1>4, <1>5, <1>6, <1>7, <1>8, <1>9 DEF Next

-----------------------------------------------------------------------------
(* What the invariant gives *)

LEMMA IInvWriteAhead == IInv => WriteAhead /\ RecoverDurable
  <1> SUFFICES ASSUME IInv PROVE WriteAhead /\ RecoverDurable
    OBVIOUS
  <1>1. RecoverDurable
    BY DEF IInv, UpRecover, RecoverSet, RecoverDurable
  <1>2. CASE HomesClean
    <2>1. Dirty(home, homeDur) = {}
      BY <1>2 DEF IInv, DeviceOK, HomesClean, Dirty
    <2> QED BY <1>1, <2>1 DEF WriteAhead
  <1>3. CASE Protected
    <2>1. Dirty(log, logDur) = {}
      BY <1>3 DEF IInv, DeviceOK, Protected, LogClean, Dirty
    <2> QED BY <1>1, <1>3, <2>1 DEF WriteAhead, Protected, RecoverSet
  <1> QED BY <1>2, <1>3 DEF IInv, HomeDiscipline

\* A device whose contents are settled before each mount, and a caller that gives
\* up a mount it failed to shut down.
Orderly == ~WarmRestarts /\ ~ResumeAfterFailedShutdown

LEMMA Invariance ==
    ASSUME Orderly
    PROVE  Spec => []IInv
  <1>1. IInv /\ [Next]_vars => IInv'
    BY StepIInv DEF Orderly
  <1> QED BY <1>1, InitIInv, PTL DEF Spec

\* commit_journal and recover never have a home block in flight unless the whole
\* transaction, its commit block, the active journal superblock and RECOVER are
\* durable, for any transactions, errors and power losses.
THEOREM WriteAheadHolds ==
    ASSUME Orderly
    PROVE  Spec => []WriteAhead
  BY Invariance, IInvWriteAhead, PTL

\* initialize_journal makes RECOVER durable before the first transaction and only
\* shutdown_writable takes it back.
THEOREM RecoverDurableHolds ==
    ASSUME Orderly
    PROVE  Spec => []RecoverDurable
  BY Invariance, IInvWriteAhead, PTL

-----------------------------------------------------------------------------
(* The reservation: what start promises a transaction, its commit can keep *)

\* Fewer blocks need no more descriptors.
LEMMA DescriptorsMonotone ==
    ASSUME NEW m \in Nat, NEW n \in Nat, m <= n
    PROVE  descriptors(m) <= descriptors(n)
  <1> DEFINE a == m + PerDescriptor - 1
             b == n + PerDescriptor - 1
             q == a \div PerDescriptor
             r == b \div PerDescriptor
  <1>1. PerDescriptor \in Nat /\ PerDescriptor > 0 /\ a \in Nat /\ b \in Nat /\ a <= b
    BY RingAssumption
  <1>2. q \in Int /\ PerDescriptor * q <= a
    BY <1>1
  <1>3. r \in Int /\ b < PerDescriptor * (r + 1)
    BY <1>1
  <1>4. q <= r
    <2>1. SUFFICES ASSUME r + 1 <= q PROVE FALSE
      BY <1>2, <1>3
    <2>2. PerDescriptor * (r + 1) <= PerDescriptor * q
      BY <1>1, <1>2, <1>3, <2>1
    <2> QED BY <1>1, <1>2, <1>3, <2>2
  <1> QED BY <1>4 DEF descriptors

LEMMA RequiredMonotone ==
    ASSUME NEW m \in Nat, NEW n \in Nat, m <= n
    PROVE  required_log_blocks(m) <= required_log_blocks(n)
  BY DescriptorsNat, DescriptorsMonotone DEF required_log_blocks

LEMMA PositionInRing ==
    ASSUME NEW p \in Ring, NEW i \in Nat, i < ring_len
    PROVE  ring_position(p, i) \in Ring /\ ring_next(ring_position(p, i)) \in Ring
  BY RingAssumption DEF Ring, ring_position, ring_len, ring_next

LEMMA RingPositionsDiffer ==
    ASSUME NEW p \in Ring, NEW i \in Nat, NEW j \in Nat, i < j, j < ring_len
    PROVE  ring_position(p, i) # ring_position(p, j)
  BY RingAssumption DEF Ring, ring_position, ring_len

\* The open transaction stays within its credits, and its credits within the ring.
WithinCredits(c, s) ==
    /\ c \in Nat /\ required_log_blocks(c) <= ring_len
    /\ IsFiniteSet(DOMAIN s) /\ Cardinality(DOMAIN s) <= c

ReservationOK ==
    /\ head \in Ring
    /\ writer = TRUE => WithinCredits(credits, staged)
    /\ phase \in Committing \cup {"open"} => writer = TRUE

LEMMA WithinRing ==
    ASSUME NEW c, NEW s, WithinCredits(c, s)
    PROVE  /\ required_log_blocks(Cardinality(DOMAIN s)) <= ring_len
           /\ Cardinality(DOMAIN s) <= c
  <1>1. Cardinality(DOMAIN s) \in Nat
    BY FS_CardinalityType DEF WithinCredits
  <1>2. required_log_blocks(Cardinality(DOMAIN s)) <= required_log_blocks(c)
    BY <1>1, RequiredMonotone DEF WithinCredits
  <1>3. /\ required_log_blocks(c) \in Nat
        /\ required_log_blocks(Cardinality(DOMAIN s)) \in Nat
    BY <1>1, DescriptorsNat DEF WithinCredits, required_log_blocks
  <1>4. ring_len \in Nat
    BY RingAssumption DEF ring_len
  <1> QED BY <1>1, <1>2, <1>3, <1>4 DEF WithinCredits

LEMMA StageWithinCredits ==
    ASSUME NEW h, WithinCredits(credits, staged), Stage(h)
    PROVE  WithinCredits(credits', staged')
  <1>1. credits' = credits /\ DOMAIN staged' = DOMAIN staged \cup {h}
    BY DEF Stage
  <1>2. /\ IsFiniteSet(DOMAIN staged') /\ Cardinality(DOMAIN staged) \in Nat
        /\ Cardinality(DOMAIN staged') = IF h \in DOMAIN staged
                                         THEN Cardinality(DOMAIN staged)
                                         ELSE Cardinality(DOMAIN staged) + 1
    BY <1>1, FS_AddElement, FS_CardinalityType DEF WithinCredits
  <1>3. Cardinality(DOMAIN staged') <= credits
    BY <1>2 DEF Stage, WithinCredits
  <1> QED BY <1>1, <1>2, <1>3 DEF WithinCredits

LEMMA CommitPositionInRing ==
    ASSUME ReservationOK, writer = TRUE
    PROVE  /\ LogLength \in Nat /\ LogLength < ring_len
           /\ CommitPosition \in Ring /\ ring_next(CommitPosition) \in Ring
  <1>1. WithinCredits(credits, staged) /\ head \in Ring
    BY DEF ReservationOK
  <1>2. required_log_blocks(Cardinality(DOMAIN staged)) <= ring_len
    BY <1>1, WithinRing
  <1>3. Cardinality(DOMAIN staged) \in Nat
    BY <1>1, FS_CardinalityType DEF WithinCredits
  <1>4. LogLength \in Nat
    BY <1>1, LogLengthNat DEF WithinCredits
  <1>5. required_log_blocks(Cardinality(DOMAIN staged)) \in Nat /\ ring_len \in Nat
    BY <1>3, DescriptorsNat, RingAssumption DEF required_log_blocks, ring_len
  <1>6. LogLength < ring_len
    BY <1>2, <1>4, <1>5 DEF LogLength
  <1> QED BY <1>1, <1>4, <1>6, PositionInRing DEF CommitPosition

LEMMA ReservationStep ==
    ASSUME ReservationOK, [Next]_vars
    PROVE  ReservationOK'
  <1> USE DEF ReservationOK, Committing, core, transaction
  <1>0. First \in Ring
    BY RingAssumption DEF Ring
  <1>1. CASE UNCHANGED vars
    BY <1>1 DEF vars
  <1>2. CASE Mount
    BY <1>0, <1>2 DEF Mount, GoUp
  <1>3. CASE MountStep
    <2>1. CASE ReplayHome \/ ReplayFlush
      BY <2>1 DEF ReplayHome, ReplayFlush, MountFails
    <2>2. CASE RetireLog \/ EnableRecover
      BY <2>2 DEF RetireLog, EnableRecover, MountFails
    <2>3. CASE RetireFlush \/ EnableFlush
      BY <1>0, <2>3 DEF RetireFlush, EnableFlush, MountFails, GoUp
    <2> QED BY <1>3, <2>1, <2>2, <2>3 DEF MountStep
  <1>4. ASSUME NEW n \in 1 .. MaxCredits, Start(n) PROVE ReservationOK'
    <2>1. n \in Nat /\ required_log_blocks(n) <= ring_len
      BY <1>4, TransactionAssumption DEF Start
    <2>2. DOMAIN NoImages = {}
      BY DEF NoImages
    <2>3. IsFiniteSet(DOMAIN NoImages) /\ Cardinality(DOMAIN NoImages) = 0
      BY <2>2, FS_EmptySet
    <2>4. WithinCredits(n, NoImages)
      BY <2>1, <2>3 DEF WithinCredits
    <2> QED BY <1>4, <2>4 DEF Start
  <1>5. ASSUME NEW h, Stage(h) PROVE ReservationOK'
    <2>1. WithinCredits(credits', staged')
      BY <1>5, StageWithinCredits DEF Stage
    <2> QED BY <1>5, <2>1 DEF Stage
  <1>6. CASE Discard
    BY <1>6 DEF Discard, Release
  <1>7. CASE Commit
    BY <1>7 DEF Commit
  <1>8. CASE CommitStep
    <2>1. CASE Fail
      BY <2>1 DEF Fail, Release
    <2>2. CASE FlushClean /\ ~Fail
      <3>1. ring_next(CommitPosition) \in Ring
        BY <2>2, CommitPositionInRing DEF FlushClean
      <3> QED BY <2>2, <3>1 DEF FlushClean, Release
    <2>3. CASE ~Fail /\ (WriteTail \/ FlushTail \/ WriteLog \/ FlushLog \/ WriteCommit)
      BY <2>3 DEF WriteTail, FlushTail, WriteLog, FlushLog, WriteCommit, Goto
    <2>4. CASE ~Fail /\ (FlushCommit \/ WriteHome \/ FlushHome \/ WriteClean)
      BY <2>4 DEF FlushCommit, WriteHome, FlushHome, WriteClean, Goto
    <2> QED BY <1>8, <2>1, <2>2, <2>3, <2>4 DEF CommitStep
  <1>9. CASE Shutdown \/ ShutdownStep
    BY <1>9 DEF Shutdown, ShutdownStep, DisableRecover, DisableFlush, ShutdownFails
  <1>10. CASE PowerLoss \/ WarmRestart
    BY <1>10 DEF PowerLoss, WarmRestart, Crash
  <1> QED
    BY <1>1, <1>2, <1>3, <1>4, <1>5, <1>6, <1>7, <1>8, <1>9, <1>10 DEF Next

LEMMA ReservationInvariance == Spec => []ReservationOK
  <1>1. Init => ReservationOK
    BY RingAssumption DEF Init, ReservationOK, Committing, Ring
  <1>2. ReservationOK /\ [Next]_vars => ReservationOK'
    BY ReservationStep
  <1> QED BY <1>1, <1>2, PTL DEF Spec

\* The credits that JournalTransactionCore::start checks against the ring bound
\* every commit, so commit_journal never needs more log blocks than the ring has,
\* whatever is staged, aborted, failed or cut short, and whichever way the
\* filesystem is mounted again.
THEOREM ReservationSufficesHolds == Spec => []ReservationSuffices
  <1>1. ReservationOK => ReservationSuffices
    <2> SUFFICES ASSUME ReservationOK, writer PROVE ReservationSuffices
      BY DEF ReservationSuffices
    <2>1. WithinCredits(credits, staged)
      BY DEF ReservationOK
    <2> QED BY <2>1, WithinRing DEF ReservationSuffices
  <1> QED BY <1>1, ReservationInvariance, PTL

\* The ring positions of a transaction's log blocks and of its commit block.
LogIsInjective ==
    phase \in Committing =>
        \A i, j \in 0 .. LogLength :
            /\ ring_position(head, i) \in Ring
            /\ i # j => ring_position(head, i) # ring_position(head, j)

\* commit_journal never overwrites a block of the transaction it is logging, nor
\* the journal superblock: ring_positions wraps around the ring at most once.
THEOREM LogNeverOverlaps == Spec => []LogIsInjective
  <1>1. ReservationOK => LogIsInjective
    <2> SUFFICES ASSUME ReservationOK, phase \in Committing,
                        NEW i \in 0 .. LogLength, NEW j \in 0 .. LogLength
                 PROVE  /\ ring_position(head, i) \in Ring
                        /\ i # j => ring_position(head, i) # ring_position(head, j)
      BY DEF LogIsInjective
    <2>1. LogLength \in Nat /\ LogLength < ring_len /\ head \in Ring
      BY CommitPositionInRing DEF ReservationOK
    <2>2. i \in Nat /\ j \in Nat /\ i < ring_len /\ j < ring_len
      BY <2>1, RingAssumption DEF ring_len
    <2>3. ring_position(head, i) \in Ring
      BY <2>1, <2>2, PositionInRing
    <2>4. CASE i < j
      BY <2>1, <2>2, <2>3, <2>4, RingPositionsDiffer
    <2>5. CASE j < i
      BY <2>1, <2>2, <2>3, <2>5, RingPositionsDiffer
    <2> QED BY <2>2, <2>3, <2>4, <2>5
  <1> QED BY <1>1, ReservationInvariance, PTL

-----------------------------------------------------------------------------
(* Crash atomicity: what the blocks of the log can be *)

\* How many sequence numbers lie between the first one and x.
Age(x) == IF x >= InitSeq THEN x - InitSeq ELSE x - InitSeq + SeqMod

\* A transaction takes at most two sequence numbers, its own and the one recover skips,
\* and the sequence numbers (2^32 in the code) do not run out.
FewTransactions == 2 * MaxTx < SeqMod

LEMMA AgeType ==
    ASSUME NEW x \in Sequences32
    PROVE  Age(x) \in Nat /\ Age(x) < SeqMod
  BY SequenceAssumption, TransactionAssumption DEF Sequences32, Age

LEMMA AgeNext ==
    ASSUME NEW x \in Sequences32, Age(x) + 1 < SeqMod
    PROVE  next_sequence(x) \in Sequences32 /\ Age(next_sequence(x)) = Age(x) + 1
  <1>1. next_sequence(x) = IF x + 1 = SeqMod THEN 0 ELSE x + 1
    BY SequenceAssumption DEF Sequences32, next_sequence
  <1> QED
    BY <1>1, SequenceAssumption, TransactionAssumption DEF Sequences32, Age

Body == LogBlocks \ {0}

\* A block of a finished transaction, of age less than a, or of none.
Stale(b, a) ==
    /\ BlockOK(b) /\ b.type \in {"desc", "data", "commit", "garbage"}
    /\ b.type \in {"desc", "commit"} => b.seq \in Sequences32 /\ Age(b.seq) < a
    /\ b.type = "data" => ~b.image.magic

BodyStale(l, a) == \A n \in Body : Stale(l[n], a)

LEMMA StaleGrows ==
    ASSUME NEW a \in Nat, NEW c \in Nat, a <= c
    PROVE  /\ \A b : Stale(b, a) => Stale(b, c)
           /\ \A l : BodyStale(l, a) => BodyStale(l, c)
  <1>1. ASSUME NEW b, Stale(b, a) PROVE Stale(b, c)
    BY <1>1, AgeType DEF Stale
  <1> QED BY <1>1 DEF BodyStale

LEMMA StaleForeign ==
    ASSUME NEW s \in Sequences32, Age(s) + 1 < SeqMod, NEW b, Stale(b, Age(s))
    PROVE  Foreign(b, s)
  <1>1. Age(next_sequence(s)) = Age(s) + 1 /\ Age(s) \in Nat
    BY AgeNext, AgeType
  <1>2. b.type \in {"desc", "commit"} => b.seq # s /\ b.seq # next_sequence(s)
    BY <1>1, AgeType DEF Stale
  <1> QED BY <1>2 DEF Stale, Foreign, header_matches

LEMMA GarbageStale == \A a : Stale(Garbage, a)
  BY DEF Stale, Garbage, BlockOK

LEMMA CommitStale ==
    ASSUME NEW s \in Sequences32
    PROVE  /\ Stale(encode_commit(s), Age(s) + 1)
           /\ ~Stale(encode_commit(s), Age(s))
  <1>1. encode_commit(s) = [type |-> "commit", seq |-> s, sum |-> TRUE]
    BY DEF encode_commit, CommitRecord
  <1>2. Age(s) < Age(s) + 1 /\ ~(Age(s) < Age(s))
    BY AgeType
  <1> QED BY <1>1, <1>2 DEF Stale, BlockOK

\* Every block of the encoded log belongs to one group.
LEMMA InSomeGroup ==
    ASSUME NEW T, IsRequest(T), NEW k \in 1 .. LogLengthOf(T)
    PROVE  \E g \in 0 .. Groups(T) - 1 :
               \/ k = Offset(T, g) + 1
               \/ \E i \in 1 .. GroupSize(T, g) : k = Offset(T, g) + 1 + i
  <1> DEFINE n == Images(T)
             p == PerDescriptor
             q == Groups(T)
             g == (k - 1) \div (p + 1)
             r == (k - 1) % (p + 1)
  <1>1. /\ n \in Nat /\ n > 0 /\ q \in Nat /\ q > 0 /\ p \in Nat /\ p > 0
        /\ LogLengthOf(T) = n + q
    BY GroupsOf, RingAssumption
  <1>2. k \in Nat /\ k > 0 /\ k <= n + q
    BY <1>1
  <1>3. /\ \A x \in Nat : x < q <=> x * p < n
    BY <1>1, GroupCount DEF Groups
  <1> HIDE DEF n, p, q
  <1>4. g \in Int /\ r \in 0 .. p /\ k - 1 = (p + 1) * g + r
    <2> DEFINE a == k - 1
               d == p + 1
    <2>1. a \in Nat /\ d \in Nat /\ d > 0 /\ d - 1 = p
      BY <1>1, <1>2
    <2> HIDE DEF a, d
    <2>2. a \div d \in Int /\ a % d \in 0 .. d - 1 /\ a = d * (a \div d) + (a % d)
      BY <2>1
    <2> QED BY <2>1, <2>2 DEF a, d
  <1> HIDE DEF g, r
  <1>5. g >= 0
    <2> SUFFICES ASSUME g + 1 <= 0 PROVE FALSE
      BY <1>4
    <2>1. (p + 1) * (g + 1) <= 0
      BY <1>1, <1>4
    <2>2. (p + 1) * (g + 1) = (p + 1) * g + p + 1
      BY <1>1, <1>4
    <2> QED BY <1>1, <1>2, <1>4, <2>1, <2>2
  <1>6. (p + 1) * g = g * p + g /\ g * p \in Nat
    BY <1>1, <1>4, <1>5
  <1>7. g < q
    <2> SUFFICES ASSUME q <= g PROVE FALSE
      BY <1>1, <1>4
    <2>1. ~(g * p < n)
      BY <1>1, <1>3, <1>4, <1>5
    <2> QED BY <1>1, <1>2, <1>4, <1>6, <2>1
  <1>8. g \in 0 .. q - 1
    BY <1>1, <1>4, <1>5, <1>7
  <1>9. /\ Done(T, g) = g * p
        /\ g * p + GroupSize(T, g) = IF (g + 1) * p < n THEN (g + 1) * p ELSE n
        /\ GroupSize(T, g) \in Nat
    <2>1. /\ Done(T, g) = g * PerDescriptor
          /\ Done(T, g) + GroupSize(T, g) =
                 IF (g + 1) * PerDescriptor < Images(T) THEN (g + 1) * PerDescriptor
                 ELSE Images(T)
          /\ GroupSize(T, g) \in 1 .. PerDescriptor
      BY <1>8, GroupsOf DEF q
    <2> QED BY <1>1, <2>1 DEF n, p
  <1>10. Offset(T, g) + 1 + r = k
    BY <1>1, <1>2, <1>4, <1>5, <1>6, <1>9 DEF Offset
  <1>11. r <= GroupSize(T, g)
    <2>1. (g + 1) * p = g * p + p
      BY <1>1, <1>4, <1>5
    <2>2. CASE (g + 1) * p < n
      BY <1>1, <1>4, <1>6, <1>9, <2>1, <2>2
    <2>3. CASE ~((g + 1) * p < n)
      <3>1. ~(g + 1 < q)
        BY <1>3, <1>4, <1>5, <2>3
      <3>2. g + 1 = q
        BY <1>1, <1>4, <1>5, <1>7, <3>1
      <3> QED BY <1>1, <1>2, <1>4, <1>6, <1>9, <2>3, <3>2
    <2> QED BY <2>2, <2>3
  <1>12. r = 0 \/ r \in 1 .. GroupSize(T, g)
    BY <1>4, <1>9, <1>11
  <1>13. Offset(T, g) \in Nat
    BY <1>5, <1>4, <1>6, <1>9 DEF Offset
  <1> QED BY <1>8, <1>10, <1>12, <1>13 DEF q

\* The blocks of a transaction, once it is over, are stale.
LEMMA EncodedStale ==
    ASSUME NEW T, IsRequest(T), NEW s \in Sequences32, NEW k \in 1 .. LogLengthOf(T)
    PROVE  Stale(encode_log(s, T)[k], Age(s) + 1)
  <1>1. PICK g \in 0 .. Groups(T) - 1 :
               \/ k = Offset(T, g) + 1
               \/ \E i \in 1 .. GroupSize(T, g) : k = Offset(T, g) + 1 + i
    BY InSomeGroup
  <1>2. Age(s) \in Nat /\ Age(s) < Age(s) + 1
    BY AgeType
  <1>3. CASE k = Offset(T, g) + 1
    <2>1. encode_log(s, T)[k] = Descriptor(s, TagsOf(s, T, g), TRUE)
      BY <1>3, EncodedGroup
    <2>2. GroupSize(T, g) \in Nat
      BY GroupsOf, RingAssumption
    <2>3. /\ Len(TagsOf(s, T, g)) = GroupSize(T, g)
          /\ TagsOf(s, T, g) = [i \in 1 .. GroupSize(T, g) |-> TagsOf(s, T, g)[i]]
      BY <2>2 DEF TagsOf
    <2> QED BY <1>2, <2>1, <2>2, <2>3 DEF Stale, BlockOK, Descriptor
  <1>4. ASSUME NEW i \in 1 .. GroupSize(T, g), k = Offset(T, g) + 1 + i
        PROVE  Stale(encode_log(s, T)[k], Age(s) + 1)
    <2>1. encode_log(s, T)[k] = Data(Escaped(T[HomeOf(T, g, i)]))
      BY <1>4, EncodedGroup
    <2>2. T[HomeOf(T, g, i)] \in Image
      <3>1. Done(T, g) + i \in 1 .. Images(T)
        <4>1. /\ Done(T, g) \in Nat /\ GroupSize(T, g) \in Nat
              /\ GroupSize(T, g) = Done(T, g + 1) - Done(T, g)
              /\ Done(T, g + 1) \in Nat /\ Done(T, g + 1) <= Images(T) /\ Images(T) \in Nat
          BY GroupsOf, RingAssumption DEF GroupSize
        <4> QED BY <4>1
      <3>2. HomeOf(T, g, i) \in DOMAIN T
        BY <3>1, OrderIs DEF HomeOf
      <3> QED BY <3>2 DEF IsRequest
    <2>3. Escaped(T[HomeOf(T, g, i)]) \in Image /\ ~Escaped(T[HomeOf(T, g, i)]).magic
      BY <2>2 DEF Escaped, Image
    <2> QED BY <2>1, <2>3 DEF Stale, BlockOK, Data
  <1> QED BY <1>1, <1>3, <1>4

-----------------------------------------------------------------------------
(* Crash atomicity: what recovery makes of a log this code wrote *)

\* A transaction that is committed from p on, the n-th at the latest.
InProgress(s, p, T, n) ==
    /\ IsRequest(T) /\ s \in Sequences32 /\ p \in Ring
    /\ n \in Nat /\ n <= MaxTx /\ Age(s) + 2 <= 2 * n

CommitPlace(p, T) == Place(p, LogLengthOf(T) + 1)

Holds(p, T, n) == \E k \in 1 .. LogLengthOf(T) : n = Place(p, k)

\* Any of the log blocks of T, and beside them stale ones.
Traces(l, s, p, T) ==
    \A n \in Body :
        \/ Stale(l[n], Age(s))
        \/ \E k \in 1 .. LogLengthOf(T) : n = Place(p, k) /\ l[n] = encode_log(s, T)[k]

\* All of them.
Logged(l, s, p, T) ==
    /\ \A k \in 1 .. LogLengthOf(T) : InPlace(l, s, p, T, k)
    /\ \A n \in Body : Stale(l[n], Age(s)) \/ Holds(p, T, n)

\* All of them and the commit block.
Committed(l, s, p, T) ==
    /\ \A k \in 1 .. LogLengthOf(T) : InPlace(l, s, p, T, k)
    /\ l[CommitPlace(p, T)] = encode_commit(s)
    /\ \A n \in Body : Stale(l[n], Age(s)) \/ Holds(p, T, n) \/ n = CommitPlace(p, T)

Distinct(ws) == \A i, j \in DOMAIN ws : ws[i].home = ws[j].home => i = j

\* Recovery accepts the log, writes each home at most once, and goes on with a sequence
\* number that is newer than every block left in the log.
Recoverable(l, n) ==
    /\ l[0] = SuperBlock(l[0].seq, l[0].start)
    /\ recover(l).status = IF l[0].start = 0 THEN "clean" ELSE "replay"
    /\ recover(l).writes \in Seq(HomeWrites) /\ Distinct(recover(l).writes)
    /\ recover(l).seq \in Sequences32 /\ Age(recover(l).seq) <= 2 * n
    /\ BodyStale(l, Age(recover(l).seq))

LEMMA RecoverableLater ==
    ASSUME NEW m \in Nat, NEW n \in Nat, m <= n, NEW l, Recoverable(l, m)
    PROVE  Recoverable(l, n)
  <1>1. Age(recover(l).seq) \in Nat
    BY AgeType DEF Recoverable
  <1>2. Age(recover(l).seq) <= 2 * m
    BY DEF Recoverable
  <1>3. Age(recover(l).seq) <= 2 * n
    BY <1>1, <1>2
  <1> QED BY <1>3 DEF Recoverable

LEMMA SuperBlockFields ==
    ASSUME NEW s, NEW p
    PROVE  SuperBlock(s, p).seq = s /\ SuperBlock(s, p).start = p /\ BlockOK(SuperBlock(s, p))
  BY DEF SuperBlock, BlockOK

LEMMA BodyIs == /\ Ring \subseteq Body /\ LogBlocks = Body \cup {0} /\ 0 \notin Ring
                /\ 0 \in LogBlocks /\ 0 \notin Body
  BY RingNumbers DEF Body, Ring, LogBlocks

LEMMA EmptyWrites == <<>> \in Seq(HomeWrites) /\ Distinct(<<>>)
  BY DEF Distinct

LEMMA CleanRecoverable ==
    ASSUME NEW s \in Sequences32, NEW n, Age(s) <= 2 * n, NEW l,
           l[0] = SuperBlock(s, 0), BodyStale(l, Age(s))
    PROVE  Recoverable(l, n) /\ recover(l).writes = <<>> /\ recover(l).seq = s
  <1>1. l[0].seq = s /\ l[0].start = 0
    BY SuperBlockFields
  <1>2. recover(l) = [status |-> "clean", writes |-> <<>>, seq |-> s]
    BY <1>1 DEF recover
  <1>3. /\ recover(l).status = "clean" /\ recover(l).writes = <<>>
        /\ recover(l).seq = s
    BY <1>2
  <1> QED BY <1>1, <1>3, EmptyWrites DEF Recoverable

\* The places of the log blocks and of the commit block.
LEMMA PlacesAre ==
    ASSUME NEW s, NEW p, NEW T, NEW n, InProgress(s, p, T, n)
    PROVE  /\ LogLengthOf(T) \in Nat
           /\ \A k \in 1 .. LogLengthOf(T) + 1 : Place(p, k) \in Ring /\ Place(p, k) \in Body
           /\ \A j, k \in 1 .. LogLengthOf(T) + 1 : Place(p, j) = Place(p, k) => j = k
           /\ CommitPlace(p, T) \in Body /\ ~Holds(p, T, CommitPlace(p, T))
  <1> DEFINE m == LogLengthOf(T)
  <1>1. m \in Nat /\ m < ring_len /\ p \in Ring
    BY GroupsOf DEF InProgress
  <1> HIDE DEF m
  <1>2. ASSUME NEW k \in 1 .. m + 1 PROVE k - 1 \in Nat /\ k - 1 < ring_len
    BY <1>1, RingNumbers
  <1>3. ASSUME NEW k \in 1 .. m + 1 PROVE Place(p, k) \in Ring /\ Place(p, k) \in Body
    BY <1>1, <1>2, PositionSteps, BodyIs DEF Place
  <1>4. ASSUME NEW j \in 1 .. m + 1, NEW k \in 1 .. m + 1, Place(p, j) = Place(p, k)
        PROVE  j = k
    <2>1. j - 1 = k - 1
      BY <1>1, <1>2, <1>4, PositionsDiffer DEF Place
    <2> QED BY <1>1, <2>1
  <1>5. m + 1 \in 1 .. m + 1 /\ \A k \in 1 .. m : k \in 1 .. m + 1 /\ k # m + 1
    BY <1>1
  <1>6. CommitPlace(p, T) \in Body
    BY <1>3, <1>5 DEF CommitPlace, m
  <1>7. ~Holds(p, T, CommitPlace(p, T))
    BY <1>4, <1>5 DEF Holds, CommitPlace, m
  <1> QED BY <1>1, <1>3, <1>4, <1>6, <1>7 DEF m

LEMMA InProgressAges ==
    ASSUME FewTransactions, NEW s, NEW p, NEW T, NEW n, InProgress(s, p, T, n)
    PROVE  /\ s \in Sequences32 /\ Age(s) \in Nat /\ Age(s) + 2 <= 2 * n
           /\ Age(s) + 1 < SeqMod
           /\ next_sequence(s) \in Sequences32 /\ Age(next_sequence(s)) = Age(s) + 1
           /\ next_sequence(next_sequence(s)) \in Sequences32
           /\ Age(next_sequence(next_sequence(s))) = Age(s) + 2
  <1>1. s \in Sequences32 /\ Age(s) \in Nat /\ n \in Nat /\ n <= MaxTx /\ Age(s) + 2 <= 2 * n
    BY AgeType DEF InProgress
  <1>2. Age(s) + 2 < SeqMod
    BY <1>1, SequenceAssumption, TransactionAssumption DEF FewTransactions
  <1>3. next_sequence(s) \in Sequences32 /\ Age(next_sequence(s)) = Age(s) + 1
    BY <1>1, <1>2, SequenceAssumption, AgeNext
  <1>4. /\ next_sequence(next_sequence(s)) \in Sequences32
        /\ Age(next_sequence(next_sequence(s))) = Age(next_sequence(s)) + 1
    <2> DEFINE t == next_sequence(s)
    <2>1. t \in Sequences32 /\ Age(t) + 1 < SeqMod
      BY <1>1, <1>2, <1>3, SequenceAssumption
    <2> HIDE DEF t
    <2>2. next_sequence(t) \in Sequences32 /\ Age(next_sequence(t)) = Age(t) + 1
      BY <2>1, AgeNext
    <2> QED BY <2>2 DEF t
  <1> QED BY <1>1, <1>2, <1>3, <1>4, SequenceAssumption

\* Traces of a transaction are one sequence number younger than what was there.
LEMMA TracesStale ==
    ASSUME FewTransactions, NEW s, NEW p, NEW T, NEW n, InProgress(s, p, T, n),
           NEW l, Traces(l, s, p, T)
    PROVE  BodyStale(l, Age(s) + 1)
  <1>1. Age(s) \in Nat /\ Age(s) + 1 \in Nat /\ Age(s) <= Age(s) + 1
    BY InProgressAges
  <1>2. \A k \in 1 .. LogLengthOf(T) : Stale(encode_log(s, T)[k], Age(s) + 1)
    BY EncodedStale DEF InProgress
  <1>3. \A b : Stale(b, Age(s)) => Stale(b, Age(s) + 1)
    BY <1>1, StaleGrows
  <1> QED BY <1>2, <1>3 DEF Traces, BodyStale

LEMMA LoggedTraces ==
    ASSUME NEW s, NEW p, NEW T, NEW l, Logged(l, s, p, T)
    PROVE  Traces(l, s, p, T)
  BY DEF Logged, Traces, Holds, InPlace

LEMMA StaleTraces ==
    ASSUME NEW s, NEW p, NEW T, NEW l, BodyStale(l, Age(s))
    PROVE  Traces(l, s, p, T)
  BY DEF BodyStale, Traces

LEMMA CommittedStale ==
    ASSUME FewTransactions, NEW s, NEW p, NEW T, NEW n, InProgress(s, p, T, n),
           NEW l, Committed(l, s, p, T)
    PROVE  BodyStale(l, Age(s) + 1)
  <1>1. Age(s) \in Nat /\ Age(s) + 1 \in Nat /\ Age(s) <= Age(s) + 1 /\ s \in Sequences32
    BY InProgressAges
  <1>2. \A k \in 1 .. LogLengthOf(T) : Stale(encode_log(s, T)[k], Age(s) + 1)
    BY EncodedStale DEF InProgress
  <1>3. \A b : Stale(b, Age(s)) => Stale(b, Age(s) + 1)
    BY <1>1, StaleGrows
  <1>4. Stale(encode_commit(s), Age(s) + 1)
    BY <1>1, CommitStale
  <1> QED BY <1>2, <1>3, <1>4 DEF Committed, BodyStale, Holds, InPlace

LEMMA StaleLogOK ==
    ASSUME NEW l, NEW a, BodyStale(l, a), NEW s, NEW p, l[0] = SuperBlock(s, p)
    PROVE  LogOK(l)
  BY BodyIs, SuperBlockFields DEF BodyStale, Stale, LogOK

\* A log cut short before its commit block.
LEMMA PartlyRecoverable ==
    ASSUME FewTransactions, NEW s, NEW p, NEW T, NEW n, InProgress(s, p, T, n),
           NEW l, l[0] = SuperBlock(s, p), Traces(l, s, p, T)
    PROVE  Recoverable(l, n) /\ recover(l).writes = <<>>
  <1>1. /\ s \in Sequences32 /\ Age(s) + 1 < SeqMod /\ Age(s) \in Nat /\ Age(s) + 2 <= 2 * n
        /\ next_sequence(s) \in Sequences32 /\ Age(next_sequence(s)) = Age(s) + 1
    BY InProgressAges
  <1>2. BodyStale(l, Age(s) + 1)
    BY TracesStale
  <1>3. PartlyLogged(l, s, p, T)
    <2>1. LogOK(l)
      BY <1>2, StaleLogOK
    <2>2. ASSUME NEW k \in 1 .. LogLengthOf(T)
          PROVE  InPlace(l, s, p, T, k) \/ Foreign(l[Place(p, k)], s)
      <3>1. k \in 1 .. LogLengthOf(T) + 1 /\ Place(p, k) \in Body
        BY PlacesAre
      <3>2. CASE Stale(l[Place(p, k)], Age(s))
        BY <1>1, <3>2, StaleForeign
      <3>3. ASSUME NEW j \in 1 .. LogLengthOf(T), Place(p, k) = Place(p, j),
                   l[Place(p, k)] = encode_log(s, T)[j]
            PROVE  InPlace(l, s, p, T, k)
        <4>1. j \in 1 .. LogLengthOf(T) + 1
          BY PlacesAre
        <4>2. k = j
          BY <3>1, <3>3, <4>1, PlacesAre
        <4> QED BY <3>3, <4>2 DEF InPlace
      <3> QED BY <3>1, <3>2, <3>3 DEF Traces
    <2>3. Foreign(l[CommitPlace(p, T)], s)
      <3>1. CommitPlace(p, T) \in Body /\ ~Holds(p, T, CommitPlace(p, T))
        BY PlacesAre
      <3>2. Stale(l[CommitPlace(p, T)], Age(s))
        BY <3>1 DEF Traces, Holds
      <3> QED BY <1>1, <3>2, StaleForeign
    <2> QED BY <2>1, <2>2, <2>3 DEF PartlyLogged, CommitPlace
  <1>4. recover(l) = [status |-> "replay", writes |-> <<>>, seq |-> next_sequence(s)]
    BY <1>3, PartialLogPassedOver DEF InProgress
  <1>5. /\ recover(l).status = "replay" /\ recover(l).writes = <<>>
        /\ recover(l).seq = next_sequence(s)
    BY <1>4
  <1>6. l[0].seq = s /\ l[0].start = p /\ p # 0
    BY SuperBlockFields, BodyIs DEF InProgress
  <1>7. Age(recover(l).seq) <= 2 * n
    <2>1. n \in Nat
      BY DEF InProgress
    <2> QED BY <1>1, <1>5, <2>1
  <1>8. recover(l).writes \in Seq(HomeWrites) /\ Distinct(recover(l).writes)
    BY <1>5, EmptyWrites
  <1>9. BodyStale(l, Age(recover(l).seq))
    BY <1>1, <1>2, <1>5
  <1>10. recover(l).seq \in Sequences32
    BY <1>1, <1>5
  <1>11. l[0] = SuperBlock(l[0].seq, l[0].start)
    BY <1>6
  <1>12. recover(l).status = IF l[0].start = 0 THEN "clean" ELSE "replay"
    BY <1>5, <1>6
  <1> QED BY <1>5, <1>7, <1>8, <1>9, <1>10, <1>11, <1>12 DEF Recoverable

LEMMA RestoredDistinct ==
    ASSUME NEW T, IsRequest(T)
    PROVE  /\ Restored(T, Images(T)) \in Seq(HomeWrites)
           /\ Distinct(Restored(T, Images(T)))
           /\ \A h : (\A i \in DOMAIN Restored(T, Images(T)) : Restored(T, Images(T))[i].home # h)
                         <=> h \notin DOMAIN T
  <1>1. Images(T) \in Nat /\ Images(T) \in 0 .. Images(T)
    BY GroupsOf
  <1>2. DOMAIN Restored(T, Images(T)) = 1 .. Images(T)
    BY DEF Restored
  <1>3. \A i \in 1 .. Images(T) : Restored(T, Images(T))[i].home = Order(T)[i]
    BY DEF Restored
  <1>4. /\ \A i, j \in 1 .. Images(T) : Order(T)[i] = Order(T)[j] => i = j
        /\ \A h \in DOMAIN T : \E i \in 1 .. Images(T) : Order(T)[i] = h
        /\ \A i \in 1 .. Images(T) : Order(T)[i] \in DOMAIN T
    BY OrderIs
  <1>5. Restored(T, Images(T)) \in Seq(HomeWrites)
    BY <1>1, RestoredType
  <1> QED BY <1>2, <1>3, <1>4, <1>5 DEF Distinct

\* A log with its commit block.
LEMMA WhollyRecoverable ==
    ASSUME FewTransactions, NEW s, NEW p, NEW T, NEW n, InProgress(s, p, T, n),
           NEW l, l[0] = SuperBlock(s, p), Committed(l, s, p, T)
    PROVE  Recoverable(l, n) /\ recover(l).writes = Restored(T, Images(T))
  <1>1. /\ s \in Sequences32 /\ Age(s) + 1 < SeqMod /\ Age(s) \in Nat /\ Age(s) + 2 <= 2 * n
        /\ next_sequence(next_sequence(s)) \in Sequences32
        /\ Age(next_sequence(next_sequence(s))) = Age(s) + 2
    BY InProgressAges
  <1>2. BodyStale(l, Age(s) + 1)
    BY CommittedStale
  <1>3. WhollyLogged(l, s, p, T)
    <2>1. LogOK(l)
      BY <1>2, StaleLogOK
    <2>2. ASSUME NEW m \in Ring, \A k \in 1 .. LogLengthOf(T) + 1 : m # Place(p, k)
          PROVE  Foreign(l[m], s)
      <3>1. LogLengthOf(T) \in Nat
        BY PlacesAre
      <3>2. ~Holds(p, T, m) /\ m # CommitPlace(p, T)
        BY <2>2, <3>1 DEF Holds, CommitPlace
      <3>3. Stale(l[m], Age(s))
        BY <3>2, BodyIs DEF Committed
      <3> QED BY <1>1, <3>3, StaleForeign
    <2> QED BY <2>1, <2>2 DEF WhollyLogged, Committed, CommitPlace
  <1>4. recover(l) = [status |-> "replay", writes |-> Restored(T, Images(T)),
                      seq |-> next_sequence(next_sequence(s))]
    BY <1>3, CompleteLogReplayed DEF InProgress
  <1>5. /\ recover(l).status = "replay" /\ recover(l).writes = Restored(T, Images(T))
        /\ recover(l).seq = next_sequence(next_sequence(s))
    BY <1>4
  <1>6. l[0].seq = s /\ l[0].start = p /\ p # 0
    BY SuperBlockFields, BodyIs DEF InProgress
  <1>7. Age(recover(l).seq) <= 2 * n /\ recover(l).seq \in Sequences32
    BY <1>1, <1>5
  <1>8. recover(l).writes \in Seq(HomeWrites) /\ Distinct(recover(l).writes)
    BY <1>5, RestoredDistinct DEF InProgress
  <1>9. BodyStale(l, Age(recover(l).seq))
    <2>1. Age(s) + 1 \in Nat /\ Age(s) + 2 \in Nat /\ Age(s) + 1 <= Age(s) + 2
      BY <1>1
    <2>2. BodyStale(l, Age(s) + 2)
      BY <1>2, <2>1, StaleGrows
    <2> QED BY <1>1, <1>5, <2>2
  <1>10. l[0] = SuperBlock(l[0].seq, l[0].start)
    BY <1>6
  <1>11. recover(l).status = IF l[0].start = 0 THEN "clean" ELSE "replay"
    BY <1>5, <1>6
  <1> QED BY <1>5, <1>7, <1>8, <1>9, <1>10, <1>11 DEF Recoverable

-----------------------------------------------------------------------------
(* Crash atomicity: what a power loss may leave on the device *)

\* Current contents cur and the contents dur a power loss may leave.
Holding(S, cur, dur) ==
    /\ cur = [n \in S |-> cur[n]] /\ dur = [n \in S |-> dur[n]]
    /\ \A n \in S : cur[n] \in dur[n]

Left(S, dur, l) == l = [n \in S |-> l[n]] /\ \A n \in S : l[n] \in dur[n]

LEMMA OutcomesAre ==
    ASSUME NEW S, NEW cur, NEW dur, Holding(S, cur, dur)
    PROVE  /\ \A l : l \in Outcomes(cur, dur) <=> Left(S, dur, l)
           /\ cur \in Outcomes(cur, dur)
  <1> DEFINE dirty == Dirty(cur, dur)
             picks == [dirty -> UNION {dur[n] : n \in dirty}]
             f(g)  == [n \in S |-> IF n \in dirty THEN g[n] ELSE cur[n]]
  <1>1. DOMAIN cur = S /\ \A n \in S : n \notin dirty <=> dur[n] = {cur[n]}
    BY DEF Holding, Dirty
  <1>2. dirty \subseteq S
    BY <1>1 DEF Dirty
  <1> HIDE DEF dirty
  <1>3. Outcomes(cur, dur) = {x \in {f(g) : g \in picks} : \A n \in S : x[n] \in dur[n]}
    BY <1>1, Zenon DEF Outcomes, dirty
  <1>4. ASSUME NEW l, l \in Outcomes(cur, dur) PROVE Left(S, dur, l)
    <2>1. PICK g \in picks : l = f(g)
      BY <1>3, <1>4
    <2> QED BY <1>3, <1>4, <2>1 DEF Left
  <1>5. ASSUME NEW l, Left(S, dur, l) PROVE l \in Outcomes(cur, dur)
    <2> DEFINE g == [n \in dirty |-> l[n]]
    <2>1. g \in picks
      BY <1>2, <1>5 DEF Left
    <2>2. l = f(g)
      <3>1. \A n \in S : l[n] = IF n \in dirty THEN g[n] ELSE cur[n]
        BY <1>1, <1>5 DEF Left
      <3> QED BY <1>5, <3>1 DEF Left
    <2> HIDE DEF g, f, picks
    <2> QED BY <1>3, <1>5, <2>1, <2>2 DEF Left
  <1>6. Left(S, dur, cur)
    BY DEF Holding, Left
  <1> QED BY <1>4, <1>5, <1>6

\* A flush or a power loss takes outcomes away.
LEMMA OutcomesShrink ==
    ASSUME NEW S, NEW c, NEW d, Holding(S, c, d), NEW c2, NEW d2, Holding(S, c2, d2),
           \A n \in S : d2[n] \subseteq d[n]
    PROVE  Outcomes(c2, d2) \subseteq Outcomes(c, d)
  BY OutcomesAre DEF Left

LEMMA OutcomesClean ==
    ASSUME NEW S, NEW c, NEW d, Holding(S, c, d), \A n \in S : d[n] = {c[n]}
    PROVE  Outcomes(c, d) = {c}
  <1>1. ASSUME NEW l \in Outcomes(c, d) PROVE l = c
    <2>1. Left(S, d, l)
      BY OutcomesAre
    <2> QED BY <2>1 DEF Left, Holding
  <1> QED BY <1>1, OutcomesAre

\* The outcomes that a write of one of the contents X to block n adds.
Added(S, d, n, X, l) ==
    l = [m \in S |-> l[m]] /\ l[n] \in X /\ \A m \in S \ {n} : l[m] \in d[m]

\* A write of b to block n, which may have been torn, and what it leaves in the cache.
Rewritten(S, c, d, c2, d2, n, X) ==
    /\ Holding(S, c2, d2)
    /\ d[n] \subseteq d2[n] /\ d2[n] \subseteq d[n] \cup X
    /\ \A m \in S \ {n} : d2[m] = d[m] /\ c2[m] = c[m]

LEMMA OutcomesGrow ==
    ASSUME NEW S, NEW c, NEW d, Holding(S, c, d), NEW c2, NEW d2, NEW n \in S, NEW X,
           Rewritten(S, c, d, c2, d2, n, X)
    PROVE  /\ Outcomes(c, d) \subseteq Outcomes(c2, d2)
           /\ \A l \in Outcomes(c2, d2) : l \in Outcomes(c, d) \/ Added(S, d, n, X, l)
  <1>0. Holding(S, c2, d2)
    BY DEF Rewritten
  <1>1. /\ \A l : l \in Outcomes(c, d) <=> Left(S, d, l)
        /\ \A l : l \in Outcomes(c2, d2) <=> Left(S, d2, l)
    BY <1>0, OutcomesAre
  <1>2. ASSUME NEW l, Left(S, d, l) PROVE Left(S, d2, l)
    BY <1>2 DEF Left, Rewritten
  <1>3. ASSUME NEW l, Left(S, d2, l) PROVE Left(S, d, l) \/ Added(S, d, n, X, l)
    BY <1>3 DEF Left, Rewritten, Added
  <1> QED BY <1>1, <1>2, <1>3

\* A power loss may leave the block as the write found it or as it left it.
LEMMA OutcomeWith ==
    ASSUME NEW S, NEW c, NEW d, Holding(S, c, d), NEW c2, NEW d2, NEW n \in S, NEW X,
           Rewritten(S, c, d, c2, d2, n, X), NEW v, v \in d2[n]
    PROVE  [c EXCEPT ![n] = v] \in Outcomes(c2, d2)
  <1>1. Left(S, d2, [c EXCEPT ![n] = v])
    BY DEF Holding, Rewritten, Left
  <1> QED BY <1>1, OutcomesAre DEF Rewritten

LEMMA LogWritten ==
    ASSUME Holding(LogBlocks, log, logDur), NEW n \in LogBlocks, NEW b,
           LogWrite(n, b) \/ LogWriteFails(n, b)
    PROVE  /\ Rewritten(LogBlocks, log, logDur, log', logDur', n, {b} \cup TornLog(n))
           /\ UNCHANGED <<home, homeDur, flag, flagDur, ntx>>
           /\ logDur[n] # {b} => logDur'[n] = logDur[n] \cup {b} \cup TornLog(n)
           /\ LogWrite(n, b) => log' = [log EXCEPT ![n] = b]
  <1>1. /\ logDur' = Reach(logDur, n, b, TornLog(n))
        /\ UNCHANGED <<home, homeDur, flag, flagDur, ntx>>
    BY DEF LogWrite, LogWriteFails, Fault, bounds
  <1>2. /\ logDur' = [m \in LogBlocks |-> logDur'[m]]
        /\ logDur'[n] = IF logDur[n] = {b} THEN {b} ELSE logDur[n] \cup {b} \cup TornLog(n)
        /\ \A m \in LogBlocks \ {n} : logDur'[m] = logDur[m]
    BY <1>1 DEF Holding, Reach
  <1>3. /\ log' = [m \in LogBlocks |-> log'[m]] /\ log'[n] \in logDur'[n]
        /\ \A m \in LogBlocks \ {n} : log'[m] = log[m]
    <2>1. CASE LogWrite(n, b)
      <3>1. log' = [log EXCEPT ![n] = b]
        BY <2>1 DEF LogWrite
      <3> QED BY <1>2, <3>1 DEF Holding
    <2>2. CASE LogWriteFails(n, b)
      <3>1. \E left \in logDur'[n] : log' = [log EXCEPT ![n] = left]
        BY <2>2 DEF LogWriteFails
      <3> QED BY <1>2, <3>1 DEF Holding
    <2> QED BY <2>1, <2>2
  <1>4. Holding(LogBlocks, log', logDur')
    BY <1>2, <1>3 DEF Holding
  <1>5. LogWrite(n, b) => log' = [log EXCEPT ![n] = b]
    BY DEF LogWrite
  <1>6. Rewritten(LogBlocks, log, logDur, log', logDur', n, {b} \cup TornLog(n))
    BY <1>2, <1>3, <1>4 DEF Rewritten
  <1> QED BY <1>1, <1>2, <1>5, <1>6

LEMMA HomeWritten ==
    ASSUME Holding(HomeBlocks, home, homeDur), NEW h \in HomeBlocks, NEW v,
           HomeWrite(h, v) \/ HomeWriteFails(h, v)
    PROVE  /\ Holding(HomeBlocks, home', homeDur')
           /\ UNCHANGED <<log, logDur, flag, flagDur, ntx>>
           /\ \A g \in HomeBlocks \ {h} : home'[g] = home[g] /\ homeDur'[g] = homeDur[g]
           /\ HomeWrite(h, v) => home'[h] = v
  <1>1. /\ homeDur' = Reach(homeDur, h, v, {TornImage})
        /\ UNCHANGED <<log, logDur, flag, flagDur, ntx>>
    BY DEF HomeWrite, HomeWriteFails, Fault, bounds
  <1>2. /\ homeDur' = [m \in HomeBlocks |-> homeDur'[m]]
        /\ homeDur'[h] = IF homeDur[h] = {v} THEN {v} ELSE homeDur[h] \cup {v} \cup {TornImage}
        /\ \A m \in HomeBlocks \ {h} : homeDur'[m] = homeDur[m]
    BY <1>1 DEF Holding, Reach
  <1>3. /\ home' = [m \in HomeBlocks |-> home'[m]] /\ home'[h] \in homeDur'[h]
        /\ \A m \in HomeBlocks \ {h} : home'[m] = home[m]
        /\ HomeWrite(h, v) => home'[h] = v
    <2>1. CASE HomeWrite(h, v)
      <3>1. home' = [home EXCEPT ![h] = v]
        BY <2>1 DEF HomeWrite
      <3> QED BY <1>2, <3>1 DEF Holding
    <2>2. CASE HomeWriteFails(h, v) /\ ~HomeWrite(h, v)
      <3>1. \E left \in homeDur'[h] : home' = [home EXCEPT ![h] = left]
        BY <2>2 DEF HomeWriteFails
      <3> QED BY <1>2, <2>2, <3>1 DEF Holding
    <2> QED BY <2>1, <2>2
  <1> QED BY <1>1, <1>2, <1>3 DEF Holding

-----------------------------------------------------------------------------
(* Crash atomicity: the inductive invariant *)

DeviceHolds ==
    /\ Holding(HomeBlocks, home, homeDur) /\ Holding(LogBlocks, log, logDur)
    /\ flag \in flagDur /\ flagDur \subseteq BOOLEAN
    /\ ntx \in Nat /\ ntx <= MaxTx

\* Recovery accepts whatever a power loss leaves of the log.
Readable == \A l \in Outcomes(log, logDur) : Recoverable(l, ntx)

\* A log that the next mount must read is never left without RECOVER.
FlagGuards == FALSE \in flagDur => \A b \in logDur[0] : b.start = 0

\* A transaction holds new images, and only while it is open.
StagedOK ==
    /\ phase \notin {"open"} \cup Committing => staged = NoImages
    /\ staged = [h \in DOMAIN staged |-> NewImage(h)]

\* Between commits: the journal is empty, its stale blocks are older than seq, and the
\* caches show what is on the disk.
Settled ==
    /\ home = pub /\ log[0] = SuperBlock(seq, 0) /\ LogClean
    /\ seq \in Sequences32 /\ BodyStale(log, Age(seq))

InFlight == InProgress(seq, head, staged, ntx)

\* Every content that a block of the log may have is stale or what was logged there.
TracesOnly ==
    \A n \in Body : \A b \in logDur[n] :
        \/ Stale(b, Age(seq))
        \/ \E k \in 1 .. LogLength : n = Place(head, k) /\ b = Encoded[k]

BodyClean == \A n \in Body : logDur[n] = {log[n]}

AtRest == Settled /\ Age(seq) <= 2 * ntx

Opened == Settled /\ Age(seq) + 2 <= 2 * ntx

AtTail == Settled /\ InFlight /\ idx = 1 /\ todo = DOMAIN staged

AtTailFlush ==
    /\ InFlight /\ idx = 1 /\ todo = DOMAIN staged /\ home = pub
    /\ BodyClean /\ BodyStale(log, Age(seq))
    /\ log[0] = SuperBlock(seq, head)
    /\ logDur[0] \subseteq {SuperBlock(seq, 0), SuperBlock(seq, head)}

AtLog ==
    /\ InFlight /\ idx \in Nat /\ todo = DOMAIN staged /\ home = pub
    /\ log[0] = SuperBlock(seq, head) /\ logDur[0] = {log[0]}
    /\ TracesOnly
    /\ \A k \in 1 .. LogLength : k < idx => InPlace(log, seq, head, staged, k)

AtCommit ==
    /\ InFlight /\ todo = DOMAIN staged /\ home = pub
    /\ LogClean /\ log[0] = SuperBlock(seq, head) /\ Logged(log, seq, head, staged)

AtCommitFlush ==
    /\ InFlight /\ todo = DOMAIN staged /\ home = pub
    /\ log[0] = SuperBlock(seq, head) /\ Committed(log, seq, head, staged)
    /\ \A n \in LogBlocks \ {CommitPosition} : logDur[n] = {log[n]}
    /\ \A b \in logDur[CommitPosition] : Stale(b, Age(seq)) \/ b = encode_commit(seq)
    /\ \E b \in logDur[CommitPosition] : Stale(b, Age(seq))

AtHome ==
    /\ InFlight /\ LogClean
    /\ log[0] = SuperBlock(seq, head) /\ Committed(log, seq, head, staged)
    /\ todo \subseteq DOMAIN staged
    /\ \A h \in HomeBlocks : IF h \in DOMAIN staged THEN h \in todo \/ home[h] = staged[h]
                             ELSE home[h] = pub[h] /\ homeDur[h] = {home[h]}

Published == home = pub /\ \A h \in DOMAIN staged : pub[h] = staged[h]

AtClean ==
    /\ InFlight /\ Published /\ LogClean
    /\ log[0] = SuperBlock(seq, head) /\ Committed(log, seq, head, staged)

AtCleanFlush ==
    /\ InFlight /\ Published /\ BodyClean /\ Committed(log, seq, head, staged)
    /\ log[0] = SuperBlock(next_sequence(seq), 0)
    /\ logDur[0] \subseteq {SuperBlock(seq, head), SuperBlock(next_sequence(seq), 0)}

\* Homes that no write of ws replaces are durable.
Untouched(ws) ==
    \A h \in HomeBlocks : (\A i \in DOMAIN ws : ws[i].home # h) => homeDur[h] = {home[h]}

AtReplay ==
    /\ LogClean /\ rec = recover(log) /\ idx \in Nat /\ idx > 0
    /\ \A i \in DOMAIN rec.writes : i < idx => home[rec.writes[i].home] = rec.writes[i].image
    /\ Untouched(rec.writes)

AtRetire == LogClean /\ rec = recover(log) /\ Applied(home, rec.writes) = home

AtRetireFlush ==
    /\ BodyClean /\ log[0] = SuperBlock(rec.seq, 0)
    /\ rec.seq \in Sequences32 /\ Age(rec.seq) <= 2 * ntx /\ BodyStale(log, Age(rec.seq))

AtEnable == LogClean /\ log[0].start = 0

Healthy == phase = "idle" /\ mode = "up" /\ poisoned = FALSE

PhaseTable ==
    /\ Healthy \/ phase \in {"disable", "disableflush"} => AtRest
    /\ phase = "open" => Opened
    /\ phase = "tail" => AtTail
    /\ phase = "tailflush" => AtTailFlush
    /\ phase = "log" => AtLog
    /\ phase = "commit" => AtCommit
    /\ phase = "commitflush" => AtCommitFlush
    /\ phase = "home" => AtHome
    /\ phase = "clean" => AtClean
    /\ phase = "cleanflush" => AtCleanFlush
    /\ phase = "replay" => AtReplay
    /\ phase = "retire" => AtRetire
    /\ phase = "retireflush" => AtRetireFlush
    /\ phase \in {"enable", "enableflush"} => AtEnable

RInv == DeviceHolds /\ Readable /\ FlagGuards /\ StagedOK /\ PhaseTable

-----------------------------------------------------------------------------
(* Crash atomicity: the stores a crash may lead to *)

StoresOf(hs, ls) == {Applied(h, recover(l).writes) : h \in hs, l \in ls}

Stores == StoresOf(Outcomes(home, homeDur), Outcomes(log, logDur))

\* What a mount would make of the contents a power loss may leave.
StoresFor(hs, ls, fs) ==
    {Recovered(h, d) : h \in hs, d \in {Decision(l, f) : l \in ls, f \in fs}}

LEMMA StoresAre ==
    ASSUME NEW hs, NEW ls, NEW fs, fs \subseteq BOOLEAN, fs # {}, NEW n,
           \A l \in ls : Recoverable(l, n),
           FALSE \in fs => \A l \in ls : l[0].start = 0
    PROVE  StoresFor(hs, ls, fs) = StoresOf(hs, ls)
  <1>1. ASSUME NEW h \in hs, NEW l \in ls, NEW f \in fs
        PROVE  Recovered(h, Decision(l, f)) = Applied(h, recover(l).writes)
    <2>1. recover(l).status # "err"
      BY DEF Recoverable
    <2>2. CASE f = TRUE
      BY <2>1, <2>2 DEF Decision, Recovered
    <2>3. CASE f = FALSE
      <3>1. l[0].start = 0
        BY <2>3
      <3>2. recover(l).writes = <<>>
        BY <3>1 DEF recover
      <3>3. Decision(l, f) = [status |-> "clean", writes |-> <<>>, seq |-> 0]
        BY <2>3, <3>1 DEF Decision
      <3> QED BY <3>2, <3>3 DEF Recovered
    <2> QED BY <2>2, <2>3
  <1>2. ASSUME NEW x \in StoresFor(hs, ls, fs) PROVE x \in StoresOf(hs, ls)
    <2>1. PICK h \in hs, l \in ls, f \in fs : x = Recovered(h, Decision(l, f))
      BY <1>2 DEF StoresFor
    <2> QED BY <1>1, <2>1 DEF StoresOf
  <1>3. ASSUME NEW x \in StoresOf(hs, ls) PROVE x \in StoresFor(hs, ls, fs)
    <2>1. PICK h \in hs, l \in ls : x = Applied(h, recover(l).writes)
      BY <1>3 DEF StoresOf
    <2>2. PICK f \in fs : TRUE
      OBVIOUS
    <2>3. x = Recovered(h, Decision(l, f))
      BY <1>1, <2>1
    <2> QED BY <2>3 DEF StoresFor
  <1> QED BY <1>2, <1>3

LEMMA AppliedNothing ==
    ASSUME NEW h, h = [n \in HomeBlocks |-> h[n]]
    PROVE  Applied(h, <<>>) = h
  BY DEF Applied

\* Two stores that agree where nothing is written are the same after the writes.
LEMMA AppliedAgrees ==
    ASSUME NEW g, NEW h, g = [n \in HomeBlocks |-> g[n]], h = [n \in HomeBlocks |-> h[n]], NEW ws,
           \A n \in HomeBlocks : (\A i \in DOMAIN ws : ws[i].home # n) => g[n] = h[n]
    PROVE  Applied(g, ws) = Applied(h, ws)
  <1> DEFINE to(n) == {i \in DOMAIN ws : ws[i].home = n}
             last(n) == ws[CHOOSE i \in to(n) : \A j \in to(n) : j <= i].image
  <1>1. /\ Applied(g, ws) = [n \in DOMAIN g |-> IF to(n) = {} THEN g[n] ELSE last(n)]
        /\ Applied(h, ws) = [n \in DOMAIN h |-> IF to(n) = {} THEN h[n] ELSE last(n)]
    BY Zenon DEF Applied
  <1>2. DOMAIN g = HomeBlocks /\ DOMAIN h = HomeBlocks
    OBVIOUS
  <1>3. \A n \in HomeBlocks : to(n) = {} => g[n] = h[n]
    OBVIOUS
  <1> HIDE DEF to, last
  <1> QED BY <1>1, <1>2, <1>3

\* A store that has all the writes already is not changed by them.
LEMMA AppliedAgain ==
    ASSUME NEW h, h = [n \in HomeBlocks |-> h[n]], NEW ws, ws \in Seq(HomeWrites), Distinct(ws),
           \A i \in DOMAIN ws : h[ws[i].home] = ws[i].image
    PROVE  Applied(h, ws) = h
  <1> DEFINE to(n) == {i \in DOMAIN ws : ws[i].home = n}
             last(n) == CHOOSE i \in to(n) : \A j \in to(n) : j <= i
  <1>1. Applied(h, ws) = [n \in DOMAIN h |-> IF to(n) = {} THEN h[n] ELSE ws[last(n)].image]
    BY Zenon DEF Applied
  <1>2. ASSUME NEW n \in HomeBlocks, to(n) # {} PROVE ws[last(n)].image = h[n]
    <2>1. PICK i \in to(n) : TRUE
      BY <1>2
    <2>2. \A j \in to(n) : j = i
      BY <2>1 DEF Distinct
    <2>3. i \in Nat
      BY <2>1
    <2>4. \A j \in to(n) : j <= i
      BY <2>2, <2>3
    <2> HIDE DEF to
    <2>5. last(n) \in to(n)
      BY <2>1, <2>4
    <2>6. last(n) = i
      BY <2>2, <2>5
    <2> QED BY <2>1, <2>6 DEF to
  <1>3. DOMAIN h = HomeBlocks
    OBVIOUS
  <1> HIDE DEF to, last
  <1> QED BY <1>1, <1>2, <1>3

-----------------------------------------------------------------------------
(* Crash atomicity: what each operation of the device keeps *)

\* The invariant without what the thread is doing.
Sound == DeviceHolds /\ Readable /\ FlagGuards

LEMMA InStores ==
    ASSUME NEW hs, NEW ls, NEW h \in hs, NEW l \in ls
    PROVE  Applied(h, recover(l).writes) \in StoresOf(hs, ls)
  BY DEF StoresOf

LEMMA StoresNotEmpty ==
    ASSUME DeviceHolds
    PROVE  Stores # {}
  BY OutcomesAre, InStores DEF DeviceHolds, Stores

LEMMA SameDeviceKeeps ==
    ASSUME Sound, UNCHANGED device, ntx' \in Nat, ntx <= ntx', ntx' <= MaxTx
    PROVE  Sound' /\ Stores' = Stores
  <1>1. UNCHANGED <<home, homeDur, log, logDur, flag, flagDur>>
    BY DEF device
  <1>2. DeviceHolds' /\ FlagGuards'
    BY <1>1 DEF Sound, DeviceHolds, FlagGuards
  <1>3. Readable'
    <2>1. ntx \in Nat
      BY DEF Sound, DeviceHolds
    <2>2. Outcomes(log, logDur)' = Outcomes(log, logDur)
      BY <1>1
    <2> SUFFICES ASSUME NEW l \in Outcomes(log, logDur) PROVE Recoverable(l, ntx')
      BY <2>2 DEF Readable
    <2>3. Recoverable(l, ntx)
      BY DEF Sound, Readable
    <2> QED BY <2>1, <2>3, RecoverableLater
  <1>4. Stores' = Stores
    BY <1>1 DEF Stores
  <1> QED BY <1>2, <1>3, <1>4 DEF Sound

\* A step that leaves both the device and the count of transactions alone.
LEMMA SameKeeps ==
    ASSUME Sound, UNCHANGED <<device, ntx>>
    PROVE  Sound' /\ Stores' = Stores
  BY SameDeviceKeeps DEF Sound, DeviceHolds

LEMMA FlushKeeps ==
    ASSUME Sound, Flush
    PROVE  /\ Sound' /\ HomesClean' /\ LogClean' /\ UNCHANGED <<home, log, ntx>>
           /\ Stores' \subseteq Stores /\ Stores' # {}
           /\ Applied(home, recover(log).writes) \in Stores'
  <1>1. /\ UNCHANGED <<home, log, flag, ntx>> /\ flagDur' = {flag}
        /\ homeDur' = [h \in HomeBlocks |-> {home[h]}]
        /\ logDur' = [n \in LogBlocks |-> {log[n]}]
    BY DEF Flush, bounds
  <1>2. DeviceHolds'
    BY <1>1 DEF Sound, DeviceHolds, Holding
  <1>3. HomesClean' /\ LogClean'
    BY <1>1 DEF HomesClean, LogClean
  <1>4. /\ Outcomes(home', homeDur') \subseteq Outcomes(home, homeDur)
        /\ Outcomes(log', logDur') \subseteq Outcomes(log, logDur)
    <2>1. /\ Holding(HomeBlocks, home, homeDur) /\ Holding(HomeBlocks, home', homeDur')
          /\ Holding(LogBlocks, log, logDur) /\ Holding(LogBlocks, log', logDur')
      BY <1>2 DEF Sound, DeviceHolds
    <2>2. /\ \A h \in HomeBlocks : homeDur'[h] \subseteq homeDur[h]
          /\ \A n \in LogBlocks : logDur'[n] \subseteq logDur[n]
      BY <1>1, <2>1 DEF Holding
    <2> QED BY <2>1, <2>2, OutcomesShrink
  <1>5. Readable'
    BY <1>1, <1>4 DEF Sound, Readable
  <1>6. FlagGuards'
    BY <1>1, BodyIs DEF Sound, DeviceHolds, Holding, FlagGuards
  <1>7. Stores' \subseteq Stores
    BY <1>4 DEF Stores, StoresOf
  <1>8. home' \in Outcomes(home', homeDur') /\ log' \in Outcomes(log', logDur')
    BY <1>2, OutcomesAre DEF DeviceHolds
  <1>9. Applied(home, recover(log).writes) \in Stores'
    <2>1. Applied(home', recover(log').writes) \in Stores'
      BY <1>8, InStores DEF Stores
    <2> QED BY <1>1, <2>1
  <1> QED BY <1>1, <1>2, <1>3, <1>5, <1>6, <1>7, <1>9 DEF Sound

LEMMA CrashKeeps ==
    ASSUME Sound, PowerLoss
    PROVE  Sound' /\ Stores' \subseteq Stores /\ Stores' # {}
  <1>1. /\ home' \in Outcomes(home, homeDur) /\ homeDur' = [h \in HomeBlocks |-> {home'[h]}]
        /\ log' \in Outcomes(log, logDur) /\ logDur' = [n \in LogBlocks |-> {log'[n]}]
        /\ flag' \in flagDur /\ flagDur' = {flag'} /\ ntx' = ntx
    BY DEF PowerLoss, Crash
  <1>2. Left(HomeBlocks, homeDur, home') /\ Left(LogBlocks, logDur, log')
    BY <1>1, OutcomesAre DEF Sound, DeviceHolds
  <1>3. DeviceHolds'
    BY <1>1, <1>2 DEF Sound, DeviceHolds, Holding, Left
  <1>4. /\ Outcomes(home', homeDur') \subseteq Outcomes(home, homeDur)
        /\ Outcomes(log', logDur') \subseteq Outcomes(log, logDur)
    <2>1. /\ Holding(HomeBlocks, home, homeDur) /\ Holding(HomeBlocks, home', homeDur')
          /\ Holding(LogBlocks, log, logDur) /\ Holding(LogBlocks, log', logDur')
      BY <1>3 DEF Sound, DeviceHolds
    <2>2. /\ \A h \in HomeBlocks : homeDur'[h] \subseteq homeDur[h]
          /\ \A n \in LogBlocks : logDur'[n] \subseteq logDur[n]
      BY <1>1, <1>2 DEF Left
    <2> QED BY <2>1, <2>2, OutcomesShrink
  <1>5. Readable'
    BY <1>1, <1>4 DEF Sound, Readable
  <1>6. FlagGuards'
    BY <1>1, <1>2, BodyIs DEF Sound, DeviceHolds, FlagGuards, Left
  <1>7. Stores' \subseteq Stores
    BY <1>4 DEF Stores, StoresOf
  <1>8. home' \in Outcomes(home', homeDur') /\ log' \in Outcomes(log', logDur')
    BY <1>3, OutcomesAre DEF DeviceHolds
  <1>9. Stores' # {}
    BY <1>8, InStores DEF Stores
  <1> QED BY <1>3, <1>5, <1>6, <1>7, <1>9 DEF Sound

LEMMA FlagWriteKeeps ==
    ASSUME Sound, NEW v \in BOOLEAN, FlagWrite(v) \/ FlagWriteFails(v),
           v = FALSE => \A b \in logDur[0] : b.start = 0
    PROVE  Sound' /\ Stores' = Stores /\ UNCHANGED <<home, homeDur, log, logDur, ntx>>
  <1>1. /\ UNCHANGED <<home, homeDur, log, logDur, ntx>>
        /\ flag' \in {flag, v} /\ flagDur' = flagDur \cup {v}
    BY DEF FlagWrite, FlagWriteFails, Fault, bounds
  <1>2. DeviceHolds' /\ FlagGuards'
    BY <1>1 DEF Sound, DeviceHolds, FlagGuards
  <1>3. Readable' /\ Stores' = Stores
    BY <1>1 DEF Sound, Readable, Stores
  <1> QED BY <1>1, <1>2, <1>3 DEF Sound

\* The logs a write of b to block n adds to those a power loss may leave.
AddedLog(n, b, l) == Added(LogBlocks, logDur, n, {b} \cup TornLog(n), l)

LEMMA LogWriteKeeps ==
    ASSUME Sound, NEW n \in LogBlocks, NEW b, LogWrite(n, b) \/ LogWriteFails(n, b),
           n = 0 => b.start = 0 \/ flagDur = {TRUE},
           \A l : AddedLog(n, b, l) => Recoverable(l, ntx)
    PROVE  /\ Sound' /\ UNCHANGED <<home, homeDur, flag, flagDur, ntx>>
           /\ Stores \subseteq Stores'
           /\ \A s \in Stores' : s \in Stores \/ \E l : AddedLog(n, b, l) /\
                  \E h \in Outcomes(home, homeDur) : s = Applied(h, recover(l).writes)
  <1>1. /\ Rewritten(LogBlocks, log, logDur, log', logDur', n, {b} \cup TornLog(n))
        /\ UNCHANGED <<home, homeDur, flag, flagDur, ntx>>
    BY LogWritten DEF Sound, DeviceHolds
  <1>2. DeviceHolds'
    BY <1>1 DEF Sound, DeviceHolds, Rewritten
  <1>3. /\ Outcomes(log, logDur) \subseteq Outcomes(log', logDur')
        /\ \A l \in Outcomes(log', logDur') : l \in Outcomes(log, logDur) \/ AddedLog(n, b, l)
    BY <1>1, OutcomesGrow DEF Sound, DeviceHolds, AddedLog
  <1>4. Readable'
    BY <1>1, <1>3 DEF Sound, Readable
  <1>5. FlagGuards'
    <2>1. 0 \in LogBlocks /\ (n = 0 => TornLog(n) = {})
      BY BodyIs DEF TornLog
    <2>2. logDur'[0] \subseteq logDur[0] \cup IF n = 0 THEN {b} ELSE {}
      BY <1>1, <2>1 DEF Rewritten
    <2> QED BY <1>1, <2>2 DEF Sound, FlagGuards
  <1>6. Stores \subseteq Stores'
    BY <1>1, <1>3 DEF Stores, StoresOf
  <1>7. \A s \in Stores' : s \in Stores \/ \E l : AddedLog(n, b, l) /\
            \E h \in Outcomes(home, homeDur) : s = Applied(h, recover(l).writes)
    BY <1>1, <1>3 DEF Stores, StoresOf
  <1> QED BY <1>1, <1>2, <1>4, <1>5, <1>6, <1>7 DEF Sound

\* A log write that offers recovery no store it did not have.
LEMMA LogWriteSame ==
    ASSUME Sound, HomesClean, NEW n \in LogBlocks, NEW b, LogWrite(n, b) \/ LogWriteFails(n, b),
           n = 0 => b.start = 0 \/ flagDur = {TRUE},
           \A l : AddedLog(n, b, l) =>
               Recoverable(l, ntx) /\ Applied(home, recover(l).writes) \in Stores
    PROVE  Sound' /\ Stores' = Stores /\ HomesClean' /\ UNCHANGED <<home, homeDur, flag, flagDur, ntx>>
  <1>1. Outcomes(home, homeDur) = {home}
    BY OutcomesClean DEF Sound, DeviceHolds, HomesClean
  <1>2. /\ Sound' /\ UNCHANGED <<home, homeDur, flag, flagDur, ntx>>
        /\ Stores \subseteq Stores'
        /\ \A s \in Stores' : s \in Stores \/ \E l : AddedLog(n, b, l) /\
               \E h \in Outcomes(home, homeDur) : s = Applied(h, recover(l).writes)
    BY LogWriteKeeps
  <1>3. Stores' \subseteq Stores
    BY <1>1, <1>2
  <1>4. HomesClean'
    BY <1>2 DEF HomesClean
  <1> QED BY <1>2, <1>3, <1>4

\* With a log that is durable, the homes it replaces do not matter.
LEMMA StoresReplayed ==
    ASSUME NEW c, NEW d, Holding(HomeBlocks, c, d), NEW l,
           \A n \in HomeBlocks : (\A i \in DOMAIN recover(l).writes : recover(l).writes[i].home # n)
                                     => d[n] = {c[n]}
    PROVE  StoresOf(Outcomes(c, d), {l}) = {Applied(c, recover(l).writes)}
  <1> DEFINE ws == recover(l).writes
  <1>1. ASSUME NEW h \in Outcomes(c, d) PROVE Applied(h, ws) = Applied(c, ws)
    <2>1. Left(HomeBlocks, d, h)
      BY OutcomesAre
    <2>2. h = [n \in HomeBlocks |-> h[n]] /\ c = [n \in HomeBlocks |-> c[n]]
      BY <2>1 DEF Left, Holding
    <2>3. \A n \in HomeBlocks : (\A i \in DOMAIN ws : ws[i].home # n) => h[n] = c[n]
      BY <2>1 DEF Left
    <2> HIDE DEF ws
    <2> QED BY <2>2, <2>3, AppliedAgrees
  <1>2. c \in Outcomes(c, d)
    BY OutcomesAre
  <1> QED BY <1>1, <1>2 DEF StoresOf

LEMMA LogCleanStores ==
    ASSUME Sound, LogClean, Untouched(recover(log).writes)
    PROVE  Stores = {Applied(home, recover(log).writes)}
  <1>1. Outcomes(log, logDur) = {log}
    BY OutcomesClean DEF Sound, DeviceHolds, LogClean
  <1>2. Holding(HomeBlocks, home, homeDur)
    BY DEF Sound, DeviceHolds
  <1> QED BY <1>1, <1>2, StoresReplayed DEF Stores, Untouched

LEMMA HomeWriteKeeps ==
    ASSUME Sound, LogClean, NEW h \in HomeBlocks, NEW v, HomeWrite(h, v) \/ HomeWriteFails(h, v),
           Untouched(recover(log).writes),
           \E i \in DOMAIN recover(log).writes : recover(log).writes[i].home = h
    PROVE  /\ Sound' /\ LogClean' /\ Stores' = Stores /\ UNCHANGED <<log, logDur, ntx>>
           /\ Untouched(recover(log).writes)'
           /\ \A g \in HomeBlocks \ {h} : home'[g] = home[g] /\ homeDur'[g] = homeDur[g]
           /\ HomeWrite(h, v) => home'[h] = v
  <1> DEFINE ws == recover(log).writes
  <1>1. /\ Holding(HomeBlocks, home', homeDur')
        /\ UNCHANGED <<log, logDur, flag, flagDur, ntx>>
        /\ \A g \in HomeBlocks \ {h} : home'[g] = home[g] /\ homeDur'[g] = homeDur[g]
        /\ HomeWrite(h, v) => home'[h] = v
    BY HomeWritten DEF Sound, DeviceHolds
  <1>2. DeviceHolds' /\ FlagGuards' /\ LogClean'
    BY <1>1 DEF Sound, DeviceHolds, FlagGuards, LogClean
  <1>3. Readable'
    BY <1>1 DEF Sound, Readable
  <1>4. \A n \in HomeBlocks : (\A i \in DOMAIN ws : ws[i].home # n) => n # h
    OBVIOUS
  <1>5. \A n \in HomeBlocks : (\A i \in DOMAIN ws : ws[i].home # n) => homeDur'[n] = {home'[n]}
    <2> HIDE DEF ws
    <2> QED BY <1>1, <1>4 DEF Untouched, ws
  <1>6. Untouched(recover(log).writes)'
    BY <1>1, <1>5 DEF Untouched
  <1>7. Outcomes(log, logDur) = {log} /\ Outcomes(log', logDur') = {log}
    <2>1. Outcomes(log, logDur) = {log}
      BY OutcomesClean DEF Sound, DeviceHolds, LogClean
    <2> QED BY <1>1, <2>1
  <1>8. Stores' = {Applied(home', ws)}
    <2>1. StoresOf(Outcomes(home', homeDur'), {log}) = {Applied(home', recover(log).writes)}
      BY <1>1, <1>5, StoresReplayed
    <2> QED BY <1>7, <2>1 DEF Stores
  <1>9. Stores = {Applied(home, ws)}
    BY LogCleanStores
  <1>10. Applied(home', ws) = Applied(home, ws)
    <2>1. /\ home = [n \in HomeBlocks |-> home[n]] /\ home' = [n \in HomeBlocks |-> home'[n]]
          /\ \A n \in HomeBlocks : (\A i \in DOMAIN ws : ws[i].home # n) => home'[n] = home[n]
      BY <1>1, <1>4 DEF Sound, DeviceHolds, Holding
    <2> HIDE DEF ws
    <2> QED BY <2>1, AppliedAgrees
  <1> QED BY <1>1, <1>2, <1>3, <1>6, <1>8, <1>9, <1>10 DEF Sound

-----------------------------------------------------------------------------
(* Crash atomicity: the stores in each phase *)

Granted == [h \in HomeBlocks |-> IF h \in DOMAIN staged THEN staged[h] ELSE pub[h]]

LEMMA HomesCleanStores ==
    ASSUME Sound, HomesClean, NEW s,
           \A l \in Outcomes(log, logDur) : Applied(home, recover(l).writes) = s
    PROVE  Stores = {s}
  <1>1. Outcomes(home, homeDur) = {home}
    BY OutcomesClean DEF Sound, DeviceHolds, HomesClean
  <1>2. log \in Outcomes(log, logDur)
    BY OutcomesAre DEF Sound, DeviceHolds
  <1> QED BY <1>1, <1>2 DEF Stores, StoresOf

\* A store to which recovery adds nothing.
LEMMA HarmlessStores ==
    ASSUME Sound, HomesClean, \A l \in Outcomes(log, logDur) : recover(l).writes = <<>>
    PROVE  Stores = {home}
  <1>1. Applied(home, <<>>) = home
    BY AppliedNothing DEF Sound, DeviceHolds, Holding
  <1>2. \A l \in Outcomes(log, logDur) : Applied(home, recover(l).writes) = home
    BY <1>1
  <1> QED BY <1>2, HomesCleanStores

LEMMA EmptyLog ==
    ASSUME NEW l, NEW s, l[0] = SuperBlock(s, 0)
    PROVE  recover(l).writes = <<>> /\ recover(l).seq = s
  <1>1. l[0].start = 0 /\ l[0].seq = s
    BY SuperBlockFields
  <1> QED BY <1>1 DEF recover

LEMMA SettledStores ==
    ASSUME Sound, HomesClean, Settled
    PROVE  Stores = {pub}
  <1>1. Outcomes(log, logDur) = {log}
    BY OutcomesClean DEF Sound, DeviceHolds, Settled, LogClean
  <1>2. recover(log).writes = <<>>
    BY EmptyLog DEF Settled
  <1> QED BY <1>1, <1>2, HarmlessStores DEF Settled

\* What an outcome shares with the current log.
LEMMA OutcomeIs ==
    ASSUME Sound, NEW l \in Outcomes(log, logDur)
    PROVE  \A n \in LogBlocks : l[n] \in logDur[n] /\ (logDur[n] = {log[n]} => l[n] = log[n])
  BY OutcomesAre DEF Sound, DeviceHolds, Left

LEMMA SameNames ==
    ASSUME InFlight
    PROVE  /\ LogLength = LogLengthOf(staged) /\ LogLength \in Nat
           /\ Encoded = encode_log(seq, staged)
           /\ CommitPosition = CommitPlace(head, staged)
           /\ CommitPosition \in Body /\ ~Holds(head, staged, CommitPosition)
  <1>1. LogLength = LogLengthOf(staged)
    BY DEF LogLength, LogLengthOf, Images
  <1>2. LogLengthOf(staged) \in Nat
    BY PlacesAre DEF InFlight
  <1>3. CommitPosition = CommitPlace(head, staged)
    <2> DEFINE m == (LogLengthOf(staged) + 1) - 1
    <2>1. m = LogLength
      BY <1>1, <1>2
    <2>2. CommitPlace(head, staged) = ring_position(head, m)
      BY DEF CommitPlace, Place
    <2> HIDE DEF m
    <2> QED BY <2>1, <2>2 DEF CommitPosition
  <1> QED BY <1>1, <1>2, <1>3, PlacesAre DEF InFlight, Encoded

LEMMA TracesHarmless ==
    ASSUME FewTransactions, InFlight, NEW l,
           l[0] \in {SuperBlock(seq, 0), SuperBlock(seq, head)}, Traces(l, seq, head, staged)
    PROVE  recover(l).writes = <<>>
  <1>1. CASE l[0] = SuperBlock(seq, 0)
    BY <1>1, EmptyLog
  <1>2. CASE l[0] = SuperBlock(seq, head)
    BY <1>2, PartlyRecoverable DEF InFlight
  <1> QED BY <1>1, <1>2

LEMMA TailFlushStores ==
    ASSUME FewTransactions, Sound, HomesClean, AtTailFlush
    PROVE  Stores = {pub}
  <1>1. ASSUME NEW l \in Outcomes(log, logDur) PROVE recover(l).writes = <<>>
    <2>1. /\ \A n \in Body : l[n] = log[n]
          /\ l[0] \in logDur[0]
      BY OutcomeIs, BodyIs DEF AtTailFlush, BodyClean
    <2>2. BodyStale(l, Age(seq))
      BY <2>1 DEF AtTailFlush, BodyStale
    <2>3. Traces(l, seq, head, staged)
      BY <2>2, StaleTraces
    <2> QED BY <2>1, <2>3, TracesHarmless DEF AtTailFlush
  <1> QED BY <1>1, HarmlessStores DEF AtTailFlush

LEMMA TracesOnlyTraces ==
    ASSUME InFlight, TracesOnly, NEW l, \A n \in Body : l[n] \in logDur[n]
    PROVE  Traces(l, seq, head, staged)
  BY SameNames DEF TracesOnly, Traces

LEMMA LogStores ==
    ASSUME FewTransactions, Sound, HomesClean, AtLog
    PROVE  Stores = {pub}
  <1>1. ASSUME NEW l \in Outcomes(log, logDur) PROVE recover(l).writes = <<>>
    <2>1. l[0] \in logDur[0] /\ \A n \in Body : l[n] \in logDur[n]
      BY OutcomeIs, BodyIs
    <2>2. Traces(l, seq, head, staged)
      BY <2>1, TracesOnlyTraces DEF AtLog
    <2>3. l[0] = SuperBlock(seq, head)
      BY <2>1 DEF AtLog
    <2> QED BY <2>2, <2>3, TracesHarmless DEF AtLog
  <1> QED BY <1>1, HarmlessStores DEF AtLog

LEMMA CommitStores ==
    ASSUME FewTransactions, Sound, HomesClean, AtCommit
    PROVE  Stores = {pub}
  <1>1. Outcomes(log, logDur) = {log}
    BY OutcomesClean DEF Sound, DeviceHolds, AtCommit, LogClean
  <1>2. Traces(log, seq, head, staged)
    BY LoggedTraces DEF AtCommit
  <1>3. recover(log).writes = <<>>
    BY <1>2, TracesHarmless DEF AtCommit
  <1> QED BY <1>1, <1>3, HarmlessStores DEF AtCommit

LEMMA GrantedApplied ==
    ASSUME Sound, InFlight, \A h \in HomeBlocks \ DOMAIN staged : home[h] = pub[h]
    PROVE  Applied(home, Restored(staged, Images(staged))) = Granted
  <1>1. Applied(home, Restored(staged, Images(staged))) =
            [h \in DOMAIN home |-> IF h \in DOMAIN staged THEN staged[h] ELSE home[h]]
    BY RestoredApplied DEF InFlight, InProgress
  <1>2. DOMAIN home = HomeBlocks
    BY DEF Sound, DeviceHolds, Holding
  <1> QED BY <1>1, <1>2 DEF Granted

LEMMA CommittedWrites ==
    ASSUME FewTransactions, InFlight, NEW l, l[0] = SuperBlock(seq, head),
           Committed(l, seq, head, staged)
    PROVE  recover(l).writes = Restored(staged, Images(staged))
  BY WhollyRecoverable DEF InFlight

\* The log while the commit block is written: it is there, or it is as it was before.
LEMMA CommitFlushLogs ==
    ASSUME FewTransactions, InFlight, log[0] = SuperBlock(seq, head),
           \A k \in 1 .. LogLengthOf(staged) : InPlace(log, seq, head, staged, k),
           \A n \in Body : \/ Stale(log[n], Age(seq)) \/ Holds(head, staged, n)
                           \/ n = CommitPosition,
           NEW l, \A n \in LogBlocks \ {CommitPosition} : l[n] = log[n]
    PROVE  /\ Stale(l[CommitPosition], Age(seq)) =>
                  Recoverable(l, ntx) /\ recover(l).writes = <<>>
           /\ l[CommitPosition] = encode_commit(seq) =>
                  /\ Recoverable(l, ntx)
                  /\ recover(l).writes = Restored(staged, Images(staged))
  <1>1. /\ CommitPosition = CommitPlace(head, staged)
        /\ CommitPosition \in Body /\ ~Holds(head, staged, CommitPosition)
    BY SameNames
  <1>2. l[0] = SuperBlock(seq, head)
    BY <1>1, BodyIs
  <1>3. \A k \in 1 .. LogLengthOf(staged) : InPlace(l, seq, head, staged, k)
    <2> SUFFICES ASSUME NEW k \in 1 .. LogLengthOf(staged)
                 PROVE  l[Place(head, k)] = log[Place(head, k)]
      BY DEF InPlace
    <2>1. k \in 1 .. LogLengthOf(staged) + 1 /\ Place(head, k) \in Body
      BY PlacesAre DEF InFlight
    <2>2. Place(head, k) # CommitPosition
      BY <1>1 DEF Holds
    <2> QED BY <2>1, <2>2, BodyIs
  <1>4. \A n \in Body : \/ Stale(l[n], Age(seq)) \/ Holds(head, staged, n)
                        \/ n = CommitPosition
    BY BodyIs
  <1>5. ASSUME Stale(l[CommitPosition], Age(seq))
        PROVE  Recoverable(l, ntx) /\ recover(l).writes = <<>>
    <2>1. Logged(l, seq, head, staged)
      BY <1>3, <1>4, <1>5 DEF Logged
    <2> QED BY <1>2, <2>1, LoggedTraces, PartlyRecoverable DEF InFlight
  <1>6. ASSUME l[CommitPosition] = encode_commit(seq)
        PROVE  /\ Recoverable(l, ntx)
               /\ recover(l).writes = Restored(staged, Images(staged))
    <2>1. Committed(l, seq, head, staged)
      BY <1>1, <1>3, <1>4, <1>6 DEF Committed
    <2> QED BY <1>2, <2>1, WhollyRecoverable DEF InFlight
  <1> QED BY <1>5, <1>6

LEMMA CommitFlushStores ==
    ASSUME FewTransactions, Sound, HomesClean, AtCommitFlush
    PROVE  Stores = {pub, Granted}
  <1>1. Outcomes(home, homeDur) = {home} /\ home = pub
    BY OutcomesClean DEF Sound, DeviceHolds, HomesClean, AtCommitFlush
  <1>2. /\ Applied(home, Restored(staged, Images(staged))) = Granted
        /\ Applied(home, <<>>) = pub
    <2>1. InFlight /\ \A h \in HomeBlocks \ DOMAIN staged : home[h] = pub[h]
      BY DEF AtCommitFlush
    <2> QED BY <1>1, <2>1, GrantedApplied, AppliedNothing DEF Sound, DeviceHolds, Holding
  <1>3. ASSUME NEW l, \A n \in LogBlocks \ {CommitPosition} : l[n] = log[n]
        PROVE  /\ Stale(l[CommitPosition], Age(seq)) => recover(l).writes = <<>>
               /\ l[CommitPosition] = encode_commit(seq) =>
                      recover(l).writes = Restored(staged, Images(staged))
    <2>1. \A n \in Body : \/ Stale(log[n], Age(seq)) \/ Holds(head, staged, n)
                          \/ n = CommitPosition
      BY SameNames DEF AtCommitFlush, Committed
    <2> QED BY <1>3, <2>1, CommitFlushLogs DEF AtCommitFlush, Committed
  <1>4. ASSUME NEW l \in Outcomes(log, logDur)
        PROVE  Applied(home, recover(l).writes) \in {pub, Granted}
    <2>1. \A n \in LogBlocks \ {CommitPosition} : l[n] = log[n]
      BY OutcomeIs DEF AtCommitFlush
    <2>2. l[CommitPosition] \in logDur[CommitPosition]
      BY OutcomeIs, SameNames, BodyIs DEF AtCommitFlush
    <2> QED BY <1>2, <1>3, <2>1, <2>2 DEF AtCommitFlush
  <1>5. \E l \in Outcomes(log, logDur) : Applied(home, recover(l).writes) = pub
    <2>1. PICK b \in logDur[CommitPosition] : Stale(b, Age(seq))
      BY DEF AtCommitFlush
    <2> DEFINE l == [log EXCEPT ![CommitPosition] = b]
    <2>2. CommitPosition \in LogBlocks
      BY SameNames, BodyIs DEF AtCommitFlush
    <2>3. l[CommitPosition] = b /\ \A n \in LogBlocks \ {CommitPosition} : l[n] = log[n]
      BY <2>2 DEF Sound, DeviceHolds, Holding
    <2>4. Left(LogBlocks, logDur, l)
      BY <2>1, <2>2 DEF Sound, DeviceHolds, Holding, Left
    <2>5. l \in Outcomes(log, logDur)
      BY <2>4, OutcomesAre DEF Sound, DeviceHolds
    <2> HIDE DEF l
    <2> QED BY <1>2, <1>3, <2>1, <2>3, <2>5
  <1>6. \E l \in Outcomes(log, logDur) : Applied(home, recover(l).writes) = Granted
    <2>1. log \in Outcomes(log, logDur)
      BY OutcomesAre DEF Sound, DeviceHolds
    <2>2. log[CommitPosition] = encode_commit(seq)
      BY SameNames DEF AtCommitFlush, Committed
    <2> QED BY <1>2, <1>3, <2>1, <2>2
  <1> QED BY <1>1, <1>4, <1>5, <1>6 DEF Stores, StoresOf

\* Homes the transaction replaces may be in any state.
LEMMA HomeUntouched ==
    ASSUME FewTransactions, AtHome
    PROVE  /\ recover(log).writes = Restored(staged, Images(staged))
           /\ Untouched(recover(log).writes)
           /\ \A h \in DOMAIN staged :
                 \E i \in DOMAIN recover(log).writes : recover(log).writes[i].home = h
  <1>1. recover(log).writes = Restored(staged, Images(staged))
    BY CommittedWrites DEF AtHome
  <1>2. \A h : (\A i \in DOMAIN recover(log).writes : recover(log).writes[i].home # h)
                   <=> h \notin DOMAIN staged
    BY <1>1, RestoredDistinct DEF AtHome, InFlight, InProgress
  <1> HIDE DEF AtHome
  <1>3. \A h \in HomeBlocks : h \notin DOMAIN staged => homeDur[h] = {home[h]}
    BY DEF AtHome
  <1> QED BY <1>1, <1>2, <1>3 DEF Untouched

LEMMA HomeStores ==
    ASSUME FewTransactions, Sound, AtHome
    PROVE  Stores = {Granted}
  <1>1. /\ recover(log).writes = Restored(staged, Images(staged))
        /\ Untouched(recover(log).writes)
    BY HomeUntouched
  <1>2. Stores = {Applied(home, Restored(staged, Images(staged)))}
    BY <1>1, LogCleanStores DEF AtHome
  <1>3. InFlight /\ \A h \in HomeBlocks \ DOMAIN staged : home[h] = pub[h]
    BY DEF AtHome
  <1> QED BY <1>2, <1>3, GrantedApplied

\* Once the homes have the images, replaying the log changes nothing.
LEMMA PublishedApplied ==
    ASSUME FewTransactions, Sound, InFlight, Published, NEW l,
           \/ l[0] = SuperBlock(next_sequence(seq), 0)
           \/ l[0] = SuperBlock(seq, head) /\ Committed(l, seq, head, staged)
    PROVE  Applied(home, recover(l).writes) = pub
  <1>1. home = [n \in HomeBlocks |-> home[n]] /\ home = pub
    BY DEF Sound, DeviceHolds, Holding, Published
  <1>2. CASE l[0] = SuperBlock(next_sequence(seq), 0)
    <2>1. recover(l).writes = <<>>
      BY <1>2, EmptyLog
    <2> QED BY <1>1, <2>1, AppliedNothing
  <1>3. CASE l[0] = SuperBlock(seq, head) /\ Committed(l, seq, head, staged)
    <2>1. recover(l).writes = Restored(staged, Images(staged))
      BY <1>3, CommittedWrites
    <2>2. Applied(home, Restored(staged, Images(staged))) = Granted
      BY <1>1, GrantedApplied
    <2>3. Granted = pub
      BY <1>1 DEF Granted, Published
    <2> QED BY <2>1, <2>2, <2>3
  <1> QED BY <1>2, <1>3

LEMMA CleanStores ==
    ASSUME FewTransactions, Sound, HomesClean, AtClean
    PROVE  Stores = {pub}
  <1>1. Outcomes(log, logDur) = {log}
    BY OutcomesClean DEF Sound, DeviceHolds, AtClean, LogClean
  <1>2. Applied(home, recover(log).writes) = pub
    BY PublishedApplied DEF AtClean
  <1> QED BY <1>1, <1>2, HomesCleanStores

\* A log whose body is the body of the current one.
LEMMA SameBody ==
    ASSUME InFlight, NEW l, \A n \in Body : l[n] = log[n]
    PROVE  Committed(log, seq, head, staged) => Committed(l, seq, head, staged)
  <1>1. \A k \in 1 .. LogLengthOf(staged) : Place(head, k) \in Body
    BY PlacesAre DEF InFlight
  <1>2. CommitPlace(head, staged) \in Body
    BY PlacesAre DEF InFlight
  <1> QED BY <1>1, <1>2 DEF Committed, InPlace

LEMMA CleanFlushStores ==
    ASSUME FewTransactions, Sound, HomesClean, AtCleanFlush
    PROVE  Stores = {pub}
  <1>1. ASSUME NEW l \in Outcomes(log, logDur)
        PROVE  Applied(home, recover(l).writes) = pub
    <2>1. l[0] \in logDur[0] /\ \A n \in Body : l[n] = log[n]
      BY OutcomeIs, BodyIs DEF AtCleanFlush, BodyClean
    <2>2. Committed(l, seq, head, staged)
      BY <2>1, SameBody DEF AtCleanFlush
    <2> QED BY <2>1, <2>2, PublishedApplied DEF AtCleanFlush
  <1> QED BY <1>1, HomesCleanStores

LEMMA ReplayStores ==
    ASSUME Sound, AtReplay
    PROVE  Stores = {Applied(home, rec.writes)}
  BY LogCleanStores DEF AtReplay

LEMMA RetireStores ==
    ASSUME Sound, HomesClean, AtRetire
    PROVE  Stores = {home}
  <1>1. Untouched(recover(log).writes)
    BY DEF HomesClean, Untouched
  <1> QED BY <1>1, LogCleanStores DEF AtRetire

LEMMA RetireFlushStores ==
    ASSUME Sound, AtRetireFlush
    PROVE  home \in Stores
  <1>1. home \in Outcomes(home, homeDur) /\ log \in Outcomes(log, logDur)
    BY OutcomesAre DEF Sound, DeviceHolds
  <1>2. recover(log).writes = <<>>
    BY EmptyLog DEF AtRetireFlush
  <1>3. Applied(home, <<>>) = home
    BY AppliedNothing DEF Sound, DeviceHolds, Holding
  <1>4. Applied(home, recover(log).writes) \in Stores
    BY <1>1, InStores DEF Stores
  <1> QED BY <1>2, <1>3, <1>4

LEMMA EnableStores ==
    ASSUME Sound, HomesClean, LogClean, log[0].start = 0
    PROVE  Stores = {home}
  <1>1. Outcomes(log, logDur) = {log}
    BY OutcomesClean DEF Sound, DeviceHolds, LogClean
  <1>2. recover(log).writes = <<>>
    BY DEF recover
  <1> QED BY <1>1, <1>2, HarmlessStores

-----------------------------------------------------------------------------
(* Crash atomicity: how the invariant is re-established *)

LEMMA NoImagesIs ==
    /\ DOMAIN NoImages = {}
    /\ \A f : f = [h \in DOMAIN f |-> f[h]] /\ DOMAIN f = {} => f = NoImages
    /\ NoImages = [h \in DOMAIN NoImages |-> NewImage(h)]
  BY DEF NoImages

\* A step that leaves no transaction behind.
LEMMA StagedGone ==
    ASSUME staged' = NoImages
    PROVE  StagedOK'
  <1>1. DOMAIN NoImages = {}
    BY NoImagesIs
  <1>2. NoImages = [h \in DOMAIN NoImages |-> NewImage(h)']
    BY <1>1 DEF NoImages
  <1> QED BY <1>2 DEF StagedOK

LEMMA StagedKept ==
    ASSUME StagedOK, UNCHANGED <<staged, ntx>>, phase' \in {"open"} \cup Committing
    PROVE  StagedOK'
  BY DEF StagedOK, NewImage

LEMMA StagedStays ==
    ASSUME StagedOK, UNCHANGED staged, phase \notin {"open"} \cup Committing
    PROVE  StagedOK' /\ staged = NoImages /\ staged' = NoImages
  BY StagedGone DEF StagedOK

\* A step after which no thread is at work on a mount that takes transactions.
LEMMA CloseQuiet ==
    ASSUME Sound', StagedOK', phase' = "idle", mode' # "up" \/ poisoned' = TRUE
    PROVE  RInv'
  BY DEF Sound, RInv, PhaseTable, Healthy

\* Transaction::fail, wherever it is called.
LEMMA CloseFail ==
    ASSUME Sound', Fail
    PROVE  RInv' /\ staged' = NoImages /\ pub' = pub
  BY StagedGone, CloseQuiet DEF Fail, Release

LEMMA CloseMountFails ==
    ASSUME Sound', MountFails, StagedOK, UNCHANGED staged, phase \in Mounting
    PROVE  RInv' /\ staged' = NoImages /\ pub' = pub
  <1>1. StagedOK' /\ staged' = NoImages
    BY StagedStays DEF Mounting, Committing
  <1> QED BY <1>1, CloseQuiet DEF MountFails

\* What a thread that commits can rely on.
LEMMA Committer ==
    ASSUME IInv, phase \in Committing
    PROVE  mode = "up" /\ RecoverSet /\ (phase # "home" => HomesClean)
  BY DEF IInv, ControlOK, UpRecover, HomeDiscipline, Committing

LEMMA InFlightKept ==
    ASSUME InFlight, UNCHANGED <<seq, head, staged, ntx>>
    PROVE  InFlight' /\ LogLength' = LogLength /\ Encoded' = Encoded
           /\ CommitPosition' = CommitPosition
  BY DEF InFlight, LogLength, Encoded, CommitPosition

\* What the caches and the log record of a step show to recovery does not change.
Quiet == Stores' = Stores /\ pub' = pub /\ staged' \in {staged, NoImages}

LEMMA WriteTailKeeps ==
    ASSUME FewTransactions, IInv, RInv, WriteTail
    PROVE  RInv' /\ Quiet
  <1> DEFINE b == SuperBlock(seq, head)
  <1>1. /\ phase = "tail" /\ AtTail /\ Sound /\ StagedOK
        /\ (LogWrite(0, b) /\ Goto("tailflush")) \/ (LogWriteFails(0, b) /\ Fail)
    BY DEF WriteTail, RInv, PhaseTable, Sound
  <1>2. HomesClean /\ flagDur = {TRUE}
    BY <1>1, Committer DEF Committing, RecoverSet
  <1>3. Stores = {pub} /\ home = pub /\ InFlight
    BY <1>1, <1>2, SettledStores DEF AtTail, Settled
  <1>4. Applied(home, <<>>) = pub
    BY <1>1, <1>3, AppliedNothing DEF Sound, DeviceHolds, Holding
  <1>5. ASSUME NEW l, AddedLog(0, b, l)
        PROVE  Recoverable(l, ntx) /\ Applied(home, recover(l).writes) \in Stores
    <2>1. l[0] = b /\ \A n \in Body : l[n] = log[n]
      BY <1>1, <1>5, BodyIs DEF AddedLog, Added, TornLog, AtTail, Settled, LogClean, Body
    <2>2. BodyStale(l, Age(seq))
      BY <1>1, <2>1 DEF AtTail, Settled, BodyStale
    <2>3. Recoverable(l, ntx) /\ recover(l).writes = <<>>
      BY <1>3, <2>1, <2>2, StaleTraces, PartlyRecoverable DEF InFlight
    <2> QED BY <1>3, <1>4, <2>3
  <1> HIDE DEF b
  <1>6. /\ Sound' /\ Stores' = Stores /\ UNCHANGED <<home, ntx>>
        /\ Rewritten(LogBlocks, log, logDur, log', logDur', 0, {b} \cup TornLog(0))
        /\ LogWrite(0, b) => log' = [log EXCEPT ![0] = b]
    <2>1. LogWrite(0, b) \/ LogWriteFails(0, b)
      BY <1>1
    <2>2. Holding(LogBlocks, log, logDur) /\ 0 \in LogBlocks
      BY <1>1, BodyIs DEF Sound, DeviceHolds
    <2> QED BY <1>1, <1>2, <1>5, <2>1, <2>2, LogWriteSame, LogWritten
  <1>7. CASE LogWrite(0, b) /\ Goto("tailflush")
    <2>1. phase' = "tailflush" /\ UNCHANGED <<idx, core, transaction, pub>>
      BY <1>7 DEF Goto
    <2>2. InFlight' /\ StagedOK'
      BY <1>1, <1>3, <1>6, <2>1, InFlightKept, StagedKept DEF core, transaction, Committing
    <2>3. /\ log'[0] = b /\ logDur'[0] \subseteq logDur[0] \cup {b}
          /\ \A n \in Body : log'[n] = log[n] /\ logDur'[n] = logDur[n]
      BY <1>1, <1>6, <1>7, BodyIs DEF Sound, DeviceHolds, Holding, Rewritten, TornLog, Body
    <2>4. AtTailFlush'
      <3>1. idx' = 1 /\ todo' = DOMAIN staged' /\ home' = pub'
        BY <1>1, <1>3, <1>6, <2>1 DEF AtTail, core, transaction
      <3>2. BodyClean' /\ BodyStale(log', Age(seq'))
        BY <1>1, <2>1, <2>3, BodyIs
        DEF AtTail, Settled, LogClean, BodyClean, BodyStale, core
      <3>3. /\ log'[0] = SuperBlock(seq', head')
            /\ logDur'[0] \subseteq {SuperBlock(seq', 0), SuperBlock(seq', head')}
        <4>1. logDur[0] = {SuperBlock(seq, 0)}
          BY <1>1, BodyIs DEF AtTail, Settled, LogClean
        <4> QED BY <2>1, <2>3, <4>1 DEF b, core
      <3> QED BY <2>2, <3>1, <3>2, <3>3 DEF AtTailFlush
    <2>5. RInv'
      BY <1>6, <2>1, <2>2, <2>4 DEF RInv, Sound, PhaseTable, Healthy
    <2> QED BY <1>6, <2>1, <2>5 DEF Quiet, transaction
  <1>8. CASE Fail
    BY <1>6, <1>8, CloseFail DEF Quiet
  <1> QED BY <1>1, <1>7, <1>8

\* What a flush decides, and what a failed one leaves.
LEMMA FlushDecides ==
    ASSUME Sound, Flush
    PROVE  Stores' = {Applied(home, recover(log).writes)}
  <1>1. UNCHANGED <<home, log>> /\ DeviceHolds' /\ HomesClean' /\ LogClean'
    BY FlushKeeps DEF Sound
  <1>2. Outcomes(home', homeDur') = {home'}
    BY <1>1, OutcomesClean DEF DeviceHolds, HomesClean
  <1>3. Outcomes(log', logDur') = {log'}
    BY <1>1, OutcomesClean DEF DeviceHolds, LogClean
  <1> QED BY <1>1, <1>2, <1>3 DEF Stores, StoresOf

LEMMA FlushSame ==
    ASSUME Sound, Flush, NEW s, Stores = {s}
    PROVE  Stores' = {s}
  BY FlushKeeps

LEMMA FlushFailQuiet ==
    ASSUME Sound, FlushFails, Fail
    PROVE  RInv' /\ Quiet
  <1>1. Sound' /\ Stores' = Stores
    BY SameKeeps DEF FlushFails, Fault
  <1> QED BY <1>1, CloseFail DEF Quiet

LEMMA FlushTailKeeps ==
    ASSUME FewTransactions, IInv, RInv, FlushTail
    PROVE  RInv' /\ Quiet
  <1>1. /\ phase = "tailflush" /\ AtTailFlush /\ Sound /\ StagedOK
        /\ (Flush /\ Goto("log")) \/ (FlushFails /\ Fail)
    BY DEF FlushTail, RInv, PhaseTable, Sound
  <1>2. Stores = {pub}
    BY <1>1, Committer, TailFlushStores DEF Committing
  <1>3. CASE Flush /\ Goto("log")
    <2>1. Sound' /\ LogClean' /\ UNCHANGED <<home, log, ntx>> /\ Stores' = Stores
      BY <1>1, <1>2, <1>3, FlushKeeps, FlushSame
    <2>2. phase' = "log" /\ UNCHANGED <<idx, core, transaction, pub>>
      BY <1>3 DEF Goto
    <2>3. InFlight' /\ StagedOK' /\ LogLength' = LogLength
      BY <1>1, <2>1, <2>2, InFlightKept, StagedKept DEF AtTailFlush, core, transaction, Committing
    <2>4. AtLog'
      <3>1. idx' = 1 /\ todo' = DOMAIN staged' /\ home' = pub'
        BY <1>1, <2>1, <2>2 DEF AtTailFlush, transaction
      <3>2. log'[0] = SuperBlock(seq', head') /\ logDur'[0] = {log'[0]}
        BY <1>1, <2>1, <2>2, BodyIs DEF AtTailFlush, LogClean, core
      <3>3. TracesOnly'
        <4>1. \A n \in Body : \A b \in logDur'[n] : Stale(b, Age(seq'))
          BY <1>1, <2>1, <2>2, BodyIs DEF AtTailFlush, BodyStale, LogClean, core
        <4> QED BY <4>1 DEF TracesOnly
      <3>4. \A k \in 1 .. LogLength' : ~(k < idx')
        <4>1. LogLength \in Nat
          BY <1>1, SameNames DEF AtTailFlush
        <4> QED BY <2>3, <3>1, <4>1
      <3> QED BY <2>3, <3>1, <3>2, <3>3, <3>4 DEF AtLog
    <2>5. RInv'
      BY <2>1, <2>2, <2>3, <2>4 DEF RInv, Sound, PhaseTable, Healthy
    <2> QED BY <2>1, <2>2, <2>5 DEF Quiet, transaction
  <1> QED BY <1>1, <1>3, FlushFailQuiet

LEMMA WriteLogKeeps ==
    ASSUME FewTransactions, IInv, RInv, WriteLog
    PROVE  RInv' /\ Quiet
  <1> DEFINE b == Encoded[idx]
             n == Place(head, idx)
  <1>1. /\ phase = "log" /\ AtLog /\ Sound /\ StagedOK /\ InFlight
        /\ idx <= LogLength /\ IInv
        /\ \/ LogWrite(n, b) /\ idx' = idx + 1 /\ UNCHANGED <<phase, core, transaction, pub>>
           \/ LogWriteFails(n, b) /\ Fail
    BY DEF WriteLog, RInv, PhaseTable, Sound, AtLog, Place
  <1>2. HomesClean /\ flagDur = {TRUE}
    BY <1>1, Committer DEF Committing, RecoverSet
  <1>3. Stores = {pub} /\ home = pub
    BY <1>1, <1>2, LogStores DEF AtLog
  <1>4. idx \in 1 .. LogLength /\ n \in Body /\ n \in LogBlocks /\ n # 0
    <2>1. idx \in Nat /\ idx > 0
      BY <1>1 DEF IInv, ControlOK
    <2>2. LogLength \in Nat /\ LogLength = LogLengthOf(staged)
      BY <1>1, SameNames
    <2>3. idx \in 1 .. LogLength /\ idx \in 1 .. LogLengthOf(staged) + 1
      BY <1>1, <2>1, <2>2
    <2>4. n \in Body
      BY <1>1, <2>3, PlacesAre DEF InFlight
    <2> HIDE DEF n
    <2> QED BY <2>3, <2>4, BodyIs
  <1>5. Applied(home, <<>>) = pub
    BY <1>1, <1>3, AppliedNothing DEF Sound, DeviceHolds, Holding
  <1> HIDE DEF b
  <1>6. ASSUME NEW l, AddedLog(n, b, l)
        PROVE  Recoverable(l, ntx) /\ Applied(home, recover(l).writes) \in Stores
    <2>1. l[n] \in {b, Garbage} /\ \A m \in LogBlocks \ {n} : l[m] \in logDur[m]
      BY <1>4, <1>6 DEF AddedLog, Added, TornLog
    <2>2. l[0] = SuperBlock(seq, head)
      BY <1>1, <1>4, <2>1, BodyIs DEF AtLog
    <2>3. Traces(l, seq, head, staged)
      <3> SUFFICES ASSUME NEW m \in Body
                   PROVE  \/ Stale(l[m], Age(seq))
                          \/ \E k \in 1 .. LogLengthOf(staged) :
                                m = Place(head, k) /\ l[m] = encode_log(seq, staged)[k]
        BY DEF Traces
      <3>1. CASE m = n
        BY <1>1, <1>4, <2>1, <3>1, GarbageStale, SameNames DEF b
      <3>2. CASE m # n
        <4>1. l[m] \in logDur[m]
          BY <2>1, <3>2, BodyIs
        <4> QED BY <1>1, <4>1, SameNames DEF AtLog, TracesOnly
      <3> QED BY <3>1, <3>2
    <2>4. Recoverable(l, ntx) /\ recover(l).writes = <<>>
      BY <1>1, <2>2, <2>3, PartlyRecoverable DEF InFlight
    <2> QED BY <1>3, <1>5, <2>4
  <1>7. /\ Sound' /\ Stores' = Stores /\ UNCHANGED <<home, ntx>>
        /\ Rewritten(LogBlocks, log, logDur, log', logDur', n, {b} \cup TornLog(n))
        /\ LogWrite(n, b) => log' = [log EXCEPT ![n] = b]
    <2>1. LogWrite(n, b) \/ LogWriteFails(n, b)
      BY <1>1
    <2>2. Holding(LogBlocks, log, logDur)
      BY <1>1 DEF Sound, DeviceHolds
    <2> HIDE DEF n
    <2> QED BY <1>1, <1>2, <1>4, <1>6, <2>1, <2>2, LogWriteSame, LogWritten
  <1>8. CASE LogWrite(n, b) /\ idx' = idx + 1 /\ UNCHANGED <<phase, core, transaction, pub>>
    <2>1. phase' = "log" /\ UNCHANGED <<seq, head, staged, todo, pub, ntx>> /\ idx' = idx + 1
      BY <1>1, <1>7, <1>8 DEF core, transaction
    <2>2. InFlight' /\ StagedOK' /\ LogLength' = LogLength /\ Encoded' = Encoded
      BY <1>1, <1>7, <2>1, InFlightKept, StagedKept DEF Committing
    <2>3. /\ log'[n] = b /\ logDur'[n] \subseteq logDur[n] \cup {b, Garbage}
          /\ \A m \in LogBlocks \ {n} : log'[m] = log[m] /\ logDur'[m] = logDur[m]
      <3> HIDE DEF n
      <3> QED BY <1>1, <1>4, <1>7, <1>8 DEF Sound, DeviceHolds, Holding, Rewritten, TornLog
    <2>4. AtLog'
      <3>1. idx' \in Nat /\ todo' = DOMAIN staged' /\ home' = pub'
        BY <1>1, <1>3, <1>4, <1>7, <2>1 DEF AtLog
      <3>2. log'[0] = SuperBlock(seq', head') /\ logDur'[0] = {log'[0]}
        BY <1>1, <1>4, <2>1, <2>3, BodyIs DEF AtLog
      <3>3. TracesOnly'
        <4> SUFFICES ASSUME NEW m \in Body, NEW x \in logDur'[m]
                     PROVE  \/ Stale(x, Age(seq))
                            \/ \E k \in 1 .. LogLength : m = Place(head, k) /\ x = Encoded[k]
          BY <2>1, <2>2 DEF TracesOnly
        <4>1. CASE m = n
          <5>1. x \in logDur[n] \/ x = b \/ x = Garbage
            BY <2>3, <4>1
          <5>2. CASE x \in logDur[n]
            BY <1>1, <1>4, <4>1, <5>2 DEF AtLog, TracesOnly
          <5>3. CASE x = b
            BY <1>4, <4>1, <5>3 DEF b
          <5> QED BY <5>1, <5>2, <5>3, GarbageStale
        <4>2. CASE m # n
          BY <1>1, <2>3, <4>2, BodyIs DEF AtLog, TracesOnly
        <4> QED BY <4>1, <4>2
      <3>4. ASSUME NEW k \in 1 .. LogLength', k < idx'
            PROVE  InPlace(log', seq', head', staged', k)
        <4>1. k \in 1 .. LogLength /\ (k = idx \/ k < idx)
          BY <1>4, <2>1, <2>2, <3>4
        <4>2. k \in 1 .. LogLengthOf(staged) + 1 /\ idx \in 1 .. LogLengthOf(staged) + 1
          BY <1>1, <1>4, <4>1, SameNames
        <4>3. Place(head, k) \in Body
          BY <1>1, <4>2, PlacesAre DEF InFlight
        <4>4. CASE k = idx
          BY <1>1, <2>1, <2>3, <4>4, SameNames DEF InPlace, b
        <4>5. CASE k < idx /\ k # idx
          <5>1. Place(head, k) # n
            BY <1>1, <4>2, <4>5, PlacesAre DEF InFlight
          <5>2. log'[Place(head, k)] = log[Place(head, k)]
            BY <2>3, <4>3, <5>1, BodyIs
          <5> QED BY <1>1, <2>1, <4>1, <4>5, <5>2 DEF AtLog, InPlace
        <4> QED BY <1>4, <4>1, <4>4, <4>5
      <3> QED BY <2>2, <3>1, <3>2, <3>3, <3>4 DEF AtLog
    <2>5. RInv'
      BY <1>7, <2>1, <2>2, <2>4 DEF RInv, Sound, PhaseTable, Healthy
    <2> QED BY <1>7, <2>1, <2>5 DEF Quiet
  <1>9. CASE Fail
    BY <1>7, <1>9, CloseFail DEF Quiet
  <1> QED BY <1>1, <1>8, <1>9

LEMMA FlushLogKeeps ==
    ASSUME FewTransactions, IInv, RInv, FlushLog
    PROVE  RInv' /\ Quiet
  <1>1. /\ phase = "log" /\ AtLog /\ Sound /\ StagedOK /\ InFlight /\ idx > LogLength
        /\ (Flush /\ Goto("commit")) \/ (FlushFails /\ Fail)
    BY DEF FlushLog, RInv, PhaseTable, Sound, AtLog
  <1>2. Stores = {pub}
    BY <1>1, Committer, LogStores DEF Committing
  <1>3. CASE Flush /\ Goto("commit")
    <2>1. Sound' /\ LogClean' /\ UNCHANGED <<home, log, ntx>> /\ Stores' = Stores
      BY <1>1, <1>2, <1>3, FlushKeeps, FlushSame
    <2>2. phase' = "commit" /\ UNCHANGED <<seq, head, staged, todo, pub>>
      BY <1>3 DEF Goto, core, transaction
    <2>3. InFlight' /\ StagedOK'
      BY <1>1, <2>1, <2>2, InFlightKept, StagedKept DEF Committing
    <2>4. Logged(log, seq, head, staged)
      <3>1. ASSUME NEW k \in 1 .. LogLengthOf(staged) PROVE InPlace(log, seq, head, staged, k)
        <4>1. k \in 1 .. LogLength /\ LogLength \in Nat /\ idx \in Nat
          BY <1>1, SameNames DEF AtLog
        <4>2. k < idx
          BY <1>1, <4>1
        <4> QED BY <1>1, <4>1, <4>2 DEF AtLog
      <3>2. ASSUME NEW n \in Body PROVE Stale(log[n], Age(seq)) \/ Holds(head, staged, n)
        <4>1. log[n] \in logDur[n]
          BY <1>1, BodyIs DEF Sound, DeviceHolds, Holding
        <4> QED BY <1>1, <4>1, SameNames DEF AtLog, TracesOnly, Holds
      <3> QED BY <3>1, <3>2 DEF Logged
    <2>5. AtCommit'
      BY <1>1, <2>1, <2>2, <2>3, <2>4 DEF AtLog, AtCommit
    <2>6. RInv'
      BY <2>1, <2>2, <2>3, <2>5 DEF RInv, Sound, PhaseTable, Healthy
    <2> QED BY <2>1, <2>2, <2>6 DEF Quiet
  <1> QED BY <1>1, <1>3, FlushFailQuiet

\* From here on a crash may keep the transaction.
Offered ==
    /\ Stores = {pub} /\ Stores' = {pub, Granted} /\ DOMAIN staged \subseteq HomeBlocks
    /\ pub' = pub /\ staged' \in {staged, NoImages}

LEMMA WriteCommitKeeps ==
    ASSUME FewTransactions, IInv, RInv, WriteCommit
    PROVE  RInv' /\ Offered
  <1> DEFINE n == CommitPosition
             b == encode_commit(seq)
  <1>1. /\ phase = "commit" /\ AtCommit /\ Sound /\ StagedOK /\ InFlight
        /\ (LogWrite(n, b) /\ Goto("commitflush")) \/ (LogWriteFails(n, b) /\ Fail)
    BY DEF WriteCommit, RInv, PhaseTable, Sound, AtCommit
  <1>2. HomesClean
    BY <1>1, Committer DEF Committing
  <1>3. Stores = {pub} /\ home = pub
    BY <1>1, <1>2, CommitStores DEF AtCommit
  <1>4. n \in Body /\ n \in LogBlocks /\ n # 0 /\ ~Holds(head, staged, n)
    BY <1>1, SameNames, BodyIs
  <1>5. Stale(log[n], Age(seq)) /\ log[n] # b /\ logDur[n] = {log[n]}
    <2>1. Stale(log[n], Age(seq)) /\ logDur[n] = {log[n]}
      BY <1>1, <1>4 DEF AtCommit, Logged, LogClean
    <2>2. ~Stale(b, Age(seq))
      BY <1>1, CommitStale DEF InFlight, InProgress
    <2> QED BY <2>1, <2>2
  <1>6. ASSUME NEW l, \A m \in LogBlocks \ {n} : l[m] = log[m]
        PROVE  /\ Stale(l[n], Age(seq)) => Recoverable(l, ntx) /\ recover(l).writes = <<>>
               /\ l[n] = b => /\ Recoverable(l, ntx)
                              /\ recover(l).writes = Restored(staged, Images(staged))
    BY <1>1, <1>6, CommitFlushLogs DEF AtCommit, Logged
  <1>7. /\ Applied(home, <<>>) = pub
        /\ Applied(home, Restored(staged, Images(staged))) = Granted
    BY <1>1, <1>3, AppliedNothing, GrantedApplied DEF Sound, DeviceHolds, Holding
  <1> HIDE DEF n, b
  <1>8. ASSUME NEW l, AddedLog(n, b, l)
        PROVE  /\ l[n] = b \/ Stale(l[n], Age(seq))
               /\ \A m \in LogBlocks \ {n} : l[m] = log[m]
    BY <1>1, <1>4, <1>8, GarbageStale DEF AddedLog, Added, TornLog, AtCommit, LogClean
  <1>9. \A l : AddedLog(n, b, l) => Recoverable(l, ntx)
    BY <1>6, <1>8
  <1>10. /\ Sound' /\ UNCHANGED <<home, homeDur, flag, flagDur, ntx>>
         /\ Stores \subseteq Stores'
         /\ \A s \in Stores' : s \in Stores \/ \E l : AddedLog(n, b, l) /\
                \E h \in Outcomes(home, homeDur) : s = Applied(h, recover(l).writes)
    <2>1. LogWrite(n, b) \/ LogWriteFails(n, b)
      BY <1>1
    <2> QED BY <1>1, <1>4, <1>9, <2>1, LogWriteKeeps
  <1>11. /\ Rewritten(LogBlocks, log, logDur, log', logDur', n, {b} \cup TornLog(n))
         /\ logDur'[n] = {log[n], b, Garbage}
         /\ LogWrite(n, b) => log' = [log EXCEPT ![n] = b]
    <2>1. LogWrite(n, b) \/ LogWriteFails(n, b)
      BY <1>1
    <2> QED BY <1>1, <1>4, <1>5, <2>1, LogWritten DEF Sound, DeviceHolds, TornLog
  <1>12. Stores' = {pub, Granted}
    <2>1. Outcomes(home, homeDur) = {home} /\ Outcomes(home', homeDur') = {home}
      BY <1>1, <1>2, <1>10, OutcomesClean DEF Sound, DeviceHolds, HomesClean
    <2>2. ASSUME NEW s \in Stores' PROVE s \in {pub, Granted}
      BY <1>3, <1>6, <1>7, <1>8, <1>10, <2>1
    <2>3. Granted \in Stores'
      <3> DEFINE l == [log EXCEPT ![n] = b]
      <3>1. l[n] = b /\ \A m \in LogBlocks \ {n} : l[m] = log[m]
        BY <1>1, <1>4 DEF Sound, DeviceHolds, Holding
      <3>2. Holding(LogBlocks, log, logDur) /\ b \in logDur'[n]
        BY <1>1, <1>11 DEF Sound, DeviceHolds
      <3>3. l \in Outcomes(log', logDur')
        BY <1>4, <1>11, <3>2, OutcomeWith
      <3> HIDE DEF l
      <3>4. Applied(home, recover(l).writes) = Granted
        BY <1>6, <1>7, <3>1
      <3> QED BY <2>1, <3>3, <3>4, InStores DEF Stores
    <2> QED BY <1>3, <1>10, <2>2, <2>3
  <1>13. DOMAIN staged \subseteq HomeBlocks
    BY <1>1 DEF InFlight, InProgress, IsRequest
  <1>14. CASE LogWrite(n, b) /\ Goto("commitflush")
    <2>1. phase' = "commitflush" /\ UNCHANGED <<seq, head, staged, todo, pub>>
      BY <1>14 DEF Goto, core, transaction
    <2>2. InFlight' /\ StagedOK' /\ CommitPosition' = n
      BY <1>1, <1>10, <2>1, InFlightKept, StagedKept DEF Committing, n
    <2>3. log'[n] = b /\ \A m \in LogBlocks \ {n} : log'[m] = log[m] /\ logDur'[m] = {log'[m]}
      BY <1>1, <1>4, <1>11, <1>14
      DEF Sound, DeviceHolds, Holding, Rewritten, AtCommit, LogClean
    <2>4. AtCommitFlush'
      <3>1. todo' = DOMAIN staged' /\ home' = pub' /\ log'[0] = SuperBlock(seq', head')
        BY <1>1, <1>3, <1>4, <1>10, <2>1, <2>3, BodyIs DEF AtCommit
      <3>2. Committed(log', seq', head', staged')
        <4>1. ASSUME NEW k \in 1 .. LogLengthOf(staged) PROVE InPlace(log', seq, head, staged, k)
          <5>1. k \in 1 .. LogLengthOf(staged) + 1 /\ Place(head, k) \in Body
            BY <1>1, PlacesAre DEF InFlight
          <5>2. Place(head, k) # n
            BY <1>4 DEF Holds
          <5> QED BY <1>1, <2>3, <5>1, <5>2, BodyIs DEF AtCommit, Logged, InPlace
        <4>2. CommitPlace(head, staged) = n
          BY <1>1, SameNames DEF n
        <4>3. \A m \in Body : \/ Stale(log'[m], Age(seq)) \/ Holds(head, staged, m) \/ m = n
          BY <1>1, <2>3, BodyIs DEF AtCommit, Logged
        <4> QED BY <2>1, <2>3, <4>1, <4>2, <4>3 DEF Committed, b
      <3>3. /\ \A m \in LogBlocks \ {CommitPosition'} : logDur'[m] = {log'[m]}
            /\ \A x \in logDur'[CommitPosition'] :
                  Stale(x, Age(seq')) \/ x = encode_commit(seq')
            /\ \E x \in logDur'[CommitPosition'] : Stale(x, Age(seq'))
        BY <1>5, <1>11, <2>1, <2>2, <2>3, GarbageStale DEF b
      <3> QED BY <2>2, <3>1, <3>2, <3>3 DEF AtCommitFlush
    <2>5. RInv'
      BY <1>10, <2>1, <2>2, <2>4 DEF RInv, Sound, PhaseTable, Healthy
    <2> QED BY <1>3, <1>12, <1>13, <2>1, <2>5 DEF Offered
  <1>15. CASE Fail
    BY <1>3, <1>10, <1>12, <1>15, <1>13, CloseFail DEF Offered
  <1> QED BY <1>1, <1>14, <1>15

\* The commit is durable.
Decided == Stores = {pub, Granted} /\ Stores' = {Granted} /\ pub' = pub /\ staged' = staged

LEMMA FlushCommitKeeps ==
    ASSUME FewTransactions, IInv, RInv, FlushCommit
    PROVE  RInv' /\ (Quiet \/ Decided)
  <1>1. /\ phase = "commitflush" /\ AtCommitFlush /\ Sound /\ StagedOK /\ InFlight
        /\ (Flush /\ Goto("home")) \/ (FlushFails /\ Fail)
    BY DEF FlushCommit, RInv, PhaseTable, Sound, AtCommitFlush
  <1>2. Stores = {pub, Granted}
    BY <1>1, Committer, CommitFlushStores DEF Committing
  <1>3. CASE Flush /\ Goto("home")
    <2>1. Sound' /\ HomesClean' /\ LogClean' /\ UNCHANGED <<home, log, ntx>>
      BY <1>1, <1>3, FlushKeeps
    <2>2. phase' = "home" /\ UNCHANGED <<seq, head, staged, todo, pub>>
      BY <1>3 DEF Goto, core, transaction
    <2>3. InFlight' /\ StagedOK'
      BY <1>1, <2>1, <2>2, InFlightKept, StagedKept DEF Committing
    <2>4. Stores' = {Granted}
      <3>1. recover(log).writes = Restored(staged, Images(staged))
        BY <1>1, CommittedWrites DEF AtCommitFlush
      <3>2. Applied(home, Restored(staged, Images(staged))) = Granted
        BY <1>1, GrantedApplied DEF AtCommitFlush
      <3> QED BY <1>1, <1>3, <3>1, <3>2, FlushDecides
    <2>5. AtHome'
      <3>1. todo' = DOMAIN staged' /\ home' = pub'
        BY <1>1, <2>1, <2>2 DEF AtCommitFlush
      <3>2. log'[0] = SuperBlock(seq', head') /\ Committed(log', seq', head', staged')
        BY <1>1, <2>1, <2>2 DEF AtCommitFlush
      <3> QED BY <2>1, <2>3, <3>1, <3>2 DEF AtHome, HomesClean
    <2>6. RInv'
      BY <2>1, <2>2, <2>3, <2>5 DEF RInv, Sound, PhaseTable, Healthy
    <2> QED BY <1>2, <2>2, <2>4, <2>6 DEF Decided
  <1> QED BY <1>1, <1>3, FlushFailQuiet

LEMMA WriteHomeKeeps ==
    ASSUME FewTransactions, IInv, RInv, WriteHome
    PROVE  RInv' /\ Quiet
  <1>1. /\ phase = "home" /\ AtHome /\ Sound /\ StagedOK /\ InFlight
        /\ DOMAIN staged \subseteq HomeBlocks /\ todo \subseteq DOMAIN staged
    BY DEF WriteHome, RInv, PhaseTable, Sound, AtHome, InFlight, InProgress, IsRequest
  <1>2. PICK h \in todo :
           \/ /\ HomeWrite(h, staged[h]) /\ todo' = todo \ {h}
              /\ UNCHANGED <<phase, idx, core, credits, staged, pub>>
           \/ HomeWriteFails(h, staged[h]) /\ Fail
    BY DEF WriteHome
  <1>3. h \in HomeBlocks /\ h \in DOMAIN staged
    BY <1>1
  <1>4. /\ Untouched(recover(log).writes)
        /\ \E i \in DOMAIN recover(log).writes : recover(log).writes[i].home = h
        /\ LogClean
    BY <1>1, <1>3, HomeUntouched DEF AtHome
  <1>5. /\ Sound' /\ LogClean' /\ Stores' = Stores /\ UNCHANGED <<log, logDur, ntx>>
        /\ \A g \in HomeBlocks \ {h} : home'[g] = home[g] /\ homeDur'[g] = homeDur[g]
        /\ HomeWrite(h, staged[h]) => home'[h] = staged[h]
    <2>1. HomeWrite(h, staged[h]) \/ HomeWriteFails(h, staged[h])
      BY <1>2
    <2> QED BY <1>1, <1>3, <1>4, <2>1, HomeWriteKeeps
  <1>6. CASE /\ HomeWrite(h, staged[h]) /\ todo' = todo \ {h}
             /\ UNCHANGED <<phase, idx, core, credits, staged, pub>>
    <2>1. phase' = "home" /\ UNCHANGED <<seq, head, staged, pub>>
      BY <1>1, <1>6 DEF core
    <2>2. InFlight' /\ StagedOK'
      BY <1>1, <1>5, <2>1, InFlightKept, StagedKept DEF Committing
    <2>3. AtHome'
      <3>1. log'[0] = SuperBlock(seq', head') /\ Committed(log', seq', head', staged')
        BY <1>1, <1>5, <2>1 DEF AtHome
      <3>2. todo' \subseteq DOMAIN staged'
        BY <1>1, <1>6
      <3>3. \A g \in HomeBlocks :
               IF g \in DOMAIN staged' THEN g \in todo' \/ home'[g] = staged'[g]
               ELSE home'[g] = pub'[g] /\ homeDur'[g] = {home'[g]}
        BY <1>1, <1>3, <1>5, <1>6 DEF AtHome
      <3> QED BY <1>5, <2>2, <3>1, <3>2, <3>3 DEF AtHome
    <2>4. RInv'
      BY <1>5, <2>1, <2>2, <2>3 DEF RInv, Sound, PhaseTable, Healthy
    <2> QED BY <1>5, <2>1, <2>4 DEF Quiet
  <1>7. CASE Fail
    BY <1>5, <1>7, CloseFail DEF Quiet
  <1> QED BY <1>2, <1>6, <1>7

\* The caches show what no crash can take back.
Shown == Stores = {Granted} /\ Stores' = {Granted} /\ pub' = Granted /\ staged' = staged

LEMMA FlushHomeKeeps ==
    ASSUME FewTransactions, IInv, RInv, FlushHome
    PROVE  RInv' /\ (Quiet \/ Shown)
  <1>1. /\ phase = "home" /\ AtHome /\ Sound /\ StagedOK /\ InFlight /\ todo = {}
        /\ \/ /\ Flush /\ pub' = Granted
              /\ phase' = "clean" /\ UNCHANGED <<idx, core, transaction>>
           \/ FlushFails /\ Fail
    BY DEF FlushHome, RInv, PhaseTable, Sound, AtHome, Granted
  <1>2. Stores = {Granted}
    BY <1>1, HomeStores
  <1>3. CASE /\ Flush /\ pub' = Granted
             /\ phase' = "clean" /\ UNCHANGED <<idx, core, transaction>>
    <2>1. Sound' /\ LogClean' /\ UNCHANGED <<home, log, ntx>> /\ Stores' = {Granted}
      BY <1>1, <1>2, <1>3, FlushKeeps, FlushSame
    <2>2. phase' = "clean" /\ UNCHANGED <<seq, head, staged>> /\ pub' = Granted
      BY <1>3 DEF core, transaction
    <2>3. InFlight' /\ StagedOK'
      BY <1>1, <2>1, <2>2, InFlightKept, StagedKept DEF Committing
    <2>4. home = Granted
      <3>1. home = [h \in HomeBlocks |-> home[h]]
        BY <1>1 DEF Sound, DeviceHolds, Holding
      <3>2. \A h \in HomeBlocks : home[h] = IF h \in DOMAIN staged THEN staged[h] ELSE pub[h]
        BY <1>1 DEF AtHome
      <3> QED BY <3>1, <3>2 DEF Granted
    <2>5. AtClean'
      <3>1. home' = pub' /\ \A h \in DOMAIN staged' : pub'[h] = staged'[h]
        <4>1. DOMAIN staged \subseteq HomeBlocks
          BY <1>1 DEF InFlight, InProgress, IsRequest
        <4> QED BY <2>1, <2>2, <2>4, <4>1 DEF Granted
      <3>2. log'[0] = SuperBlock(seq', head') /\ Committed(log', seq', head', staged')
        BY <1>1, <2>1, <2>2 DEF AtHome
      <3> QED BY <2>1, <2>3, <3>1, <3>2 DEF AtClean, Published
    <2>6. RInv'
      BY <2>1, <2>2, <2>3, <2>5 DEF RInv, Sound, PhaseTable, Healthy
    <2> QED BY <1>2, <2>1, <2>2, <2>6 DEF Shown
  <1> QED BY <1>1, <1>3, FlushFailQuiet

LEMMA WriteCleanKeeps ==
    ASSUME FewTransactions, IInv, RInv, WriteClean
    PROVE  RInv' /\ Quiet
  <1> DEFINE b == SuperBlock(next_sequence(seq), 0)
  <1>1. /\ phase = "clean" /\ AtClean /\ Sound /\ StagedOK /\ InFlight /\ Published /\ LogClean
        /\ (LogWrite(0, b) /\ Goto("cleanflush")) \/ (LogWriteFails(0, b) /\ Fail)
    BY DEF WriteClean, RInv, PhaseTable, Sound, AtClean
  <1>2. HomesClean
    BY <1>1, Committer DEF Committing
  <1>3. Stores = {pub}
    BY <1>1, <1>2, CleanStores
  <1>4. /\ Age(next_sequence(seq)) = Age(seq) + 1 /\ Age(next_sequence(seq)) <= 2 * ntx
        /\ next_sequence(seq) \in Sequences32 /\ BodyStale(log, Age(seq) + 1)
    <2>1. /\ Age(next_sequence(seq)) = Age(seq) + 1 /\ Age(seq) \in Nat
          /\ Age(seq) + 2 <= 2 * ntx /\ next_sequence(seq) \in Sequences32
      BY <1>1, InProgressAges DEF InFlight
    <2>2. ntx \in Nat
      BY <1>1 DEF InFlight, InProgress
    <2>3. BodyStale(log, Age(seq) + 1)
      BY <1>1, CommittedStale DEF AtClean, InFlight
    <2> QED BY <2>1, <2>2, <2>3
  <1>5. ASSUME NEW l, AddedLog(0, b, l)
        PROVE  Recoverable(l, ntx) /\ Applied(home, recover(l).writes) \in Stores
    <2>1. l[0] = b /\ \A n \in Body : l[n] = log[n]
      BY <1>1, <1>5, BodyIs DEF AddedLog, Added, TornLog, LogClean, Body
    <2>2. BodyStale(l, Age(next_sequence(seq)))
      BY <1>4, <2>1 DEF BodyStale
    <2>3. Recoverable(l, ntx)
      BY <1>4, <2>1, <2>2, CleanRecoverable
    <2>4. Applied(home, recover(l).writes) = pub
      BY <1>1, <2>1, PublishedApplied
    <2> QED BY <1>3, <2>3, <2>4
  <1>6. b.start = 0
    BY SuperBlockFields
  <1> HIDE DEF b
  <1>7. /\ Sound' /\ Stores' = Stores /\ UNCHANGED <<home, ntx>>
        /\ Rewritten(LogBlocks, log, logDur, log', logDur', 0, {b} \cup TornLog(0))
        /\ LogWrite(0, b) => log' = [log EXCEPT ![0] = b]
    <2>1. LogWrite(0, b) \/ LogWriteFails(0, b)
      BY <1>1
    <2>2. Holding(LogBlocks, log, logDur) /\ 0 \in LogBlocks
      BY <1>1, BodyIs DEF Sound, DeviceHolds
    <2> QED BY <1>1, <1>2, <1>5, <1>6, <2>1, <2>2, LogWriteSame, LogWritten
  <1>8. CASE LogWrite(0, b) /\ Goto("cleanflush")
    <2>1. phase' = "cleanflush" /\ UNCHANGED <<seq, head, staged, todo, pub>>
      BY <1>8 DEF Goto, core, transaction
    <2>2. InFlight' /\ StagedOK'
      BY <1>1, <1>7, <2>1, InFlightKept, StagedKept DEF Committing
    <2>3. /\ log'[0] = b /\ logDur'[0] \subseteq {log[0], b}
          /\ \A n \in Body : log'[n] = log[n] /\ logDur'[n] = {log'[n]}
      BY <1>1, <1>7, <1>8, BodyIs
      DEF Sound, DeviceHolds, Holding, Rewritten, TornLog, Body, LogClean
    <2>4. AtCleanFlush'
      <3>1. Published' /\ BodyClean'
        BY <1>1, <1>7, <2>1, <2>3 DEF Published, BodyClean
      <3>2. Committed(log', seq', head', staged')
        BY <1>1, <2>1, <2>3, SameBody DEF AtClean
      <3>3. /\ log'[0] = SuperBlock(next_sequence(seq'), 0)
            /\ logDur'[0] \subseteq {SuperBlock(seq', head'), SuperBlock(next_sequence(seq'), 0)}
        BY <1>1, <2>1, <2>3 DEF b, AtClean
      <3> QED BY <2>2, <3>1, <3>2, <3>3 DEF AtCleanFlush
    <2>5. RInv'
      BY <1>7, <2>1, <2>2, <2>4 DEF RInv, Sound, PhaseTable, Healthy
    <2> QED BY <1>7, <2>1, <2>5 DEF Quiet
  <1>9. CASE Fail
    BY <1>7, <1>9, CloseFail DEF Quiet
  <1> QED BY <1>1, <1>8, <1>9

LEMMA FlushCleanKeeps ==
    ASSUME FewTransactions, IInv, RInv, FlushClean
    PROVE  RInv' /\ Quiet
  <1>1. /\ phase = "cleanflush" /\ AtCleanFlush /\ Sound /\ StagedOK /\ InFlight
        /\ \/ Flush /\ seq' = next_sequence(seq) /\ Release /\ UNCHANGED pub
           \/ FlushFails /\ Fail
    BY DEF FlushClean, RInv, PhaseTable, Sound, AtCleanFlush
  <1>2. Stores = {pub}
    BY <1>1, Committer, CleanFlushStores DEF Committing
  <1>3. CASE Flush /\ seq' = next_sequence(seq) /\ Release /\ UNCHANGED pub
    <2>1. Sound' /\ LogClean' /\ UNCHANGED <<home, log, ntx>> /\ Stores' = Stores
      BY <1>1, <1>2, <1>3, FlushKeeps, FlushSame
    <2>2. phase' = "idle" /\ staged' = NoImages /\ pub' = pub /\ seq' = next_sequence(seq)
      BY <1>3 DEF Release
    <2>3. AtRest'
      <3>1. /\ Age(seq') = Age(seq) + 1 /\ Age(seq) \in Nat /\ Age(seq) + 2 <= 2 * ntx
            /\ seq' \in Sequences32
        BY <1>1, <2>2, InProgressAges DEF InFlight
      <3>2. Age(seq') <= 2 * ntx'
        BY <1>1, <2>1, <3>1 DEF InFlight, InProgress
      <3>3. BodyStale(log', Age(seq'))
        BY <1>1, <2>1, <3>1, CommittedStale DEF AtCleanFlush, InFlight
      <3>4. home' = pub' /\ log'[0] = SuperBlock(seq', 0)
        BY <1>1, <2>1, <2>2 DEF AtCleanFlush, Published
      <3> QED BY <2>1, <3>1, <3>2, <3>3, <3>4 DEF AtRest, Settled
    <2>4. StagedOK'
      BY <2>2, StagedGone
    <2>5. RInv'
      BY <2>1, <2>2, <2>3, <2>4 DEF RInv, Sound, PhaseTable, Healthy
    <2> QED BY <2>1, <2>2, <2>5 DEF Quiet
  <1> QED BY <1>1, <1>3, FlushFailQuiet

Unmounted == {"down", "mounting", "failed"}

\* The filesystem is not mounted after the step, and nothing is lost but what was undecided.
Leaving ==
    /\ Stores' # {} /\ Stores' \subseteq Stores
    /\ pub' = pub /\ staged' = NoImages /\ mode' \in Unmounted

\* A mount ends and shows the one store a crash can lead to.
Opening ==
    /\ mode # "up" /\ mode' = "up" /\ staged' = staged
    /\ pub' \in Stores /\ Stores' = {pub'}

LEMMA StartKeeps ==
    ASSUME RInv, NEW n, Start(n)
    PROVE  RInv' /\ Quiet
  <1>1. /\ mode = "up" /\ phase = "idle" /\ ~poisoned /\ ntx < MaxTx /\ ntx' = ntx + 1
        /\ staged' = NoImages /\ phase' = "open" /\ UNCHANGED <<device, mode, seq, pub>>
    BY DEF Start
  <1>2. Sound /\ AtRest
    BY <1>1 DEF RInv, Sound, PhaseTable, Healthy
  <1>3. ntx \in Nat /\ ntx' \in Nat /\ ntx <= ntx' /\ ntx' <= MaxTx
    BY <1>1, <1>2, TransactionAssumption DEF Sound, DeviceHolds
  <1>4. Sound' /\ Stores' = Stores
    BY <1>1, <1>2, <1>3, SameDeviceKeeps
  <1>5. Opened'
    <2>1. Settled'
      BY <1>1, <1>2 DEF AtRest, Settled, LogClean, device
    <2>2. Age(seq) + 2 <= 2 * ntx'
      <3>1. Age(seq) \in Nat
        BY <1>2, AgeType DEF AtRest, Settled
      <3> QED BY <1>1, <1>2, <1>3, <3>1 DEF AtRest
    <2> QED BY <1>1, <2>1, <2>2 DEF Opened
  <1>6. StagedOK'
    BY <1>1, StagedGone
  <1>7. RInv'
    BY <1>1, <1>4, <1>5, <1>6 DEF RInv, Sound, PhaseTable, Healthy
  <1> QED BY <1>1, <1>4, <1>7 DEF Quiet

\* One more block in the open transaction, or a new image for one it has.
Replaced ==
    /\ Stores' = Stores /\ pub' = pub
    /\ \/ staged' = staged
       \/ /\ \E h \in DOMAIN staged' \ DOMAIN staged : DOMAIN staged' = DOMAIN staged \cup {h}
          /\ \A h \in DOMAIN staged : staged'[h] = staged[h]

LEMMA StageKeeps ==
    ASSUME RInv, NEW h, Stage(h)
    PROVE  RInv' /\ Replaced
  <1>1. /\ phase = "open" /\ UNCHANGED <<device, mode, phase, seq, pub, ntx>>
        /\ staged' = [g \in DOMAIN staged \cup {h} |->
                         IF g = h THEN NewImage(h) ELSE staged[g]]
    BY DEF Stage, core, bounds
  <1>2. Sound /\ Opened /\ staged = [g \in DOMAIN staged |-> NewImage(g)]
    BY <1>1 DEF RInv, Sound, PhaseTable, StagedOK
  <1>3. Sound' /\ Stores' = Stores
    BY <1>1, <1>2, SameKeeps
  <1>4. Opened'
    BY <1>1, <1>2 DEF Opened, Settled, LogClean, device
  <1>5. \A g : NewImage(g)' = NewImage(g)
    BY <1>1 DEF NewImage
  <1>6. /\ DOMAIN staged' = DOMAIN staged \cup {h}
        /\ staged' = [g \in DOMAIN staged' |-> NewImage(g)]
        /\ \A g \in DOMAIN staged : staged'[g] = staged[g]
    BY <1>1, <1>2
  <1>7. StagedOK'
    BY <1>1, <1>5, <1>6 DEF StagedOK
  <1>8. RInv'
    BY <1>1, <1>3, <1>4, <1>7 DEF RInv, Sound, PhaseTable, Healthy
  <1>9. h \in DOMAIN staged => staged' = staged
    BY <1>2, <1>6
  <1> QED BY <1>1, <1>3, <1>6, <1>8, <1>9 DEF Replaced

LEMMA DiscardKeeps ==
    ASSUME RInv, Discard
    PROVE  RInv' /\ Quiet
  <1>1. /\ phase = "open" /\ phase' = "idle" /\ staged' = NoImages
        /\ UNCHANGED <<device, mode, seq, pub, ntx>>
    BY DEF Discard, Release, bounds
  <1>2. Sound /\ Opened
    BY <1>1 DEF RInv, Sound, PhaseTable
  <1>3. Sound' /\ Stores' = Stores
    BY <1>1, <1>2, SameKeeps
  <1>4. AtRest'
    <2>1. Settled'
      BY <1>1, <1>2 DEF Opened, Settled, LogClean, device
    <2>2. Age(seq) <= 2 * ntx
      <3>1. Age(seq) \in Nat /\ ntx \in Nat
        BY <1>2, AgeType DEF Opened, Settled, Sound, DeviceHolds
      <3> QED BY <1>2, <3>1 DEF Opened
    <2> QED BY <1>1, <2>1, <2>2 DEF AtRest
  <1>5. StagedOK'
    BY <1>1, StagedGone
  <1>6. RInv'
    BY <1>1, <1>3, <1>4, <1>5 DEF RInv, Sound, PhaseTable, Healthy
  <1> QED BY <1>1, <1>3, <1>6 DEF Quiet

LEMMA CommitKeeps ==
    ASSUME IInv, ReservationOK, RInv, Commit
    PROVE  RInv' /\ Quiet
  <1>1. /\ phase = "open" /\ phase' = "tail" /\ idx' = 1 /\ todo' = DOMAIN staged
        /\ Committable /\ UNCHANGED <<device, mode, seq, head, staged, pub, ntx>>
    BY DEF Commit, core, bounds
  <1>2. /\ Sound /\ Opened /\ StagedOK /\ staged = [h \in DOMAIN staged |-> NewImage(h)]
        /\ ntx \in Nat /\ ntx <= MaxTx
    BY <1>1 DEF RInv, Sound, PhaseTable, StagedOK, DeviceHolds
  <1>3. Sound' /\ Stores' = Stores
    BY <1>1, <1>2, SameKeeps
  <1>4. IsRequest(staged)
    <2>1. /\ required_log_blocks(Cardinality(DOMAIN staged)) <= ring_len
          /\ DOMAIN staged \subseteq HomeBlocks /\ staged # NoImages
      BY <1>1 DEF Committable
    <2>2. IsFiniteSet(DOMAIN staged)
      BY DEF IInv, ControlOK
    <2>3. DOMAIN staged # {}
      BY <1>2, <2>1, NoImagesIs
    <2>4. \A h \in DOMAIN staged : staged[h] \in Image
      <3>1. \A h : NewImage(h) \in Image
        BY <1>2 DEF NewImage, Image
      <3> QED BY <1>2, <3>1
    <2> QED BY <1>2, <2>1, <2>2, <2>3, <2>4 DEF IsRequest
  <1>5. InFlight'
    <2>1. InProgress(seq, head, staged, ntx)
      BY <1>2, <1>4 DEF InProgress, Opened, Settled, ReservationOK
    <2> QED BY <1>1, <2>1 DEF InFlight
  <1>6. AtTail'
    BY <1>1, <1>2, <1>5 DEF AtTail, Opened, Settled, LogClean, device
  <1>7. StagedOK'
    BY <1>1, <1>2, StagedKept DEF Committing
  <1>8. RInv'
    BY <1>1, <1>3, <1>6, <1>7 DEF RInv, Sound, PhaseTable, Healthy
  <1> QED BY <1>1, <1>3, <1>8 DEF Quiet

LEMMA ShutdownKeeps ==
    ASSUME RInv, Shutdown
    PROVE  RInv' /\ Quiet
  <1>1. /\ phase = "idle" /\ phase' = "disable" /\ mode = "up" /\ ~poisoned
        /\ UNCHANGED <<device, mode, seq, staged, pub, ntx>>
    BY DEF Shutdown, can_shutdown, core, transaction, bounds
  <1>2. Sound /\ AtRest /\ StagedOK
    BY <1>1 DEF RInv, Sound, PhaseTable, Healthy
  <1>3. Sound' /\ Stores' = Stores
    BY <1>1, <1>2, SameKeeps
  <1>4. AtRest'
    BY <1>1, <1>2 DEF AtRest, Settled, LogClean, device
  <1>5. StagedOK'
    BY <1>1, <1>2, StagedStays DEF Committing
  <1>6. RInv'
    BY <1>1, <1>3, <1>4, <1>5 DEF RInv, Sound, PhaseTable, Healthy
  <1> QED BY <1>1, <1>3, <1>6 DEF Quiet

\* The mount ends in an I/O error, or in the end of its shutdown.
LEMMA CloseLeaving ==
    ASSUME Sound', StagedOK, UNCHANGED staged, phase \notin {"open"} \cup Committing,
           phase' = "idle", mode' \in Unmounted, pub' = pub, Stores' \subseteq Stores
    PROVE  RInv' /\ Leaving
  <1>1. StagedOK' /\ staged' = NoImages
    BY StagedStays
  <1>2. Stores' # {}
    <2>1. Outcomes(home', homeDur') # {} /\ Outcomes(log', logDur') # {}
      BY OutcomesAre DEF Sound, DeviceHolds
    <2> QED BY <2>1 DEF Stores, StoresOf
  <1> QED BY <1>1, <1>2, CloseQuiet DEF Leaving, Unmounted

LEMMA ShutdownStepKeeps ==
    ASSUME Orderly, RInv, ShutdownStep
    PROVE  RInv' /\ ((Quiet /\ mode' = mode) \/ Leaving)
  <1>1. /\ phase \in {"disable", "disableflush"} /\ Sound /\ AtRest /\ StagedOK
        /\ UNCHANGED <<seq, staged, pub>> /\ phase \notin {"open"} \cup Committing
    BY DEF ShutdownStep, DisableRecover, DisableFlush, RInv, Sound, PhaseTable,
           core, transaction, Committing
  <1>2. CASE DisableRecover
    <2>1. /\ \/ FlagWrite(FALSE) /\ phase' = "disableflush" /\ UNCHANGED mode
             \/ FlagWriteFails(FALSE) /\ ShutdownFails
      BY <1>2 DEF DisableRecover
    <2>2. \A b \in logDur[0] : b.start = 0
      BY <1>1, BodyIs, SuperBlockFields DEF AtRest, Settled, LogClean
    <2>3. /\ Sound' /\ Stores' = Stores /\ UNCHANGED <<home, homeDur, log, logDur, ntx>>
      BY <1>1, <2>1, <2>2, FlagWriteKeeps
    <2>4. CASE phase' = "disableflush" /\ UNCHANGED mode
      <3>1. AtRest'
        BY <1>1, <2>3 DEF AtRest, Settled, LogClean
      <3>2. StagedOK'
        BY <1>1, <2>4, StagedStays
      <3>3. RInv'
        BY <2>3, <2>4, <3>1, <3>2 DEF RInv, Sound, PhaseTable, Healthy
      <3> QED BY <1>1, <2>3, <2>4, <3>3 DEF Quiet
    <2>5. CASE ShutdownFails
      <3>1. phase' = "idle" /\ mode' \in Unmounted
        BY <2>5 DEF ShutdownFails, Orderly, Unmounted
      <3> QED BY <1>1, <2>3, <3>1, CloseLeaving
    <2> QED BY <2>1, <2>4, <2>5
  <1>3. CASE DisableFlush
    <2>1. /\ Flush \/ FlushFails
          /\ phase' = "idle" /\ mode' \in Unmounted
      BY <1>3 DEF DisableFlush, ShutdownFails, Orderly, Unmounted
    <2>2. Sound' /\ Stores' \subseteq Stores
      <3>1. CASE Flush
        BY <1>1, <3>1, FlushKeeps
      <3>2. CASE FlushFails
        BY <1>1, <3>2, SameKeeps DEF FlushFails, Fault
      <3> QED BY <2>1, <3>1, <3>2
    <2> QED BY <1>1, <2>1, <2>2, CloseLeaving
  <1> QED BY <1>2, <1>3 DEF ShutdownStep

LEMMA PowerLossKeeps ==
    ASSUME RInv, PowerLoss
    PROVE  RInv' /\ Leaving
  <1>1. Sound' /\ Stores' \subseteq Stores /\ Stores' # {}
    BY CrashKeeps DEF RInv, Sound
  <1>2. mode' = "down" /\ phase' = "idle" /\ staged' = NoImages /\ pub' = pub
    BY DEF PowerLoss, Crash
  <1>3. RInv'
    BY <1>1, <1>2, StagedGone, CloseQuiet
  <1> QED BY <1>1, <1>2, <1>3 DEF Leaving, Unmounted

\* The current log is one a power loss may leave.
LEMMA LogRecoverable ==
    ASSUME Sound
    PROVE  Recoverable(log, ntx)
  BY OutcomesAre DEF Sound, DeviceHolds, Readable

\* A mount that found an empty log, or has retired it, ends.
LEMMA CloseOpening ==
    ASSUME Sound, StagedOK, phase \notin {"open"} \cup Committing, UNCHANGED staged, mode # "up",
           Sound', LogClean', UNCHANGED <<home, log, ntx>>,
           log[0].start = 0, home \in Stores, Stores' = {home}, GoUp(log[0].seq)
    PROVE  RInv' /\ Opening
  <1>1. mode' = "up" /\ phase' = "idle" /\ seq' = log[0].seq /\ pub' = home
    BY DEF GoUp
  <1>2. Recoverable(log, ntx)
    BY LogRecoverable
  <1>3. log[0] = SuperBlock(seq', 0)
    BY <1>1, <1>2 DEF Recoverable
  <1>4. recover(log).seq = seq'
    BY <1>3, EmptyLog
  <1>5. AtRest'
    BY <1>1, <1>2, <1>3, <1>4 DEF AtRest, Settled, Recoverable
  <1>6. StagedOK'
    BY StagedStays
  <1>7. RInv'
    BY <1>1, <1>5, <1>6 DEF RInv, Sound, PhaseTable, Healthy
  <1> QED BY <1>1, <1>7 DEF Opening

\* A step of a mount that goes on.
LEMMA CloseMounting ==
    ASSUME Sound', StagedOK, UNCHANGED <<staged, pub>>, phase \notin {"open"} \cup Committing,
           phase' \in Mounting, mode' = "mounting", Stores' \subseteq Stores,
           phase' = "replay" => AtReplay', phase' = "retire" => AtRetire',
           phase' = "retireflush" => AtRetireFlush',
           phase' \in {"enable", "enableflush"} => AtEnable'
    PROVE  RInv' /\ Leaving
  <1>1. StagedOK' /\ staged' = NoImages
    BY StagedStays
  <1>2. Stores' # {}
    <2>1. Outcomes(home', homeDur') # {} /\ Outcomes(log', logDur') # {}
      BY OutcomesAre DEF Sound, DeviceHolds
    <2> QED BY <2>1 DEF Stores, StoresOf
  <1>3. RInv'
    BY <1>1 DEF RInv, Sound, PhaseTable, Healthy, Mounting
  <1> QED BY <1>1, <1>2, <1>3 DEF Leaving, Unmounted

LEMMA WriteIs ==
    ASSUME NEW ws, ws \in Seq(HomeWrites), NEW i \in DOMAIN ws
    PROVE  i \in Nat /\ i > 0 /\ i <= Len(ws) /\ ws[i].home \in HomeBlocks
  <1>1. i \in 1 .. Len(ws) /\ Len(ws) \in Nat /\ ws[i] \in HomeWrites
    OBVIOUS
  <1> QED BY <1>1 DEF HomeWrites

LEMMA MountKeeps ==
    ASSUME IInv, RInv, Mount
    PROVE  RInv' /\ (Leaving \/ Opening)
  <1>1. /\ mode = "down" /\ rec' = recover(log) /\ idx' = 1
        /\ UNCHANGED <<device, staged, ntx>> /\ Sound /\ StagedOK
    BY DEF Mount, transaction, bounds, RInv, Sound
  <1>2. phase \notin {"open"} \cup Committing
    BY <1>1 DEF IInv, ControlOK, Committing
  <1>3. HomesClean /\ LogClean /\ flagDur = {flag}
    BY <1>1 DEF IInv, DownClean
  <1>4. Sound' /\ Stores' = Stores /\ LogClean' /\ UNCHANGED <<home, homeDur, log, logDur>>
    BY <1>1, <1>3, SameKeeps DEF LogClean, device
  <1>5. Recoverable(log, ntx)
    BY <1>1, LogRecoverable
  <1>6. CASE ~flag /\ log[0].start # 0
    <2>1. log[0].start = 0
      BY <1>1, <1>3, <1>6, BodyIs DEF Sound, DeviceHolds, Holding, FlagGuards
    <2> QED BY <1>6, <2>1
  <1>7. CASE mode' = "mounting" /\ phase' = "enable" /\ log[0].start = 0 /\ UNCHANGED pub
    <2>1. AtEnable'
      BY <1>4, <1>7 DEF AtEnable
    <2>2. phase' \in Mounting
      BY <1>7 DEF Mounting
    <2> QED BY <1>1, <1>2, <1>4, <1>7, <2>1, <2>2, CloseMounting
  <1>8. CASE rec'.status = "clean" /\ GoUp(log[0].seq)
    <2>1. log[0].start = 0
      BY <1>1, <1>5, <1>8 DEF Recoverable
    <2>2. Stores = {home}
      BY <1>1, <1>3, <2>1, EnableStores
    <2>3. home \in Stores /\ Stores' = {home} /\ mode # "up"
      BY <1>1, <1>4, <2>2
    <2> QED BY <1>1, <1>2, <1>4, <1>8, <2>1, <2>3, CloseOpening
  <1>9. CASE mode' = "mounting" /\ phase' = "replay" /\ UNCHANGED pub
    <2>1. Untouched(recover(log).writes)
      BY <1>3 DEF HomesClean, Untouched
    <2>2. Untouched(rec.writes)'
      BY <1>1, <1>4, <2>1 DEF Untouched
    <2>3. \A i \in DOMAIN rec'.writes : ~(i < idx')
      <3>1. \A i \in DOMAIN recover(log).writes : i \in Nat /\ i > 0
        BY <1>5, WriteIs DEF Recoverable
      <3> QED BY <1>1, <3>1
    <2>4. AtReplay'
      BY <1>1, <1>4, <2>2, <2>3 DEF AtReplay
    <2>5. phase' \in Mounting
      BY <1>9 DEF Mounting
    <2> QED BY <1>1, <1>2, <1>4, <1>9, <2>4, <2>5, CloseMounting
  <1> QED BY <1>6, <1>7, <1>8, <1>9 DEF Mount

LEMMA ReplayHomeKeeps ==
    ASSUME RInv, mode = "mounting", ReplayHome
    PROVE  RInv' /\ Leaving
  <1> DEFINE w == rec.writes[idx]
  <1>1. /\ phase = "replay" /\ idx <= Len(rec.writes) /\ UNCHANGED <<rec, staged>>
        /\ Sound /\ StagedOK /\ AtReplay /\ phase \notin {"open"} \cup Committing
        /\ \/ HomeWrite(w.home, w.image) /\ idx' = idx + 1 /\ UNCHANGED <<mode, phase, pub>>
           \/ HomeWriteFails(w.home, w.image) /\ MountFails
    BY DEF ReplayHome, RInv, Sound, PhaseTable, transaction, Committing
  <1>2. /\ rec = recover(log) /\ rec.writes \in Seq(HomeWrites) /\ Distinct(rec.writes)
        /\ idx \in DOMAIN rec.writes /\ idx \in Nat
    <2>1. Recoverable(log, ntx) /\ rec = recover(log)
      BY <1>1, LogRecoverable DEF AtReplay
    <2>2. rec.writes \in Seq(HomeWrites) /\ Distinct(rec.writes)
      BY <2>1 DEF Recoverable
    <2> QED BY <1>1, <2>1, <2>2 DEF AtReplay
  <1>3. w.home \in HomeBlocks
    BY <1>2, WriteIs
  <1>4. LogClean /\ Untouched(recover(log).writes)
        /\ \E i \in DOMAIN recover(log).writes : recover(log).writes[i].home = w.home
    BY <1>1, <1>2 DEF AtReplay
  <1> HIDE DEF w
  <1>5. /\ Sound' /\ LogClean' /\ Stores' = Stores /\ UNCHANGED <<log, logDur, ntx>>
        /\ Untouched(recover(log).writes)'
        /\ \A g \in HomeBlocks \ {w.home} : home'[g] = home[g]
        /\ HomeWrite(w.home, w.image) => home'[w.home] = w.image
    <2>1. HomeWrite(w.home, w.image) \/ HomeWriteFails(w.home, w.image)
      BY <1>1
    <2>2. Sound
      BY <1>1
    <2> QED BY <1>3, <1>4, <2>1, <2>2, HomeWriteKeeps
  <1>6. CASE HomeWrite(w.home, w.image) /\ idx' = idx + 1 /\ UNCHANGED <<mode, phase, pub>>
    <2>1. AtReplay'
      <3>1. rec' = recover(log') /\ idx' \in Nat /\ idx' > 0
        BY <1>1, <1>2, <1>5, <1>6 DEF AtReplay
      <3>2. ASSUME NEW i \in DOMAIN rec.writes, i < idx'
            PROVE  home'[rec.writes[i].home] = rec.writes[i].image
        <4>1. i \in Nat /\ rec.writes[i].home \in HomeBlocks
          BY <1>2, WriteIs
        <4>2. CASE i = idx
          BY <1>5, <1>6, <4>2 DEF w
        <4>3. CASE i # idx
          <5>1. i < idx
            BY <1>2, <1>6, <3>2, <4>1, <4>3
          <5>2. rec.writes[i].home # w.home
            BY <1>2, <4>3 DEF Distinct, w
          <5> QED BY <1>1, <1>5, <4>1, <5>1, <5>2 DEF AtReplay
        <4> QED BY <4>2, <4>3
      <3>3. Untouched(rec.writes)'
        BY <1>1, <1>2, <1>5 DEF Untouched
      <3> QED BY <1>1, <1>5, <3>1, <3>2, <3>3 DEF AtReplay
    <2>2. phase' = "replay" /\ mode' = "mounting" /\ phase' \in Mounting
      BY <1>1, <1>6 DEF Mounting
    <2> QED BY <1>1, <1>5, <1>6, <2>1, <2>2, CloseMounting
  <1>7. CASE MountFails
    <2>1. phase' = "idle" /\ mode' \in Unmounted /\ pub' = pub
      BY <1>7 DEF MountFails, Unmounted
    <2> QED BY <1>1, <1>5, <2>1, CloseLeaving
  <1> QED BY <1>1, <1>6, <1>7

\* A step in which the flush of a mount failed.
LEMMA FlushMountFails ==
    ASSUME RInv, phase \in Mounting, UNCHANGED staged, FlushFails, MountFails
    PROVE  RInv' /\ Leaving
  <1>1. Sound' /\ Stores' = Stores
    BY SameKeeps DEF FlushFails, Fault, RInv, Sound
  <1>2. phase' = "idle" /\ mode' \in Unmounted /\ pub' = pub
    BY DEF MountFails, Unmounted
  <1> QED BY <1>1, <1>2, CloseLeaving DEF RInv, Mounting, Committing

LEMMA ReplayFlushKeeps ==
    ASSUME RInv, mode = "mounting", ReplayFlush
    PROVE  RInv' /\ Leaving
  <1>1. /\ phase = "replay" /\ idx > Len(rec.writes) /\ UNCHANGED <<rec, staged>>
        /\ Sound /\ StagedOK /\ AtReplay /\ phase \notin {"open"} \cup Committing
        /\ phase \in Mounting
    BY DEF ReplayFlush, RInv, Sound, PhaseTable, transaction, Committing, Mounting
  <1>2. Recoverable(log, ntx) /\ rec = recover(log)
    BY <1>1, LogRecoverable DEF AtReplay
  <1>3. rec.status # "err" /\ rec.writes \in Seq(HomeWrites) /\ Distinct(rec.writes)
    BY <1>2 DEF Recoverable
  <1>4. \/ Flush /\ phase' = "retire" /\ UNCHANGED <<mode, pub>>
        \/ FlushFails /\ MountFails
    BY <1>3 DEF ReplayFlush
  <1>5. CASE Flush /\ phase' = "retire" /\ UNCHANGED <<mode, pub>>
    <2>1. Sound' /\ LogClean' /\ UNCHANGED <<home, log>> /\ Stores' \subseteq Stores
      BY <1>1, <1>5, FlushKeeps
    <2>2. Applied(home, rec.writes) = home
      <3>1. \A i \in DOMAIN rec.writes : home[rec.writes[i].home] = rec.writes[i].image
        <4>1. \A i \in DOMAIN rec.writes : i \in Nat /\ i <= Len(rec.writes)
          BY <1>3, WriteIs
        <4>2. idx \in Nat /\ Len(rec.writes) \in Nat
          BY <1>1, <1>3 DEF AtReplay
        <4>3. \A i \in DOMAIN rec.writes : i < idx
          BY <1>1, <4>1, <4>2
        <4> QED BY <1>1, <4>3 DEF AtReplay
      <3>2. home = [h \in HomeBlocks |-> home[h]]
        BY <1>1 DEF Sound, DeviceHolds, Holding
      <3> QED BY <1>3, <3>1, <3>2, AppliedAgain
    <2>3. AtRetire'
      BY <1>1, <1>2, <2>1, <2>2 DEF AtRetire
    <2>4. phase' \in Mounting /\ mode' = "mounting"
      BY <1>5 DEF Mounting
    <2> QED BY <1>1, <1>5, <2>1, <2>3, <2>4, CloseMounting
  <1> QED BY <1>1, <1>4, <1>5, FlushMountFails

LEMMA RetireLogKeeps ==
    ASSUME IInv, RInv, mode = "mounting", RetireLog
    PROVE  RInv' /\ Leaving
  <1> DEFINE b == SuperBlock(rec.seq, 0)
  <1>1. /\ phase = "retire" /\ UNCHANGED <<rec, staged>> /\ HomesClean
        /\ Sound /\ StagedOK /\ AtRetire /\ phase \notin {"open"} \cup Committing
        /\ \/ LogWrite(0, b) /\ phase' = "retireflush" /\ UNCHANGED <<mode, pub>>
           \/ LogWriteFails(0, b) /\ MountFails
    BY DEF RetireLog, RInv, Sound, PhaseTable, transaction, Committing, IInv, HomeDiscipline
  <1>2. Recoverable(log, ntx) /\ rec = recover(log) /\ Stores = {home} /\ LogClean
    BY <1>1, LogRecoverable, RetireStores DEF AtRetire
  <1>3. rec.seq \in Sequences32 /\ Age(rec.seq) <= 2 * ntx /\ BodyStale(log, Age(rec.seq))
    BY <1>2 DEF Recoverable
  <1>4. Applied(home, <<>>) = home
    BY <1>1, AppliedNothing DEF Sound, DeviceHolds, Holding
  <1>5. ASSUME NEW l, AddedLog(0, b, l)
        PROVE  Recoverable(l, ntx) /\ Applied(home, recover(l).writes) \in Stores
    <2>1. l[0] = b /\ \A n \in Body : l[n] = log[n]
      BY <1>2, <1>5, BodyIs DEF AddedLog, Added, TornLog, LogClean, Body
    <2>2. BodyStale(l, Age(rec.seq))
      BY <1>3, <2>1 DEF BodyStale
    <2>3. Recoverable(l, ntx) /\ recover(l).writes = <<>>
      BY <1>3, <2>1, <2>2, CleanRecoverable
    <2> QED BY <1>2, <1>4, <2>3
  <1>6. b.start = 0
    BY SuperBlockFields
  <1> HIDE DEF b
  <1>7. /\ Sound' /\ Stores' = Stores /\ UNCHANGED <<home, ntx>>
        /\ Rewritten(LogBlocks, log, logDur, log', logDur', 0, {b} \cup TornLog(0))
        /\ LogWrite(0, b) => log' = [log EXCEPT ![0] = b]
    <2>1. LogWrite(0, b) \/ LogWriteFails(0, b)
      BY <1>1
    <2>2. Holding(LogBlocks, log, logDur) /\ 0 \in LogBlocks
      BY <1>1, BodyIs DEF Sound, DeviceHolds
    <2> QED BY <1>1, <1>5, <1>6, <2>1, <2>2, LogWriteSame, LogWritten
  <1>8. CASE LogWrite(0, b) /\ phase' = "retireflush" /\ UNCHANGED <<mode, pub>>
    <2>1. log'[0] = b /\ \A n \in Body : log'[n] = log[n] /\ logDur'[n] = {log'[n]}
      BY <1>1, <1>2, <1>7, <1>8, BodyIs
      DEF Sound, DeviceHolds, Holding, Rewritten, Body, LogClean
    <2>2. AtRetireFlush'
      BY <1>1, <1>3, <1>7, <2>1 DEF AtRetireFlush, BodyClean, BodyStale, b
    <2>3. phase' \in Mounting /\ mode' = "mounting"
      BY <1>8 DEF Mounting
    <2> QED BY <1>1, <1>7, <1>8, <2>2, <2>3, CloseMounting
  <1>9. CASE MountFails
    <2>1. phase' = "idle" /\ mode' \in Unmounted /\ pub' = pub
      BY <1>9 DEF MountFails, Unmounted
    <2> QED BY <1>1, <1>7, <2>1, CloseLeaving
  <1> QED BY <1>1, <1>8, <1>9

LEMMA RetireFlushKeeps ==
    ASSUME RInv, mode = "mounting", RetireFlush
    PROVE  RInv' /\ (Leaving \/ Opening)
  <1>1. /\ phase = "retireflush" /\ UNCHANGED <<rec, staged>> /\ phase \in Mounting
        /\ Sound /\ StagedOK /\ AtRetireFlush /\ phase \notin {"open"} \cup Committing
        /\ (Flush /\ GoUp(log[0].seq)) \/ (FlushFails /\ MountFails)
    BY DEF RetireFlush, RInv, Sound, PhaseTable, transaction, Committing, Mounting
  <1>2. CASE Flush /\ GoUp(log[0].seq)
    <2>1. Sound' /\ LogClean' /\ UNCHANGED <<home, log, ntx>>
      BY <1>1, <1>2, FlushKeeps
    <2>2. log[0].start = 0 /\ recover(log).writes = <<>>
      BY <1>1, SuperBlockFields, EmptyLog DEF AtRetireFlush
    <2>3. Stores' = {home}
      BY <1>1, <1>2, <2>2, FlushDecides, AppliedNothing DEF Sound, DeviceHolds, Holding
    <2>4. home \in Stores
      BY <1>1, RetireFlushStores
    <2> QED BY <1>1, <1>2, <2>1, <2>2, <2>3, <2>4, CloseOpening
  <1> QED BY <1>1, <1>2, FlushMountFails

LEMMA EnableRecoverKeeps ==
    ASSUME RInv, mode = "mounting", EnableRecover
    PROVE  RInv' /\ Leaving
  <1>1. /\ phase = "enable" /\ UNCHANGED staged
        /\ Sound /\ StagedOK /\ AtEnable /\ phase \notin {"open"} \cup Committing
        /\ \/ FlagWrite(TRUE) /\ phase' = "enableflush" /\ UNCHANGED <<mode, pub>>
           \/ FlagWriteFails(TRUE) /\ MountFails
    BY DEF EnableRecover, RInv, Sound, PhaseTable, transaction, Committing
  <1>2. Sound' /\ Stores' = Stores /\ UNCHANGED <<log, logDur>>
    BY <1>1, FlagWriteKeeps
  <1>3. CASE phase' = "enableflush" /\ UNCHANGED <<mode, pub>>
    <2>1. AtEnable'
      BY <1>1, <1>2 DEF AtEnable, LogClean
    <2>2. phase' \in Mounting /\ mode' = "mounting"
      BY <1>3 DEF Mounting
    <2> QED BY <1>1, <1>2, <1>3, <2>1, <2>2, CloseMounting
  <1>4. CASE MountFails
    <2>1. phase' = "idle" /\ mode' \in Unmounted /\ pub' = pub
      BY <1>4 DEF MountFails, Unmounted
    <2> QED BY <1>1, <1>2, <2>1, CloseLeaving
  <1> QED BY <1>1, <1>3, <1>4

LEMMA EnableFlushKeeps ==
    ASSUME IInv, RInv, mode = "mounting", EnableFlush
    PROVE  RInv' /\ (Leaving \/ Opening)
  <1>1. /\ phase = "enableflush" /\ UNCHANGED <<rec, staged>> /\ phase \in Mounting /\ HomesClean
        /\ Sound /\ StagedOK /\ AtEnable /\ phase \notin {"open"} \cup Committing
        /\ (Flush /\ GoUp(log[0].seq)) \/ (FlushFails /\ MountFails)
    BY DEF EnableFlush, RInv, Sound, PhaseTable, transaction, Committing, Mounting,
           IInv, HomeDiscipline
  <1>2. CASE Flush /\ GoUp(log[0].seq)
    <2>1. Stores = {home}
      BY <1>1, EnableStores DEF AtEnable
    <2>2. Sound' /\ LogClean' /\ UNCHANGED <<home, log, ntx>> /\ Stores' = {home}
      BY <1>1, <1>2, <2>1, FlushKeeps, FlushSame
    <2>3. log[0].start = 0 /\ home \in Stores
      BY <1>1, <2>1 DEF AtEnable
    <2> QED BY <1>1, <1>2, <2>2, <2>3, CloseOpening
  <1> QED BY <1>1, <1>2, FlushMountFails

-----------------------------------------------------------------------------
(* Crash atomicity: the induction *)

LEMMA InitRInv == Init => RInv /\ pub = home /\ Stores = {home}
  <1> SUFFICES ASSUME Init PROVE RInv /\ pub = home /\ Stores = {home}
    OBVIOUS
  <1>1. /\ home = [h \in HomeBlocks |-> [ver |-> 0, magic |-> FALSE]]
        /\ homeDur = [h \in HomeBlocks |-> {home[h]}]
        /\ log = [n \in LogBlocks |-> IF n = 0 THEN SuperBlock(InitSeq, 0) ELSE Garbage]
        /\ logDur = [n \in LogBlocks |-> {log[n]}]
        /\ flag = FALSE /\ flagDur = {FALSE} /\ mode = "down" /\ phase = "idle"
        /\ staged = NoImages /\ pub = home /\ ntx = 0
    BY DEF Init
  <1>2. log[0] = SuperBlock(InitSeq, 0) /\ \A n \in Body : log[n] = Garbage
    BY <1>1, BodyIs DEF Body
  <1>3. HomesClean /\ LogClean
    BY <1>1 DEF HomesClean, LogClean
  <1>4. DeviceHolds
    <2>1. Holding(HomeBlocks, home, homeDur)
      BY <1>1 DEF Holding
    <2>2. Holding(LogBlocks, log, logDur)
      <3>1. log = [n \in LogBlocks |-> log[n]]
        BY <1>1
      <3> QED BY <1>1, <3>1 DEF Holding
    <2>3. ntx \in Nat /\ ntx <= MaxTx
      <3>1. MaxTx \in Nat
        BY TransactionAssumption
      <3> QED BY <1>1, <3>1
    <2>4. flag \in flagDur /\ flagDur \subseteq BOOLEAN
      BY <1>1
    <2> QED BY <2>1, <2>2, <2>3, <2>4 DEF DeviceHolds
  <1>5. InitSeq \in Sequences32 /\ Age(InitSeq) <= 2 * ntx
    BY <1>1, TransactionAssumption, SequenceAssumption DEF Sequences32, Age
  <1>6. Recoverable(log, ntx)
    <2>1. BodyStale(log, Age(InitSeq))
      BY <1>2, GarbageStale DEF BodyStale
    <2> QED BY <1>2, <1>5, <2>1, CleanRecoverable
  <1>7. Readable
    <2>1. Outcomes(log, logDur) = {log}
      BY <1>3, <1>4, OutcomesClean DEF DeviceHolds, LogClean
    <2> QED BY <1>6, <2>1 DEF Readable
  <1>8. log[0].start = 0
    BY <1>2, SuperBlockFields
  <1>9. FlagGuards
    BY <1>3, <1>8, BodyIs DEF FlagGuards, LogClean
  <1>10. StagedOK
    BY <1>1, NoImagesIs DEF StagedOK
  <1>11. RInv
    BY <1>1, <1>4, <1>7, <1>9, <1>10 DEF RInv, PhaseTable, Healthy
  <1>12. Stores = {home}
    BY <1>3, <1>4, <1>7, <1>8, <1>9, EnableStores DEF Sound
  <1> QED BY <1>1, <1>11, <1>12

\* What the steps of the mount do to the stores, the caches and the open transaction.
Moves ==
    \/ Quiet /\ mode' = mode
    \/ (Replaced \/ Offered \/ Decided \/ Shown) /\ mode = "up" /\ mode' = "up"
    \/ Leaving
    \/ Opening

LEMMA StutterKeeps ==
    ASSUME RInv, UNCHANGED vars
    PROVE  RInv' /\ Moves
  <1>1. /\ UNCHANGED <<home, homeDur, log, logDur, flag, flagDur>>
        /\ UNCHANGED <<mode, phase, idx, rec, seq, head, poisoned, staged, todo, pub, ntx>>
    BY DEF vars, device, core, transaction, bounds
  <1>2. Sound' /\ Stores' = Stores
    BY <1>1, SameKeeps DEF RInv, Sound, device
  <1>3. StagedOK'
    BY <1>1 DEF RInv, StagedOK, NewImage
  <1>4. LogClean' = LogClean /\ BodyClean' = BodyClean /\ Settled' = Settled
    BY <1>1 DEF LogClean, BodyClean, Settled
  <1>5. /\ InFlight' = InFlight /\ TracesOnly' = TracesOnly /\ LogLength' = LogLength
        /\ CommitPosition' = CommitPosition /\ Published' = Published
    BY <1>1 DEF InFlight, TracesOnly, LogLength, CommitPosition, Published, Encoded
  <1>6. PhaseTable'
    <2>1. /\ AtRest' = AtRest /\ Opened' = Opened /\ AtTail' = AtTail
          /\ AtTailFlush' = AtTailFlush /\ AtEnable' = AtEnable
      BY <1>1, <1>4, <1>5 DEF AtRest, Opened, AtTail, AtTailFlush, AtEnable
    <2>2. AtLog' = AtLog /\ AtCommit' = AtCommit /\ AtCommitFlush' = AtCommitFlush
      BY <1>1, <1>4, <1>5 DEF AtLog, AtCommit, AtCommitFlush
    <2>3. AtHome' = AtHome /\ AtClean' = AtClean /\ AtCleanFlush' = AtCleanFlush
      BY <1>1, <1>4, <1>5 DEF AtHome, AtClean, AtCleanFlush
    <2>4. AtReplay' = AtReplay /\ AtRetire' = AtRetire /\ AtRetireFlush' = AtRetireFlush
      BY <1>1, <1>4 DEF AtReplay, AtRetire, AtRetireFlush, Untouched
    <2> QED BY <1>1, <2>1, <2>2, <2>3, <2>4 DEF RInv, PhaseTable, Healthy
  <1>7. RInv'
    BY <1>2, <1>3, <1>6 DEF RInv, Sound
  <1> QED BY <1>1, <1>2, <1>7 DEF Moves, Quiet

LEMMA CommitStepKeeps ==
    ASSUME FewTransactions, IInv, RInv, CommitStep
    PROVE  RInv' /\ Moves
  <1>1. UNCHANGED mode /\ phase \in Committing
    BY DEF CommitStep, WriteTail, FlushTail, WriteLog, FlushLog, WriteCommit, FlushCommit,
           WriteHome, FlushHome, WriteClean, FlushClean, Committing
  <1>2. mode = "up" /\ mode' = "up"
    BY <1>1, Committer
  <1>3. CASE WriteTail \/ FlushTail \/ WriteLog \/ FlushLog \/ WriteHome \/ WriteClean \/ FlushClean
    <2>1. RInv' /\ Quiet
      BY <1>3, WriteTailKeeps, FlushTailKeeps, WriteLogKeeps, FlushLogKeeps, WriteHomeKeeps,
         WriteCleanKeeps, FlushCleanKeeps
    <2> QED BY <1>1, <2>1 DEF Moves
  <1>4. CASE WriteCommit \/ FlushCommit \/ FlushHome
    <2>1. RInv' /\ (Quiet \/ Offered \/ Decided \/ Shown)
      BY <1>4, WriteCommitKeeps, FlushCommitKeeps, FlushHomeKeeps
    <2> QED BY <1>1, <1>2, <2>1 DEF Moves
  <1> QED BY <1>3, <1>4 DEF CommitStep

LEMMA MountStepKeeps ==
    ASSUME IInv, RInv, MountStep
    PROVE  RInv' /\ Moves
  <1>1. phase \in Mounting
    BY DEF MountStep, ReplayHome, ReplayFlush, RetireLog, RetireFlush, EnableRecover,
           EnableFlush, Mounting
  <1>2. mode = "mounting"
    BY <1>1 DEF IInv, ControlOK
  <1>3. RInv' /\ (Leaving \/ Opening)
    BY <1>2, ReplayHomeKeeps, ReplayFlushKeeps, RetireLogKeeps, RetireFlushKeeps,
       EnableRecoverKeeps, EnableFlushKeeps DEF MountStep
  <1> QED BY <1>3 DEF Moves

LEMMA StepRInv ==
    ASSUME Orderly, FewTransactions, IInv, ReservationOK, RInv, [Next]_vars
    PROVE  RInv' /\ Moves
  <1>1. CASE UNCHANGED vars
    BY <1>1, StutterKeeps
  <1>2. CASE Mount
    BY <1>2, MountKeeps DEF Moves
  <1>3. CASE MountStep
    BY <1>3, MountStepKeeps
  <1>4. ASSUME NEW n, Start(n) \/ Discard \/ Commit \/ Shutdown
        PROVE  RInv' /\ Moves
    <2>1. mode' = mode
      BY <1>4 DEF Start, Discard, Commit, Shutdown
    <2>2. RInv' /\ Quiet
      BY <1>4, StartKeeps, DiscardKeeps, CommitKeeps, ShutdownKeeps
    <2> QED BY <2>1, <2>2 DEF Moves
  <1>5. ASSUME NEW h, Stage(h)
        PROVE  RInv' /\ Moves
    <2>1. mode' = mode /\ mode = "up"
      BY <1>5 DEF Stage, IInv, ControlOK
    <2> QED BY <1>5, <2>1, StageKeeps DEF Moves
  <1>6. CASE CommitStep
    BY <1>6, CommitStepKeeps
  <1>7. CASE ShutdownStep
    BY <1>7, ShutdownStepKeeps DEF Moves
  <1>8. CASE PowerLoss
    BY <1>8, PowerLossKeeps DEF Moves
  <1>9. CASE WarmRestart
    BY <1>9 DEF WarmRestart, Orderly
  <1> QED
    BY <1>1, <1>2, <1>3, <1>4, <1>5, <1>6, <1>7, <1>8, <1>9 DEF Next

LEMMA RInvariance ==
    ASSUME Orderly, FewTransactions
    PROVE  Spec => [](IInv /\ ReservationOK /\ RInv)
  <1>1. Init => RInv
    BY InitRInv
  <1>2. IInv /\ ReservationOK /\ RInv /\ [Next]_vars => RInv'
    BY StepRInv
  <1> QED BY <1>1, <1>2, Invariance, ReservationInvariance, PTL DEF Spec

LEMMA StoresForAre ==
    ASSUME NEW hs, NEW c, NEW d, Holding(LogBlocks, c, d), NEW fs, fs \subseteq BOOLEAN, NEW f \in fs,
           NEW n, \A l \in Outcomes(c, d) : Recoverable(l, n),
           FALSE \in fs => \A b \in d[0] : b.start = 0
    PROVE  StoresFor(hs, Outcomes(c, d), fs) = StoresOf(hs, Outcomes(c, d))
  <1>1. ASSUME FALSE \in fs, NEW l \in Outcomes(c, d) PROVE l[0].start = 0
    <2>1. l[0] \in d[0]
      BY OutcomesAre, BodyIs DEF Left
    <2> QED BY <1>1, <2>1
  <1>2. fs # {}
    OBVIOUS
  <1> QED BY <1>1, <1>2, StoresAre

\* RECOVER never hides a log that matters: the stores a crash may lead to are the homes
\* after recovery, whatever the flag.
LEMMA CrashStoresAre ==
    /\ RInv => CrashStores = Stores
    /\ RInv' => CrashStores' = Stores'
  <1>1. ASSUME RInv PROVE CrashStores = Stores
    <2>1. CrashStores = StoresFor(Outcomes(home, homeDur), Outcomes(log, logDur), flagDur)
      BY DEF CrashStores, StoresFor
    <2>2. StoresFor(Outcomes(home, homeDur), Outcomes(log, logDur), flagDur)
              = StoresOf(Outcomes(home, homeDur), Outcomes(log, logDur))
      BY <1>1, StoresForAre DEF RInv, DeviceHolds, Readable, FlagGuards
    <2> QED BY <2>1, <2>2 DEF Stores
  <1>2. ASSUME RInv' PROVE CrashStores' = Stores'
    <2>1. CrashStores' = StoresFor(Outcomes(home', homeDur'), Outcomes(log', logDur'), flagDur')
      BY DEF CrashStores, StoresFor
    <2>2. StoresFor(Outcomes(home', homeDur'), Outcomes(log', logDur'), flagDur')
              = StoresOf(Outcomes(home', homeDur'), Outcomes(log', logDur'))
      BY <1>2, StoresForAre DEF RInv, DeviceHolds, Readable, FlagGuards
    <2> QED BY <2>1, <2>2 DEF Stores
  <1> QED BY <1>1, <1>2

\* Every step of the mount is a step of the store it promises, or none.
LEMMA StepRefines ==
    ASSUME RInv, RInv', Moves
    PROVE  [Abstract!Next]_(Abstract!vars)
  <1>1. CrashStores = Stores /\ CrashStores' = Stores'
    BY CrashStoresAre
  <1>2. NoImages = Abstract!NoRequest
    BY NoImagesIs DEF Abstract!NoRequest
  <1>3. Granted = Abstract!Granted
    BY DEF Granted, Abstract!Granted
  <1>4. CASE Quiet /\ mode' = mode
    <2>1. UNCHANGED <<CrashStores, pub>> /\ (staged' = staged \/ staged' = Abstract!NoRequest)
      BY <1>1, <1>2, <1>4 DEF Quiet
    <2> QED BY <1>4, <2>1 DEF Abstract!Next, Abstract!Forget, Abstract!vars
  <1>5. CASE (Replaced \/ Offered \/ Decided \/ Shown) /\ mode = "up" /\ mode' = "up"
    <2>1. CASE Replaced
      BY <1>1, <1>5, <2>1 DEF Replaced, Abstract!Next, Abstract!Replace, Abstract!vars
    <2>2. CASE Offered
      BY <1>1, <1>2, <1>3, <1>5, <2>2 DEF Offered, Abstract!Next, Abstract!Offer
    <2>3. CASE Decided
      BY <1>1, <1>3, <1>5, <2>3 DEF Decided, Abstract!Next, Abstract!Settle
    <2>4. CASE Shown
      BY <1>1, <1>3, <1>5, <2>4 DEF Shown, Abstract!Next, Abstract!Publish
    <2> QED BY <1>5, <2>1, <2>2, <2>3, <2>4
  <1>6. CASE Leaving
    BY <1>1, <1>2, <1>6 DEF Leaving, Unmounted, Abstract!Next, Abstract!Down
  <1>7. CASE Opening
    BY <1>1, <1>7 DEF Opening, Abstract!Next, Abstract!Open
  <1> QED BY <1>4, <1>5, <1>6, <1>7 DEF Moves

LEMMA InitRefines == Init => Abstract!Init
  <1> SUFFICES ASSUME Init PROVE Abstract!Init
    OBVIOUS
  <1>1. CrashStores = {pub}
    BY InitRInv, CrashStoresAre
  <1>2. pub \in [HomeBlocks -> Image]
    BY DEF Init, Image
  <1>3. staged = Abstract!NoRequest
    BY NoImagesIs DEF Init, Abstract!NoRequest
  <1>4. mode # "up"
    BY DEF Init
  <1> QED BY <1>1, <1>2, <1>3, <1>4 DEF Abstract!Init, Abstract!Store

\* Transactions are atomic and durable: whatever power losses and I/O errors come between
\* the writes of commit_journal, of recover and of the mount and shutdown around them, the
\* mount implements a store whose transactions happen entirely or not at all, and shows
\* nothing a crash could take back.
THEOREM CrashAtomicity ==
    ASSUME Orderly, FewTransactions
    PROVE  Spec => AtomicAndDurable
  <1>1. Init => Abstract!Init
    BY InitRefines
  <1>2. IInv /\ ReservationOK /\ RInv /\ RInv' /\ [Next]_vars => [Abstract!Next]_(Abstract!vars)
    BY StepRInv, StepRefines
  <1> QED BY <1>1, <1>2, RInvariance, PTL DEF Spec, AtomicAndDurable, Abstract!Spec

-----------------------------------------------------------------------------
(* Recovery can always be repeated, and sequence numbers are never reused *)

\* No home is half written, whatever recovery finds.
Whole(s) == s \in [HomeBlocks -> Image] /\ \A h \in HomeBlocks : s[h].ver <= MaxTx

WholeStores == Whole(pub) /\ (\A s \in Stores : Whole(s)) /\ mode # "refused"

LEMMA GrantedWhole ==
    ASSUME RInv, Whole(pub)
    PROVE  Whole(Granted)
  <1>1. \A h \in DOMAIN staged : staged[h] \in Image /\ staged[h].ver <= MaxTx
    <2>1. staged = [h \in DOMAIN staged |-> NewImage(h)] /\ ntx \in Nat /\ ntx <= MaxTx
      BY DEF RInv, StagedOK, DeviceHolds
    <2>2. \A h : NewImage(h) \in Image /\ NewImage(h).ver <= MaxTx
      BY <2>1 DEF NewImage, Image
    <2> QED BY <2>1, <2>2
  <1> QED BY <1>1 DEF Granted, Whole

LEMMA StepWhole ==
    ASSUME RInv, WholeStores, Moves
    PROVE  WholeStores'
  <1>1. Whole(pub) /\ Whole(Granted) /\ \A s \in Stores : Whole(s)
    BY GrantedWhole DEF WholeStores
  <1>2. Whole(pub') /\ \A s \in Stores' : Whole(s)
    <2>1. CASE Quiet \/ Replaced \/ Leaving
      BY <1>1, <2>1 DEF Quiet, Replaced, Leaving
    <2>2. CASE Offered \/ Decided \/ Shown
      BY <1>1, <2>2 DEF Offered, Decided, Shown
    <2>3. CASE Opening
      BY <1>1, <2>3 DEF Opening
    <2> QED BY <2>1, <2>2, <2>3 DEF Moves
  <1>3. mode' # "refused"
    BY DEF Moves, WholeStores, Leaving, Unmounted, Opening
  <1> QED BY <1>2, <1>3 DEF WholeStores, Whole

\* No mount is refused on what this code wrote, and none leaves a home block half written,
\* however often it is cut short (recover, journal_recovery.rs:48, and
\* initialize_journal, journal.rs:264).
THEOREM RetryAlwaysRepairs ==
    ASSUME Orderly, FewTransactions
    PROVE  Spec => []RetryRepairs
  <1>1. Init => WholeStores
    <2> SUFFICES ASSUME Init PROVE WholeStores
      OBVIOUS
    <2>1. Whole(home) /\ mode # "refused"
      BY TransactionAssumption DEF Init, Whole, Image
    <2> QED BY <2>1, InitRInv DEF WholeStores
  <1>2. IInv /\ ReservationOK /\ RInv /\ WholeStores /\ [Next]_vars => WholeStores'
    BY StepRInv, StepWhole
  <1>3. RInv /\ WholeStores => RetryRepairs
    <2> SUFFICES ASSUME RInv, WholeStores PROVE RetryRepairs
      OBVIOUS
    <2>1. \A s \in CrashStores : Whole(s)
      BY CrashStoresAre DEF WholeStores
    <2>2. TornImage.ver = MaxTx + 1 /\ ~(MaxTx + 1 <= MaxTx)
      <3>1. MaxTx \in Nat
        BY TransactionAssumption
      <3> QED BY <3>1 DEF TornImage
    <2>3. \A s \in CrashStores : \A h \in HomeBlocks : s[h] # TornImage
      BY <2>1, <2>2 DEF Whole
    <2> QED BY <2>3 DEF RetryRepairs, HomesRepairable, WholeStores
  <1> QED BY <1>1, <1>2, <1>3, RInvariance, PTL DEF Spec

\* A transaction starts under a sequence number that no block in the ring carries, or could
\* carry after a crash, whatever earlier transactions and recoveries left there
\* (journal_transaction.rs:589, journal_recovery.rs:98).
THEOREM SequencesAreFresh ==
    ASSUME Orderly, FewTransactions
    PROVE  Spec => []SequenceFresh
  <1>1. RInv => SequenceFresh
    <2> SUFFICES ASSUME RInv, mode = "up", phase \in {"idle", "open"}, ~poisoned,
                        NEW n \in Ring, NEW b \in logDur[n]
                 PROVE  ~header_matches(b, seq)
      BY DEF SequenceFresh
    <2>1. Settled
      BY DEF RInv, PhaseTable, Healthy, AtRest, Opened
    <2>2. b = log[n] /\ Stale(b, Age(seq)) /\ Age(seq) \in Nat
      BY <2>1, BodyIs, AgeType DEF Settled, LogClean, BodyStale
    <2>3. b.type \in {"desc", "commit"} => b.seq # seq
      BY <2>2 DEF Stale
    <2> QED BY <2>2, <2>3 DEF Stale, header_matches
  <1> QED BY <1>1, RInvariance, PTL
=============================================================================
