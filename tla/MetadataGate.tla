---------------------------- MODULE MetadataGate ----------------------------
(***************************************************************************)
(* Who may change metadata, and when: MetadataMutationGate and the two     *)
(* fail-stop marks (mod.rs), the writer slot and poison mark of a          *)
(* transaction core (journal_transaction.rs), and the mutating operations  *)
(* and shutdown_writable that pass through them on any number of threads.  *)
(*                                                                         *)
(* Every atomic operation and every lock-protected read or write of a mark *)
(* is a step of its own.  What an operation does between them is reduced   *)
(* to its outcome: success, or an error that leaves metadata half done,    *)
(* poisoning the filesystem or not.                                        *)
(***************************************************************************)
EXTENDS Integers, FiniteSets

CONSTANTS
    Threads,
    DirectMax,      \* METADATA_GATE_DIRECT_MAX
    CasRetries,     \* COMPATIBLE_CAS_RETRIES
    Journal         \* MetadataMutationMode::Journal (TRUE) or Direct (FALSE)

ASSUME ThreadsAssumption == IsFiniteSet(Threads)

ASSUME GateAssumption ==
    /\ DirectMax \in Nat \ {0}
    /\ CasRetries \in Nat \ {0}
    /\ Journal \in BOOLEAN

\* METADATA_GATE_EXCLUSIVE, the top bit of the word.
Exclusive == DirectMax + 1

VARIABLES
    gate,           \* MetadataMutationGate.state
    poisoned,       \* Ext4.poisoned
    corePoison,     \* JournalTransactionCore.poison or DirectTransactionCore.poison
    writer,         \* the core's writer flag
    clean,          \* shutdown_writable has marked the filesystem clean
    torn,           \* an operation that poisons left metadata half written (history)
    quiet,          \* so did one that returned its error only (history)
    pc, obs, tries  \* per thread: program counter, try_direct's state and loop count

marks == <<poisoned, corePoison, writer, clean, torn, quiet>>
locals == <<obs, tries>>
vars == <<gate, marks, pc, locals>>

\* Threads that hold a shared and an exclusive MetadataMutationGuard.
SharedAt == {"direct", "broken"}
ExclusiveAt == {"tx", "start", "open", "release", "failed", "shut", "mark", "done"}

Acquiring == {"load", "cas", "txcas", "sdcas"}

At(t, l) == pc[t] = l

Goto(t, l) == pc' = [pc EXCEPT ![t] = l]

Init ==
    /\ gate = 0
    /\ poisoned = FALSE /\ corePoison = FALSE /\ writer = FALSE
    /\ clean = FALSE /\ torn = FALSE /\ quiet = FALSE
    /\ pc = [t \in Threads |-> "idle"]
    /\ obs = [t \in Threads |-> 0] /\ tries = [t \in Threads |-> 0]

-----------------------------------------------------------------------------
(* Entering an operation *)

ensure_mutable == ~poisoned

\* A mutating call begins by checking the mark, then asks for its guard.
Enter(t) ==
    /\ At(t, "idle") /\ ensure_mutable
    /\ \E l \in {"load", "txcas"} : Goto(t, l)
    /\ UNCHANGED <<gate, marks, locals>>

\* shutdown_writable asks for the exclusive guard without that check.
EnterShutdown(t) ==
    /\ At(t, "idle")
    /\ Goto(t, "sdcas")
    /\ UNCHANGED <<gate, marks, locals>>

\* try_direct: the relaxed load before the loop.
Load(t) ==
    /\ At(t, "load")
    /\ obs' = [obs EXCEPT ![t] = gate] /\ tries' = [tries EXCEPT ![t] = 0]
    /\ Goto(t, "cas")
    /\ UNCHANGED <<gate, marks>>

Forget(t) == obs' = [obs EXCEPT ![t] = 0] /\ tries' = [tries EXCEPT ![t] = 0]

\* EAGAIN: an exclusive owner, a saturated count, or no retry left.
Refused(t) ==
    /\ At(t, "cas")
    /\ obs[t] >= Exclusive \/ obs[t] = DirectMax \/ tries[t] = CasRetries
    /\ Goto(t, "idle") /\ Forget(t)
    /\ UNCHANGED <<gate, marks>>

\* Fault variant: a saturated count is not refused.
ContendsSaturated(t) ==
    At(t, "cas") /\ obs[t] < Exclusive /\ tries[t] # CasRetries

Contends(t) ==
    /\ At(t, "cas")
    /\ obs[t] < Exclusive /\ obs[t] # DirectMax /\ tries[t] # CasRetries

CasSucceeds(t) ==
    /\ Contends(t) /\ gate = obs[t]
    /\ gate' = gate + 1
    /\ Goto(t, "direct") /\ Forget(t)
    /\ UNCHANGED marks

\* Fault variant: failed attempts are not counted.
CasFailsUncounted(t) ==
    /\ Contends(t)
    /\ obs' = [obs EXCEPT ![t] = gate]
    /\ UNCHANGED <<gate, marks, pc, tries>>

\* compare_exchange_weak may fail although the word matches.
CasFails(t) ==
    /\ Contends(t)
    /\ obs' = [obs EXCEPT ![t] = gate] /\ tries' = [tries EXCEPT ![t] = @ + 1]
    /\ UNCHANGED <<gate, marks, pc>>

try_direct(t) == Load(t) \/ Refused(t) \/ CasSucceeds(t) \/ CasFails(t)

\* Fault variant: the exclusive guard is granted whatever the word holds.
try_transactional_any(t) ==
    /\ pc[t] \in {"txcas", "sdcas"}
    /\ gate' = Exclusive
    /\ Goto(t, IF At(t, "txcas") THEN "tx" ELSE "shut")
    /\ UNCHANGED <<marks, locals>>

\* try_transactional: one strong compare_exchange from 0.
try_transactional(t) ==
    /\ pc[t] \in {"txcas", "sdcas"}
    /\ \/ /\ gate = 0 /\ gate' = Exclusive
          /\ Goto(t, IF At(t, "txcas") THEN "tx" ELSE "shut")
       \/ gate # 0 /\ Goto(t, "idle") /\ UNCHANGED gate
    /\ UNCHANGED <<marks, locals>>

-----------------------------------------------------------------------------
(* Under a guard *)

\* A legacy direct operation fails after its first write, cannot undo it and is on
\* its way to poison_on_error or fail_stop_mutations.
DirectTears(t) ==
    /\ At(t, "direct")
    /\ torn' = TRUE /\ Goto(t, "broken")
    /\ UNCHANGED <<gate, poisoned, corePoison, writer, clean, quiet, locals>>

\* One that has no such call on its way out: it returns the error, and its guard is
\* dropped as after a success (a failed restore in alloc_block, a cut node split,
\* a parent whose link count cannot be written).
DirectLeaves(t) ==
    /\ pc[t] \in {"direct", "tx"}
    /\ quiet' = TRUE
    /\ UNCHANGED <<gate, poisoned, corePoison, writer, clean, torn, pc, locals>>

\* Ext4::poison by the operation that tore, before its guard is dropped.
DirectPoisons(t) ==
    /\ At(t, "broken")
    /\ poisoned' = TRUE /\ Goto(t, "direct")
    /\ UNCHANGED <<gate, corePoison, writer, clean, torn, quiet, locals>>

\* start: the poison check.
StartCheck(t) ==
    /\ At(t, "tx") /\ ~corePoison
    /\ Goto(t, "start")
    /\ UNCHANGED <<gate, marks, locals>>

\* start: the writer compare_exchange (EAGAIN when it is taken).
StartCas(t) ==
    /\ At(t, "start")
    /\ writer' = TRUE
    /\ Goto(t, IF writer THEN "done" ELSE "open")
    /\ UNCHANGED <<gate, poisoned, corePoison, clean, torn, quiet, locals>>

\* A commit, an abort or a refused reservation; several transactions may
\* follow one another under one guard.
Finish(t) ==
    /\ At(t, "open")
    /\ writer' = FALSE /\ Goto(t, "tx")
    /\ UNCHANGED <<gate, poisoned, corePoison, clean, torn, quiet, locals>>

\* Transaction::fail with poison, then release_writer, then the caller's
\* Ext4::poison.
CommitFails(t) ==
    /\ At(t, "open")
    /\ corePoison' = TRUE /\ torn' = TRUE /\ Goto(t, "release")
    /\ UNCHANGED <<gate, poisoned, writer, clean, quiet, locals>>

release_writer(t) ==
    /\ At(t, "release")
    /\ writer' = FALSE /\ Goto(t, "failed")
    /\ UNCHANGED <<gate, poisoned, corePoison, clean, torn, quiet, locals>>

\* Fault variant: the caller of a failed commit only returns the error.
CallerForgets(t) ==
    /\ At(t, "failed")
    /\ Goto(t, "done")
    /\ UNCHANGED <<gate, marks, locals>>

CallerPoisons(t) ==
    /\ At(t, "failed")
    /\ poisoned' = TRUE /\ Goto(t, "done")
    /\ UNCHANGED <<gate, corePoison, writer, clean, torn, quiet, locals>>

\* Fault variant: only the core is asked.
CanShutdownCoreOnly == ~writer /\ ~corePoison

\* A Direct mount also asks the filesystem's own mark; a journaled one does not.
can_shutdown == ~writer /\ ~corePoison /\ (Journal \/ ~poisoned)

ShutdownCheck(t) ==
    /\ At(t, "shut")
    /\ Goto(t, IF can_shutdown THEN "mark" ELSE "done")
    /\ UNCHANGED <<gate, marks, locals>>

\* VALID_FS is restored, or RECOVER is cleared.
MarkClean(t) ==
    /\ At(t, "mark")
    /\ clean' = TRUE /\ Goto(t, "done")
    /\ UNCHANGED <<gate, poisoned, corePoison, writer, torn, quiet, locals>>

-----------------------------------------------------------------------------
(* Dropping a guard *)

\* fetch_sub on the word.
Decrement == IF gate = 0 THEN 2 * Exclusive - 1 ELSE gate - 1

DropShared(t, l) ==
    /\ At(t, "direct")
    /\ gate' = Decrement /\ Goto(t, l)
    /\ UNCHANGED <<marks, locals>>

DropExclusive(t, l) ==
    /\ pc[t] \in {"tx", "done"}
    /\ gate' = 0 /\ Goto(t, l)
    /\ UNCHANGED <<marks, locals>>

\* prepare_buffered_write on a Direct mount: classified under a shared guard,
\* retried under the exclusive one, and finally done under a shared one, with one
\* ensure_mutable at its start.
prepare_buffered_write(t) ==
    /\ ~Journal
    /\ DropShared(t, "txcas") \/ (At(t, "tx") /\ DropExclusive(t, "load"))

Leave(t) == DropShared(t, "idle") \/ DropExclusive(t, "idle")

\* fail_stop_mutations, called by the layer above at any moment.
fail_stop_mutations ==
    /\ poisoned' = TRUE
    /\ UNCHANGED <<gate, corePoison, writer, clean, torn, quiet, pc, locals>>

-----------------------------------------------------------------------------
Acquire(t) == try_direct(t) \/ try_transactional(t)

Guarded(t) ==
    \/ DirectTears(t) \/ DirectPoisons(t) \/ DirectLeaves(t)
    \/ StartCheck(t) \/ StartCas(t) \/ Finish(t)
    \/ CommitFails(t) \/ release_writer(t) \/ CallerPoisons(t)
    \/ ShutdownCheck(t) \/ MarkClean(t)

Step(t) ==
    Enter(t) \/ EnterShutdown(t) \/ Acquire(t) \/ Guarded(t)
    \/ prepare_buffered_write(t) \/ Leave(t)

Next == fail_stop_mutations \/ \E t \in Threads : Step(t)

Spec == Init /\ [][Next]_vars

\* A thread that is acquiring a guard keeps running.
FairSpec == Spec /\ \A t \in Threads : WF_vars(Acquire(t))

-----------------------------------------------------------------------------
(* Properties *)

TypeOK ==
    /\ gate \in 0 .. (2 * Exclusive - 1)
    /\ poisoned \in BOOLEAN /\ corePoison \in BOOLEAN /\ writer \in BOOLEAN
    /\ clean \in BOOLEAN /\ torn \in BOOLEAN /\ quiet \in BOOLEAN
    /\ pc \in [Threads -> {"idle"} \cup Acquiring \cup SharedAt \cup ExclusiveAt]
    /\ obs \in [Threads -> 0 .. (2 * Exclusive - 1)]
    /\ tries \in [Threads -> 0 .. CasRetries]

Shared == {t \in Threads : pc[t] \in SharedAt}
Owners == {t \in Threads : pc[t] \in ExclusiveAt}

\* Direct writers and transactions exclude each other, at most one thread owns
\* the exclusive guard, and the word counts exactly the guards that exist, which
\* is what the assertions in MetadataMutationGuard::drop rely on
\* (mod.rs:340-353): no acquisition overflows the count into the exclusive bit.
GateExclusion ==
    \/ Owners = {} /\ gate = Cardinality(Shared) /\ gate <= DirectMax
    \/ Shared = {} /\ gate = Exclusive /\ \E t \in Threads : Owners = {t}

\* start reads the poison mark and takes the writer slot in two steps
\* (journal_transaction.rs:219 and 227); still no transaction is ever open on a
\* core that has failed, and the slot is never found taken.
StartIsSafe ==
    \A t \in Threads :
        /\ pc[t] \in {"start", "open"} => ~corePoison
        /\ pc[t] = "start" => ~writer

\* A failed commit poisons its core and, in a later step of the caller, the
\* filesystem (alloc.rs:830, link.rs:45, low_level.rs:1267); nobody can take a
\* guard of either kind in between.
FailureIsPublished ==
    corePoison => poisoned \/ gate = Exclusive

\* shutdown_writable declares a filesystem clean only while no mutation is in
\* progress and after no failure that poisons, at whatever step the failing thread
\* is: "Clearing RECOVER is a metadata state transition and must not race a direct
\* writer" (journal.rs:159), and "Once set, mutation must fail-stop" (mod.rs:91).
\* On a journaled mount only the first half holds, since the core alone is asked.
\* It says nothing of failures that do not poison: those are in CleanMarkTrue.
CleanMarkEarned == [][clean' # clean => ~torn /\ Shared = {}]_vars

\* What the mark means: no operation has left metadata half written.  The code does
\* not promise it, because an error returned without poison (alloc.rs:943-963,
\* extent.rs:792-830, link.rs:55-60) leaves nothing that can_shutdown asks for.
CleanMarkTrue == [][clean' # clean => ~torn /\ ~quiet]_vars

\* "Acquisition never waits for an existing owner" (mod.rs:271): a thread that asks
\* for a guard gets it or an error, whatever the owners do and however often its
\* compare_exchange_weak fails.
AcquisitionDecides ==
    \A t \in Threads : pc[t] \in Acquiring ~> pc[t] \notin Acquiring

=============================================================================
