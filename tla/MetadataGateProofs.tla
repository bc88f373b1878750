------------------------- MODULE MetadataGateProofs -------------------------
(***************************************************************************)
(* The gate's safety for any number of threads, any saturation limit and   *)
(* any number of retries.                                                  *)
(*                                                                         *)
(* GateExclusion and TypeOK are inductive together.  On top of them the    *)
(* writer slot is tied to the exclusive owner, which is what makes the two *)
(* steps of start safe, and a poisoned core to a poisoned filesystem.      *)
(***************************************************************************)
EXTENDS MetadataGate, FiniteSetTheorems, TLAPS

\* What the exclusive owner's position says of the core.
OwnerOK ==
    /\ writer => \E t \in Threads : pc[t] \in {"open", "release"}
    /\ \A t \in Threads : pc[t] \in {"start", "open"} => ~corePoison
    /\ corePoison /\ ~poisoned => \E t \in Threads : pc[t] \in {"release", "failed"}

\* Metadata left half written by an operation that poisons is known to the
\* filesystem, or to the thread that is about to say so under its guard; on a
\* Direct mount it stops a shutdown.
TornOK ==
    /\ torn => poisoned \/ \E t \in Threads : pc[t] \in {"broken", "release", "failed"}
    /\ ~Journal => \A t \in Threads : pc[t] = "mark" => ~torn

IInv == TypeOK /\ GateExclusion /\ OwnerOK /\ TornOK

-----------------------------------------------------------------------------
\* The set of shared holders is finite, and a thread that enters or leaves it
\* changes its size by one.
LEMMA SharedCounts ==
    ASSUME TypeOK
    PROVE  /\ IsFiniteSet(Shared)
           /\ Cardinality(Shared) \in Nat
           /\ Cardinality(Shared) = 0 <=> Shared = {}
           /\ \A t : Cardinality(Shared \cup {t}) =
                        IF t \in Shared THEN Cardinality(Shared) ELSE Cardinality(Shared) + 1
           /\ \A t : Cardinality(Shared \ {t}) =
                        IF t \in Shared THEN Cardinality(Shared) - 1 ELSE Cardinality(Shared)
  <1>1. Shared \subseteq Threads
    BY DEF Shared
  <1>2. IsFiniteSet(Shared)
    BY <1>1, ThreadsAssumption, FS_Subset
  <1> QED
    BY <1>2, FS_CardinalityType, FS_EmptySet, FS_AddElement, FS_RemoveElement

-----------------------------------------------------------------------------
\* A step that moves one thread within its kind of guard, and leaves the word
\* alone, keeps the exclusion.
LEMMA SameGuards ==
    ASSUME TypeOK, GateExclusion, UNCHANGED gate, NEW t \in Threads, NEW l, Goto(t, l),
           l \in SharedAt <=> pc[t] \in SharedAt,
           l \in ExclusiveAt <=> pc[t] \in ExclusiveAt
    PROVE  GateExclusion'
  <1>1. \A u \in Threads : /\ pc'[u] \in SharedAt <=> pc[u] \in SharedAt
                           /\ pc'[u] \in ExclusiveAt <=> pc[u] \in ExclusiveAt
    BY DEF TypeOK, Goto
  <1>2. Shared' = Shared /\ Owners' = Owners
    BY <1>1 DEF Shared, Owners
  <1> QED
    BY <1>2 DEF GateExclusion, Exclusive

\* Every step of a thread keeps the types.
LEMMA TypeStep ==
    ASSUME TypeOK, [Next]_vars
    PROVE  TypeOK'
  <1> USE GateAssumption DEF Exclusive
  <1>1. CASE UNCHANGED vars
    BY <1>1 DEF TypeOK, vars, marks, locals
  <1>2. CASE fail_stop_mutations
    BY <1>2 DEF TypeOK, fail_stop_mutations, locals
  <1>3. ASSUME NEW t \in Threads, Enter(t) \/ EnterShutdown(t) PROVE TypeOK'
    BY <1>3 DEF TypeOK, Enter, EnterShutdown, At, Goto, marks, locals, Acquiring
  <1>4. ASSUME NEW t \in Threads, try_direct(t) PROVE TypeOK'
    BY <1>4 DEF TypeOK, try_direct, Load, Refused, CasSucceeds, CasFails, Contends,
                Forget, At, Goto, marks, locals, Acquiring, SharedAt
  <1>5. ASSUME NEW t \in Threads, try_transactional(t) PROVE TypeOK'
    BY <1>5 DEF TypeOK, try_transactional, At, Goto, marks, locals, ExclusiveAt
  <1>6. ASSUME NEW t \in Threads, Guarded(t) PROVE TypeOK'
    BY <1>6 DEF TypeOK, Guarded, DirectTears, DirectPoisons, DirectLeaves, StartCheck, StartCas, Finish,
                CommitFails, release_writer, CallerPoisons, ShutdownCheck, MarkClean,
                At, Goto, marks, locals, SharedAt, ExclusiveAt
  <1>7. ASSUME NEW t \in Threads, prepare_buffered_write(t) \/ Leave(t) PROVE TypeOK'
    <2>1. gate' \in 0 .. (2 * Exclusive - 1)
      BY <1>7 DEF TypeOK, prepare_buffered_write, Leave, DropShared, DropExclusive, Decrement
    <2> QED
      BY <1>7, <2>1 DEF TypeOK, prepare_buffered_write, Leave, DropShared, DropExclusive,
                        At, Goto, marks, locals, Acquiring
  <1> QED
    BY <1>1, <1>2, <1>3, <1>4, <1>5, <1>6, <1>7 DEF Next, Step, Acquire

-----------------------------------------------------------------------------
\* A successful compare_exchange of try_direct.
LEMMA TakeShared ==
    ASSUME TypeOK, GateExclusion, NEW t \in Threads, CasSucceeds(t)
    PROVE  GateExclusion'
  <1> USE GateAssumption DEF Exclusive
  <1>1. gate < DirectMax /\ gate' = gate + 1
    BY DEF CasSucceeds, Contends, TypeOK
  <1>2. Owners = {} /\ gate = Cardinality(Shared)
    BY <1>1 DEF GateExclusion, TypeOK
  <1>3. \A u \in Threads : pc'[u] = IF u = t THEN "direct" ELSE pc[u]
    BY DEF CasSucceeds, Goto, TypeOK
  <1>4. t \notin Shared
    BY DEF CasSucceeds, Contends, At, Shared, SharedAt
  <1>5. Shared' = Shared \cup {t}
    BY <1>3 DEF Shared, SharedAt
  <1>6. Owners' = {}
    BY <1>2, <1>3 DEF Owners, ExclusiveAt
  <1>7. Cardinality(Shared') = gate + 1
    BY <1>2, <1>4, <1>5, SharedCounts
  <1> QED
    BY <1>1, <1>6, <1>7 DEF GateExclusion, TypeOK

\* A successful compare_exchange of try_transactional.
LEMMA TakeExclusive ==
    ASSUME TypeOK, GateExclusion, NEW t \in Threads, try_transactional(t), gate = 0
    PROVE  GateExclusion'
  <1> USE GateAssumption DEF Exclusive
  <1>1. gate' = Exclusive
    BY DEF try_transactional
  <1>2. Owners = {} /\ Shared = {}
    BY SharedCounts DEF GateExclusion, TypeOK
  <1>3. PICK l \in {"tx", "shut"} : \A u \in Threads : pc'[u] = IF u = t THEN l ELSE pc[u]
    BY DEF try_transactional, Goto, TypeOK, At
  <1>4. Shared' = {}
    BY <1>2, <1>3 DEF Shared, SharedAt
  <1>5. Owners' = {t}
    BY <1>2, <1>3 DEF Owners, ExclusiveAt
  <1> QED
    BY <1>1, <1>4, <1>5 DEF GateExclusion

\* Dropping a shared guard, to any place outside the guards.
LEMMA GiveShared ==
    ASSUME TypeOK, GateExclusion, NEW t \in Threads, NEW l, DropShared(t, l),
           l \notin SharedAt, l \notin ExclusiveAt
    PROVE  GateExclusion'
  <1> USE GateAssumption DEF Exclusive
  <1>1. t \in Shared
    BY DEF DropShared, At, Shared, SharedAt
  <1>2. Owners = {} /\ gate = Cardinality(Shared) /\ gate <= DirectMax
    BY <1>1 DEF GateExclusion
  <1>3. gate # 0
    BY <1>1, <1>2, SharedCounts
  <1>4. gate' = gate - 1
    BY <1>3 DEF DropShared, Decrement
  <1>5. \A u \in Threads : pc'[u] = IF u = t THEN l ELSE pc[u]
    BY DEF DropShared, Goto, TypeOK
  <1>6. Shared' = Shared \ {t}
    BY <1>5 DEF Shared
  <1>7. Owners' = {}
    BY <1>2, <1>5 DEF Owners
  <1>8. Cardinality(Shared') = gate - 1
    BY <1>1, <1>2, <1>6, SharedCounts
  <1> QED
    BY <1>2, <1>4, <1>7, <1>8 DEF GateExclusion, TypeOK

\* Dropping the exclusive guard.
LEMMA GiveExclusive ==
    ASSUME TypeOK, GateExclusion, NEW t \in Threads, NEW l, DropExclusive(t, l),
           l \notin SharedAt, l \notin ExclusiveAt
    PROVE  GateExclusion'
  <1> USE GateAssumption DEF Exclusive
  <1>1. t \in Owners
    BY DEF DropExclusive, Owners, ExclusiveAt
  <1>2. Shared = {} /\ Owners = {t}
    BY <1>1 DEF GateExclusion
  <1>3. \A u \in Threads : pc'[u] = IF u = t THEN l ELSE pc[u]
    BY DEF DropExclusive, Goto, TypeOK
  <1>4. Shared' = {} /\ Owners' = {}
    BY <1>2, <1>3 DEF Shared, Owners
  <1>5. gate' = 0
    BY DEF DropExclusive
  <1> QED
    BY <1>4, <1>5, FS_EmptySet DEF GateExclusion

-----------------------------------------------------------------------------
\* Every step keeps the exclusion.
LEMMA ExclusionStep ==
    ASSUME TypeOK, GateExclusion, [Next]_vars
    PROVE  GateExclusion'
  <1> USE DEF At, SharedAt, ExclusiveAt, Acquiring
  <1>1. CASE UNCHANGED vars
    BY <1>1 DEF vars, GateExclusion, Shared, Owners
  <1>2. CASE fail_stop_mutations
    BY <1>2 DEF fail_stop_mutations, GateExclusion, Shared, Owners
  <1>3. ASSUME NEW t \in Threads, Enter(t) \/ EnterShutdown(t) PROVE GateExclusion'
    BY <1>3, SameGuards DEF Enter, EnterShutdown
  <1>4. ASSUME NEW t \in Threads, Load(t) \/ Refused(t) PROVE GateExclusion'
    BY <1>4, SameGuards DEF Load, Refused
  <1>5. ASSUME NEW t \in Threads, CasFails(t) PROVE GateExclusion'
    BY <1>5 DEF CasFails, GateExclusion, Shared, Owners
  <1>6. ASSUME NEW t \in Threads, CasSucceeds(t) PROVE GateExclusion'
    BY <1>6, TakeShared
  <1>7. ASSUME NEW t \in Threads, try_transactional(t) PROVE GateExclusion'
    <2>1. CASE gate = 0
      BY <1>7, <2>1, TakeExclusive
    <2>2. CASE gate # 0
      BY <1>7, <2>2, SameGuards DEF try_transactional
    <2> QED
      BY <2>1, <2>2
  <1>8. ASSUME NEW t \in Threads, Guarded(t) PROVE GateExclusion'
    <2>1. CASE DirectTears(t) \/ DirectPoisons(t)
      BY <2>1, SameGuards DEF DirectTears, DirectPoisons
    <2>5. CASE DirectLeaves(t)
      BY <2>5 DEF DirectLeaves, GateExclusion, Shared, Owners
    <2>2. CASE StartCheck(t) \/ StartCas(t) \/ Finish(t)
      BY <2>2, SameGuards DEF StartCheck, StartCas, Finish
    <2>3. CASE CommitFails(t) \/ release_writer(t) \/ CallerPoisons(t)
      BY <2>3, SameGuards DEF CommitFails, release_writer, CallerPoisons
    <2>4. CASE ShutdownCheck(t) \/ MarkClean(t)
      BY <2>4, SameGuards DEF ShutdownCheck, MarkClean
    <2> QED
      BY <1>8, <2>1, <2>2, <2>3, <2>4, <2>5 DEF Guarded
  <1>9. ASSUME NEW t \in Threads, prepare_buffered_write(t) \/ Leave(t) PROVE GateExclusion'
    BY <1>9, GiveShared, GiveExclusive DEF prepare_buffered_write, Leave
  <1> QED
    BY <1>1, <1>2, <1>3, <1>4, <1>5, <1>6, <1>7, <1>8, <1>9
    DEF Next, Step, Acquire, try_direct

\* Two threads are never both at places that need the exclusive guard.
LEMMA OneOwner ==
    ASSUME GateExclusion, NEW t \in Threads, NEW u \in Threads,
           pc[t] \in ExclusiveAt, pc[u] \in ExclusiveAt
    PROVE  t = u
  BY DEF GateExclusion, Owners

\* Every step keeps what the owner's position says of the core: a step of the
\* owner by its effect, a step of anyone else because it is not the owner.
LEMMA OwnerStep ==
    ASSUME TypeOK, GateExclusion, OwnerOK, [Next]_vars
    PROVE  OwnerOK'
  <1> USE DEF At, Goto, TypeOK
  <1>1. CASE UNCHANGED vars
    BY <1>1 DEF vars, marks, OwnerOK
  <1>2. CASE fail_stop_mutations
    BY <1>2 DEF fail_stop_mutations, OwnerOK
  <1>3. ASSUME NEW t \in Threads, Enter(t) \/ EnterShutdown(t) PROVE OwnerOK'
    BY <1>3 DEF Enter, EnterShutdown, marks, OwnerOK
  <1>4. ASSUME NEW t \in Threads, try_direct(t) PROVE OwnerOK'
    BY <1>4 DEF try_direct, Load, Refused, CasSucceeds, CasFails, Contends, marks, OwnerOK
  <1>5. ASSUME NEW t \in Threads, try_transactional(t) PROVE OwnerOK'
    BY <1>5 DEF try_transactional, marks, OwnerOK
  <1>6. ASSUME NEW t \in Threads, Guarded(t) PROVE OwnerOK'
    <2>1. CASE DirectTears(t) \/ DirectPoisons(t) \/ DirectLeaves(t)
      BY <2>1 DEF DirectTears, DirectPoisons, DirectLeaves, OwnerOK
    <2>2. CASE StartCheck(t)
      BY <2>2 DEF StartCheck, marks, OwnerOK
    <2>3. CASE StartCas(t)
      <3>1. ~writer
        BY <2>3, OneOwner DEF StartCas, OwnerOK, ExclusiveAt
      <3> QED
        BY <2>3, <3>1 DEF StartCas, OwnerOK
    <2>4. CASE Finish(t)
      BY <2>4 DEF Finish, OwnerOK
    <2>5. CASE CommitFails(t)
      <3>1. \A u \in Threads : pc'[u] \in {"start", "open"} => FALSE
        BY <2>5, OneOwner DEF CommitFails, ExclusiveAt
      <3> QED
        BY <2>5, <3>1 DEF CommitFails, OwnerOK
    <2>6. CASE release_writer(t)
      BY <2>6 DEF release_writer, OwnerOK
    <2>7. CASE CallerPoisons(t)
      BY <2>7 DEF CallerPoisons, OwnerOK
    <2>8. CASE ShutdownCheck(t) \/ MarkClean(t)
      BY <2>8 DEF ShutdownCheck, MarkClean, marks, OwnerOK
    <2> QED
      BY <1>6, <2>1, <2>2, <2>3, <2>4, <2>5, <2>6, <2>7, <2>8 DEF Guarded
  <1>7. ASSUME NEW t \in Threads, prepare_buffered_write(t) \/ Leave(t) PROVE OwnerOK'
    BY <1>7 DEF prepare_buffered_write, Leave, DropShared, DropExclusive, marks, OwnerOK
  <1> QED
    BY <1>1, <1>2, <1>3, <1>4, <1>5, <1>6, <1>7 DEF Next, Step, Acquire

\* A thread under a shared guard and one under the exclusive guard never coexist.
LEMMA NoMixedGuards ==
    ASSUME GateExclusion, NEW t \in Threads, NEW u \in Threads,
           pc[t] \in SharedAt, pc[u] \in ExclusiveAt
    PROVE  FALSE
  BY DEF GateExclusion, Owners, Shared

\* Every step keeps torn metadata known.
LEMMA TornStep ==
    ASSUME TypeOK, GateExclusion, TornOK, [Next]_vars
    PROVE  TornOK'
  <1> USE DEF At, Goto, TypeOK
  <1>1. CASE UNCHANGED vars
    BY <1>1 DEF vars, marks, TornOK
  <1>2. CASE fail_stop_mutations
    BY <1>2 DEF fail_stop_mutations, TornOK
  <1>3. ASSUME NEW t \in Threads, Enter(t) \/ EnterShutdown(t) PROVE TornOK'
    BY <1>3 DEF Enter, EnterShutdown, marks, TornOK
  <1>4. ASSUME NEW t \in Threads, try_direct(t) PROVE TornOK'
    BY <1>4 DEF try_direct, Load, Refused, CasSucceeds, CasFails, Contends, marks, TornOK
  <1>5. ASSUME NEW t \in Threads, try_transactional(t) PROVE TornOK'
    BY <1>5 DEF try_transactional, marks, TornOK
  <1>6. ASSUME NEW t \in Threads, Guarded(t) PROVE TornOK'
    <2>1. CASE DirectTears(t)
      <3>1. \A u \in Threads : pc'[u] # "mark"
        BY <2>1, NoMixedGuards DEF DirectTears, SharedAt, ExclusiveAt
      <3> QED
        BY <2>1, <3>1 DEF DirectTears, TornOK
    <2>2. CASE DirectPoisons(t) \/ DirectLeaves(t) \/ CallerPoisons(t)
      BY <2>2 DEF DirectPoisons, DirectLeaves, CallerPoisons, TornOK
    <2>3. CASE StartCheck(t) \/ StartCas(t) \/ Finish(t)
      BY <2>3 DEF StartCheck, StartCas, Finish, marks, TornOK
    <2>4. CASE CommitFails(t)
      <3>1. \A u \in Threads : pc'[u] # "mark"
        BY <2>4, OneOwner DEF CommitFails, ExclusiveAt
      <3> QED
        BY <2>4, <3>1 DEF CommitFails, TornOK
    <2>5. CASE release_writer(t)
      BY <2>5 DEF release_writer, TornOK
    <2>6. CASE ShutdownCheck(t)
      <3>1. \A u \in Threads : pc[u] \notin {"broken", "release", "failed"}
        BY <2>6, OneOwner, NoMixedGuards DEF ShutdownCheck, SharedAt, ExclusiveAt
      <3>2. torn => poisoned
        BY <3>1 DEF TornOK
      <3>3. UNCHANGED <<torn, poisoned>>
        BY <2>6 DEF ShutdownCheck, marks
      <3>4. ~Journal => \A u \in Threads : pc'[u] = "mark" => ~torn
        BY <2>6, <3>2 DEF ShutdownCheck, can_shutdown, TornOK
      <3> QED
        BY <3>2, <3>3, <3>4 DEF TornOK
    <2>7. CASE MarkClean(t)
      BY <2>7 DEF MarkClean, TornOK
    <2> QED
      BY <1>6, <2>1, <2>2, <2>3, <2>4, <2>5, <2>6, <2>7 DEF Guarded
  <1>7. ASSUME NEW t \in Threads, prepare_buffered_write(t) \/ Leave(t) PROVE TornOK'
    BY <1>7 DEF prepare_buffered_write, Leave, DropShared, DropExclusive, marks, TornOK
  <1> QED
    BY <1>1, <1>2, <1>3, <1>4, <1>5, <1>6, <1>7 DEF Next, Step, Acquire

\* Only MarkClean changes the clean mark.
LEMMA OnlyShutdownMarks ==
    ASSUME [Next]_vars, clean' # clean
    PROVE  \E t \in Threads : MarkClean(t)
  BY DEF Next, Step, Acquire, try_direct, try_transactional, Guarded, vars, marks,
         fail_stop_mutations, Enter, EnterShutdown, Load, Refused, CasSucceeds, CasFails,
         DirectTears, DirectPoisons, DirectLeaves, StartCheck, StartCas, Finish, CommitFails,
         release_writer, CallerPoisons, ShutdownCheck, prepare_buffered_write, Leave,
         DropShared, DropExclusive

LEMMA InitIInv == Init => IInv
  <1> SUFFICES ASSUME Init PROVE IInv
    OBVIOUS
  <1> USE GateAssumption DEF Init
  <1>1. TypeOK
    <2>1. 0 \in 0 .. (2 * Exclusive - 1) /\ 0 \in 0 .. CasRetries
      BY DEF Exclusive
    <2> QED
      BY <2>1 DEF TypeOK
  <1>2. Shared = {} /\ Owners = {}
    BY DEF Shared, Owners, SharedAt, ExclusiveAt
  <1>3. GateExclusion
    BY <1>2, FS_EmptySet DEF GateExclusion
  <1> QED
    BY <1>1, <1>3 DEF IInv, OwnerOK, TornOK

LEMMA IInvInductive == Spec => []IInv
  <1>1. IInv /\ [Next]_vars => IInv'
    BY TypeStep, ExclusionStep, OwnerStep, TornStep DEF IInv
  <1> QED
    BY InitIInv, <1>1, PTL DEF Spec

-----------------------------------------------------------------------------
\* For any threads, limit and retries, the word counts exactly the guards that
\* exist and direct writers and transactions exclude each other
\* (MetadataMutationGate, mod.rs:268-353).
THEOREM GateExclusionHolds == Spec => []GateExclusion
  <1>1. IInv => GateExclusion
    BY DEF IInv
  <1> QED
    BY IInvInductive, <1>1, PTL

\* The check and the compare_exchange of start (journal_transaction.rs:218-257)
\* behave as one step under the exclusive guard.
THEOREM StartIsSafeHolds == Spec => []StartIsSafe
  <1>1. IInv => StartIsSafe
    <2> SUFFICES ASSUME IInv, NEW t \in Threads
                 PROVE  /\ pc[t] \in {"start", "open"} => ~corePoison
                        /\ pc[t] = "start" => ~writer
      BY DEF StartIsSafe
    <2>1. pc[t] \in {"start", "open"} => ~corePoison
      BY DEF IInv, OwnerOK
    <2>2. pc[t] = "start" => ~writer
      BY OneOwner DEF IInv, OwnerOK, ExclusiveAt
    <2> QED
      BY <2>1, <2>2
  <1> QED
    BY IInvInductive, <1>1, PTL

\* A failed commit is known to the whole filesystem before any other operation
\* can obtain a guard.
THEOREM FailureIsPublishedHolds == Spec => []FailureIsPublished
  <1>1. IInv => FailureIsPublished
    <2> SUFFICES ASSUME IInv, corePoison, ~poisoned PROVE gate = Exclusive
      BY DEF FailureIsPublished
    <2>1. PICK t \in Threads : pc[t] \in {"release", "failed"}
      BY DEF IInv, OwnerOK
    <2>2. Owners # {}
      BY <2>1 DEF Owners, ExclusiveAt
    <2> QED
      BY <2>2 DEF IInv, GateExclusion
  <1> QED
    BY IInvInductive, <1>1, PTL

\* On a Direct mount shutdown_writable restores VALID_FS (journal.rs:164-181) only
\* when nothing is in progress and no operation that poisons was left half done.
THEOREM CleanMarkEarnedHolds ==
    ASSUME ~Journal
    PROVE  Spec => CleanMarkEarned
  <1>1. IInv /\ [Next]_vars => [clean' # clean => ~torn /\ Shared = {}]_vars
    <2> SUFFICES ASSUME IInv, [Next]_vars, clean' # clean PROVE ~torn /\ Shared = {}
      OBVIOUS
    <2>1. PICK t \in Threads : MarkClean(t)
      BY OnlyShutdownMarks
    <2>2. ~torn
      BY <2>1 DEF MarkClean, At, IInv, TornOK
    <2>3. t \in Owners
      BY <2>1 DEF MarkClean, At, Owners, ExclusiveAt
    <2> QED
      BY <2>2, <2>3 DEF IInv, GateExclusion
  <1> QED
    BY IInvInductive, <1>1, PTL DEF Spec, CleanMarkEarned

\* In particular fetch_sub never wraps the gate word below zero (mod.rs:348).
THEOREM TypeCorrect == Spec => []TypeOK
  <1>1. IInv => TypeOK
    BY DEF IInv
  <1> QED
    BY IInvInductive, <1>1, PTL

=============================================================================
