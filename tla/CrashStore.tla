----------------------------- MODULE CrashStore -----------------------------
(***************************************************************************)
(* What a journaled mount promises about its metadata blocks: a store      *)
(* whose transactions are atomic and durable across power loss.            *)
(*                                                                         *)
(* possible is the set of stores the next successful mount may find.       *)
(* Outside a commit it is one store; while a commit is in flight it may    *)
(* also hold the store with exactly the requested blocks replaced; it      *)
(* never holds anything else.                                              *)
(***************************************************************************)
CONSTANTS Homes, Images

VARIABLES
    possible,   \* stores a crash now may lead to
    visible,    \* the store the mounted filesystem shows through its caches
    request,    \* the blocks the open transaction replaces
    up          \* a writable mount exists

vars == <<possible, visible, request, up>>

Store == [Homes -> Images]

NoRequest == [h \in {} |-> h]

\* A request naming a block that is not a home never takes effect.
Granted == [h \in Homes |-> IF h \in DOMAIN request THEN request[h] ELSE visible[h]]

Init ==
    /\ visible \in Store
    /\ possible = {visible}
    /\ request = NoRequest
    /\ up = FALSE

Replace ==
    /\ up
    /\ \E h \in DOMAIN request' \ DOMAIN request :
           DOMAIN request' = DOMAIN request \cup {h}
    /\ \A h \in DOMAIN request : request'[h] = request[h]
    /\ UNCHANGED <<possible, visible, up>>

\* The transaction is dropped, rejected or finished.  A transaction that failed
\* in flight may leave both outcomes possible, but nothing further is requested.
Forget == request' = NoRequest /\ UNCHANGED <<possible, visible, up>>

\* The commit may or may not survive.
Offer ==
    /\ up /\ possible = {visible}
    /\ DOMAIN request \subseteq Homes
    /\ possible' = {visible, Granted}
    /\ request' \in {request, NoRequest}
    /\ UNCHANGED <<visible, up>>

\* The commit has survived for good.
Settle ==
    /\ up /\ possible = {visible, Granted}
    /\ possible' = {Granted}
    /\ UNCHANGED <<visible, request, up>>

\* Only a store no crash can take back is shown.
Publish ==
    /\ up /\ possible = {Granted}
    /\ visible' = Granted
    /\ UNCHANGED <<possible, request, up>>

\* Power loss, or an orderly shutdown: the device decides.
Down ==
    /\ possible' # {} /\ possible' \subseteq possible
    /\ request' = NoRequest
    /\ up' = FALSE
    /\ UNCHANGED visible

Open ==
    /\ ~up /\ up'
    /\ visible' \in possible
    /\ possible' = {visible'}
    /\ UNCHANGED request

\* A failed mount attempt may already have fixed the outcome.
Decide ==
    /\ ~up
    /\ possible' # {} /\ possible' \subseteq possible
    /\ UNCHANGED <<visible, request, up>>

Next == Replace \/ Forget \/ Offer \/ Settle \/ Publish \/ Down \/ Open \/ Decide

Spec == Init /\ [][Next]_vars

=============================================================================
