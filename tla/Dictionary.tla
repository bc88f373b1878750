----------------------------- MODULE Dictionary -----------------------------
(***************************************************************************)
(* What a block of names promises: it is a map.  A request that succeeds   *)
(* changes the value of the one key it names, and one that is refused      *)
(* changes nothing.                                                        *)
(***************************************************************************)
CONSTANTS Keys, Values, Absent

VARIABLES map, asked

Init == map = [k \in Keys |-> Absent]

Put(k, v) ==
    /\ asked' = [key |-> k, value |-> v, ok |-> TRUE]
    /\ map' = [map EXCEPT ![k] = v]

Delete(k) == map[k] # Absent /\ Put(k, Absent)

Refuse == ~asked'.ok /\ UNCHANGED map

Next == (\E k \in Keys : Delete(k) \/ \E v \in Values : Put(k, v)) \/ Refuse

Spec == Init /\ [][Next]_<<map, asked>>
=============================================================================
