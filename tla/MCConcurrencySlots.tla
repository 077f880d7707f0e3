-------------------------- MODULE MCConcurrencySlots --------------------------
(* Two slots for the user, one for each account. *)
EXTENDS ConcurrencySlots

MCLimit == [k \in Pools |-> IF k = User THEN 2 ELSE 1]
==============================================================================
