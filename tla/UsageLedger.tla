----------------------------- MODULE UsageLedger -----------------------------
(***************************************************************************)
(* What the usage pipeline promises, without processes, files, locks or    *)
(* messages: a ledger of the usage each bucket has logged, and the copy of *)
(* it on the server, which lags behind.  The copy only ever catches up: it *)
(* never runs ahead of the log and never falls back, however often a value *)
(* is sent, and whoever sends it.                                          *)
(***************************************************************************)
EXTENDS Integers

CONSTANT Buckets

VARIABLES logged,       \* cumulative usage of each bucket
          stored        \* the value of it that the server holds

vars == <<logged, stored>>

Init == /\ logged = [b \in Buckets |-> 0]
        /\ stored = [b \in Buckets |-> 0]

(* A request is logged in one bucket. *)
Log == /\ \E b \in Buckets : logged' = [logged EXCEPT ![b] = @ + 1]
       /\ UNCHANGED stored

(* Some buckets of the copy move closer to the log. *)
CatchUp == /\ stored' \in [Buckets -> Nat]
           /\ \A b \in Buckets : /\ stored[b] =< stored'[b]
                                 /\ stored'[b] =< logged[b]
           /\ UNCHANGED logged

Next == Log \/ CatchUp

Spec == Init /\ [][Next]_vars
=============================================================================
