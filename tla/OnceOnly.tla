------------------------------- MODULE OnceOnly -------------------------------
(***************************************************************************)
(* What an idempotency key promises, without rows, claims, cleanups or     *)
(* callers that compare times of long ago: one caller at a time runs the   *)
(* operation, and as long as an answered success is owed to those who      *)
(* repeat the request, it is on record and nobody runs it again.           *)
(***************************************************************************)
EXTENDS Integers

CONSTANTS Callers,
          TTL           \* ticks for which a success is owed at most

VARIABLES running,      \* the callers that run the operation
          kept,         \* is the success of the latest run on record?
          owed          \* ticks for which it is owed to the callers

vars == <<running, kept, owed>>

Init == running = {} /\ kept = FALSE /\ owed = 0

Run(c) ==
    /\ running = {} /\ owed = 0
    /\ running' = {c}
    /\ kept' = FALSE
    /\ UNCHANGED owed

(* The caller may die before it answers: then the success is on record and *)
(* not owed to anybody.                                                    *)
Succeed(c) ==
    /\ running = {c}
    /\ running' = {}
    /\ kept' = TRUE
    /\ owed' \in 0 .. TTL

(* It fails, or its result is lost. *)
Fail(c) ==
    /\ running = {c}
    /\ running' = {}
    /\ UNCHANGED <<kept, owed>>

Pass == owed > 0 /\ owed' = owed - 1 /\ UNCHANGED <<running, kept>>

Forget == owed = 0 /\ kept' = FALSE /\ UNCHANGED <<running, owed>>

Next == \/ \E c \in Callers : Run(c) \/ Succeed(c) \/ Fail(c)
        \/ Pass
        \/ Forget

Spec == Init /\ [][Next]_vars
===============================================================================
