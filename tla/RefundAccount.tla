----------------------------- MODULE RefundAccount -----------------------------
(***************************************************************************)
(* What the refund of an order promises of the money, without calls,       *)
(* statuses, audit rows or answers of the provider.  The user gives back   *)
(* what the order was worth (the deduction), the provider pays back what   *)
(* the user has paid for it, and the order is closed.  As long as nothing  *)
(* is paid back, the deduction may be undone and taken again; afterwards   *)
(* only a provider that pays back later than it says leaves it open.       *)
(***************************************************************************)
EXTENDS Integers

VARIABLES taken,        \* how often the user's share is deducted
          paidBack,     \* the provider has returned the payment
          closed,       \* the order is refunded, for good
          owed,         \* the payment is to come back from the provider
          later         \* the provider may pay back after its answer

vars == <<taken, paidBack, closed, owed, later>>

Init == /\ taken = 0
        /\ paidBack = FALSE
        /\ closed = FALSE
        /\ owed \in BOOLEAN
        /\ later \in BOOLEAN

(* The deduction may still change. *)
Open == ~ closed /\ (~ paidBack \/ later)

Deduct == Open /\ taken = 0 /\ taken' = 1 /\ UNCHANGED <<paidBack, closed>>

Undo == Open /\ taken = 1 /\ taken' = 0 /\ UNCHANGED <<paidBack, closed>>

PayBack ==
    /\ owed /\ ~ closed
    /\ paidBack' = TRUE
    /\ UNCHANGED <<taken, closed>>

Close ==
    /\ owed => paidBack
    /\ closed' = TRUE
    /\ UNCHANGED <<taken, paidBack>>

Next == (Deduct \/ Undo \/ PayBack \/ Close) /\ UNCHANGED <<owed, later>>

Spec == Init /\ [][Next]_vars
================================================================================
