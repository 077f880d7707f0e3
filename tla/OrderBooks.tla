------------------------------ MODULE OrderBooks ------------------------------
(***************************************************************************)
(* What the payment service promises of the money of its orders, without   *)
(* workers, statuses, codes, audit rows or notifications.  An order is     *)
(* paid at the provider, the payment is recorded, the order is credited    *)
(* once, the inviter's rebate is settled once, and only then is the order  *)
(* completed, for good.                                                    *)
(***************************************************************************)
EXTENDS Integers

CONSTANT Orders

VARIABLES paid,         \* the provider has the money
          recorded,     \* the order says that it was paid
          credits,      \* how often the user was credited
          settled,      \* it was decided whether the inviter gets a rebate
          rebates,      \* how often the inviter was credited
          completed,
          exempt        \* orders that a credit is not promised once

books == <<paid, recorded, credits, settled, rebates, completed>>
vars == <<books, exempt>>

Init == /\ paid = [o \in Orders |-> FALSE]
        /\ recorded = [o \in Orders |-> FALSE]
        /\ credits = [o \in Orders |-> 0]
        /\ settled = [o \in Orders |-> FALSE]
        /\ rebates = [o \in Orders |-> 0]
        /\ completed = [o \in Orders |-> FALSE]
        /\ exempt = {}

Pay(o) ==
    /\ paid' = [paid EXCEPT ![o] = TRUE]
    /\ UNCHANGED <<recorded, credits, settled, rebates, completed>>

Record(o) ==
    /\ paid[o]
    /\ recorded' = [recorded EXCEPT ![o] = TRUE]
    /\ UNCHANGED <<paid, credits, settled, rebates, completed>>

Credit(o) ==
    /\ recorded[o] /\ ~ completed[o]
    /\ credits[o] = 0 \/ o \in exempt
    /\ credits' = [credits EXCEPT ![o] = @ + 1]
    /\ UNCHANGED <<paid, recorded, settled, rebates, completed>>

Settle(o) ==
    /\ credits[o] > 0 /\ ~ settled[o]
    /\ settled' = [settled EXCEPT ![o] = TRUE]
    /\ \E n \in {0, 1} : rebates' = [rebates EXCEPT ![o] = @ + n]
    /\ UNCHANGED <<paid, recorded, credits, completed>>

Complete(o) ==
    /\ credits[o] > 0 /\ settled[o]
    /\ completed' = [completed EXCEPT ![o] = TRUE]
    /\ UNCHANGED <<paid, recorded, credits, settled, rebates>>

Next == /\ \/ \E o \in Orders : \/ Pay(o) \/ Record(o) \/ Credit(o)
                                \/ Settle(o) \/ Complete(o)
           \/ UNCHANGED books
        /\ exempt \subseteq exempt'

Spec == Init /\ [][Next]_vars
===============================================================================
