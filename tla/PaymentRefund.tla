---------------------------- MODULE PaymentRefund ----------------------------
(***************************************************************************)
(* Refunds of the sub2api backend (payment_refund.go): what happens to an  *)
(* order from COMPLETED on.  PaymentFulfillment describes the order until  *)
(* then and shows that none of its calls changes a COMPLETED order.        *)
(*                                                                         *)
(* Refunds of different orders share no state, so the module follows one   *)
(* order.  A worker executes one request of the user or of an              *)
(* administrator; each of its steps is one statement or provider call.     *)
(* Amounts are left out: the whole order is refunded, and taken counts how *)
(* often its amount (or its days, for a subscription) has been taken back  *)
(* from the user.                                                          *)
(***************************************************************************)
EXTENDS Integers, FiniteSets

CONSTANTS Workers,
          Async,            \* may the provider answer "pending"?
          Traced,           \* does the order carry the trade number?
          FaultKinds,       \* which kinds of faults may happen
          MaxFaults,        \* how many faults of each kind may happen
          MaxCrossed        \* how many calls may cross another one

AllFaults == {"error", "rollback", "audit", "reply", "abandon"}

ASSUME OrderAssumption == Async \subseteq BOOLEAN /\ Traced \subseteq BOOLEAN
ASSUME FaultsAssumption == FaultKinds \subseteq AllFaults /\ MaxFaults \in Nat
ASSUME CrossedAssumption == MaxCrossed \in Nat

VARIABLES async,      \* the provider is asked and may answer "pending"
          traced,     \* PaymentOrder.payment_trade_no is not empty
          status,     \* PaymentOrder.status
          taken,      \* what the user has given back, in order amounts
          revoked,    \* the subscription was revoked instead of shortened
          gateway,    \* the refund at the provider
          audit,      \* the audit log actions the code reads back
          note,       \* deductionRollbackOK of the latest REFUND_PENDING row
          job,        \* what each worker is doing
          crossed,    \* history: calls begun while another one was running,
                      \* on a refund that may be pending
          faults      \* faults of each kind so far

vars == <<async, traced, status, taken, revoked, gateway, audit, note, job,
          crossed, faults>>

Statuses == {"COMPLETED", "REFUND_REQUESTED", "REFUNDING", "REFUND_PENDING",
             "REFUND_FAILED", "REFUNDED"}

Refundable == {"COMPLETED", "REFUND_REQUESTED", "REFUND_PENDING",
               "REFUND_FAILED"}

(* Program points of ExecuteRefund after the update to REFUNDING. *)
Executing == {"deduct", "gateway", "rollback", "restore", "fail", "keep",
              "pending", "pendingLog", "ok", "okLog"}

(* Program points of QueryAndFinalizeRefund. *)
Finalizing == {"note", "query", "finalDeduct", "finalFail", "finalOk",
               "finalLog"}

Points == {"idle", "lock"} \cup Executing \cup Finalizing

(* was: the status the call has read; want: the plan deducts; take: what   *)
(* p.BalanceToDeduct or p.SubDaysToDeduct still says; answer: the          *)
(* provider's answer.                                                      *)
Jobs == [at : Points, was : Statuses, want : BOOLEAN, take : BOOLEAN,
         answer : {"none", "pending", "failed"}]

Idle == [at |-> "idle", was |-> "COMPLETED", want |-> FALSE, take |-> FALSE,
         answer |-> "none"]

Init ==
    /\ async \in Async
    /\ traced \in Traced
    /\ async => traced
    /\ status = "COMPLETED"
    /\ taken = 0
    /\ revoked = FALSE
    /\ gateway = "none"
    /\ audit = {}
    /\ note = TRUE
    /\ job = [w \in Workers |-> Idle]
    /\ crossed = 0
    /\ faults = [kind \in AllFaults |-> 0]

-----------------------------------------------------------------------------
At(w, point) == job[w].at = point

Goto(w, point) == job' = [job EXCEPT ![w].at = point]

Return(w) == job' = [job EXCEPT ![w] = Idle]

keepUser == UNCHANGED <<taken, revoked>>
keepBooks == UNCHANGED <<audit, note>>
keepOrder == UNCHANGED <<async, traced>>

Undisturbed == \A kind \in AllFaults : faults[kind] = 0

(* DeductBalance, or ExtendSubscription by a negative number of days,      *)
(* which turns into RevokeSubscription when no day would be left.          *)
Deduct == /\ taken' = taken + 1
          /\ revoked' \in {revoked, TRUE}

-----------------------------------------------------------------------------
(* RequestRefund: one conditional update, after checks that read only what *)
(* the update checks again.                                                *)
RequestRefund ==
    /\ status = "COMPLETED"
    /\ status' = "REFUND_REQUESTED"
    /\ UNCHANGED <<gateway, job>>
    /\ keepUser /\ keepBooks

(* PrepareRefund: the plan remembers the status it has read.  Whether it   *)
(* deducts depends on the administrator and on what the user has.          *)
PrepareRefund(w, want) ==
    /\ At(w, "idle")
    /\ status \in Refundable
    /\ want => ~ revoked
    /\ job' = [job EXCEPT ![w] = [at |-> "lock", was |-> status,
                                  want |-> want, take |-> want,
                                  answer |-> "none"]]
    /\ UNCHANGED <<status, gateway>>
    /\ keepUser /\ keepBooks

(* Mutant: the update to REFUNDING trusts the status that was read. *)
LockRefundUnguarded(w) ==
    /\ At(w, "lock")
    /\ status' = "REFUNDING"
    /\ Goto(w, IF job[w].take THEN "deduct" ELSE "gateway")
    /\ UNCHANGED gateway
    /\ keepUser /\ keepBooks

(* ExecuteRefund: the conditional update to REFUNDING. *)
LockRefund(w) ==
    /\ At(w, "lock")
    /\ IF status \in Refundable
       THEN /\ status' = "REFUNDING"
            /\ Goto(w, IF job[w].take THEN "deduct" ELSE "gateway")
       ELSE /\ UNCHANGED status
            /\ Return(w)
    /\ UNCHANGED gateway
    /\ keepUser /\ keepBooks

(* Mutant: an earlier rollback failure is not looked for. *)
DeductAlways(w) ==
    /\ At(w, "deduct")
    /\ Deduct
    /\ Goto(w, "gateway")
    /\ UNCHANGED <<status, gateway>>
    /\ keepBooks

(* ExecuteRefund: deduct, unless a failed rollback has left an earlier     *)
(* deduction in place.                                                     *)
DeductFirst(w) ==
    /\ At(w, "deduct")
    /\ IF "ROLLBACK_FAILED" \in audit
       THEN /\ job' = [job EXCEPT ![w].at = "gateway", ![w].take = FALSE]
            /\ keepUser
       ELSE /\ Deduct
            /\ Goto(w, "gateway")
    /\ UNCHANGED <<status, gateway>>
    /\ keepBooks

-----------------------------------------------------------------------------
(* gwRefund, for an order without a trade number: the provider is not      *)
(* asked, and the refund counts as successful.                             *)
GatewaySkipped(w) ==
    /\ ~ traced
    /\ At(w, "gateway")
    /\ Goto(w, "ok")
    /\ UNCHANGED <<status, gateway>>
    /\ keepUser /\ keepBooks

(* gwRefund.  The provider refunds an order once; it may take its time if  *)
(* async, and may always refuse.                                           *)
GatewayRefunds(w) ==
    /\ traced
    /\ At(w, "gateway")
    /\ gateway \in {"none", "refused"}
    /\ gateway' = "refunded"
    /\ Goto(w, "ok")
    /\ UNCHANGED status
    /\ keepUser /\ keepBooks

GatewayPending(w) ==
    /\ async /\ traced
    /\ At(w, "gateway")
    /\ gateway \in {"none", "refused", "pending"}
    /\ gateway' = "pending"
    /\ job' = [job EXCEPT ![w].at = "rollback", ![w].answer = "pending"]
    /\ UNCHANGED status
    /\ keepUser /\ keepBooks

(* Mutant: a refusal counts as an answer. *)
GatewayRefusesOk(w) ==
    /\ traced
    /\ At(w, "gateway")
    /\ Goto(w, "ok")
    /\ UNCHANGED <<status, gateway>>
    /\ keepUser /\ keepBooks

GatewayRefuses(w) ==
    /\ traced
    /\ At(w, "gateway")
    /\ job' = [job EXCEPT ![w].at = "rollback", ![w].answer = "failed"]
    /\ UNCHANGED <<status, gateway>>
    /\ keepUser /\ keepBooks

(* A pending refund comes to its end at the provider. *)
GatewaySettles ==
    /\ gateway = "pending"
    /\ gateway' \in {"refunded", "refused"}
    /\ UNCHANGED <<status, job>>
    /\ keepUser /\ keepBooks

-----------------------------------------------------------------------------
(* Where a call goes on after RollbackRefund.  "pending" and "keep" differ *)
(* in what the audit row will say.                                         *)
AfterRollback(w, ok) ==
    IF job[w].answer = "pending" THEN IF ok THEN "pending" ELSE "keep"
                                 ELSE IF ok THEN "restore" ELSE "fail"

(* RollbackRefund: gives back what this call has taken.  A subscription    *)
(* that was revoked cannot be extended again.                              *)
RollbackRefund(w) ==
    /\ At(w, "rollback")
    /\ job[w].take => ~ revoked
    /\ taken' = IF job[w].take THEN taken - 1 ELSE taken
    /\ Goto(w, AfterRollback(w, TRUE))
    /\ UNCHANGED <<status, gateway, revoked>>
    /\ keepBooks

(* RollbackRefund fails and says so in the audit log. *)
RollbackFailed(w) ==
    /\ At(w, "rollback")
    /\ job[w].take
    /\ audit' = audit \cup {"ROLLBACK_FAILED"}
    /\ Goto(w, AfterRollback(w, FALSE))
    /\ UNCHANGED <<status, gateway, note>>
    /\ keepUser

(* restoreStatus: back to the status the plan was made in, or COMPLETED.   *)
RestoreStatus(w) ==
    /\ At(w, "restore")
    /\ status' = IF job[w].was = "REFUND_REQUESTED" THEN "REFUND_REQUESTED"
                                                    ELSE "COMPLETED"
    /\ Return(w)
    /\ UNCHANGED gateway
    /\ keepUser /\ keepBooks

(* handleGwFail after a failed rollback, and finalizeRefundFailed. *)
MarkRefundFailed(w) ==
    /\ At(w, "fail") \/ At(w, "finalFail")
    /\ status' = "REFUND_FAILED"
    /\ Return(w)
    /\ UNCHANGED gateway
    /\ keepUser /\ keepBooks

(* Mutant: the pending refund is noted in the audit log only. *)
MarkRefundPendingLogOnly(w) ==
    /\ At(w, "pending") \/ At(w, "keep")
    /\ note' = At(w, "pending")
    /\ Return(w)
    /\ UNCHANGED <<status, gateway, audit>>
    /\ keepUser

(* markRefundPending: the order first, then the audit row that says        *)
(* whether the deduction was rolled back (take is what is left of it).     *)
MarkRefundPending(w) ==
    /\ At(w, "pending") \/ At(w, "keep")
    /\ status' = "REFUND_PENDING"
    /\ job' = [job EXCEPT ![w].at = "pendingLog", ![w].take = At(w, "keep")]
    /\ UNCHANGED gateway
    /\ keepUser /\ keepBooks

LogRefundPending(w) ==
    /\ At(w, "pendingLog")
    /\ note' = ~ job[w].take
    /\ Return(w)
    /\ UNCHANGED <<status, gateway, audit>>
    /\ keepUser

(* markRefundOk: the order, whatever its status is by now, then the audit  *)
(* row.                                                                    *)
MarkRefundOk(w) ==
    /\ At(w, "ok") \/ At(w, "finalOk")
    /\ status' = "REFUNDED"
    /\ Goto(w, IF At(w, "ok") THEN "okLog" ELSE "finalLog")
    /\ UNCHANGED gateway
    /\ keepUser /\ keepBooks

LogRefundOk(w) ==
    /\ At(w, "okLog") \/ At(w, "finalLog")
    /\ audit' = audit \cup {"SUCCESS"}
    /\ Return(w)
    /\ UNCHANGED <<status, gateway, note>>
    /\ keepUser

-----------------------------------------------------------------------------
(* QueryAndFinalizeRefund: the check on the order as it was read. *)
FinalizeRefund(w) ==
    /\ At(w, "idle")
    /\ status = "REFUND_PENDING"
    /\ job' = [job EXCEPT ![w] = [at |-> "note", was |-> status, want |-> TRUE,
                                  take |-> FALSE, answer |-> "none"]]
    /\ UNCHANGED <<status, gateway>>
    /\ keepUser /\ keepBooks

(* latestRefundPendingDetail: deduct later if the deduction of the attempt *)
(* was rolled back, or if there is no audit row.                           *)
ReadPendingNote(w) ==
    /\ At(w, "note")
    /\ job' = [job EXCEPT ![w].at = "query", ![w].take = note]
    /\ UNCHANGED <<status, gateway>>
    /\ keepUser /\ keepBooks

(* QueryRefund and the choice of what follows.  A subscription that is no  *)
(* longer active is not deducted.                                          *)
QueryRefund(w) ==
    /\ At(w, "query")
    /\ CASE gateway = "refunded" ->
              job' = [job EXCEPT ![w].at = "finalDeduct",
                                 ![w].take = @ /\ ~ revoked]
         [] gateway \in {"refused", "none"} -> Goto(w, "finalFail")
         [] gateway = "pending" -> Return(w)
    /\ UNCHANGED <<status, gateway>>
    /\ keepUser /\ keepBooks

(* applyRefundFinalDeduction. *)
FinalDeduction(w) ==
    /\ At(w, "finalDeduct")
    /\ IF job[w].take /\ "SUCCESS" \notin audit THEN Deduct ELSE keepUser
    /\ Goto(w, "finalOk")
    /\ UNCHANGED <<status, gateway>>
    /\ keepBooks

-----------------------------------------------------------------------------
(* Mutant: a refund that cannot be recorded is rolled back. *)
StatementFailsUndone(w) ==
    /\ \/ At(w, "ok") /\ Goto(w, "rollback")
       \/ At(w, "deduct") /\ Goto(w, "restore")
    /\ UNCHANGED <<status, gateway>>
    /\ keepUser /\ keepBooks

(* A statement fails and nothing is written.  Errors of the last updates   *)
(* of restoreStatus, handleGwFail and finalizeRefundFailed are ignored.    *)
StatementFails(w) ==
    /\ \/ /\ At(w, "deduct") /\ "ROLLBACK_FAILED" \notin audit
          /\ Goto(w, "restore")
       \/ At(w, "lock") /\ Return(w)
       \/ /\ job[w].at \in {"restore", "fail", "finalFail", "pending", "keep",
                            "ok", "finalOk", "finalDeduct", "query"}
          /\ Return(w)
    /\ UNCHANGED <<status, gateway>>
    /\ keepUser /\ keepBooks

(* The audit log cannot be written or read; the code goes on. *)
AuditFails(w) ==
    \/ /\ At(w, "pendingLog") \/ At(w, "okLog") \/ At(w, "finalLog")
       /\ Return(w)
       /\ UNCHANGED <<status, gateway>>
       /\ keepUser /\ keepBooks
    \/ /\ At(w, "deduct")
       /\ Deduct
       /\ Goto(w, "gateway")
       /\ UNCHANGED <<status, gateway>>
       /\ keepBooks
    \/ /\ At(w, "rollback") /\ job[w].take
       /\ Goto(w, AfterRollback(w, FALSE))
       /\ UNCHANGED <<status, gateway>>
       /\ keepUser /\ keepBooks

(* The provider has refunded but its answer does not arrive. *)
GatewayReplyLost(w) ==
    /\ traced
    /\ At(w, "gateway")
    /\ gateway \in {"none", "refused"}
    /\ gateway' \in IF async THEN {"refunded", "pending"} ELSE {"refunded"}
    /\ job' = [job EXCEPT ![w].at = "rollback", ![w].answer = "failed"]
    /\ UNCHANGED status
    /\ keepUser /\ keepBooks

(* The call ends here: the process dies. *)
Abandon(w) ==
    /\ ~ At(w, "idle")
    /\ Return(w)
    /\ UNCHANGED <<status, gateway>>
    /\ keepUser /\ keepBooks

Fault(kind) ==
    /\ kind \in FaultKinds
    /\ faults[kind] < MaxFaults
    /\ faults' = [faults EXCEPT ![kind] = @ + 1]
    /\ keepOrder
    /\ UNCHANGED crossed

-----------------------------------------------------------------------------
(* A call that has started goes on.  A rollback of a revoked subscription  *)
(* fails without any fault.                                                *)
Continue(w) ==
    \/ LockRefund(w) \/ DeductFirst(w)
    \/ GatewaySkipped(w)
    \/ GatewayRefunds(w) \/ GatewayPending(w) \/ GatewayRefuses(w)
    \/ RollbackRefund(w) \/ (revoked /\ RollbackFailed(w))
    \/ RestoreStatus(w) \/ MarkRefundFailed(w)
    \/ MarkRefundPending(w) \/ LogRefundPending(w)
    \/ MarkRefundOk(w) \/ LogRefundOk(w)
    \/ ReadPendingNote(w) \/ QueryRefund(w) \/ FinalDeduction(w)

Proceed(w) == Continue(w) /\ keepOrder /\ UNCHANGED <<crossed, faults>>

(* An administrator begins a call, whatever other calls are doing.  A call *)
(* that begins while another one works on a refund that may be pending     *)
(* crosses it.                                                             *)
Begin(w) ==
    /\ (\E want \in BOOLEAN : PrepareRefund(w, want)) \/ FinalizeRefund(w)
    /\ IF async /\ \E v \in Workers : ~ At(v, "idle")
       THEN crossed < MaxCrossed /\ crossed' = crossed + 1
       ELSE UNCHANGED crossed

Request ==
    /\ \/ RequestRefund /\ UNCHANGED crossed
       \/ \E w \in Workers : Begin(w)
    /\ keepOrder
    /\ UNCHANGED faults

Settle == GatewaySettles /\ keepOrder /\ UNCHANGED <<crossed, faults>>

Disturb(w) == \/ Fault("error")    /\ StatementFails(w)
              \/ Fault("rollback") /\ RollbackFailed(w)
              \/ Fault("audit")    /\ AuditFails(w)
              \/ Fault("reply")    /\ GatewayReplyLost(w)
              \/ Fault("abandon")  /\ Abandon(w)

Next == \/ \E w \in Workers : Proceed(w) \/ Disturb(w)
        \/ Request
        \/ Settle

Spec == Init /\ [][Next]_vars

(* A call that has started goes on. *)
FairSpec == Spec /\ \A w \in Workers : WF_vars(Proceed(w))

-----------------------------------------------------------------------------
(* Every variable has the type its declaration says. *)
TypeOK ==
    /\ async \in BOOLEAN
    /\ traced \in BOOLEAN
    /\ status \in Statuses
    /\ taken \in Int
    /\ revoked \in BOOLEAN
    /\ gateway \in {"none", "pending", "refunded", "refused"}
    /\ audit \subseteq {"ROLLBACK_FAILED", "SUCCESS"}
    /\ note \in BOOLEAN
    /\ job \in [Workers -> Jobs]
    /\ crossed \in Nat
    /\ faults \in [AllFaults -> Nat]

(* ExecuteRefund, the comment on REFUND_ROLLBACK_FAILED: whatever attempts *)
(* fail and are repeated, the user gives the amount back once, and never   *)
(* gets more back than was taken.  The audit log must be readable.  The    *)
(* code protects a refund that may be pending from neither a failure nor a *)
(* crash, nor from a call that crosses another one.                        *)
DeductedOnce ==
    (/\ faults["audit"] = 0
     /\ async => Undisturbed
     /\ crossed = 0) => taken \in {0, 1}

(* Money that the provider has returned at once and has said so is on      *)
(* record: the order is not offered for another refund as if nothing had   *)
(* happened.                                                               *)
RefundOnRecord ==
    (gateway = "refunded" /\ ~ async /\ faults["reply"] = 0) =>
        status \in {"REFUNDING", "REFUNDED"}

(* An order becomes REFUNDED only with the user's share taken back if the  *)
(* plan asked for it, and, if it has a trade number, only after the        *)
(* provider's refund: gwRefund asks no provider about an order without one *)
(* and calls it refunded.  Calls must not have crossed on a refund that    *)
(* may be pending.                                                         *)
RefundedIsDeducted ==
    [][crossed = 0 /\ status # "REFUNDED" /\ status' = "REFUNDED" =>
          /\ traced => gateway = "refunded"
          /\ \E w \in Workers : /\ job'[w] # job[w]
                                /\ job[w].want => taken > 0]_vars

(* REFUNDED is final: no late rollback, restore or failure overwrites it,  *)
(* however the calls on a refund overlap that the provider answers at      *)
(* once.  One that may be pending must not have been crossed:              *)
(* QueryAndFinalizeRefund writes REFUNDED without a look at the status,    *)
(* and the restoreStatus of an attempt begun meanwhile writes COMPLETED    *)
(* over it.                                                                *)
RefundedIsFinal ==
    [][crossed = 0 /\ status = "REFUNDED" => status' = "REFUNDED"]_vars

(* ExecuteRefund and QueryAndFinalizeRefund keep the account of            *)
(* RefundAccount: the user's share is deducted at most once and given back *)
(* only while the provider has not paid, the provider pays once, only then *)
(* the order is REFUNDED (unless it has no trade number and nothing is     *)
(* asked of the provider), and nothing moves after that.  It lasts until   *)
(* something takes away what the code relies on: an audit log that works,  *)
(* an answer that arrives, and, for a refund that may be pending, no fault *)
(* at all and one call at a time.                                          *)
Account == INSTANCE RefundAccount
           WITH paidBack <- gateway = "refunded",
                closed   <- status = "REFUNDED",
                owed     <- traced,
                later    <- async

Reliable == /\ faults["audit"] = 0 /\ faults["reply"] = 0
            /\ async => Undisturbed
            /\ crossed = 0

KeepsAccount ==
    Account!Init /\ [][Account!Next \/ ~ Reliable']_(Account!vars)

(* docs/PAYMENT.md: REFUNDING means that a refund is in progress, so it    *)
(* does not last, unless something fails.                                  *)
RefundingEnds == status = "REFUNDING" ~> status # "REFUNDING" \/ ~ Undisturbed
=============================================================================
