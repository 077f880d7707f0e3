-------------------------- MODULE PaymentFulfillment --------------------------
(***************************************************************************)
(* Payment orders of the sub2api backend, from creation to the credit:     *)
(* payment_order.go, payment_order_lifecycle.go and                        *)
(* payment_fulfillment.go.  Refunds start from COMPLETED and are not part  *)
(* of this module.                                                         *)
(*                                                                         *)
(* A worker is a goroutine of some server instance that executes one call: *)
(* a webhook, a user's or an admin's request, or the expiry sweep.  Each   *)
(* of its steps is one database statement, transaction or provider call,   *)
(* so that everything the code does between two of them may interleave     *)
(* with other workers.  Amounts are left out: confirmPayment lets only the *)
(* amount of the order through, so an order is credited in full or not.    *)
(***************************************************************************)
EXTENDS Integers, FiniteSets

CONSTANTS Orders, Workers,
          NoOrder,
          FaultKinds,       \* which kinds of faults may happen
          MaxFaults,        \* how many faults of each kind may happen
          MaxRetries        \* how often an admin asks for a retry

Types == {"balance", "subscription"}
AllFaults == {"error", "reply", "audit", "abandon", "query", "lookup"}

ASSUME NoOrderAssumption == NoOrder \notin Orders
ASSUME FaultsAssumption == FaultKinds \subseteq AllFaults /\ MaxFaults \in Nat
ASSUME RetriesAssumption == MaxRetries \in Nat

VARIABLES status,     \* PaymentOrder.status; "NONE" before the row exists
          type,       \* PaymentOrder.order_type
          paidAt,     \* PaymentOrder.paid_at is set
          overdue,    \* PaymentOrder.expires_at has passed
          inGrace,    \* updated_at of an expired order is recent enough
          code,       \* the redeem code of the order
          audit,      \* the audit log actions the code reads back
          credits,    \* how often the user was credited for the order
          rebates,    \* how often the inviter was
          upstream,   \* the payment at the provider
          acked,      \* a notification was answered with success
          job,        \* what each worker is doing
          retries,    \* admin retries so far
          faults      \* faults of each kind so far

rowVars == <<status, type, paidAt, overdue, inGrace>>
vars == <<rowVars, code, audit, credits, rebates, upstream, acked, job,
          retries, faults>>

Statuses == {"NONE", "PENDING", "PAID", "RECHARGING", "COMPLETED",
             "EXPIRED", "CANCELLED", "FAILED"}

Actions == {"SUBSCRIPTION_ASSIGNED", "SUBSCRIPTION_SUCCESS",
            "AFFILIATE_REBATE_APPLIED", "AFFILIATE_REBATE_SKIPPED",
            "PAYMENT_AFTER_EXPIRY"}

(* Program points between lock and markCompleted or markFailed. *)
Fulfilling == {"lookup", "create", "redeem", "group", "assign", "log",
               "rebate", "complete", "fail"}

Points == {"idle", "invoke", "query", "close", "cancel", "toPaid", "already",
           "reset", "execute", "lock"} \cup Fulfilling

Calls == {"none", "create", "webhook", "cancel", "expire", "verify", "retry"}

Jobs == [at : Points, order : Orders \cup {NoOrder}, via : Calls]

Idle == [at |-> "idle", order |-> NoOrder, via |-> "none"]

Init ==
    /\ status = [o \in Orders |-> "NONE"]
    /\ type = [o \in Orders |-> "balance"]
    /\ paidAt = [o \in Orders |-> FALSE]
    /\ overdue = [o \in Orders |-> FALSE]
    /\ inGrace = [o \in Orders |-> FALSE]
    /\ code = [o \in Orders |-> "none"]
    /\ audit = [o \in Orders |-> {}]
    /\ credits = [o \in Orders |-> 0]
    /\ rebates = [o \in Orders |-> 0]
    /\ upstream = [o \in Orders |-> "none"]
    /\ acked = [o \in Orders |-> FALSE]
    /\ job = [w \in Workers |-> Idle]
    /\ retries = 0
    /\ faults = [kind \in AllFaults |-> 0]

-----------------------------------------------------------------------------
(* A worker starts a call, moves on, or returns.  A webhook that returns   *)
(* without an error is answered with success.                              *)
Start(w, o, point, call) ==
    /\ job[w].at = "idle"
    /\ job' = [job EXCEPT ![w] = [at |-> point, order |-> o, via |-> call]]

At(w, point) == job[w].at = point

Goto(w, point) ==
    /\ job' = [job EXCEPT ![w] = [at |-> point, order |-> @.order,
                                              via |-> @.via]]
    /\ UNCHANGED acked

Return(w, ok) ==
    /\ job' = [job EXCEPT ![w] = Idle]
    /\ acked' = IF ok /\ job[w].via = "webhook"
                THEN [acked EXCEPT ![job[w].order] = TRUE]
                ELSE acked

SetStatus(o, s) == status' = [status EXCEPT ![o] = s]

Log(o, action) == audit' = [audit EXCEPT ![o] = @ \cup {action}]

(* What no step of a worker touches besides job and acked. *)
keepRow == UNCHANGED rowVars
keepBooks == UNCHANGED <<code, audit, credits, rebates>>
keepWorld == UNCHANGED <<upstream, retries>>

-----------------------------------------------------------------------------
(* CreateOrder: createOrderInTx commits the row, then invokeProvider.      *)
CreateOrder(w, o, t) ==
    /\ status[o] = "NONE"
    /\ SetStatus(o, "PENDING")
    /\ type' = [type EXCEPT ![o] = t]
    /\ Start(w, o, "invoke", "create")
    /\ UNCHANGED <<paidAt, overdue, inGrace, acked>>
    /\ keepBooks /\ keepWorld

(* The provider has created the payment, its details are saved in the row  *)
(* (which renews updated_at) and the user gets the link.                   *)
InvokeProvider(w) ==
    LET o == job[w].order IN
    /\ At(w, "invoke")
    /\ upstream' = [upstream EXCEPT ![o] = "open"]
    /\ inGrace' = [inGrace EXCEPT ![o] = TRUE]
    /\ Return(w, TRUE)
    /\ UNCHANGED <<status, type, paidAt, overdue, retries>>
    /\ keepBooks

(* invokeProvider failed: the status becomes FAILED whatever it was, and   *)
(* the user never sees a link.                                             *)
InvokeFailed(w) ==
    /\ At(w, "invoke")
    /\ SetStatus(job[w].order, "FAILED")
    /\ Return(w, FALSE)
    /\ UNCHANGED <<type, paidAt, overdue, inGrace>>
    /\ keepBooks /\ keepWorld

-----------------------------------------------------------------------------
(* handleNotify: the provider reports the payment, possibly many times.    *)
(* The checks of confirmPayment have been passed.                          *)
Notify(w, o) ==
    /\ upstream[o] = "paid"
    /\ Start(w, o, "toPaid", "webhook")
    /\ UNCHANGED acked
    /\ keepRow /\ keepBooks /\ keepWorld

(* CancelOrder and AdminCancelOrder. *)
Cancel(w, o) ==
    /\ status[o] = "PENDING"
    /\ Start(w, o, "query", "cancel")
    /\ UNCHANGED acked
    /\ keepRow /\ keepBooks /\ keepWorld

(* ExpireTimedOutOrders, for one of the orders it has selected. *)
Expire(w, o) ==
    /\ status[o] = "PENDING"
    /\ overdue[o]
    /\ Start(w, o, "query", "expire")
    /\ UNCHANGED acked
    /\ keepRow /\ keepBooks /\ keepWorld

(* VerifyOrderByOutTradeNo and the lookup by resume token;                 *)
(* ReconcilePendingWxpayOrders does the same for pending orders only.      *)
Verify(w, o) ==
    /\ status[o] \in {"PENDING", "EXPIRED"}
    /\ Start(w, o, "query", "verify")
    /\ UNCHANGED acked
    /\ keepRow /\ keepBooks /\ keepWorld

(* Mutant: paid_at is not checked. *)
RetryUnpaid(w, o) ==
    /\ retries < MaxRetries
    /\ status[o] \in {"PAID", "FAILED"}
    /\ Start(w, o, "reset", "retry")
    /\ retries' = retries + 1
    /\ UNCHANGED <<acked, upstream>>
    /\ keepRow /\ keepBooks

(* RetryFulfillment: the checks on the order as it was read. *)
RetryFulfillment(w, o) ==
    /\ retries < MaxRetries
    /\ paidAt[o]
    /\ status[o] \in {"PAID", "FAILED"}
    /\ Start(w, o, "reset", "retry")
    /\ retries' = retries + 1
    /\ UNCHANGED <<acked, upstream>>
    /\ keepRow /\ keepBooks

-----------------------------------------------------------------------------
(* checkPaidWithOptions, when the provider says the order is paid.  Saving *)
(* the provider's trade number renews updated_at.                          *)
QueryPaid(w) ==
    LET o == job[w].order IN
    /\ At(w, "query")
    /\ upstream[o] = "paid"
    /\ \E saved \in BOOLEAN : inGrace' = [inGrace EXCEPT ![o] = @ \/ saved]
    /\ Goto(w, "toPaid")
    /\ UNCHANGED <<status, type, paidAt, overdue>>
    /\ keepBooks /\ keepWorld

(* Not paid: a cancellation goes on, a verification ends. *)
QueryUnpaid(w) ==
    /\ At(w, "query")
    /\ upstream[job[w].order] # "paid"
    /\ IF job[w].via = "verify" THEN Return(w, TRUE) ELSE Goto(w, "close")
    /\ keepRow /\ keepBooks /\ keepWorld

(* CancelPayment: its error is ignored, and not every provider has it. *)
CancelPayment(w) ==
    LET o == job[w].order IN
    /\ At(w, "close")
    /\ \/ upstream[o] = "open" /\ upstream' = [upstream EXCEPT ![o] = "closed"]
       \/ UNCHANGED upstream
    /\ Goto(w, "cancel")
    /\ UNCHANGED retries
    /\ keepRow /\ keepBooks

(* The conditional update at the end of cancelCore. *)
CancelCore(w) ==
    LET o == job[w].order IN
    /\ At(w, "cancel")
    /\ IF status[o] = "PENDING"
       THEN /\ SetStatus(o, IF job[w].via = "expire" THEN "EXPIRED"
                                                     ELSE "CANCELLED")
            /\ inGrace' = [inGrace EXCEPT ![o] = TRUE]
       ELSE UNCHANGED <<status, inGrace>>
    /\ Return(w, TRUE)
    /\ UNCHANGED <<type, paidAt, overdue>>
    /\ keepBooks /\ keepWorld

-----------------------------------------------------------------------------
(* Mutant: a cancelled order cannot be paid any more. *)
PayableNotCancelled(o) ==
    status[o] = "PENDING" \/ (status[o] = "EXPIRED" /\ inGrace[o])

(* The condition of toPaid's update. *)
Payable(o) == \/ status[o] \in {"PENDING", "CANCELLED"}
              \/ status[o] = "EXPIRED" /\ inGrace[o]

(* toPaid: the conditional update. *)
ToPaid(w) ==
    LET o == job[w].order IN
    /\ At(w, "toPaid")
    /\ IF Payable(o)
       THEN /\ SetStatus(o, "PAID")
            /\ paidAt' = [paidAt EXCEPT ![o] = TRUE]
            /\ Goto(w, "execute")
       ELSE /\ UNCHANGED <<status, paidAt>>
            /\ Goto(w, "already")
    /\ UNCHANGED <<type, overdue, inGrace>>
    /\ keepBooks /\ keepWorld

(* Mutant: a FAILED order is not fulfilled again. *)
AlreadyProcessedNoRetry(w) ==
    LET o == job[w].order IN
    /\ At(w, "already")
    /\ Return(w, status[o] \notin {"PAID", "RECHARGING"})
    /\ IF status[o] = "EXPIRED" THEN Log(o, "PAYMENT_AFTER_EXPIRY")
                                ELSE UNCHANGED audit
    /\ UNCHANGED <<code, credits, rebates>>
    /\ keepRow /\ keepWorld

(* alreadyProcessed: decides on the status as it is now. *)
AlreadyProcessed(w) ==
    LET o == job[w].order IN
    /\ At(w, "already")
    /\ CASE status[o] = "FAILED"                -> Goto(w, "execute")
         [] status[o] \in {"PAID", "RECHARGING"} -> Return(w, FALSE)
         [] OTHER                               -> Return(w, TRUE)
    /\ IF status[o] = "EXPIRED" THEN Log(o, "PAYMENT_AFTER_EXPIRY")
                                ELSE UNCHANGED audit
    /\ UNCHANGED <<code, credits, rebates>>
    /\ keepRow /\ keepWorld

(* RetryFulfillment: the reset; it goes on even if no row was changed. *)
ResetForRetry(w) ==
    LET o == job[w].order IN
    /\ At(w, "reset")
    /\ IF status[o] \in {"PAID", "FAILED"} THEN SetStatus(o, "PAID")
                                           ELSE UNCHANGED status
    /\ Goto(w, "execute")
    /\ UNCHANGED <<type, paidAt, overdue, inGrace>>
    /\ keepBooks /\ keepWorld

(* Execute...Fulfillment: the check on the status that was read. *)
ExecuteFulfillment(w) ==
    LET o == job[w].order IN
    /\ At(w, "execute")
    /\ IF status[o] \in {"PAID", "FAILED"}
       THEN Goto(w, "lock")
       ELSE Return(w, status[o] = "COMPLETED")
    /\ keepRow /\ keepBooks /\ keepWorld

(* Execute...Fulfillment: only one worker changes the row to RECHARGING. *)
LockOrder(w) ==
    LET o == job[w].order IN
    /\ At(w, "lock")
    /\ IF status[o] \in {"PAID", "FAILED"}
       THEN /\ SetStatus(o, "RECHARGING")
            /\ Goto(w, IF type[o] = "balance" THEN "lookup" ELSE "group")
       ELSE /\ UNCHANGED status
            /\ Return(w, TRUE)
    /\ UNCHANGED <<type, paidAt, overdue, inGrace>>
    /\ keepBooks /\ keepWorld

-----------------------------------------------------------------------------
(* Mutant: a code that exists counts as redeemed. *)
ResolveExistsIsDone(w) ==
    /\ At(w, "lookup")
    /\ Goto(w, IF code[job[w].order] = "none" THEN "create" ELSE "rebate")
    /\ keepRow /\ keepBooks /\ keepWorld

(* doBalance: look the redeem code up and choose the redeem action. *)
ResolveRedeemAction(w) ==
    /\ At(w, "lookup")
    /\ Goto(w, CASE code[job[w].order] = "none"   -> "create"
                 [] code[job[w].order] = "unused" -> "redeem"
                 [] code[job[w].order] = "used"   -> "rebate")
    /\ keepRow /\ keepBooks /\ keepWorld

(* doBalance: create the code, which the unique index allows only once. *)
CreateCode(w, next) ==
    LET o == job[w].order IN
    /\ At(w, "create")
    /\ IF code[o] = "none"
       THEN code' = [code EXCEPT ![o] = "unused"] /\ Goto(w, next)
       ELSE UNCHANGED code /\ Goto(w, "fail")
    /\ UNCHANGED <<audit, credits, rebates>>
    /\ keepRow /\ keepWorld

(* RedeemService.Redeem: one transaction marks the code used and credits   *)
(* the balance.                                                            *)
Redeem(w, next) ==
    LET o == job[w].order IN
    /\ At(w, "redeem")
    /\ IF code[o] = "unused"
       THEN /\ code' = [code EXCEPT ![o] = "used"]
            /\ credits' = [credits EXCEPT ![o] = @ + 1]
            /\ Goto(w, next)
       ELSE /\ UNCHANGED <<code, credits>>
            /\ Goto(w, "fail")
    /\ UNCHANGED <<audit, rebates>>
    /\ keepRow /\ keepWorld

(* Mutant: only a completed attempt counts as an assignment. *)
AssignedIfSuccess(o) == "SUBSCRIPTION_SUCCESS" \in audit[o]

(* The audit rows that say an earlier attempt assigned the subscription. *)
Assigned(o) ==
    audit[o] \cap {"SUBSCRIPTION_ASSIGNED", "SUBSCRIPTION_SUCCESS"} # {}

(* doSub: was the subscription assigned by an earlier attempt? *)
CheckAssigned(w) ==
    /\ At(w, "group")
    /\ Goto(w, IF Assigned(job[w].order) THEN "rebate" ELSE "assign")
    /\ keepRow /\ keepBooks /\ keepWorld

(* doSub: AssignOrExtendSubscription. *)
AssignOrExtend(w, next) ==
    LET o == job[w].order IN
    /\ At(w, "assign")
    /\ credits' = [credits EXCEPT ![o] = @ + 1]
    /\ Goto(w, next)
    /\ UNCHANGED <<code, audit, rebates>>
    /\ keepRow /\ keepWorld

(* doSub: the audit row that later attempts look for. *)
LogAssigned(w) ==
    /\ At(w, "log")
    /\ Log(job[w].order, "SUBSCRIPTION_ASSIGNED")
    /\ Goto(w, "rebate")
    /\ UNCHANGED <<code, credits, rebates>>
    /\ keepRow /\ keepWorld

RebateActions == {"AFFILIATE_REBATE_APPLIED", "AFFILIATE_REBATE_SKIPPED"}

(* applyAffiliateRebateForOrder: the transaction claims the audit row and  *)
(* accrues the rebate, or records that there is none.  The model's server  *)
(* has the affiliate service; one without it skips this step.              *)
ApplyAffiliateRebate(w, next) ==
    LET o == job[w].order IN
    /\ At(w, "rebate")
    /\ IF audit[o] \cap RebateActions = {}
       THEN \/ /\ rebates' = [rebates EXCEPT ![o] = @ + 1]
               /\ Log(o, "AFFILIATE_REBATE_APPLIED")
            \/ /\ UNCHANGED rebates
               /\ Log(o, "AFFILIATE_REBATE_SKIPPED")
       ELSE UNCHANGED <<rebates, audit>>
    /\ Goto(w, next)
    /\ UNCHANGED <<code, credits>>
    /\ keepRow /\ keepWorld

(* markCompleted.  The audit row is written whatever the update changed. *)
MarkCompleted(w, logged) ==
    LET o == job[w].order IN
    /\ At(w, "complete")
    /\ IF status[o] = "RECHARGING" THEN SetStatus(o, "COMPLETED")
                                   ELSE UNCHANGED status
    /\ IF logged /\ type[o] = "subscription"
       THEN Log(o, "SUBSCRIPTION_SUCCESS")
       ELSE UNCHANGED audit
    /\ Return(w, TRUE)
    /\ UNCHANGED <<type, paidAt, overdue, inGrace, code, credits, rebates>>
    /\ keepWorld

(* Mutant: the failure is only reported. *)
MarkFailedNot(w) ==
    /\ At(w, "fail")
    /\ Return(w, FALSE)
    /\ keepRow /\ keepBooks /\ keepWorld

(* Mutant: the update has no condition on the status. *)
MarkFailedAlways(w) ==
    /\ At(w, "fail")
    /\ SetStatus(job[w].order, "FAILED")
    /\ Return(w, FALSE)
    /\ UNCHANGED <<type, paidAt, overdue, inGrace>>
    /\ keepBooks /\ keepWorld

(* markFailed. *)
MarkFailed(w) ==
    LET o == job[w].order IN
    /\ At(w, "fail")
    /\ IF status[o] = "RECHARGING" THEN SetStatus(o, "FAILED")
                                   ELSE UNCHANGED status
    /\ Return(w, FALSE)
    /\ UNCHANGED <<type, paidAt, overdue, inGrace>>
    /\ keepBooks /\ keepWorld

-----------------------------------------------------------------------------
(* The provider does not answer the query, or not with a valid amount: a   *)
(* cancellation goes on as if the order were unpaid.                       *)
QueryFails(w) ==
    /\ At(w, "query")
    /\ IF job[w].via = "verify" THEN Return(w, TRUE) ELSE Goto(w, "cancel")
    /\ keepRow /\ keepBooks /\ keepWorld

(* handleNotify cannot resolve the provider of a notification, for example *)
(* because the database does not answer: the notification is dropped and   *)
(* answered with success.                                                  *)
NotifyUnresolved(o) ==
    /\ upstream[o] = "paid"
    /\ acked' = [acked EXCEPT ![o] = TRUE]
    /\ UNCHANGED job
    /\ keepRow /\ keepBooks /\ keepWorld

(* alreadyProcessed cannot read the order and returns no error. *)
AlreadyUnread(w) ==
    /\ At(w, "already")
    /\ Return(w, TRUE)
    /\ keepRow /\ keepBooks /\ keepWorld

(* A statement fails and nothing is written.  A failed code lookup counts  *)
(* as "no such code", and any other failure of the fulfilment leads to     *)
(* markFailed.  An update of the status, markFailed's included, and the    *)
(* reads before the change to RECHARGING end the call when they fail.      *)
StatementFails(w) ==
    /\ \/ At(w, "lookup") /\ Goto(w, "create")
       \/ /\ job[w].at \in Fulfilling \ {"lookup", "log", "fail"}
          /\ Goto(w, "fail")
       \/ /\ job[w].at \in {"cancel", "toPaid", "reset", "execute", "lock",
                            "fail"}
          /\ Return(w, FALSE)
    /\ keepRow /\ keepBooks /\ keepWorld

(* markCompleted has changed the row but returns an error. *)
CompletedUnknown(w) ==
    LET o == job[w].order IN
    /\ At(w, "complete")
    /\ status[o] = "RECHARGING"
    /\ SetStatus(o, "COMPLETED")
    /\ Goto(w, "fail")
    /\ UNCHANGED <<type, paidAt, overdue, inGrace>>
    /\ keepBooks /\ keepWorld

(* The statement was executed but its caller sees an error. *)
ReplyLost(w) ==
    \/ CreateCode(w, "fail")
    \/ Redeem(w, "fail")
    \/ AssignOrExtend(w, "fail")
    \/ ApplyAffiliateRebate(w, "fail")
    \/ CompletedUnknown(w)

(* The audit log cannot be written (the error is only logged) or read      *)
(* (hasAuditLog ignores the error and says no).                            *)
AuditFails(w) ==
    \/ /\ \/ At(w, "log") /\ Goto(w, "rebate")
          \/ At(w, "group") /\ Goto(w, "assign")
          \/ /\ At(w, "already") /\ status[job[w].order] = "EXPIRED"
             /\ Return(w, TRUE)
       /\ keepRow /\ keepBooks /\ keepWorld
    \/ MarkCompleted(w, FALSE)

(* The call ends here: the process dies, the request's context is          *)
(* cancelled (the provider hangs up), or a check of confirmPayment fails.  *)
Abandon(w) ==
    /\ ~ At(w, "idle")
    /\ Return(w, FALSE)
    /\ keepRow /\ keepBooks /\ keepWorld

(* Faults of these kinds have not happened. *)
Spared(kinds) == \A kind \in kinds : faults[kind] = 0

Fault(kind) ==
    /\ kind \in FaultKinds
    /\ faults[kind] < MaxFaults
    /\ faults' = [faults EXCEPT ![kind] = @ + 1]

-----------------------------------------------------------------------------
(* The user pays, expires_at passes, the grace period passes. *)
Pay(o) ==
    /\ upstream[o] = "open"
    /\ upstream' = [upstream EXCEPT ![o] = "paid"]
    /\ UNCHANGED <<job, acked, retries>>
    /\ keepRow /\ keepBooks

Timeout(o) ==
    /\ status[o] = "PENDING" /\ ~ overdue[o]
    /\ overdue' = [overdue EXCEPT ![o] = TRUE]
    /\ UNCHANGED <<status, type, paidAt, inGrace, job, acked>>
    /\ keepBooks /\ keepWorld

GraceOver(o) ==
    /\ status[o] = "EXPIRED" /\ inGrace[o]
    /\ inGrace' = [inGrace EXCEPT ![o] = FALSE]
    /\ UNCHANGED <<status, type, paidAt, overdue, job, acked>>
    /\ keepBooks /\ keepWorld

-----------------------------------------------------------------------------
(* A worker goes on with the call it has started. *)
Continue(w) ==
    \/ InvokeProvider(w) \/ InvokeFailed(w)
    \/ QueryPaid(w) \/ QueryUnpaid(w) \/ CancelPayment(w) \/ CancelCore(w)
    \/ ToPaid(w) \/ AlreadyProcessed(w)
    \/ ResetForRetry(w) \/ ExecuteFulfillment(w) \/ LockOrder(w)
    \/ ResolveRedeemAction(w) \/ CreateCode(w, "redeem") \/ Redeem(w, "rebate")
    \/ CheckAssigned(w) \/ AssignOrExtend(w, "log") \/ LogAssigned(w)
    \/ ApplyAffiliateRebate(w, "complete")
    \/ MarkCompleted(w, TRUE) \/ MarkFailed(w)

Request(w, o) ==
    \/ \E t \in Types : CreateOrder(w, o, t)
    \/ Cancel(w, o) \/ Expire(w, o) \/ Verify(w, o) \/ RetryFulfillment(w, o)

Environment(o) == Pay(o) \/ Timeout(o) \/ GraceOver(o)

Disturb(w) == \/ Fault("error")   /\ StatementFails(w)
              \/ Fault("reply")   /\ ReplyLost(w)
              \/ Fault("audit")   /\ AuditFails(w)
              \/ Fault("abandon") /\ Abandon(w)
              \/ Fault("query")   /\ QueryFails(w)
              \/ Fault("lookup")  /\ AlreadyUnread(w)

Proceed(w) == Continue(w) /\ UNCHANGED faults

Deliver(w, o) == Notify(w, o) /\ UNCHANGED faults

Sweep(w, o) == Expire(w, o) /\ UNCHANGED faults

Late(o) == Timeout(o) /\ UNCHANGED faults

Next ==
    \/ \E w \in Workers : Proceed(w) \/ Disturb(w)
    \/ \E w \in Workers, o \in Orders :
          Deliver(w, o) \/ (Request(w, o) /\ UNCHANGED faults)
    \/ \E o \in Orders : Environment(o) /\ UNCHANGED faults
    \/ \E o \in Orders : Fault("lookup") /\ NotifyUnresolved(o)

Spec == Init /\ [][Next]_vars

(* A call that has started goes on, the provider repeats a notification    *)
(* until it is answered with success, time passes, and                     *)
(* PaymentOrderExpiryService sweeps every minute.  Fairness is strong      *)
(* where a step needs a free worker: the pool of workers is a bound of the *)
(* model, the server starts a goroutine for every call.                    *)
Fairness ==
    /\ \A w \in Workers : WF_vars(Proceed(w))
    /\ \A o \in Orders :
          /\ SF_vars(~ acked[o] /\ \E w \in Workers : Deliver(w, o))
          /\ SF_vars(\E w \in Workers : Sweep(w, o))
          /\ WF_vars(Late(o))

FairSpec == Spec /\ Fairness

-----------------------------------------------------------------------------
(* Every variable has the type its declaration says, and a worker has an   *)
(* order exactly when it is not idle.                                      *)
TypeOK ==
    /\ status \in [Orders -> Statuses]
    /\ type \in [Orders -> Types]
    /\ paidAt \in [Orders -> BOOLEAN]
    /\ overdue \in [Orders -> BOOLEAN]
    /\ inGrace \in [Orders -> BOOLEAN]
    /\ code \in [Orders -> {"none", "unused", "used"}]
    /\ audit \in [Orders -> SUBSET Actions]
    /\ credits \in [Orders -> Nat]
    /\ rebates \in [Orders -> Nat]
    /\ upstream \in [Orders -> {"none", "open", "paid", "closed"}]
    /\ acked \in [Orders -> BOOLEAN]
    /\ job \in [Workers -> Jobs]
    /\ \A w \in Workers : job[w].at # "idle" => job[w].order \in Orders
    /\ retries \in Nat
    /\ faults \in [AllFaults -> Nat]

(* payment_fulfillment.go, doBalance: whatever is repeated, interrupted or *)
(* executed twice at the same time, the balance is credited once.          *)
BalanceCreditedOnce ==
    \A o \in Orders : type[o] = "balance" => credits[o] =< 1

(* The same for subscriptions, as long as the audit log can be written and *)
(* read and no statement succeeds that its caller sees fail.               *)
CreditedOnce ==
    Spared({"reply", "audit"}) => \A o \in Orders : credits[o] =< 1

(* No credit without the money: toPaid and the paid_at check of            *)
(* RetryFulfillment keep orders that failed or were cancelled before any   *)
(* payment away from the fulfilment.                                       *)
CreditNeedsPayment ==
    \A o \in Orders : credits[o] > 0 => upstream[o] = "paid" /\ paidAt[o]

(* An order is COMPLETED only after its credit, and the inviter's rebate   *)
(* is given at most once and only for a credited order.                    *)
CompletedIsCredited ==
    \A o \in Orders : /\ status[o] = "COMPLETED" => credits[o] > 0
                      /\ rebates[o] =< 1
                      /\ rebates[o] = 1 => credits[o] > 0

(* The service keeps the books of OrderBooks: whatever webhooks, retries,  *)
(* sweeps, cancellations and faults come together, money moves one entry   *)
(* at a time and in that order only.  A second credit is possible for a    *)
(* subscription whose audit row was lost, and for nothing else.            *)
Books == INSTANCE OrderBooks
         WITH paid      <- [o \in Orders |-> upstream[o] = "paid"],
              recorded  <- paidAt,
              settled   <- [o \in Orders |-> audit[o] \cap RebateActions # {}],
              completed <- [o \in Orders |-> status[o] = "COMPLETED"],
              exempt    <- {o \in Orders : /\ status[o] # "NONE"
                                           /\ type[o] = "subscription"
                                           /\ ~ Spared({"reply", "audit"})}

KeepsBooks == Books!Spec

(* The change to RECHARGING is a lock: two webhooks, a retry and the sweep *)
(* never fulfil one order at the same time.                                *)
OneFulfiller ==
    \A v, w \in Workers :
        (/\ job[v].at \in Fulfilling
         /\ job[w].at \in Fulfilling
         /\ job[v].order = job[w].order) => v = w

(* The provider stops repeating a notification only when the payment is    *)
(* recorded in the order, or in the audit log as too late.                 *)
AckedIsRecorded ==
    Spared({"lookup", "audit"}) =>
        \A o \in Orders :
            acked[o] => paidAt[o] \/ "PAYMENT_AFTER_EXPIRY" \in audit[o]

(* markFailed and CreateOrder never overwrite COMPLETED (the comment in    *)
(* markFailed).                                                            *)
CompletedIsFinal ==
    [][\A o \in Orders :
          status[o] = "COMPLETED" => status'[o] = "COMPLETED"]_vars

(* Nothing but an administrator moves the order any more: nobody has it in *)
(* hand, webhooks are answered "being processed", and the sweep reads      *)
(* pending orders only.  A failure between PAID and the change to          *)
(* RECHARGING leaves an order so, or one of markFailed after another, or   *)
(* the end of the process.                                                 *)
Stranded(o) ==
    /\ \A w \in Workers :
          job[w].order = o =>
              job[w].at \notin Fulfilling \cup {"reset", "execute", "lock"}
    /\ \/ status[o] = "PAID" /\ ~ Spared({"error", "abandon"})
       \/ /\ status[o] = "RECHARGING"
          /\ faults["error"] > 1 \/ ~ Spared({"abandon"})

(* docs/PAYMENT.md: a paid order is credited without manual intervention.  *)
(* A payment after the grace period of an expired order is left to the     *)
(* administrator.  The repeated notification makes up for one fault, in    *)
(* the fulfilment or before the payment is recorded.  It does not if the   *)
(* order is Stranded, where the code and that sentence disagree.           *)
PaidCompletes ==
    \A o \in Orders :
        upstream[o] = "paid" ~>
            \/ status[o] = "COMPLETED"
            \/ "PAYMENT_AFTER_EXPIRY" \in audit[o]
            \/ faults["error"] + faults["abandon"] > 1
            \/ Stranded(o)

(* The status table of docs/PAYMENT.md: a paid order ends as COMPLETED or  *)
(* as FAILED, from where an administrator can retry, however many          *)
(* statements of the fulfilment fail.  Only an order that is Stranded ends *)
(* as PAID (from where he can retry as well) or as RECHARGING (from where  *)
(* he cannot).                                                             *)
PaidSettles ==
    \A o \in Orders :
        upstream[o] = "paid" ~>
            [](\/ status[o] \in {"COMPLETED", "FAILED"}
               \/ "PAYMENT_AFTER_EXPIRY" \in audit[o]
               \/ Stranded(o))
=============================================================================
