----------------------- MODULE PaymentFulfillmentProof -----------------------
(***************************************************************************)
(* The safety properties of PaymentFulfillment for any number of orders,   *)
(* workers, faults and retries.                                            *)
(*                                                                         *)
(* The properties alone are not inductive.  That COMPLETED implies a       *)
(* credit needs the place of the worker that completes the order, and that *)
(* place is only as good as the lock on the row, so the invariant has      *)
(* three parts: what every row satisfies, what the place of a worker says  *)
(* about the row of its order, and that two workers never hold one order.  *)
(***************************************************************************)
EXTENDS PaymentFulfillment, TLAPS

(* A row and its books agree. *)
RowInv(o) ==
    /\ status[o] = "NONE" => upstream[o] = "none" /\ code[o] = "none"
    /\ paidAt[o] => upstream[o] = "paid"
    /\ status[o] \in {"PAID", "RECHARGING", "COMPLETED"} => paidAt[o]
    /\ status[o] = "FAILED" /\ upstream[o] # "none" => paidAt[o]
    /\ credits[o] > 0 => paidAt[o]
    /\ status[o] = "COMPLETED" => credits[o] > 0
    /\ type[o] = "balance" =>
          credits[o] = (IF code[o] = "used" THEN 1 ELSE 0)
    /\ Assigned(o) => credits[o] > 0
    /\ rebates[o] =< 1
    /\ rebates[o] = 1 => credits[o] > 0
    /\ audit[o] \cap RebateActions = {} => rebates[o] = 0

(* What a worker's place says of the row of its order. *)
PlaceInv(at, via, o) ==
    /\ status[o] # "NONE"
    /\ at = "invoke" => upstream[o] = "none" /\ status[o] # "FAILED"
    /\ at \in {"toPaid", "already"} => upstream[o] = "paid"
    /\ at = "already" => status[o] \notin {"PENDING", "CANCELLED"}
    /\ at \in {"reset", "execute", "lock"} \cup Fulfilling => paidAt[o]
    /\ at \in Fulfilling \ {"fail"} => status[o] = "RECHARGING"
    /\ at = "fail" => status[o] \in {"RECHARGING", "COMPLETED"}
    /\ at \in {"lookup", "create", "redeem"} => type[o] = "balance"
    /\ at \in {"group", "assign", "log"} => type[o] = "subscription"
    /\ at \in {"log", "rebate", "complete"} => credits[o] > 0
    /\ at \in {"invoke", "query", "close", "cancel"} => via # "webhook"

JobInv(w) ==
    job[w].at # "idle" => PlaceInv(job[w].at, job[w].via, job[w].order)

(* Two workers neither create nor fulfil one order at the same time. *)
Alone(v, w) ==
    (/\ job[v].order = job[w].order
     /\ \/ job[v].at = "invoke" /\ job[w].at = "invoke"
        \/ job[v].at \in Fulfilling /\ job[w].at \in Fulfilling) => v = w

IInv ==
    /\ TypeOK
    /\ \A o \in Orders : RowInv(o)
    /\ \A w \in Workers : JobInv(w)
    /\ \A v, w \in Workers : Alone(v, w)

-----------------------------------------------------------------------------
(* The steps by which a worker moves, and the sets of names. *)
USE DEF At, Start, Goto, Return, SetStatus, Log, keepRow, keepBooks, keepWorld,
        rowVars, Idle
USE DEF Fulfilling, Points, Jobs, Statuses, Types, Calls, Actions

(* What Goto leaves behind: every worker is still at a known place and has *)
(* an order unless it is idle.                                             *)
LEMMA GotoType ==
    ASSUME TypeOK, NEW w \in Workers, ~ At(w, "idle"), NEW p \in Points,
           Goto(w, p)
    PROVE  /\ job' \in [Workers -> Jobs]
           /\ \A v \in Workers : job'[v].at # "idle" => job'[v].order \in Orders
           /\ acked' \in [Orders -> BOOLEAN]
  BY DEF TypeOK

(* The same for a call that returns. *)
LEMMA ReturnType ==
    ASSUME TypeOK, NEW w \in Workers, ~ At(w, "idle"), NEW ok \in BOOLEAN,
           Return(w, ok)
    PROVE  /\ job' \in [Workers -> Jobs]
           /\ \A v \in Workers : job'[v].at # "idle" => job'[v].order \in Orders
           /\ acked' \in [Orders -> BOOLEAN]
  BY DEF TypeOK

(* An audit row is added to its own order only. *)
LEMMA LogFacts ==
    ASSUME TypeOK, NEW o \in Orders, NEW a \in Actions, Log(o, a)
    PROVE  /\ audit' \in [Orders -> SUBSET Actions]
           /\ audit'[o] = audit[o] \cup {a}
           /\ \A p \in Orders \ {o} : audit'[p] = audit[p]
  BY DEF TypeOK

(***************************************************************************)
(* Every step keeps the invariant: one lemma per action.                   *)
(***************************************************************************)
LEMMA CreateOrderStep ==
    ASSUME IInv, NEW w \in Workers, NEW o \in Orders, NEW t \in Types,
           CreateOrder(w, o, t), faults' \in [AllFaults -> Nat]
    PROVE  IInv'
<1> USE DEF IInv
<1>1. TypeOK'
  BY DEF CreateOrder, TypeOK
<1>2. \A p \in Orders : RowInv(p)'
  BY DEF CreateOrder, TypeOK, RowInv, JobInv, PlaceInv, Assigned,
         RebateActions
<1>3. \A v \in Workers : JobInv(v)'
  BY DEF CreateOrder, TypeOK, RowInv, JobInv, PlaceInv, Alone
<1>4. \A u, v \in Workers : Alone(u, v)'
  BY DEF CreateOrder, TypeOK, RowInv, JobInv, PlaceInv, Alone
<1>5. QED
  BY <1>1, <1>2, <1>3, <1>4

LEMMA InvokeProviderStep ==
    ASSUME IInv, NEW w \in Workers,
           InvokeProvider(w), faults' \in [AllFaults -> Nat]
    PROVE  IInv'
<1> USE DEF IInv
<1>1. TypeOK'
  BY DEF InvokeProvider, TypeOK
<1>2. \A p \in Orders : RowInv(p)'
  BY DEF InvokeProvider, TypeOK, RowInv, JobInv, PlaceInv, Assigned,
         RebateActions
<1>3. \A v \in Workers : JobInv(v)'
  BY DEF InvokeProvider, TypeOK, RowInv, JobInv, PlaceInv, Alone
<1>4. \A u, v \in Workers : Alone(u, v)'
  BY DEF InvokeProvider, TypeOK, RowInv, JobInv, PlaceInv, Alone
<1>5. QED
  BY <1>1, <1>2, <1>3, <1>4

LEMMA InvokeFailedStep ==
    ASSUME IInv, NEW w \in Workers,
           InvokeFailed(w), faults' \in [AllFaults -> Nat]
    PROVE  IInv'
<1> USE DEF IInv
<1>1. TypeOK'
  BY DEF InvokeFailed, TypeOK
<1>2. \A p \in Orders : RowInv(p)'
  BY DEF InvokeFailed, TypeOK, RowInv, JobInv, PlaceInv, Assigned,
         RebateActions
<1>3. \A v \in Workers : JobInv(v)'
  BY DEF InvokeFailed, TypeOK, RowInv, JobInv, PlaceInv, Alone
<1>4. \A u, v \in Workers : Alone(u, v)'
  BY DEF InvokeFailed, TypeOK, RowInv, JobInv, PlaceInv, Alone
<1>5. QED
  BY <1>1, <1>2, <1>3, <1>4

LEMMA QueryPaidStep ==
    ASSUME IInv, NEW w \in Workers,
           QueryPaid(w), faults' \in [AllFaults -> Nat]
    PROVE  IInv'
<1> USE DEF IInv
<1>1. TypeOK'
  BY DEF QueryPaid, TypeOK
<1>2. \A p \in Orders : RowInv(p)'
  BY DEF QueryPaid, TypeOK, RowInv, JobInv, PlaceInv, Assigned,
         RebateActions
<1>3. \A v \in Workers : JobInv(v)'
  BY DEF QueryPaid, TypeOK, RowInv, JobInv, PlaceInv, Alone
<1>4. \A u, v \in Workers : Alone(u, v)'
  BY DEF QueryPaid, TypeOK, RowInv, JobInv, PlaceInv, Alone
<1>5. QED
  BY <1>1, <1>2, <1>3, <1>4

LEMMA QueryUnpaidStep ==
    ASSUME IInv, NEW w \in Workers,
           QueryUnpaid(w), faults' \in [AllFaults -> Nat]
    PROVE  IInv'
<1> USE DEF IInv
<1>1. TypeOK'
  BY DEF QueryUnpaid, TypeOK
<1>2. \A p \in Orders : RowInv(p)'
  BY DEF QueryUnpaid, RowInv, Assigned
<1>3. \A v \in Workers : JobInv(v)'
  BY DEF QueryUnpaid, TypeOK, RowInv, JobInv, PlaceInv, Alone
<1>4. \A u, v \in Workers : Alone(u, v)'
  BY DEF QueryUnpaid, TypeOK, Alone
<1>5. QED
  BY <1>1, <1>2, <1>3, <1>4

LEMMA CancelPaymentStep ==
    ASSUME IInv, NEW w \in Workers,
           CancelPayment(w), faults' \in [AllFaults -> Nat]
    PROVE  IInv'
<1> USE DEF IInv
<1>1. TypeOK'
  BY DEF CancelPayment, TypeOK
<1>2. \A p \in Orders : RowInv(p)'
  BY DEF CancelPayment, TypeOK, RowInv, JobInv, PlaceInv, Assigned,
         RebateActions
<1>3. \A v \in Workers : JobInv(v)'
  BY DEF CancelPayment, TypeOK, RowInv, JobInv, PlaceInv, Alone
<1>4. \A u, v \in Workers : Alone(u, v)'
  BY DEF CancelPayment, TypeOK, RowInv, JobInv, PlaceInv, Alone
<1>5. QED
  BY <1>1, <1>2, <1>3, <1>4

LEMMA CancelCoreStep ==
    ASSUME IInv, NEW w \in Workers,
           CancelCore(w), faults' \in [AllFaults -> Nat]
    PROVE  IInv'
<1> USE DEF IInv
<1>1. TypeOK'
  <2>1. CASE status[job[w].order] = "PENDING"
    <3>1. PICK s \in Statuses : status' = [status EXCEPT ![job[w].order] = s]
      BY <2>1 DEF CancelCore
    <3>2. inGrace' = [inGrace EXCEPT ![job[w].order] = TRUE]
      BY <2>1 DEF CancelCore
    <3>3. status' \in [Orders -> Statuses] /\ inGrace' \in [Orders -> BOOLEAN]
      BY <3>1, <3>2 DEF TypeOK
    <3>4. QED
      BY <3>3, ReturnType DEF CancelCore, TypeOK
  <2>2. CASE status[job[w].order] # "PENDING"
    BY <2>2, ReturnType DEF CancelCore, TypeOK
  <2>3. QED
    BY <2>1, <2>2
<1>2. \A p \in Orders : RowInv(p)'
  BY DEF CancelCore, TypeOK, RowInv, JobInv, PlaceInv, Assigned,
         RebateActions
<1>3. \A v \in Workers : JobInv(v)'
  BY DEF CancelCore, TypeOK, RowInv, JobInv, PlaceInv, Alone
<1>4. \A u, v \in Workers : Alone(u, v)'
  BY DEF CancelCore, TypeOK, RowInv, JobInv, PlaceInv, Alone
<1>5. QED
  BY <1>1, <1>2, <1>3, <1>4

LEMMA ToPaidStep ==
    ASSUME IInv, NEW w \in Workers,
           ToPaid(w), faults' \in [AllFaults -> Nat]
    PROVE  IInv'
<1> USE DEF IInv
<1>1. TypeOK'
  <2>1. CASE Payable(job[w].order)
    <3>1. ~ At(w, "idle") /\ Goto(w, "execute")
      BY <2>1 DEF ToPaid
    <3>2. /\ job' \in [Workers -> Jobs]
          /\ \A v \in Workers : job'[v].at # "idle" => job'[v].order \in Orders
          /\ acked' \in [Orders -> BOOLEAN]
      BY <3>1, GotoType
    <3>3. status' \in [Orders -> Statuses] /\ paidAt' \in [Orders -> BOOLEAN]
      BY <2>1 DEF ToPaid, TypeOK
    <3>4. QED
      BY <3>2, <3>3 DEF ToPaid, TypeOK
  <2>2. CASE ~ Payable(job[w].order)
    BY <2>2, GotoType DEF ToPaid, TypeOK
  <2>3. QED
    BY <2>1, <2>2
<1>0. \A p \in Orders :
         \/ status'[p] = status[p] /\ paidAt'[p] = paidAt[p]
         \/ /\ p = job[w].order
            /\ status[p] \in {"PENDING", "CANCELLED", "EXPIRED"}
            /\ status'[p] = "PAID" /\ paidAt'[p] = TRUE
            /\ upstream[p] = "paid"
  BY DEF ToPaid, Payable, TypeOK, JobInv, PlaceInv
<1>2. ASSUME NEW p \in Orders PROVE RowInv(p)'
  <2>1. RowInv(p) /\ UNCHANGED <<type, code, audit, credits, rebates, upstream>>
    BY DEF ToPaid
  <2>2. CASE status'[p] = status[p] /\ paidAt'[p] = paidAt[p]
    BY <2>1, <2>2 DEF RowInv, Assigned
  <2>3. CASE status'[p] = "PAID" /\ paidAt'[p] = TRUE /\ upstream[p] = "paid"
    BY <2>1, <2>3 DEF RowInv, Assigned
  <2>4. QED
    BY <1>0, <2>2, <2>3
<1>3. ASSUME NEW v \in Workers PROVE JobInv(v)'
  <2>1. JobInv(v) /\ UNCHANGED <<type, credits, upstream>>
    BY DEF ToPaid
  <2>2. CASE v = w
    <3>1. \/ job'[w] = [job[w] EXCEPT !.at = "execute"] /\ Payable(job[w].order)
          \/ job'[w] = [job[w] EXCEPT !.at = "already"] /\ ~ Payable(job[w].order)
      BY DEF ToPaid, TypeOK
    <3>2. QED
      BY <1>0, <2>1, <2>2, <3>1 DEF ToPaid, Payable, TypeOK, JobInv, PlaceInv
  <2>3. CASE v # w
    <3>1. job'[v] = job[v]
      BY <2>3 DEF ToPaid, TypeOK
    <3>2. job[v].at # "idle" => job[v].order \in Orders
      BY DEF TypeOK
    <3>3. QED
      BY <1>0, <2>1, <3>1, <3>2 DEF JobInv, PlaceInv
  <2>4. QED
    BY <2>2, <2>3
<1>4. \A u, v \in Workers : Alone(u, v)'
  BY DEF ToPaid, Payable, TypeOK, RowInv, JobInv, PlaceInv, Alone
<1>5. QED
  BY <1>1, <1>2, <1>3, <1>4

LEMMA AlreadyProcessedStep ==
    ASSUME IInv, NEW w \in Workers,
           AlreadyProcessed(w), faults' \in [AllFaults -> Nat]
    PROVE  IInv'
<1> USE DEF IInv
<1>1. audit' \in [Orders -> SUBSET Actions]
  BY LogFacts DEF AlreadyProcessed, TypeOK
<1>2. TypeOK'
  <2>1. CASE status[job[w].order] = "FAILED"
    BY <1>1, <2>1, GotoType DEF AlreadyProcessed, TypeOK
  <2>2. CASE status[job[w].order] \in {"PAID", "RECHARGING"}
    BY <1>1, <2>2, ReturnType DEF AlreadyProcessed, TypeOK
  <2>3. CASE status[job[w].order] \notin {"FAILED", "PAID", "RECHARGING"}
    BY <1>1, <2>3, ReturnType DEF AlreadyProcessed, TypeOK
  <2>4. QED
    BY <2>1, <2>2, <2>3
<1>3. \A p \in Orders : /\ Assigned(p)' <=> Assigned(p)
                      /\ (audit[p] \cap RebateActions)'
                            = audit[p] \cap RebateActions
  BY LogFacts DEF AlreadyProcessed, TypeOK, Assigned, RebateActions
<1>4. \A p \in Orders : RowInv(p)'
  BY <1>3 DEF AlreadyProcessed, RowInv
<1>5. \A v \in Workers : JobInv(v)'
  BY DEF AlreadyProcessed, TypeOK, RowInv, JobInv, PlaceInv, Alone
<1>6. \A u, v \in Workers : Alone(u, v)'
  BY DEF AlreadyProcessed, TypeOK, RowInv, JobInv, PlaceInv, Alone
<1>7. QED
  BY <1>2, <1>4, <1>5, <1>6

LEMMA ResetForRetryStep ==
    ASSUME IInv, NEW w \in Workers,
           ResetForRetry(w), faults' \in [AllFaults -> Nat]
    PROVE  IInv'
<1> USE DEF IInv
<1>1. TypeOK'
  BY DEF ResetForRetry, TypeOK
<1>2. \A p \in Orders : RowInv(p)'
  BY DEF ResetForRetry, TypeOK, RowInv, JobInv, PlaceInv, Assigned,
         RebateActions
<1>3. \A v \in Workers : JobInv(v)'
  BY DEF ResetForRetry, TypeOK, RowInv, JobInv, PlaceInv, Alone
<1>4. \A u, v \in Workers : Alone(u, v)'
  BY DEF ResetForRetry, TypeOK, RowInv, JobInv, PlaceInv, Alone
<1>5. QED
  BY <1>1, <1>2, <1>3, <1>4

LEMMA ExecuteFulfillmentStep ==
    ASSUME IInv, NEW w \in Workers,
           ExecuteFulfillment(w), faults' \in [AllFaults -> Nat]
    PROVE  IInv'
<1> USE DEF IInv
<1>1. TypeOK'
  <2>1. CASE status[job[w].order] \in {"PAID", "FAILED"}
    BY <2>1, GotoType DEF ExecuteFulfillment, TypeOK
  <2>2. CASE status[job[w].order] \notin {"PAID", "FAILED"}
    BY <2>2, ReturnType DEF ExecuteFulfillment, TypeOK
  <2>3. QED
    BY <2>1, <2>2
<1>2. \A p \in Orders : RowInv(p)'
  BY DEF ExecuteFulfillment, RowInv, Assigned
<1>3. \A v \in Workers : JobInv(v)'
  BY DEF ExecuteFulfillment, TypeOK, RowInv, JobInv, PlaceInv, Alone
<1>4. \A u, v \in Workers : Alone(u, v)'
  BY DEF ExecuteFulfillment, TypeOK, RowInv, JobInv, PlaceInv, Alone
<1>5. QED
  BY <1>1, <1>2, <1>3, <1>4

LEMMA LockOrderStep ==
    ASSUME IInv, NEW w \in Workers,
           LockOrder(w), faults' \in [AllFaults -> Nat]
    PROVE  IInv'
<1> USE DEF IInv
<1>1. TypeOK'
  <2>1. CASE status[job[w].order] \in {"PAID", "FAILED"}
    BY <2>1, GotoType DEF LockOrder, TypeOK
  <2>2. CASE status[job[w].order] \notin {"PAID", "FAILED"}
    BY <2>2, ReturnType DEF LockOrder, TypeOK
  <2>3. QED
    BY <2>1, <2>2
<1>2. \A p \in Orders : RowInv(p)'
  BY DEF LockOrder, TypeOK, RowInv, JobInv, PlaceInv, Assigned,
         RebateActions
<1>3. \A v \in Workers : JobInv(v)'
  BY DEF LockOrder, TypeOK, RowInv, JobInv, PlaceInv, Alone
<1>4. \A u, v \in Workers : Alone(u, v)'
  BY DEF LockOrder, TypeOK, RowInv, JobInv, PlaceInv, Alone
<1>5. QED
  BY <1>1, <1>2, <1>3, <1>4

LEMMA ResolveRedeemActionStep ==
    ASSUME IInv, NEW w \in Workers,
           ResolveRedeemAction(w), faults' \in [AllFaults -> Nat]
    PROVE  IInv'
<1> USE DEF IInv
<1>1. TypeOK'
  BY DEF ResolveRedeemAction, TypeOK
<1>2. \A p \in Orders : RowInv(p)'
  BY DEF ResolveRedeemAction, RowInv, Assigned
<1>3. \A v \in Workers : JobInv(v)'
  BY DEF ResolveRedeemAction, TypeOK, RowInv, JobInv, PlaceInv, Alone
<1>4. \A u, v \in Workers : Alone(u, v)'
  BY DEF ResolveRedeemAction, TypeOK, RowInv, JobInv, PlaceInv, Alone
<1>5. QED
  BY <1>1, <1>2, <1>3, <1>4

LEMMA CreateCodeStep ==
    ASSUME IInv, NEW w \in Workers, NEW next \in {"redeem", "fail"},
           CreateCode(w, next), faults' \in [AllFaults -> Nat]
    PROVE  IInv'
<1> USE DEF IInv
<1>1. TypeOK'
  <2>1. CASE code[job[w].order] = "none"
    <3>1. ~ At(w, "idle") /\ Goto(w, next)
      BY <2>1 DEF CreateCode
    <3>2. /\ job' \in [Workers -> Jobs]
          /\ \A v \in Workers : job'[v].at # "idle" => job'[v].order \in Orders
          /\ acked' \in [Orders -> BOOLEAN]
      BY <3>1, GotoType
    <3>3. code' \in [Orders -> {"none", "unused", "used"}]
      BY <2>1 DEF CreateCode, TypeOK
    <3>4. QED
      BY <3>2, <3>3 DEF CreateCode, TypeOK
  <2>2. CASE code[job[w].order] # "none"
    BY <2>2, GotoType DEF CreateCode, TypeOK
  <2>3. QED
    BY <2>1, <2>2
<1>2. \A p \in Orders : RowInv(p)'
  BY DEF CreateCode, TypeOK, RowInv, JobInv, PlaceInv, Assigned,
         RebateActions
<1>3. \A v \in Workers : JobInv(v)'
  BY DEF CreateCode, TypeOK, RowInv, JobInv, PlaceInv, Alone
<1>4. \A u, v \in Workers : Alone(u, v)'
  BY DEF CreateCode, TypeOK, RowInv, JobInv, PlaceInv, Alone
<1>5. QED
  BY <1>1, <1>2, <1>3, <1>4

LEMMA RedeemStep ==
    ASSUME IInv, NEW w \in Workers, NEW next \in {"rebate", "fail"},
           Redeem(w, next), faults' \in [AllFaults -> Nat]
    PROVE  IInv'
<1> USE DEF IInv
<1>1. TypeOK'
  <2>1. CASE code[job[w].order] = "unused"
    <3>1. code' \in [Orders -> {"none", "unused", "used"}]
      BY <2>1 DEF Redeem, TypeOK
    <3>2. credits' \in [Orders -> Nat]
      BY <2>1 DEF Redeem, TypeOK
    <3>3. QED
      BY <2>1, <3>1, <3>2, GotoType DEF Redeem, TypeOK
  <2>2. CASE code[job[w].order] # "unused"
    BY <2>2, GotoType DEF Redeem, TypeOK
  <2>3. QED
    BY <2>1, <2>2
<1>2. \A p \in Orders : RowInv(p)'
  BY DEF Redeem, TypeOK, RowInv, JobInv, PlaceInv, Assigned,
         RebateActions
<1>3. \A v \in Workers : JobInv(v)'
  <2>1. CASE code[job[w].order] = "unused"
    BY <2>1 DEF Redeem, TypeOK, RowInv, JobInv, PlaceInv, Alone
  <2>2. CASE code[job[w].order] # "unused"
    BY <2>2 DEF Redeem, TypeOK, JobInv, PlaceInv
  <2>3. QED
    BY <2>1, <2>2
<1>4. \A u, v \in Workers : Alone(u, v)'
  BY DEF Redeem, TypeOK, RowInv, JobInv, PlaceInv, Alone
<1>5. QED
  BY <1>1, <1>2, <1>3, <1>4

LEMMA CheckAssignedStep ==
    ASSUME IInv, NEW w \in Workers,
           CheckAssigned(w), faults' \in [AllFaults -> Nat]
    PROVE  IInv'
<1> USE DEF IInv
<1>1. TypeOK'
  BY DEF CheckAssigned, Assigned, TypeOK
<1>2. \A p \in Orders : RowInv(p)'
  BY DEF CheckAssigned, RowInv, Assigned
<1>3. \A v \in Workers : JobInv(v)'
  BY DEF CheckAssigned, Assigned, TypeOK, RowInv, JobInv, PlaceInv, Alone
<1>4. \A u, v \in Workers : Alone(u, v)'
  BY DEF CheckAssigned, Assigned, TypeOK, RowInv, JobInv, PlaceInv, Alone
<1>5. QED
  BY <1>1, <1>2, <1>3, <1>4

LEMMA AssignOrExtendStep ==
    ASSUME IInv, NEW w \in Workers, NEW next \in {"log", "fail"},
           AssignOrExtend(w, next), faults' \in [AllFaults -> Nat]
    PROVE  IInv'
<1> USE DEF IInv
<1>1. TypeOK'
  BY DEF AssignOrExtend, TypeOK
<1>2. \A p \in Orders : RowInv(p)'
  BY DEF AssignOrExtend, TypeOK, RowInv, JobInv, PlaceInv, Assigned,
         RebateActions
<1>3. \A v \in Workers : JobInv(v)'
  BY DEF AssignOrExtend, TypeOK, RowInv, JobInv, PlaceInv, Alone
<1>4. \A u, v \in Workers : Alone(u, v)'
  BY DEF AssignOrExtend, TypeOK, RowInv, JobInv, PlaceInv, Alone
<1>5. QED
  BY <1>1, <1>2, <1>3, <1>4

LEMMA LogAssignedStep ==
    ASSUME IInv, NEW w \in Workers,
           LogAssigned(w), faults' \in [AllFaults -> Nat]
    PROVE  IInv'
<1> USE DEF IInv
<1>1. TypeOK'
  BY DEF LogAssigned, TypeOK
<1>2. \A p \in Orders : RowInv(p)'
  BY DEF LogAssigned, TypeOK, RowInv, JobInv, PlaceInv, Assigned,
         RebateActions
<1>3. \A v \in Workers : JobInv(v)'
  BY DEF LogAssigned, TypeOK, RowInv, JobInv, PlaceInv, Alone
<1>4. \A u, v \in Workers : Alone(u, v)'
  BY DEF LogAssigned, TypeOK, RowInv, JobInv, PlaceInv, Alone
<1>5. QED
  BY <1>1, <1>2, <1>3, <1>4

LEMMA ApplyAffiliateRebateStep ==
    ASSUME IInv, NEW w \in Workers, NEW next \in {"complete", "fail"},
           ApplyAffiliateRebate(w, next), faults' \in [AllFaults -> Nat]
    PROVE  IInv'
<1> USE DEF IInv
<1>1. TypeOK'
  <2>1. audit' \in [Orders -> SUBSET Actions]
    BY DEF ApplyAffiliateRebate, TypeOK, Log, Actions
  <2>2. /\ rebates' \in [Orders -> Nat]
        /\ job' \in [Workers -> Jobs]
        /\ \A v \in Workers : job'[v].at # "idle" => job'[v].order \in Orders
    BY DEF ApplyAffiliateRebate, TypeOK
  <2>3. QED
    BY <2>1, <2>2 DEF ApplyAffiliateRebate, TypeOK
<1>2. \A p \in Orders : Assigned(p)' <=> Assigned(p)
  <2>1. \/ UNCHANGED audit
        \/ \E a \in RebateActions : Log(job[w].order, a)
    BY DEF ApplyAffiliateRebate, RebateActions
  <2>2. QED
    BY <2>1, LogFacts
    DEF ApplyAffiliateRebate, TypeOK, Assigned, RebateActions
<1>3. \A p \in Orders : RowInv(p)'
  <2>1. CASE audit[job[w].order] \cap RebateActions # {}
    BY <2>1, <1>2 DEF ApplyAffiliateRebate, RowInv
  <2>2. CASE audit[job[w].order] \cap RebateActions = {}
    <3>0. PICK a \in RebateActions : Log(job[w].order, a)
      BY <2>2 DEF ApplyAffiliateRebate, RebateActions
    <3>1. audit'[job[w].order] \cap RebateActions # {}
      BY <3>0, LogFacts DEF ApplyAffiliateRebate, TypeOK, RebateActions
    <3>2. \A p \in Orders \ {job[w].order} : audit'[p] = audit[p]
      BY <2>2, LogFacts DEF ApplyAffiliateRebate, TypeOK
    <3>3. QED
      BY <2>2, <3>1, <3>2, <1>2
      DEF ApplyAffiliateRebate, TypeOK, RowInv, JobInv, PlaceInv
  <2>3. QED
    BY <2>1, <2>2
<1>4. \A v \in Workers : JobInv(v)'
  BY DEF ApplyAffiliateRebate, TypeOK, RowInv, JobInv, PlaceInv, Alone
<1>5. \A u, v \in Workers : Alone(u, v)'
  BY DEF ApplyAffiliateRebate, TypeOK, RowInv, JobInv, PlaceInv, Alone
<1>6. QED
  BY <1>1, <1>3, <1>4, <1>5

LEMMA MarkCompletedStep ==
    ASSUME IInv, NEW w \in Workers, NEW logged \in BOOLEAN,
           MarkCompleted(w, logged), faults' \in [AllFaults -> Nat]
    PROVE  IInv'
<1> USE DEF IInv
<1>1. TypeOK'
  BY DEF MarkCompleted, TypeOK
<1>2. \A p \in Orders : RowInv(p)'
  BY DEF MarkCompleted, TypeOK, RowInv, JobInv, PlaceInv, Assigned,
         RebateActions
<1>3. \A v \in Workers : JobInv(v)'
  BY DEF MarkCompleted, TypeOK, RowInv, JobInv, PlaceInv, Alone
<1>4. \A u, v \in Workers : Alone(u, v)'
  BY DEF MarkCompleted, TypeOK, RowInv, JobInv, PlaceInv, Alone
<1>5. QED
  BY <1>1, <1>2, <1>3, <1>4

LEMMA MarkFailedStep ==
    ASSUME IInv, NEW w \in Workers,
           MarkFailed(w), faults' \in [AllFaults -> Nat]
    PROVE  IInv'
<1> USE DEF IInv
<1>1. TypeOK'
  BY DEF MarkFailed, TypeOK
<1>2. \A p \in Orders : RowInv(p)'
  BY DEF MarkFailed, TypeOK, RowInv, JobInv, PlaceInv, Assigned,
         RebateActions
<1>3. \A v \in Workers : JobInv(v)'
  BY DEF MarkFailed, TypeOK, RowInv, JobInv, PlaceInv, Alone
<1>4. \A u, v \in Workers : Alone(u, v)'
  BY DEF MarkFailed, TypeOK, RowInv, JobInv, PlaceInv, Alone
<1>5. QED
  BY <1>1, <1>2, <1>3, <1>4

LEMMA QueryFailsStep ==
    ASSUME IInv, NEW w \in Workers,
           QueryFails(w), faults' \in [AllFaults -> Nat]
    PROVE  IInv'
<1> USE DEF IInv
<1>1. TypeOK'
  BY GotoType, ReturnType DEF QueryFails, TypeOK
<1>2. \A p \in Orders : RowInv(p)'
  BY DEF QueryFails, RowInv, Assigned
<1>3. \A v \in Workers : JobInv(v)'
  BY DEF QueryFails, TypeOK, RowInv, JobInv, PlaceInv, Alone
<1>4. \A u, v \in Workers : Alone(u, v)'
  BY DEF QueryFails, TypeOK, RowInv, JobInv, PlaceInv, Alone
<1>5. QED
  BY <1>1, <1>2, <1>3, <1>4

LEMMA AlreadyUnreadStep ==
    ASSUME IInv, NEW w \in Workers,
           AlreadyUnread(w), faults' \in [AllFaults -> Nat]
    PROVE  IInv'
<1> USE DEF IInv
<1>1. TypeOK'
  BY DEF AlreadyUnread, TypeOK
<1>2. \A p \in Orders : RowInv(p)'
  BY DEF AlreadyUnread, RowInv, Assigned
<1>3. \A v \in Workers : JobInv(v)'
  BY DEF AlreadyUnread, TypeOK, RowInv, JobInv, PlaceInv, Alone
<1>4. \A u, v \in Workers : Alone(u, v)'
  BY DEF AlreadyUnread, TypeOK, RowInv, JobInv, PlaceInv, Alone
<1>5. QED
  BY <1>1, <1>2, <1>3, <1>4

LEMMA StatementFailsStep ==
    ASSUME IInv, NEW w \in Workers,
           StatementFails(w), faults' \in [AllFaults -> Nat]
    PROVE  IInv'
<1> USE DEF IInv
<1>1. CASE Return(w, FALSE)
  <2>1. TypeOK'
    BY <1>1 DEF StatementFails, TypeOK
  <2>2. \A p \in Orders : RowInv(p)'
    BY <1>1 DEF StatementFails, RowInv, Assigned
  <2>3. \A v \in Workers : JobInv(v)'
    BY <1>1 DEF StatementFails, TypeOK, RowInv, JobInv, PlaceInv, Alone
  <2>4. \A u, v \in Workers : Alone(u, v)'
    BY <1>1 DEF StatementFails, TypeOK, RowInv, JobInv, PlaceInv, Alone
  <2>5. QED
    BY <2>1, <2>2, <2>3, <2>4
<1>2. CASE /\ job[w].at \in Fulfilling \ {"log", "fail"}
           /\ Goto(w, IF At(w, "lookup") THEN "create" ELSE "fail")
  <2>1. TypeOK'
    BY <1>2 DEF StatementFails, TypeOK
  <2>2. \A p \in Orders : RowInv(p)'
    BY <1>2 DEF StatementFails, RowInv, Assigned
  <2>3. \A v \in Workers : JobInv(v)'
    BY <1>2 DEF StatementFails, TypeOK, RowInv, JobInv, PlaceInv, Alone
  <2>4. \A u, v \in Workers : Alone(u, v)'
    BY <1>2 DEF StatementFails, TypeOK, RowInv, JobInv, PlaceInv, Alone
  <2>5. QED
    BY <2>1, <2>2, <2>3, <2>4
<1>3. QED
  BY <1>1, <1>2 DEF StatementFails

LEMMA CompletedUnknownStep ==
    ASSUME IInv, NEW w \in Workers,
           CompletedUnknown(w), faults' \in [AllFaults -> Nat]
    PROVE  IInv'
<1> USE DEF IInv
<1>1. TypeOK'
  BY DEF CompletedUnknown, TypeOK
<1>2. \A p \in Orders : RowInv(p)'
  BY DEF CompletedUnknown, TypeOK, RowInv, JobInv, PlaceInv, Assigned,
         RebateActions
<1>3. \A v \in Workers : JobInv(v)'
  BY DEF CompletedUnknown, TypeOK, RowInv, JobInv, PlaceInv, Alone
<1>4. \A u, v \in Workers : Alone(u, v)'
  BY DEF CompletedUnknown, TypeOK, RowInv, JobInv, PlaceInv, Alone
<1>5. QED
  BY <1>1, <1>2, <1>3, <1>4

LEMMA AuditFailsStep ==
    ASSUME IInv, NEW w \in Workers,
           AuditFails(w), faults' \in [AllFaults -> Nat]
    PROVE  IInv'
<1>1. CASE MarkCompleted(w, FALSE)
  BY <1>1, MarkCompletedStep
<1>2. ASSUME \/ At(w, "log") /\ Goto(w, "rebate")
             \/ At(w, "group") /\ Goto(w, "assign")
             \/ At(w, "already") /\ Return(w, TRUE),
             keepRow, keepBooks, keepWorld
      PROVE  IInv'
  <2> USE <1>2 DEF IInv
  <2>1. TypeOK'
    <3>1. CASE At(w, "log") /\ Goto(w, "rebate")
      BY <3>1, GotoType DEF TypeOK
    <3>2. CASE At(w, "group") /\ Goto(w, "assign")
      BY <3>2, GotoType DEF TypeOK
    <3>3. CASE At(w, "already") /\ Return(w, TRUE)
      BY <3>3, ReturnType DEF TypeOK
    <3>4. QED
      BY <3>1, <3>2, <3>3
  <2>2. \A p \in Orders : RowInv(p)'
    BY DEF RowInv, Assigned
  <2>3. \A v \in Workers : JobInv(v)'
    BY DEF TypeOK, RowInv, JobInv, PlaceInv, Alone
  <2>4. \A u, v \in Workers : Alone(u, v)'
    BY DEF TypeOK, RowInv, JobInv, PlaceInv, Alone
  <2>5. QED
    BY <2>1, <2>2, <2>3, <2>4
<1>3. QED
  BY <1>1, <1>2 DEF AuditFails

LEMMA AbandonStep ==
    ASSUME IInv, NEW w \in Workers,
           Abandon(w), faults' \in [AllFaults -> Nat]
    PROVE  IInv'
<1> USE DEF IInv
<1>1. TypeOK'
  BY DEF Abandon, TypeOK
<1>2. \A p \in Orders : RowInv(p)'
  BY DEF Abandon, RowInv, Assigned
<1>3. \A v \in Workers : JobInv(v)'
  BY DEF Abandon, TypeOK, RowInv, JobInv, PlaceInv, Alone
<1>4. \A u, v \in Workers : Alone(u, v)'
  BY DEF Abandon, TypeOK, RowInv, JobInv, PlaceInv, Alone
<1>5. QED
  BY <1>1, <1>2, <1>3, <1>4

LEMMA NotifyStep ==
    ASSUME IInv, NEW w \in Workers, NEW o \in Orders,
           Notify(w, o), faults' \in [AllFaults -> Nat]
    PROVE  IInv'
<1> USE DEF IInv
<1>1. TypeOK'
  BY DEF Notify, TypeOK
<1>2. \A p \in Orders : RowInv(p)'
  BY DEF Notify, RowInv, Assigned
<1>3. \A v \in Workers : JobInv(v)'
  BY DEF Notify, TypeOK, RowInv, JobInv, PlaceInv, Alone
<1>4. \A u, v \in Workers : Alone(u, v)'
  BY DEF Notify, TypeOK, RowInv, JobInv, PlaceInv, Alone
<1>5. QED
  BY <1>1, <1>2, <1>3, <1>4

LEMMA CancelStep ==
    ASSUME IInv, NEW w \in Workers, NEW o \in Orders,
           Cancel(w, o), faults' \in [AllFaults -> Nat]
    PROVE  IInv'
<1> USE DEF IInv
<1>1. TypeOK'
  BY DEF Cancel, TypeOK
<1>2. \A p \in Orders : RowInv(p)'
  BY DEF Cancel, RowInv, Assigned
<1>3. \A v \in Workers : JobInv(v)'
  BY DEF Cancel, TypeOK, RowInv, JobInv, PlaceInv, Alone
<1>4. \A u, v \in Workers : Alone(u, v)'
  BY DEF Cancel, TypeOK, RowInv, JobInv, PlaceInv, Alone
<1>5. QED
  BY <1>1, <1>2, <1>3, <1>4

LEMMA ExpireStep ==
    ASSUME IInv, NEW w \in Workers, NEW o \in Orders,
           Expire(w, o), faults' \in [AllFaults -> Nat]
    PROVE  IInv'
<1> USE DEF IInv
<1>1. TypeOK'
  BY DEF Expire, TypeOK
<1>2. \A p \in Orders : RowInv(p)'
  BY DEF Expire, RowInv, Assigned
<1>3. \A v \in Workers : JobInv(v)'
  BY DEF Expire, TypeOK, RowInv, JobInv, PlaceInv, Alone
<1>4. \A u, v \in Workers : Alone(u, v)'
  BY DEF Expire, TypeOK, RowInv, JobInv, PlaceInv, Alone
<1>5. QED
  BY <1>1, <1>2, <1>3, <1>4

LEMMA VerifyStep ==
    ASSUME IInv, NEW w \in Workers, NEW o \in Orders,
           Verify(w, o), faults' \in [AllFaults -> Nat]
    PROVE  IInv'
<1> USE DEF IInv
<1>1. TypeOK'
  BY DEF Verify, TypeOK
<1>2. \A p \in Orders : RowInv(p)'
  BY DEF Verify, RowInv, Assigned
<1>3. \A v \in Workers : JobInv(v)'
  BY DEF Verify, TypeOK, RowInv, JobInv, PlaceInv, Alone
<1>4. \A u, v \in Workers : Alone(u, v)'
  BY DEF Verify, TypeOK, RowInv, JobInv, PlaceInv, Alone
<1>5. QED
  BY <1>1, <1>2, <1>3, <1>4

LEMMA RetryFulfillmentStep ==
    ASSUME IInv, NEW w \in Workers, NEW o \in Orders,
           RetryFulfillment(w, o), faults' \in [AllFaults -> Nat]
    PROVE  IInv'
<1> USE DEF IInv
<1>1. TypeOK'
  BY DEF RetryFulfillment, TypeOK
<1>2. \A p \in Orders : RowInv(p)'
  BY DEF RetryFulfillment, RowInv, Assigned
<1>3. \A v \in Workers : JobInv(v)'
  BY DEF RetryFulfillment, TypeOK, RowInv, JobInv, PlaceInv, Alone
<1>4. \A u, v \in Workers : Alone(u, v)'
  BY DEF RetryFulfillment, TypeOK, RowInv, JobInv, PlaceInv, Alone
<1>5. QED
  BY <1>1, <1>2, <1>3, <1>4

LEMMA PayStep ==
    ASSUME IInv, NEW o \in Orders,
           Pay(o), faults' \in [AllFaults -> Nat]
    PROVE  IInv'
<1> USE DEF IInv
<1>1. TypeOK'
  BY DEF Pay, TypeOK
<1>2. \A p \in Orders : RowInv(p)'
  BY DEF Pay, TypeOK, RowInv, JobInv, PlaceInv, Assigned,
         RebateActions
<1>3. \A v \in Workers : JobInv(v)'
  BY DEF Pay, TypeOK, RowInv, JobInv, PlaceInv, Alone
<1>4. \A u, v \in Workers : Alone(u, v)'
  BY DEF Pay, TypeOK, RowInv, JobInv, PlaceInv, Alone
<1>5. QED
  BY <1>1, <1>2, <1>3, <1>4

LEMMA TimeoutStep ==
    ASSUME IInv, NEW o \in Orders,
           Timeout(o), faults' \in [AllFaults -> Nat]
    PROVE  IInv'
<1> USE DEF IInv
<1>1. TypeOK'
  BY DEF Timeout, TypeOK
<1>2. \A p \in Orders : RowInv(p)'
  BY DEF Timeout, TypeOK, RowInv, JobInv, PlaceInv, Assigned,
         RebateActions
<1>3. \A v \in Workers : JobInv(v)'
  BY DEF Timeout, TypeOK, JobInv, PlaceInv
<1>4. \A u, v \in Workers : Alone(u, v)'
  BY DEF Timeout, Alone
<1>5. QED
  BY <1>1, <1>2, <1>3, <1>4

LEMMA GraceOverStep ==
    ASSUME IInv, NEW o \in Orders,
           GraceOver(o), faults' \in [AllFaults -> Nat]
    PROVE  IInv'
<1> USE DEF IInv
<1>1. TypeOK'
  BY DEF GraceOver, TypeOK
<1>2. \A p \in Orders : RowInv(p)'
  BY DEF GraceOver, TypeOK, RowInv, JobInv, PlaceInv, Assigned,
         RebateActions
<1>3. \A v \in Workers : JobInv(v)'
  BY DEF GraceOver, TypeOK, JobInv, PlaceInv
<1>4. \A u, v \in Workers : Alone(u, v)'
  BY DEF GraceOver, Alone
<1>5. QED
  BY <1>1, <1>2, <1>3, <1>4

LEMMA NotifyUnresolvedStep ==
    ASSUME IInv, NEW o \in Orders,
           NotifyUnresolved(o), faults' \in [AllFaults -> Nat]
    PROVE  IInv'
<1> USE DEF IInv
<1>1. TypeOK'
  BY DEF NotifyUnresolved, TypeOK
<1>2. \A p \in Orders : RowInv(p)'
  BY DEF NotifyUnresolved, RowInv, Assigned
<1>3. \A v \in Workers : JobInv(v)'
  BY DEF NotifyUnresolved, TypeOK, JobInv, PlaceInv
<1>4. \A u, v \in Workers : Alone(u, v)'
  BY DEF NotifyUnresolved, Alone
<1>5. QED
  BY <1>1, <1>2, <1>3, <1>4

(***************************************************************************)
(* The invariant holds in every reachable state.                           *)
(***************************************************************************)
LEMMA InitInv == Init => IInv
  BY DEF Init, IInv, TypeOK, RowInv, JobInv, Alone, Assigned

LEMMA NextInv == IInv /\ [Next]_vars => IInv'
<1> SUFFICES ASSUME IInv, [Next]_vars
             PROVE  IInv'
  OBVIOUS
<1>1. faults' \in [AllFaults -> Nat]
  BY DEF IInv, TypeOK, Next, vars, Proceed, Disturb, Fault, Deliver
<1>2. ASSUME NEW w \in Workers, Continue(w)
      PROVE  IInv'
  BY <1>1, <1>2, InvokeProviderStep, InvokeFailedStep, QueryPaidStep,
     QueryUnpaidStep, CancelPaymentStep, CancelCoreStep, ToPaidStep,
     AlreadyProcessedStep, ResetForRetryStep, ExecuteFulfillmentStep,
     LockOrderStep, ResolveRedeemActionStep, CreateCodeStep, RedeemStep,
     CheckAssignedStep, AssignOrExtendStep, LogAssignedStep,
     ApplyAffiliateRebateStep, MarkCompletedStep, MarkFailedStep
  DEF Continue
<1>3. ASSUME NEW w \in Workers, Disturb(w)
      PROVE  IInv'
  BY <1>1, <1>3, StatementFailsStep, CreateCodeStep, RedeemStep,
     AssignOrExtendStep, ApplyAffiliateRebateStep, CompletedUnknownStep,
     AuditFailsStep, AbandonStep, QueryFailsStep, AlreadyUnreadStep
  DEF Disturb, ReplyLost
<1>4. ASSUME NEW w \in Workers, NEW o \in Orders, Request(w, o) \/ Notify(w, o)
      PROVE  IInv'
  BY <1>1, <1>4, CreateOrderStep, NotifyStep, CancelStep, ExpireStep,
     VerifyStep, RetryFulfillmentStep
  DEF Request
<1>5. ASSUME NEW o \in Orders, Environment(o) \/ NotifyUnresolved(o)
      PROVE  IInv'
  BY <1>1, <1>5, PayStep, TimeoutStep, GraceOverStep, NotifyUnresolvedStep
  DEF Environment
<1>6. CASE UNCHANGED vars
  BY <1>6 DEF vars, IInv, TypeOK, RowInv, JobInv, PlaceInv, Alone, Assigned
<1>7. QED
  BY <1>2, <1>3, <1>4, <1>5, <1>6 DEF Next, Proceed, Deliver

THEOREM Inductive == Spec => []IInv
  BY InitInv, NextInv, PTL DEF Spec

(* The variables keep their types and a busy worker has an order. *)
THEOREM TypeCorrect == Spec => []TypeOK
<1>1. IInv => TypeOK
  BY DEF IInv
<1>2. QED
  BY <1>1, Inductive, PTL

(* The change to RECHARGING locks the order, whatever the number of        *)
(* webhooks, retries and sweeps that run at the same time.                 *)
THEOREM NoFulfillmentRace == Spec => []OneFulfiller
<1>1. IInv => OneFulfiller
  BY DEF IInv, Alone, OneFulfiller
<1>2. QED
  BY <1>1, Inductive, PTL

(* Nobody is credited for an order that was not paid. *)
THEOREM PaidBeforeCredit == Spec => []CreditNeedsPayment
<1>1. IInv => CreditNeedsPayment
  BY DEF IInv, TypeOK, RowInv, CreditNeedsPayment
<1>2. QED
  BY <1>1, Inductive, PTL

(* The balance of a balance order is credited at most once, even when      *)
(* processes die and replies of the database are lost.                     *)
THEOREM BalanceOnce == Spec => []BalanceCreditedOnce
<1>1. IInv => BalanceCreditedOnce
  BY DEF IInv, TypeOK, RowInv, BalanceCreditedOnce
<1>2. QED
  BY <1>1, Inductive, PTL

(* A completed order was credited and gave at most one rebate. *)
THEOREM CompletedMeansCredited == Spec => []CompletedIsCredited
<1>1. IInv => CompletedIsCredited
  BY DEF IInv, TypeOK, RowInv, CompletedIsCredited
<1>2. QED
  BY <1>1, Inductive, PTL

LEMMA NoFault ==
    ASSUME TypeOK, NEW kind \in AllFaults, faults'[kind] = 0
    PROVE  ~ Fault(kind)
BY DEF Fault, TypeOK

(* Faults are only ever counted up. *)
LEMMA FaultsCount ==
    ASSUME TypeOK, [Next]_vars, NEW kind \in AllFaults, faults'[kind] = 0
    PROVE  faults[kind] = 0
<1>1. ASSUME NEW k \in AllFaults, Fault(k)
      PROVE  faults[kind] = 0
  BY <1>1 DEF Fault, TypeOK
<1>2. CASE UNCHANGED faults
  BY <1>2
<1>3. QED
  BY <1>1, <1>2 DEF Next, Disturb, Proceed, Deliver, vars, AllFaults

(***************************************************************************)
(* COMPLETED is never overwritten.                                         *)
(***************************************************************************)
LEMMA CompletedKept ==
    ASSUME IInv, [Next]_vars, NEW o \in Orders, status[o] = "COMPLETED"
    PROVE  status'[o] = "COMPLETED"
<1> USE DEF IInv, TypeOK, RowInv, JobInv, PlaceInv
<1>1. ASSUME NEW w \in Workers, Continue(w)
      PROVE  status'[o] = "COMPLETED"
  <2>1. CASE InvokeFailed(w)
    BY <2>1 DEF InvokeFailed
  <2>2. CASE CancelCore(w)
    BY <2>2 DEF CancelCore
  <2>3. CASE ToPaid(w)
    BY <2>3 DEF ToPaid, Payable
  <2>4. CASE ResetForRetry(w)
    BY <2>4 DEF ResetForRetry
  <2>5. CASE LockOrder(w)
    BY <2>5 DEF LockOrder
  <2>6. CASE MarkCompleted(w, TRUE)
    BY <2>6 DEF MarkCompleted
  <2>7. CASE MarkFailed(w)
    BY <2>7 DEF MarkFailed
  <2>8. CASE UNCHANGED status
    BY <2>8
  <2>9. QED
    BY <1>1, <2>1, <2>2, <2>3, <2>4, <2>5, <2>6, <2>7, <2>8
    DEF Continue, InvokeProvider, QueryPaid, QueryUnpaid, CancelPayment,
        AlreadyProcessed, ExecuteFulfillment, ResolveRedeemAction, CreateCode,
        Redeem, CheckAssigned, AssignOrExtend, LogAssigned,
        ApplyAffiliateRebate
<1>2. ASSUME NEW w \in Workers, Disturb(w)
      PROVE  status'[o] = "COMPLETED"
  <2>1. CASE MarkCompleted(w, FALSE)
    BY <2>1 DEF MarkCompleted
  <2>2. CASE CompletedUnknown(w)
    BY <2>2 DEF CompletedUnknown
  <2>3. CASE UNCHANGED status
    BY <2>3
  <2>4. QED
    BY <1>2, <2>1, <2>2, <2>3
    DEF Disturb, StatementFails, ReplyLost, AuditFails, Abandon, QueryFails,
        AlreadyUnread, CreateCode, Redeem, AssignOrExtend,
        ApplyAffiliateRebate
<1>3. ASSUME NEW w \in Workers, NEW p \in Orders, Request(w, p) \/ Notify(w, p)
      PROVE  status'[o] = "COMPLETED"
  BY <1>3 DEF Request, Notify, CreateOrder, Cancel, Expire, Verify,
              RetryFulfillment
<1>4. ASSUME NEW p \in Orders, Environment(p) \/ NotifyUnresolved(p)
      PROVE  status'[o] = "COMPLETED"
  BY <1>4 DEF Environment, Pay, Timeout, GraceOver, NotifyUnresolved
<1>5. CASE UNCHANGED vars
  BY <1>5 DEF vars
<1>6. QED
  BY <1>1, <1>2, <1>3, <1>4, <1>5 DEF Next, Proceed, Deliver

(* Neither markFailed after a lost reply nor CreateOrder's unconditional   *)
(* FAILED takes COMPLETED away from an order.                              *)
THEOREM CompletedStays == Spec => CompletedIsFinal
<1>1. IInv /\ [Next]_vars =>
         [\A o \in Orders :
             status[o] = "COMPLETED" => status'[o] = "COMPLETED"]_vars
  BY CompletedKept
<1>2. QED
  BY <1>1, Inductive, PTL DEF Spec, CompletedIsFinal

(***************************************************************************)
(* A notification is answered with success only when its payment is on     *)
(* record: what is recorded stays recorded, and a worker that answers has  *)
(* seen the record.                                                        *)
(***************************************************************************)
Recorded ==
    \A o \in Orders :
        acked[o] => paidAt[o] \/ "PAYMENT_AFTER_EXPIRY" \in audit[o]

LEMMA AckedKept ==
    ASSUME Spared({"lookup", "audit"})',
           IInv, Recorded, [Next]_vars
    PROVE  Recorded'
<1> USE DEF IInv, TypeOK, Recorded, Spared
<1>1. ASSUME NEW w \in Workers, Continue(w)
      PROVE  Recorded'
  <2>1. CASE ToPaid(w)
    BY <2>1 DEF ToPaid
  <2>2. CASE AlreadyProcessed(w)
    BY <2>2 DEF AlreadyProcessed, JobInv, PlaceInv, RowInv
  <2>3. CASE MarkCompleted(w, TRUE)
    BY <2>3 DEF MarkCompleted, JobInv, PlaceInv
  <2>4. CASE ApplyAffiliateRebate(w, "complete")
    BY <2>4 DEF ApplyAffiliateRebate
  <2>5. CASE \/ InvokeProvider(w) \/ InvokeFailed(w) \/ QueryPaid(w)
             \/ QueryUnpaid(w) \/ CancelPayment(w) \/ CancelCore(w)
    BY <2>5 DEF InvokeProvider, InvokeFailed, QueryPaid, QueryUnpaid,
                CancelPayment, CancelCore, JobInv, PlaceInv
  <2>6. CASE ExecuteFulfillment(w) \/ LockOrder(w)
    BY <2>6 DEF ExecuteFulfillment, LockOrder, JobInv, PlaceInv
  <2>7. CASE \/ ResetForRetry(w) \/ ResolveRedeemAction(w)
             \/ CreateCode(w, "redeem") \/ Redeem(w, "rebate")
             \/ CheckAssigned(w) \/ AssignOrExtend(w, "log")
             \/ LogAssigned(w) \/ MarkFailed(w)
    BY <2>7 DEF ResetForRetry, ResolveRedeemAction, CreateCode, Redeem,
                CheckAssigned, AssignOrExtend, LogAssigned, MarkFailed
  <2>8. QED
    BY <1>1, <2>1, <2>2, <2>3, <2>4, <2>5, <2>6, <2>7 DEF Continue
<1>2. ASSUME NEW w \in Workers, Disturb(w)
      PROVE  Recorded'
  <2>1. CASE StatementFails(w) \/ Abandon(w)
    BY <2>1 DEF StatementFails, Abandon
  <2>2. CASE QueryFails(w)
    BY <2>2 DEF QueryFails, JobInv, PlaceInv
  <2>3. CASE ReplyLost(w)
    BY <2>3 DEF ReplyLost, CreateCode, Redeem, AssignOrExtend,
                ApplyAffiliateRebate, CompletedUnknown
  <2>4. ~ Fault("lookup") /\ ~ Fault("audit")
    BY NoFault DEF AllFaults
  <2>5. QED
    BY <1>2, <2>1, <2>2, <2>3, <2>4 DEF Disturb
<1>3. ASSUME NEW w \in Workers, NEW p \in Orders, Request(w, p) \/ Notify(w, p)
      PROVE  Recorded'
  BY <1>3 DEF Request, Notify, CreateOrder, Cancel, Expire, Verify,
              RetryFulfillment
<1>4. ASSUME NEW p \in Orders, Environment(p)
      PROVE  Recorded'
  BY <1>4 DEF Environment, Pay, Timeout, GraceOver
<1>5. CASE UNCHANGED vars
  BY <1>5 DEF vars
<1>6. ~ Fault("lookup")
  BY NoFault DEF AllFaults
<1>7. QED
  BY <1>1, <1>2, <1>3, <1>4, <1>5, <1>6 DEF Next, Proceed, Deliver

(* The provider stops repeating a notification only when the order or the  *)
(* audit log records the payment, provided handleNotify and                *)
(* alreadyProcessed can read the database and the audit log can be         *)
(* written.                                                                *)
THEOREM AckMeansRecorded == Spec => []AckedIsRecorded
<1>1. Init => AckedIsRecorded
  BY DEF Init, AckedIsRecorded
<1>2. IInv /\ AckedIsRecorded /\ [Next]_vars => AckedIsRecorded'
  <2> SUFFICES ASSUME IInv, AckedIsRecorded, [Next]_vars,
                      Spared({"lookup", "audit"})'
               PROVE  Recorded'
    BY DEF AckedIsRecorded, Recorded
  <2>1. Spared({"lookup", "audit"})
    BY FaultsCount DEF IInv, Spared, AllFaults
  <2>2. Recorded
    BY <2>1 DEF AckedIsRecorded, Recorded
  <2> QED BY <2>2, AckedKept
<1>3. QED
  BY <1>1, <1>2, Inductive, PTL DEF Spec

(***************************************************************************)
(* One credit per order, for subscriptions too.  A credit without its      *)
(* audit row exists only while the row is locked and nobody but the worker *)
(* that is about to write the audit row works on the order.                *)
(***************************************************************************)
Held(o) ==
    /\ status[o] = "RECHARGING"
    /\ \A w \in Workers :
          job[w].order = o /\ job[w].at \in Fulfilling => job[w].at = "log"

OnceInv ==
    /\ \A o \in Orders :
          type[o] = "subscription" /\ credits[o] # 0 =>
             credits[o] = 1 /\ (Assigned(o) \/ Held(o))
    /\ \A w \in Workers :
          job[w].at = "assign" => ~ Assigned(job[w].order)

(* A worker moves to a place outside the fulfilment, and no RECHARGING row *)
(* changes its status.                                                     *)
Outside(w) ==
    /\ job'[w].at \notin Fulfilling
    /\ \A v \in Workers : v # w => job'[v] = job[v]
    /\ UNCHANGED <<type, credits>>
    /\ \A o \in Orders : Assigned(o)' <=> Assigned(o)
    /\ \A o \in Orders :
          status[o] = "RECHARGING" => status'[o] = "RECHARGING"

(* A worker changes its place, and the row and the books of its own order. *)
Within(w, o) ==
    /\ job[w].order = o
    /\ job'[w].order = o \/ job'[w].at = "idle"
    /\ \A v \in Workers : v # w => job'[v] = job[v]
    /\ UNCHANGED type
    /\ \A p \in Orders : p # o => /\ status'[p] = status[p]
                                  /\ credits'[p] = credits[p]
                                  /\ audit'[p] = audit[p]

(* The two parts of OnceInv, for one order. *)
OnceOrder(o) ==
    type[o] = "subscription" /\ credits[o] # 0 =>
       credits[o] = 1 /\ (Assigned(o) \/ Held(o))

OnceAssign(o) ==
    \A w \in Workers :
       job[w].at = "assign" /\ job[w].order = o => ~ Assigned(o)

(* The first kind of step keeps OnceInv. *)
LEMMA OutsideStep ==
    ASSUME TypeOK, OnceInv, NEW w \in Workers, Outside(w)
    PROVE  OnceInv'
<1> USE DEF Outside
<1>1. \A o \in Orders : Held(o) => Held(o)'
  BY DEF Held
<1>2. \A v \in Workers : job'[v].at = "assign" =>
                            v # w /\ job[v].at = "assign" /\ job'[v] = job[v]
  OBVIOUS
<1>3. \A v \in Workers : job[v].at = "assign" => job[v].order \in Orders
  BY DEF TypeOK
<1>4. QED
  BY <1>1, <1>2, <1>3 DEF OnceInv

(* For the second kind only the worker's own order must be looked at. *)
LEMMA WithinStep ==
    ASSUME TypeOK, OnceInv, NEW w \in Workers, NEW o \in Orders, Within(w, o),
           OnceOrder(o)', OnceAssign(o)'
    PROVE  OnceInv'
<1> USE DEF Within
<1>1. ASSUME NEW p \in Orders, p # o
      PROVE  OnceOrder(p)' /\ OnceAssign(p)'
  <2>1. Assigned(p)' <=> Assigned(p)
    BY <1>1 DEF Assigned
  <2>2. Held(p) => Held(p)'
    BY <1>1 DEF Held
  <2>3. \A v \in Workers : job'[v].at = "assign" /\ job'[v].order = p =>
                             job'[v] = job[v]
    BY <1>1
  <2>4. QED
    BY <1>1, <2>1, <2>2, <2>3 DEF OnceInv, OnceOrder, OnceAssign
<1>2. \A v \in Workers : job'[v].at = "assign" => job'[v].order \in Orders
  BY DEF TypeOK
<1>3. QED
  BY <1>1, <1>2 DEF OnceInv, OnceOrder, OnceAssign

LEMMA OnceKept ==
    ASSUME Spared({"reply", "audit"})', IInv, OnceInv, [Next]_vars
    PROVE  OnceInv'
<1>0. TypeOK
  BY DEF IInv
<1>1. ASSUME NEW w \in Workers, Continue(w)
      PROVE  OnceInv'
  <2>1. CASE InvokeProvider(w)
    <3>1. Outside(w)
      BY <1>0, <2>1 DEF Outside, InvokeProvider, TypeOK, Assigned
    <3>2. QED
      BY <1>0, <3>1, OutsideStep
  <2>2. CASE InvokeFailed(w)
    <3>1. Outside(w)
      BY <1>0, <2>2 DEF Outside, InvokeFailed, TypeOK, Assigned, IInv, JobInv, PlaceInv, RowInv
    <3>2. QED
      BY <1>0, <3>1, OutsideStep
  <2>3. CASE QueryPaid(w)
    <3>1. Outside(w)
      BY <1>0, <2>3 DEF Outside, QueryPaid, TypeOK, Assigned
    <3>2. QED
      BY <1>0, <3>1, OutsideStep
  <2>4. CASE QueryUnpaid(w)
    <3>1. Outside(w)
      BY <1>0, <2>4 DEF Outside, QueryUnpaid, TypeOK, Assigned
    <3>2. QED
      BY <1>0, <3>1, OutsideStep
  <2>5. CASE CancelPayment(w)
    <3>1. Outside(w)
      BY <1>0, <2>5 DEF Outside, CancelPayment, TypeOK, Assigned
    <3>2. QED
      BY <1>0, <3>1, OutsideStep
  <2>6. CASE CancelCore(w)
    <3>1. Outside(w)
      BY <1>0, <2>6 DEF Outside, CancelCore, TypeOK, Assigned
    <3>2. QED
      BY <1>0, <3>1, OutsideStep
  <2>7. CASE ToPaid(w)
    <3>1. Outside(w)
      BY <1>0, <2>7 DEF Outside, ToPaid, TypeOK, Assigned, Payable
    <3>2. QED
      BY <1>0, <3>1, OutsideStep
  <2>8. CASE ResetForRetry(w)
    <3>1. Outside(w)
      BY <1>0, <2>8 DEF Outside, ResetForRetry, TypeOK, Assigned
    <3>2. QED
      BY <1>0, <3>1, OutsideStep
  <2>9. CASE ExecuteFulfillment(w)
    <3>1. Outside(w)
      BY <1>0, <2>9 DEF Outside, ExecuteFulfillment, TypeOK, Assigned
    <3>2. QED
      BY <1>0, <3>1, OutsideStep
  <2>10. CASE AlreadyProcessed(w)
    <3>1. \A o \in Orders : Assigned(o)' <=> Assigned(o)
      BY <1>0, <2>10, LogFacts DEF AlreadyProcessed, TypeOK, Assigned
    <3>2. Outside(w)
      BY <1>0, <2>10, <3>1 DEF Outside, AlreadyProcessed, TypeOK
    <3>3. QED
      BY <1>0, <3>2, OutsideStep
  <2>11. CASE LockOrder(w)
    <3>1. PICK o \in Orders : o = job[w].order
      BY <1>0, <2>11 DEF LockOrder, TypeOK
    <3>2. CASE status[o] \in {"PAID", "FAILED"}
      <4>1. Within(w, o)
        BY <1>0, <2>11, <3>1, <3>2 DEF LockOrder, Within, TypeOK
      <4>2. ~ Held(o)
        BY <3>2 DEF Held
      <4>3. UNCHANGED <<type, credits, audit>>
        BY <2>11 DEF LockOrder
      <4>4. OnceOrder(o)'
        BY <4>2, <4>3 DEF OnceInv, OnceOrder, Assigned
      <4>5. \A v \in Workers : job'[v].at = "assign" => job'[v] = job[v]
        BY <1>0, <2>11, <3>1, <3>2 DEF LockOrder, TypeOK
      <4>6. OnceAssign(o)'
        BY <4>3, <4>5 DEF OnceInv, OnceAssign, Assigned
      <4>7. QED
        BY <1>0, <3>1, <4>1, <4>4, <4>6, WithinStep
    <3>3. CASE status[o] \notin {"PAID", "FAILED"}
      <4>1. Outside(w)
        BY <1>0, <2>11, <3>1, <3>3 DEF LockOrder, Outside, TypeOK, Assigned
      <4>2. QED
        BY <1>0, <4>1, OutsideStep
    <3>4. QED
      BY <3>2, <3>3
  <2>12. CASE ResolveRedeemAction(w)
    <3>1. PICK o \in Orders : o = job[w].order
      BY <1>0, <2>12 DEF ResolveRedeemAction, TypeOK
    <3>2. Within(w, o)
      BY <1>0, <2>12, <3>1 DEF ResolveRedeemAction, Within, TypeOK
    <3>3. OnceOrder(o)'
      BY <1>0, <2>12, <3>1
      DEF ResolveRedeemAction, TypeOK, OnceInv, OnceOrder, Assigned, Held
    <3>4. OnceAssign(o)'
      BY <1>0, <2>12, <3>1
      DEF ResolveRedeemAction, TypeOK, OnceInv, OnceAssign, Assigned
    <3>5. QED
      BY <1>0, <3>1, <3>2, <3>3, <3>4, WithinStep
  <2>13. CASE CheckAssigned(w)
    <3>1. PICK o \in Orders : o = job[w].order
      BY <1>0, <2>13 DEF CheckAssigned, TypeOK
    <3>2. Within(w, o)
      BY <1>0, <2>13, <3>1 DEF CheckAssigned, Within, TypeOK
    <3>3. OnceOrder(o)'
      BY <1>0, <2>13, <3>1
      DEF CheckAssigned, TypeOK, OnceInv, OnceOrder, Assigned, Held
    <3>4. OnceAssign(o)'
      BY <1>0, <2>13, <3>1
      DEF CheckAssigned, TypeOK, OnceInv, OnceAssign, Assigned
    <3>5. QED
      BY <1>0, <3>1, <3>2, <3>3, <3>4, WithinStep
  <2>14. CASE CreateCode(w, "redeem")
    <3>1. PICK o \in Orders : o = job[w].order
      BY <1>0, <2>14 DEF CreateCode, TypeOK
    <3>2. Within(w, o)
      BY <1>0, <2>14, <3>1 DEF CreateCode, Within, TypeOK
    <3>3. OnceOrder(o)'
      BY <1>0, <2>14, <3>1
      DEF CreateCode, TypeOK, OnceInv, OnceOrder, Assigned, Held, IInv, JobInv, PlaceInv
    <3>4. OnceAssign(o)'
      <4>1. UNCHANGED audit
        BY <2>14 DEF CreateCode
      <4>2. \A v \in Workers : job'[v].at = "assign" => job'[v] = job[v]
        BY <1>0, <2>14, <3>1 DEF CreateCode, TypeOK
      <4>3. QED
        BY <4>1, <4>2 DEF OnceInv, OnceAssign, Assigned
    <3>5. QED
      BY <1>0, <3>1, <3>2, <3>3, <3>4, WithinStep
  <2>15. CASE Redeem(w, "rebate")
    <3>1. PICK o \in Orders : o = job[w].order
      BY <1>0, <2>15 DEF Redeem, TypeOK
    <3>2. Within(w, o)
      BY <1>0, <2>15, <3>1 DEF Redeem, Within, TypeOK
    <3>3. OnceOrder(o)'
      BY <1>0, <2>15, <3>1
      DEF Redeem, TypeOK, OnceInv, OnceOrder, Assigned, Held, IInv, JobInv, PlaceInv
    <3>4. OnceAssign(o)'
      BY <1>0, <2>15, <3>1
      DEF Redeem, TypeOK, OnceInv, OnceAssign, Assigned
    <3>5. QED
      BY <1>0, <3>1, <3>2, <3>3, <3>4, WithinStep
  <2>16. CASE AssignOrExtend(w, "log")
    <3>1. PICK o \in Orders : o = job[w].order
      BY <1>0, <2>16 DEF AssignOrExtend, TypeOK
    <3>2. Within(w, o)
      BY <1>0, <2>16, <3>1 DEF AssignOrExtend, Within, TypeOK
    <3>3. OnceOrder(o)'
      BY <1>0, <2>16, <3>1
      DEF AssignOrExtend, TypeOK, OnceInv, OnceOrder, Assigned, Held, IInv, JobInv, PlaceInv, Alone
    <3>4. OnceAssign(o)'
      BY <1>0, <2>16, <3>1
      DEF AssignOrExtend, TypeOK, OnceInv, OnceAssign, Assigned, IInv, JobInv, PlaceInv, Alone
    <3>5. QED
      BY <1>0, <3>1, <3>2, <3>3, <3>4, WithinStep
  <2>17. CASE LogAssigned(w)
    <3>1. PICK o \in Orders : o = job[w].order
      BY <1>0, <2>17 DEF LogAssigned, TypeOK
    <3>2. Within(w, o)
      BY <1>0, <2>17, <3>1 DEF LogAssigned, Within, TypeOK
    <3>3. OnceOrder(o)'
      BY <1>0, <2>17, <3>1
      DEF LogAssigned, TypeOK, OnceInv, OnceOrder, Assigned, Held, IInv, Alone
    <3>4. OnceAssign(o)'
      BY <1>0, <2>17, <3>1
      DEF LogAssigned, TypeOK, OnceInv, OnceAssign, Assigned, IInv, Alone
    <3>5. QED
      BY <1>0, <3>1, <3>2, <3>3, <3>4, WithinStep
  <2>18. CASE ApplyAffiliateRebate(w, "complete")
    <3>1. PICK o \in Orders : o = job[w].order
      BY <1>0, <2>18 DEF ApplyAffiliateRebate, TypeOK
    <3>2. Within(w, o)
      BY <1>0, <2>18, <3>1 DEF ApplyAffiliateRebate, Within, TypeOK
    <3>3. OnceOrder(o)'
      BY <1>0, <2>18, <3>1
      DEF ApplyAffiliateRebate, TypeOK, OnceInv, OnceOrder, Assigned, Held
    <3>4. OnceAssign(o)'
      <4>1. Assigned(o)' <=> Assigned(o)
        BY <1>0, <2>18, <3>1, LogFacts
        DEF ApplyAffiliateRebate, TypeOK, Assigned
      <4>2. \A v \in Workers : job'[v].at = "assign" => job'[v] = job[v]
        BY <1>0, <2>18, <3>1 DEF ApplyAffiliateRebate, TypeOK
      <4>3. QED
        BY <4>1, <4>2 DEF OnceInv, OnceAssign
    <3>5. QED
      BY <1>0, <3>1, <3>2, <3>3, <3>4, WithinStep
  <2>19. CASE MarkCompleted(w, TRUE)
    <3>1. PICK o \in Orders : o = job[w].order
      BY <1>0, <2>19 DEF MarkCompleted, TypeOK
    <3>2. Within(w, o)
      BY <1>0, <2>19, <3>1 DEF MarkCompleted, Within, TypeOK
    <3>3. OnceOrder(o)'
      BY <1>0, <2>19, <3>1
      DEF MarkCompleted, TypeOK, OnceInv, OnceOrder, Assigned, Held, IInv, Alone
    <3>4. OnceAssign(o)'
      BY <1>0, <2>19, <3>1
      DEF MarkCompleted, TypeOK, OnceInv, OnceAssign, Assigned, IInv, Alone
    <3>5. QED
      BY <1>0, <3>1, <3>2, <3>3, <3>4, WithinStep
  <2>20. CASE MarkFailed(w)
    <3>1. PICK o \in Orders : o = job[w].order
      BY <1>0, <2>20 DEF MarkFailed, TypeOK
    <3>2. Within(w, o)
      BY <1>0, <2>20, <3>1 DEF MarkFailed, Within, TypeOK
    <3>3. OnceOrder(o)'
      BY <1>0, <2>20, <3>1
      DEF MarkFailed, TypeOK, OnceInv, OnceOrder, Assigned, Held, IInv, Alone
    <3>4. OnceAssign(o)'
      BY <1>0, <2>20, <3>1
      DEF MarkFailed, TypeOK, OnceInv, OnceAssign, Assigned, IInv, Alone
    <3>5. QED
      BY <1>0, <3>1, <3>2, <3>3, <3>4, WithinStep
  <2>21. QED
    BY <1>1, <2>1, <2>2, <2>3, <2>4, <2>5, <2>6, <2>7, <2>8, <2>9,
       <2>10, <2>11, <2>12, <2>13, <2>14, <2>15, <2>16, <2>17, <2>18,
       <2>19, <2>20 DEF Continue
<1>2. ASSUME NEW w \in Workers, Disturb(w)
      PROVE  OnceInv'
  <2>1. CASE StatementFails(w)
    <3>1. PICK o \in Orders : o = job[w].order
      BY <1>0, <2>1 DEF StatementFails, TypeOK
    <3>2. Within(w, o)
      BY <1>0, <2>1, <3>1 DEF StatementFails, Within, TypeOK
    <3>3. OnceOrder(o)'
      BY <1>0, <2>1, <3>1
      DEF StatementFails, TypeOK, OnceInv, OnceOrder, Assigned, Held
    <3>4. OnceAssign(o)'
      BY <1>0, <2>1, <3>1
      DEF StatementFails, TypeOK, OnceInv, OnceAssign, Assigned
    <3>5. QED
      BY <1>0, <3>1, <3>2, <3>3, <3>4, WithinStep
  <2>2. CASE Abandon(w) \/ AlreadyUnread(w) \/ QueryFails(w)
    <3>1. Outside(w)
      BY <1>0, <2>2
      DEF Outside, Abandon, AlreadyUnread, QueryFails, TypeOK, Assigned
    <3>2. QED
      BY <1>0, <3>1, OutsideStep
  <2>3. ~ Fault("reply") /\ ~ Fault("audit")
    BY <1>0, NoFault DEF AllFaults, Spared
  <2>4. QED
    BY <1>2, <2>1, <2>2, <2>3 DEF Disturb
<1>3. ASSUME NEW w \in Workers, NEW p \in Orders, NEW t \in Types,
             CreateOrder(w, p, t)
      PROVE  OnceInv'
  <2>1. \A o \in Orders : Held(o) => Held(o)'
    BY <1>0, <1>3 DEF CreateOrder, TypeOK, Held
  <2>2. credits[p] = 0
    BY <1>0, <1>3 DEF CreateOrder, IInv, TypeOK, RowInv
  <2>3. QED
    BY <1>0, <1>3, <2>1, <2>2 DEF CreateOrder, TypeOK, OnceInv, Assigned
<1>4. ASSUME NEW w \in Workers, NEW p \in Orders,
             \/ Cancel(w, p) \/ Expire(w, p) \/ Verify(w, p)
             \/ RetryFulfillment(w, p) \/ Notify(w, p)
      PROVE  OnceInv'
  <2>1. Outside(w)
    BY <1>0, <1>4 DEF Cancel, Expire, Verify, RetryFulfillment, Notify,
                      Outside, TypeOK, Assigned
  <2>2. QED
    BY <1>0, <2>1, OutsideStep
<1>5. ASSUME NEW p \in Orders, Environment(p) \/ NotifyUnresolved(p)
      PROVE  OnceInv'
  BY <1>5 DEF Environment, Pay, Timeout, GraceOver, NotifyUnresolved, OnceInv,
              Assigned, Held
<1>6. CASE UNCHANGED vars
  BY <1>6 DEF vars, OnceInv, Assigned, Held
<1>7. QED
  BY <1>1, <1>2, <1>3, <1>4, <1>5, <1>6 DEF Next, Proceed, Deliver, Request

(* The condition on the faults included, for every reachable state. *)
Once == Spared({"reply", "audit"}) => OnceInv

LEMMA OnceInvariance == Spec => []Once
<1>1. Init => Once
  BY DEF Init, Once, OnceInv
<1>2. IInv /\ Once /\ [Next]_vars => Once'
  <2> SUFFICES ASSUME IInv, Once, [Next]_vars, Spared({"reply", "audit"})'
               PROVE  OnceInv'
    BY DEF Once
  <2>1. Spared({"reply", "audit"})
    BY FaultsCount DEF IInv, Spared, AllFaults
  <2> QED BY <2>1, OnceKept DEF Once
<1>3. QED
  BY <1>1, <1>2, Inductive, PTL DEF Spec

(* An order of either type is credited at most once, provided the audit    *)
(* log can be read and written and no statement of the fulfilment takes    *)
(* effect that its caller sees fail.                                       *)
THEOREM OneCredit == Spec => []CreditedOnce
<1>1. IInv /\ Once => CreditedOnce
  BY DEF IInv, TypeOK, Once, OnceInv, RowInv, CreditedOnce
<1>2. QED
  BY <1>1, OnceInvariance, Inductive, PTL

(***************************************************************************)
(* The service keeps the books of OrderBooks.  Besides the invariant this  *)
(* needs that nobody completes an order before its rebate is settled.      *)
(***************************************************************************)
Settled(o) == audit[o] \cap RebateActions # {}

SettledInv ==
    /\ \A o \in Orders : status[o] = "COMPLETED" => Settled(o)
    /\ \A w \in Workers : job[w].at = "complete" => Settled(job[w].order)

(* An audit row is never taken away. *)
LEMMA AuditGrows ==
    ASSUME TypeOK, [Next]_vars, NEW o \in Orders
    PROVE  audit[o] \subseteq audit'[o]
<1>1. ASSUME NEW w \in Workers, NEW a \in Actions, ~ At(w, "idle"),
             Log(job[w].order, a)
      PROVE  audit[o] \subseteq audit'[o]
  BY <1>1, LogFacts DEF TypeOK
<1>2. CASE UNCHANGED audit
  BY <1>2
<1>3. ASSUME NEW w \in Workers, Continue(w)
      PROVE  audit[o] \subseteq audit'[o]
  <2>1. CASE AlreadyProcessed(w)
    BY <1>1, <1>2, <2>1 DEF AlreadyProcessed
  <2>2. CASE LogAssigned(w)
    BY <1>1, <2>2 DEF LogAssigned
  <2>3. CASE ApplyAffiliateRebate(w, "complete")
    BY <1>1, <1>2, <2>3 DEF ApplyAffiliateRebate
  <2>4. CASE MarkCompleted(w, TRUE)
    BY <1>1, <1>2, <2>4 DEF MarkCompleted
  <2>5. QED
    BY <1>2, <1>3, <2>1, <2>2, <2>3, <2>4
    DEF Continue, InvokeProvider, InvokeFailed, QueryPaid, QueryUnpaid,
        CancelPayment, CancelCore, ToPaid, ResetForRetry, ExecuteFulfillment,
        LockOrder, ResolveRedeemAction, CreateCode, Redeem, CheckAssigned,
        AssignOrExtend, MarkFailed
<1>4. ASSUME NEW w \in Workers, Disturb(w)
      PROVE  audit[o] \subseteq audit'[o]
  <2>1. CASE ApplyAffiliateRebate(w, "fail")
    BY <1>1, <1>2, <2>1 DEF ApplyAffiliateRebate
  <2>2. QED
    BY <1>2, <1>4, <2>1
    DEF Disturb, StatementFails, ReplyLost, AuditFails, Abandon, QueryFails,
        AlreadyUnread, CreateCode, Redeem, AssignOrExtend, CompletedUnknown,
        MarkCompleted
<1>5. ASSUME NEW w \in Workers, NEW p \in Orders, Request(w, p) \/ Notify(w, p)
      PROVE  audit[o] \subseteq audit'[o]
  BY <1>2, <1>5 DEF Request, Notify, CreateOrder, Cancel, Expire, Verify,
                    RetryFulfillment
<1>6. ASSUME NEW p \in Orders, Environment(p) \/ NotifyUnresolved(p)
      PROVE  audit[o] \subseteq audit'[o]
  BY <1>2, <1>6 DEF Environment, Pay, Timeout, GraceOver, NotifyUnresolved
<1>7. CASE UNCHANGED vars
  BY <1>2, <1>7 DEF vars
<1>8. QED
  BY <1>3, <1>4, <1>5, <1>6, <1>7 DEF Next, Proceed, Deliver

(* An order gets to COMPLETED, and a worker to the completion, only over   *)
(* the settlement.                                                         *)
LEMMA SettledKept ==
    ASSUME IInv, SettledInv, [Next]_vars
    PROVE  SettledInv'
<1> USE DEF IInv, TypeOK
<1>1. \A o \in Orders : Settled(o) => Settled(o)'
  BY AuditGrows DEF Settled
<1> DEFINE Kept ==
       /\ \A o \in Orders :
             status'[o] = "COMPLETED" => status[o] = "COMPLETED" \/ Settled(o)
       /\ \A v \in Workers :
             job'[v].at = "complete" =>
                \/ job'[v] = job[v]
                \/ Settled(job[v].order)'
<1>2. ASSUME Kept PROVE SettledInv'
  BY <1>1, <1>2 DEF SettledInv
<1> HIDE DEF Kept
<1>3. ASSUME NEW w \in Workers, NEW next \in {"complete", "fail"},
             ApplyAffiliateRebate(w, next)
      PROVE  Kept
  <2>1. job[w].order \in Orders
    BY <1>3 DEF ApplyAffiliateRebate
  <2>2. job'[w].order = job[w].order /\ UNCHANGED status
    BY <1>3 DEF ApplyAffiliateRebate
  <2>3. Settled(job[w].order)'
    <3>1. CASE audit[job[w].order] \cap RebateActions = {}
      <4>1. PICK a \in RebateActions : Log(job[w].order, a)
        BY <1>3, <3>1 DEF ApplyAffiliateRebate, RebateActions
      <4>2. audit'[job[w].order] = audit[job[w].order] \cup {a}
        BY <2>1, <4>1, LogFacts DEF RebateActions
      <4>3. QED
        BY <2>2, <4>2 DEF Settled
    <3>2. CASE audit[job[w].order] \cap RebateActions # {}
      BY <1>3, <2>2, <3>2 DEF ApplyAffiliateRebate, Settled
    <3>3. QED
      BY <3>1, <3>2
  <2>4. \A v \in Workers : v # w => job'[v] = job[v]
    BY <1>3 DEF ApplyAffiliateRebate
  <2>5. QED
    BY <2>1, <2>2, <2>3, <2>4 DEF Kept
<1>4. ASSUME NEW w \in Workers, NEW logged \in BOOLEAN,
             MarkCompleted(w, logged)
      PROVE  Kept
  BY <1>4 DEF MarkCompleted, Kept, SettledInv
<1>5. ASSUME NEW w \in Workers, Continue(w)
      PROVE  Kept
  <2>1. CASE \/ InvokeProvider(w) \/ InvokeFailed(w) \/ QueryPaid(w)
             \/ QueryUnpaid(w) \/ CancelPayment(w) \/ CancelCore(w)
    BY <2>1 DEF InvokeProvider, InvokeFailed, QueryPaid, QueryUnpaid,
                CancelPayment, CancelCore, Kept
  <2>2. CASE ToPaid(w) \/ AlreadyProcessed(w) \/ ResetForRetry(w)
    BY <2>2 DEF ToPaid, AlreadyProcessed, ResetForRetry, Kept
  <2>3. CASE \/ ExecuteFulfillment(w) \/ LockOrder(w)
             \/ ResolveRedeemAction(w) \/ CheckAssigned(w)
    BY <2>3 DEF ExecuteFulfillment, LockOrder, ResolveRedeemAction,
                CheckAssigned, Kept
  <2>4. CASE \/ CreateCode(w, "redeem") \/ Redeem(w, "rebate")
             \/ AssignOrExtend(w, "log") \/ LogAssigned(w) \/ MarkFailed(w)
    BY <2>4 DEF CreateCode, Redeem, AssignOrExtend, LogAssigned, MarkFailed,
                Kept
  <2>5. QED
    BY <1>3, <1>4, <1>5, <2>1, <2>2, <2>3, <2>4 DEF Continue
<1>6. ASSUME NEW w \in Workers, Disturb(w)
      PROVE  Kept
  <2>1. CASE CompletedUnknown(w)
    BY <2>1 DEF CompletedUnknown, Kept, SettledInv
  <2>2. CASE \/ CreateCode(w, "fail") \/ Redeem(w, "fail")
             \/ AssignOrExtend(w, "fail")
    BY <2>2 DEF CreateCode, Redeem, AssignOrExtend, Kept
  <2>3. CASE \/ StatementFails(w) \/ Abandon(w) \/ QueryFails(w)
             \/ AlreadyUnread(w)
    BY <2>3 DEF StatementFails, Abandon, QueryFails, AlreadyUnread, Kept
  <2>4. CASE AuditFails(w)
    <3>1. CASE MarkCompleted(w, FALSE)
      BY <1>4, <3>1
    <3>2. CASE /\ \/ At(w, "log") /\ Goto(w, "rebate")
                  \/ At(w, "group") /\ Goto(w, "assign")
                  \/ At(w, "already") /\ Return(w, TRUE)
               /\ UNCHANGED status
      BY <3>2 DEF Kept
    <3>3. QED
      BY <2>4, <3>1, <3>2 DEF AuditFails
  <2>5. QED
    BY <1>3, <1>6, <2>1, <2>2, <2>3, <2>4 DEF Disturb, ReplyLost
<1>7. ASSUME NEW w \in Workers, NEW p \in Orders, Request(w, p) \/ Notify(w, p)
      PROVE  Kept
  BY <1>7 DEF Request, Notify, CreateOrder, Cancel, Expire, Verify,
              RetryFulfillment, Kept
<1>8. ASSUME NEW p \in Orders, Environment(p) \/ NotifyUnresolved(p)
      PROVE  Kept
  BY <1>8 DEF Environment, Pay, Timeout, GraceOver, NotifyUnresolved, Kept
<1>9. CASE UNCHANGED vars
  BY <1>2, <1>9 DEF vars, Kept
<1>10. QED
  BY <1>2, <1>5, <1>6, <1>7, <1>8, <1>9 DEF Next, Proceed, Deliver

LEMMA SettledInvariance == Spec => []SettledInv
<1>1. Init => SettledInv
  BY DEF Init, SettledInv
<1>2. QED
  BY <1>1, SettledKept, Inductive, PTL DEF Spec

(* A row that exists keeps its type and goes on to exist. *)
LEMMA RowStays ==
    ASSUME IInv, [Next]_vars, NEW o \in Orders, status[o] # "NONE"
    PROVE  status'[o] # "NONE" /\ type'[o] = type[o]
<1> USE DEF IInv, TypeOK
<1> DEFINE Stays == status'[o] # "NONE" /\ type'[o] = type[o]
<1>1. ASSUME NEW w \in Workers, Continue(w)
      PROVE  Stays
  <2>1. CASE InvokeFailed(w) \/ CancelCore(w)
    BY <2>1 DEF InvokeFailed, CancelCore
  <2>2. CASE ToPaid(w) \/ ResetForRetry(w) \/ LockOrder(w)
    BY <2>2 DEF ToPaid, ResetForRetry, LockOrder
  <2>3. CASE MarkCompleted(w, TRUE) \/ MarkFailed(w)
    BY <2>3 DEF MarkCompleted, MarkFailed
  <2>4. CASE UNCHANGED <<status, type>>
    BY <2>4
  <2>5. QED
    BY <1>1, <2>1, <2>2, <2>3, <2>4
    DEF Continue, InvokeProvider, QueryPaid, QueryUnpaid, CancelPayment,
        AlreadyProcessed, ExecuteFulfillment, ResolveRedeemAction, CreateCode,
        Redeem, CheckAssigned, AssignOrExtend, LogAssigned,
        ApplyAffiliateRebate
<1>2. ASSUME NEW w \in Workers, Disturb(w)
      PROVE  Stays
  <2>1. CASE MarkCompleted(w, FALSE) \/ CompletedUnknown(w)
    BY <2>1 DEF MarkCompleted, CompletedUnknown
  <2>2. CASE UNCHANGED <<status, type>>
    BY <2>2
  <2>3. QED
    BY <1>2, <2>1, <2>2
    DEF Disturb, StatementFails, ReplyLost, AuditFails, Abandon, QueryFails,
        AlreadyUnread, CreateCode, Redeem, AssignOrExtend,
        ApplyAffiliateRebate
<1>3. ASSUME NEW w \in Workers, NEW p \in Orders, Request(w, p) \/ Notify(w, p)
      PROVE  Stays
  BY <1>3 DEF Request, Notify, CreateOrder, Cancel, Expire, Verify,
              RetryFulfillment
<1>4. ASSUME NEW p \in Orders, Environment(p) \/ NotifyUnresolved(p)
      PROVE  Stays
  BY <1>4 DEF Environment, Pay, Timeout, GraceOver, NotifyUnresolved
<1>5. CASE UNCHANGED vars
  BY <1>5 DEF vars
<1>6. QED
  BY <1>1, <1>2, <1>3, <1>4, <1>5 DEF Next, Proceed, Deliver

(* The orders that are exempt from the single credit, and an order that is *)
(* exempt once is exempt for good.                                         *)
Exempt == {o \in Orders : /\ status[o] # "NONE"
                          /\ type[o] = "subscription"
                          /\ ~ Spared({"reply", "audit"})}

LEMMA ExemptGrows ==
    ASSUME IInv, [Next]_vars
    PROVE  Exempt \subseteq Exempt'
<1>1. Spared({"reply", "audit"})' => Spared({"reply", "audit"})
  BY FaultsCount DEF IInv, Spared, AllFaults
<1>2. \A o \in Orders : status[o] # "NONE" =>
                         status'[o] # "NONE" /\ type'[o] = type[o]
  BY RowStays
<1>3. QED
  BY <1>1, <1>2 DEF Exempt

(* One entry in the books, or none. *)
Entry == \/ \E o \in Orders : \/ Books!Pay(o) \/ Books!Record(o)
                             \/ Books!Credit(o) \/ Books!Settle(o)
                             \/ Books!Complete(o)
         \/ UNCHANGED Books!books

(* The parts of the books that are not variables of the service. *)
SamePaid ==
    \A o \in Orders : upstream'[o] = "paid" <=> upstream[o] = "paid"
SameSettled == \A o \in Orders : Settled(o)' <=> Settled(o)
SameCompleted ==
    \A o \in Orders : status'[o] = "COMPLETED" <=> status[o] = "COMPLETED"

LEMMA NoEntry ==
    ASSUME UNCHANGED <<paidAt, credits, rebates>>, SamePaid, SameSettled,
           SameCompleted
    PROVE  Entry
<1>1. UNCHANGED [o \in Orders |-> upstream[o] = "paid"]
  BY DEF SamePaid
<1>2. UNCHANGED [o \in Orders |-> audit[o] \cap RebateActions # {}]
  BY DEF SameSettled, Settled
<1>3. UNCHANGED [o \in Orders |-> status[o] = "COMPLETED"]
  BY DEF SameCompleted
<1>4. QED
  BY <1>1, <1>2, <1>3 DEF Entry, Books!books

LEMMA RecordEntry ==
    ASSUME NEW o \in Orders, upstream[o] = "paid",
           paidAt' = [paidAt EXCEPT ![o] = TRUE],
           UNCHANGED <<credits, rebates>>, SamePaid, SameSettled,
           SameCompleted
    PROVE  Entry
<1>1. UNCHANGED [p \in Orders |-> upstream[p] = "paid"]
  BY DEF SamePaid
<1>2. UNCHANGED [p \in Orders |-> audit[p] \cap RebateActions # {}]
  BY DEF SameSettled, Settled
<1>3. UNCHANGED [p \in Orders |-> status[p] = "COMPLETED"]
  BY DEF SameCompleted
<1>4. Books!Record(o)
  BY <1>1, <1>2, <1>3 DEF Books!Record
<1>5. QED
  BY <1>4 DEF Entry

LEMMA CreditEntry ==
    ASSUME NEW o \in Orders, paidAt[o], status[o] # "COMPLETED",
           credits[o] = 0 \/ o \in Exempt,
           credits' = [credits EXCEPT ![o] = @ + 1],
           UNCHANGED <<upstream, status, audit, paidAt, rebates>>
    PROVE  Entry
<1>1. Books!Credit(o)
  BY DEF Books!Credit, Exempt
<1>2. QED
  BY <1>1 DEF Entry

LEMMA SettleEntry ==
    ASSUME TypeOK, NEW o \in Orders, credits[o] > 0,
           NEW a \in RebateActions, ~ Settled(o), Log(o, a),
           UNCHANGED rebates \/ rebates' = [rebates EXCEPT ![o] = @ + 1],
           UNCHANGED <<upstream, status, paidAt, credits>>
    PROVE  Entry
<1> DEFINE settled == [p \in Orders |-> audit[p] \cap RebateActions # {}]
<1>1. settled' = [settled EXCEPT ![o] = TRUE]
  <2>1. /\ audit'[o] = audit[o] \cup {a}
        /\ \A p \in Orders \ {o} : audit'[p] = audit[p]
    BY LogFacts DEF RebateActions
  <2>2. audit'[o] \cap RebateActions # {}
    BY <2>1
  <2>3. QED
    BY <2>1, <2>2
<1>2. \E n \in {0, 1} : rebates' = [rebates EXCEPT ![o] = @ + n]
  BY DEF TypeOK
<1>3. Books!Settle(o)
  BY <1>1, <1>2 DEF Books!Settle, Settled
<1>4. QED
  BY <1>3 DEF Entry

LEMMA CompleteEntry ==
    ASSUME NEW o \in Orders, credits[o] > 0, Settled(o), SameSettled,
           TypeOK, status' = [status EXCEPT ![o] = "COMPLETED"],
           UNCHANGED <<upstream, paidAt, credits, rebates>>
    PROVE  Entry
<1> DEFINE completed == [p \in Orders |-> status[p] = "COMPLETED"]
<1>1. completed' = [completed EXCEPT ![o] = TRUE]
  BY DEF TypeOK
<1>2. UNCHANGED [p \in Orders |-> audit[p] \cap RebateActions # {}]
  BY DEF SameSettled, Settled
<1>3. Books!Complete(o)
  BY <1>1, <1>2 DEF Books!Complete, Settled
<1>4. QED
  BY <1>3 DEF Entry

LEMMA PayEntry ==
    ASSUME TypeOK, NEW o \in Orders,
           upstream' = [upstream EXCEPT ![o] = "paid"],
           UNCHANGED <<status, audit, paidAt, credits, rebates>>
    PROVE  Entry
<1> DEFINE paid == [p \in Orders |-> upstream[p] = "paid"]
<1>1. paid' = [paid EXCEPT ![o] = TRUE]
  BY DEF TypeOK
<1>2. Books!Pay(o)
  BY <1>1 DEF Books!Pay
<1>3. QED
  BY <1>2 DEF Entry

(* The two ways to credit an order.  A code is used once, whatever         *)
(* happens; a subscription is assigned once unless the order is exempt.    *)
LEMMA RedeemEntry ==
    ASSUME IInv, NEW w \in Workers, NEW next \in {"rebate", "fail"},
           Redeem(w, next)
    PROVE  Entry
<1> USE DEF IInv
<1>1. PICK o \in Orders : o = job[w].order
  BY DEF Redeem, TypeOK
<1>2. CASE code[o] = "unused"
  <2>1. paidAt[o] /\ status[o] = "RECHARGING" /\ type[o] = "balance"
    BY <1>1 DEF Redeem, JobInv, PlaceInv
  <2>2. credits[o] = 0
    BY <1>2, <2>1 DEF RowInv
  <2>3. /\ credits' = [credits EXCEPT ![o] = @ + 1]
        /\ UNCHANGED <<upstream, status, audit, paidAt, rebates>>
    BY <1>1, <1>2 DEF Redeem
  <2>4. QED
    BY <2>1, <2>2, <2>3, CreditEntry
<1>3. CASE code[o] # "unused"
  BY <1>1, <1>3, NoEntry
  DEF Redeem, SamePaid, SameSettled, SameCompleted, Settled
<1>4. QED
  BY <1>2, <1>3

LEMMA AssignEntry ==
    ASSUME IInv, Once, NEW w \in Workers, NEW next \in {"log", "fail"},
           AssignOrExtend(w, next)
    PROVE  Entry
<1> USE DEF IInv
<1>1. PICK o \in Orders : o = job[w].order
  BY DEF AssignOrExtend, TypeOK
<1>2. paidAt[o] /\ status[o] = "RECHARGING" /\ type[o] = "subscription"
  BY <1>1 DEF AssignOrExtend, JobInv, PlaceInv
<1>3. credits[o] = 0 \/ o \in Exempt
  <2>1. CASE Spared({"reply", "audit"})
    <3>1. OnceInv
      BY <2>1 DEF Once
    <3>2. ~ Assigned(o) /\ ~ Held(o)
      BY <1>1, <3>1 DEF AssignOrExtend, OnceInv, Held
    <3>3. QED
      BY <1>2, <3>1, <3>2 DEF OnceInv
  <2>2. CASE ~ Spared({"reply", "audit"})
    BY <1>2, <2>2 DEF Exempt
  <2>3. QED
    BY <2>1, <2>2
<1>4. /\ credits' = [credits EXCEPT ![o] = @ + 1]
      /\ UNCHANGED <<upstream, status, audit, paidAt, rebates>>
  BY <1>1 DEF AssignOrExtend
<1>5. QED
  BY <1>2, <1>3, <1>4, CreditEntry

(* The rebate is settled once. *)
LEMMA RebateEntry ==
    ASSUME IInv, NEW w \in Workers, NEW next \in {"complete", "fail"},
           ApplyAffiliateRebate(w, next)
    PROVE  Entry
<1> USE DEF IInv
<1>1. PICK o \in Orders : o = job[w].order
  BY DEF ApplyAffiliateRebate, TypeOK
<1>2. CASE Settled(o)
  BY <1>1, <1>2, NoEntry
  DEF ApplyAffiliateRebate, SamePaid, SameSettled, SameCompleted, Settled
<1>3. CASE ~ Settled(o)
  <2>1. credits[o] > 0
    BY <1>1 DEF ApplyAffiliateRebate, JobInv, PlaceInv
  <2>2. /\ UNCHANGED rebates \/ rebates' = [rebates EXCEPT ![o] = @ + 1]
        /\ UNCHANGED <<upstream, status, paidAt, credits>>
        /\ \E a \in RebateActions : Log(o, a)
    BY <1>1, <1>3 DEF ApplyAffiliateRebate, Settled, RebateActions
  <2>3. QED
    BY <1>3, <2>1, <2>2, SettleEntry
<1>4. QED
  BY <1>2, <1>3

(* An audit row of another kind settles nothing. *)
LEMMA OtherLog ==
    ASSUME TypeOK, NEW o \in Orders, NEW a \in Actions \ RebateActions,
           Log(o, a)
    PROVE  SameSettled
  BY LogFacts DEF SameSettled, Settled

(* An order is completed after its rebate was settled. *)
LEMMA CompletionEntry ==
    ASSUME IInv, SettledInv, NEW w \in Workers,
           \/ \E logged \in BOOLEAN : MarkCompleted(w, logged)
           \/ CompletedUnknown(w)
    PROVE  Entry
<1> USE DEF IInv
<1>1. PICK o \in Orders : o = job[w].order
  BY DEF MarkCompleted, CompletedUnknown, TypeOK
<1>2. credits[o] > 0 /\ status[o] = "RECHARGING" /\ Settled(o)
  BY <1>1 DEF MarkCompleted, CompletedUnknown, JobInv, PlaceInv, SettledInv
<1>3. SameSettled
  <2>1. UNCHANGED audit \/ Log(o, "SUBSCRIPTION_SUCCESS")
    BY <1>1 DEF MarkCompleted, CompletedUnknown
  <2>2. CASE UNCHANGED audit
    BY <2>2 DEF SameSettled, Settled
  <2>3. CASE Log(o, "SUBSCRIPTION_SUCCESS")
    BY <2>3, OtherLog DEF RebateActions
  <2>4. QED
    BY <2>1, <2>2, <2>3
<1>4. /\ status' = [status EXCEPT ![o] = "COMPLETED"]
      /\ UNCHANGED <<upstream, paidAt, credits, rebates>>
  BY <1>1, <1>2 DEF MarkCompleted, CompletedUnknown
<1>5. QED
  BY <1>2, <1>3, <1>4, CompleteEntry

(* toPaid records what the provider has told. *)
LEMMA ToPaidEntry ==
    ASSUME IInv, NEW w \in Workers, ToPaid(w)
    PROVE  Entry
<1> USE DEF IInv, TypeOK
<1>1. PICK o \in Orders : o = job[w].order
  BY DEF ToPaid
<1>2. SamePaid /\ SameSettled /\ SameCompleted
  BY <1>1 DEF ToPaid, Payable, SamePaid, SameSettled, SameCompleted, Settled
<1>3. CASE Payable(o)
  <2>1. upstream[o] = "paid"
    BY <1>1 DEF ToPaid, JobInv, PlaceInv
  <2>2. /\ paidAt' = [paidAt EXCEPT ![o] = TRUE]
        /\ UNCHANGED <<credits, rebates>>
    BY <1>1, <1>3 DEF ToPaid
  <2>3. QED
    BY <1>2, <2>1, <2>2, RecordEntry
<1>4. CASE ~ Payable(o)
  <2>1. UNCHANGED <<paidAt, credits, rebates>>
    BY <1>1, <1>4 DEF ToPaid
  <2>2. QED
    BY <1>2, <2>1, NoEntry
<1>5. QED
  BY <1>3, <1>4

(* Every other step leaves the books alone. *)
LEMMA ContinueEntry ==
    ASSUME IInv, Once, SettledInv, NEW w \in Workers, Continue(w)
    PROVE  Entry
<1> USE DEF IInv, TypeOK
<1> DEFINE Same == /\ UNCHANGED <<paidAt, credits, rebates>>
                   /\ SamePaid /\ SameSettled /\ SameCompleted
<1>1. CASE InvokeProvider(w) \/ InvokeFailed(w)
  <2>1. upstream[job[w].order] = "none" /\ status[job[w].order] # "COMPLETED"
    BY <1>1 DEF InvokeProvider, InvokeFailed, JobInv, PlaceInv, RowInv
  <2>2. Same
    BY <1>1, <2>1
    DEF InvokeProvider, InvokeFailed, SamePaid, SameSettled, SameCompleted,
        Settled
  <2>3. QED
    BY <2>2, NoEntry
<1>2. CASE QueryPaid(w) \/ QueryUnpaid(w) \/ CancelPayment(w) \/ CancelCore(w)
  <2>1. Same
    BY <1>2
    DEF QueryPaid, QueryUnpaid, CancelPayment, CancelCore, SamePaid,
        SameSettled, SameCompleted, Settled
  <2>2. QED
    BY <2>1, NoEntry
<1>3. CASE AlreadyProcessed(w) \/ LogAssigned(w)
  <2>1. job[w].order \in Orders
    BY <1>3 DEF AlreadyProcessed, LogAssigned
  <2>2. \/ UNCHANGED audit
        \/ \E a \in Actions \ RebateActions : Log(job[w].order, a)
    BY <1>3 DEF AlreadyProcessed, LogAssigned, RebateActions
  <2>3. SameSettled
    BY <2>1, <2>2, OtherLog DEF SameSettled, Settled
  <2>4. Same
    BY <1>3, <2>3 DEF AlreadyProcessed, LogAssigned, SamePaid, SameCompleted
  <2>5. QED
    BY <2>4, NoEntry
<1>4. CASE \/ ResetForRetry(w) \/ ExecuteFulfillment(w) \/ LockOrder(w)
           \/ MarkFailed(w)
  <2>1. Same
    BY <1>4
    DEF ResetForRetry, ExecuteFulfillment, LockOrder, MarkFailed, SamePaid,
        SameSettled, SameCompleted, Settled
  <2>2. QED
    BY <2>1, NoEntry
<1>5. CASE \/ ResolveRedeemAction(w) \/ CreateCode(w, "redeem")
           \/ CheckAssigned(w)
  <2>1. Same
    BY <1>5
    DEF ResolveRedeemAction, CreateCode, CheckAssigned, SamePaid,
        SameSettled, SameCompleted, Settled
  <2>2. QED
    BY <2>1, NoEntry
<1>6. QED
  BY <1>1, <1>2, <1>3, <1>4, <1>5, RedeemEntry, AssignEntry, RebateEntry,
     CompletionEntry, ToPaidEntry DEF Continue

LEMMA DisturbEntry ==
    ASSUME IInv, Once, SettledInv, NEW w \in Workers, Disturb(w)
    PROVE  Entry
<1> USE DEF IInv, TypeOK
<1>1. CASE \/ StatementFails(w) \/ Abandon(w) \/ QueryFails(w)
           \/ AlreadyUnread(w) \/ CreateCode(w, "fail")
  BY <1>1, NoEntry
  DEF StatementFails, Abandon, QueryFails, AlreadyUnread, CreateCode,
      SamePaid, SameSettled, SameCompleted, Settled
<1>2. CASE AuditFails(w)
  <2>1. CASE MarkCompleted(w, FALSE)
    BY <2>1, CompletionEntry
  <2>2. CASE keepRow /\ keepBooks /\ keepWorld
    BY <2>2, NoEntry DEF SamePaid, SameSettled, SameCompleted, Settled
  <2>3. QED
    BY <1>2, <2>1, <2>2 DEF AuditFails
<1>3. CASE ReplyLost(w)
  BY <1>1, <1>3, RedeemEntry, AssignEntry, RebateEntry, CompletionEntry
  DEF ReplyLost
<1>4. QED
  BY <1>1, <1>2, <1>3 DEF Disturb

LEMMA BookStep ==
    ASSUME IInv, Once, SettledInv, [Next]_vars
    PROVE  Entry
<1> USE DEF IInv, TypeOK
<1>1. ASSUME NEW w \in Workers, NEW o \in Orders, Request(w, o) \/ Notify(w, o)
      PROVE  Entry
  BY <1>1, NoEntry
  DEF Request, Notify, CreateOrder, Cancel, Expire, Verify, RetryFulfillment,
      SamePaid, SameSettled, SameCompleted, Settled
<1>2. ASSUME NEW o \in Orders, Environment(o)
      PROVE  Entry
  <2>1. CASE Pay(o)
    BY <2>1, PayEntry DEF Pay
  <2>2. CASE Timeout(o) \/ GraceOver(o)
    BY <2>2, NoEntry
    DEF Timeout, GraceOver, SamePaid, SameSettled, SameCompleted, Settled
  <2>3. QED
    BY <1>2, <2>1, <2>2 DEF Environment
<1>3. ASSUME NEW o \in Orders, NotifyUnresolved(o)
      PROVE  Entry
  BY <1>3, NoEntry
  DEF NotifyUnresolved, SamePaid, SameSettled, SameCompleted, Settled
<1>4. CASE UNCHANGED vars
  BY <1>4, NoEntry
  DEF vars, SamePaid, SameSettled, SameCompleted, Settled
<1>5. QED
  BY <1>1, <1>2, <1>3, <1>4, ContinueEntry, DisturbEntry
  DEF Next, Proceed, Deliver

(* Whatever webhooks, retries, sweeps, cancellations and faults come       *)
(* together, the money of every order moves as OrderBooks says: paid,      *)
(* recorded, credited once, its rebate settled once, and only then         *)
(* completed, for good.                                                    *)
THEOREM ServiceKeepsBooks == Spec => KeepsBooks
<1>1. Init => Books!Init
  BY DEF Init, Books!Init, Spared
<1>2. IInv /\ Once /\ SettledInv /\ [Next]_vars => [Books!Next]_(Books!vars)
  <2> SUFFICES ASSUME IInv, Once, SettledInv, [Next]_vars
               PROVE  Books!Next
    OBVIOUS
  <2>1. Entry
    BY BookStep
  <2>2. Exempt \subseteq Exempt'
    BY ExemptGrows
  <2>3. QED
    BY <2>1, <2>2 DEF Entry, Exempt, Books!Next
<1>3. QED
  BY <1>1, <1>2, Inductive, OnceInvariance, SettledInvariance, PTL
  DEF Spec, KeepsBooks, Books!Spec
=============================================================================
