-------------------------- MODULE PaymentRefundProof --------------------------
(***************************************************************************)
(* What is proved of refunds, for any number of workers, of faults and of  *)
(* calls that cross.                                                       *)
(*                                                                         *)
(* REFUNDING is a lock: between the update to REFUNDING and the one that   *)
(* leaves it, a call is alone (Exclusive), so that what has been taken     *)
(* from the user follows from the place of the one call that works         *)
(* (EnoughTaken, OnceTaken).  QueryAndFinalizeRefund does not take that    *)
(* lock.  It runs only for refunds that may be pending, so that all of     *)
(* this (Orderly) holds until calls have crossed on such a refund, and for *)
(* every other refund without a condition.                                 *)
(***************************************************************************)
EXTENDS PaymentRefund, TLAPS

(* Between the update to REFUNDING and the next change of the status. *)
Holding == {"deduct", "gateway", "rollback", "restore", "fail", "keep",
            "pending", "ok"}

(* In QueryAndFinalizeRefund before its change of the status, or before    *)
(* the audit row of a pending refund.                                      *)
Waiting == {"note", "query", "finalDeduct", "finalFail", "finalOk",
            "pendingLog"}

Held(w) == job[w].at \in Holding

(* Without pending answers there is no pending refund. *)
SyncOnly ==
    ~ async =>
        /\ gateway \in {"none", "refunded"}
        /\ status # "REFUND_PENDING"
        /\ \A w \in Workers :
              /\ job[w].at \notin Waiting \cup {"pending", "keep", "finalLog"}
              /\ job[w].answer # "pending"

(* With them, the provider is asked, and one call is made at a time. *)
Serial ==
    async => /\ traced
             /\ \A w, v \in Workers : ~ At(w, "idle") /\ w # v => At(v, "idle")

Exclusive ==
    \A w \in Workers :
        /\ Held(w) => /\ status = "REFUNDING"
                      /\ \A v \in Workers : v # w => ~ Held(v)
        /\ job[w].at \in Waiting => status = "REFUND_PENDING"
        /\ job[w].at \in {"okLog", "finalLog"} => status = "REFUNDED"

(* Unless the order has no trade number, REFUNDED follows the refund. *)
Refunded ==
    /\ "SUCCESS" \in audit => status = "REFUNDED"
    /\ traced =>
          /\ status = "REFUNDED" => gateway = "refunded"
          /\ \A w \in Workers :
                job[w].at \in {"ok", "finalDeduct", "finalOk"} =>
                    gateway = "refunded"

(* A synchronous refund whose answer arrived is on record. *)
Recorded ==
    gateway = "refunded" /\ ~ async /\ faults["reply"] = 0 =>
        /\ status \in {"REFUNDING", "REFUNDED"}
        /\ \A w \in Workers : Held(w) => At(w, "ok")

(* An earlier deduction is still in place, and something says so. *)
Noted == "ROLLBACK_FAILED" \in audit \/ ~ note

EnoughTaken ==
    /\ taken >= 0
    /\ Noted \/ revoked => taken >= 1
    /\ \A w \in Workers :
          /\ At(w, "lock") => job[w].want = job[w].take
          /\ At(w, "deduct") => job[w].take
          /\ job[w].at \in {"gateway", "rollback"} =>
                /\ job[w].want \/ job[w].take => taken >= 1
                /\ job[w].take /\ Noted => taken >= 2
          /\ At(w, "keep") => taken >= 1
          /\ At(w, "pendingLog") /\ job[w].take => taken >= 1
          /\ At(w, "ok") /\ job[w].want => taken >= 1
          /\ job[w].at \in {"query", "finalDeduct"} /\ ~ job[w].take
                => taken >= 1
          /\ At(w, "finalOk") => taken >= 1

Calm == faults["audit"] = 0 /\ (async => Undisturbed)

Kept == IF "ROLLBACK_FAILED" \in audit THEN 1 ELSE 0

OnceTaken ==
    Calm =>
        /\ taken \in {0, 1}
        /\ async /\ Kept = 1 => revoked
        /\ status \in Refundable /\ (\A w \in Workers : ~ At(w, "finalOk"))
              => taken = Kept
        /\ \A w \in Workers :
              /\ job[w].at \in {"deduct", "restore", "pending", "fail", "keep"}
                    => taken = Kept
              /\ job[w].at \in {"gateway", "rollback"} =>
                    IF job[w].take THEN taken = 1 /\ Kept = 0
                                   ELSE taken = Kept
              /\ At(w, "finalDeduct") /\ job[w].take => Kept = 0

(* What holds as long as no call has crossed another one. *)
Orderly == /\ SyncOnly /\ Serial /\ Exclusive /\ Refunded
           /\ Recorded /\ EnoughTaken /\ OnceTaken

Inv == TypeOK /\ Orderly

(* The inductive invariant. *)
IInv == /\ TypeOK
        /\ crossed # 0 => async
        /\ crossed = 0 => Orderly

Quiet == keepOrder /\ UNCHANGED faults

(* The row of a worker after a step of it. *)
Goes(w, at, take, answer) ==
    /\ job' \in [Workers -> Jobs]
    /\ job'[w].at = at /\ job'[w].want = job[w].want
    /\ job'[w].take = take /\ job'[w].answer = answer
    /\ \A v \in Workers : v # w => job'[v] = job[v]

Ends(w) == /\ job' \in [Workers -> Jobs]
           /\ job'[w].at = "idle" /\ job'[w].answer = "none"
           /\ \A v \in Workers : v # w => job'[v] = job[v]

-----------------------------------------------------------------------------
USE DEF At, Held, Holding, Waiting, Quiet, Fault, keepUser, keepBooks,
        keepOrder, Orderly

(* How the helpers of the actions move a row. *)
LEMMA RowMoves ==
  ASSUME TypeOK, NEW w \in Workers, NEW row \in Jobs,
         row.want = job[w].want, job' = [job EXCEPT ![w] = row]
  PROVE  Goes(w, row.at, row.take, row.answer)
  BY DEF TypeOK, Goes

LEMMA GotoMoves ==
  ASSUME TypeOK, NEW w \in Workers, NEW point \in Points, Goto(w, point)
  PROVE  Goes(w, point, job[w].take, job[w].answer)
  BY DEF TypeOK, Goto, Goes, Jobs

LEMMA ReturnMoves ==
  ASSUME TypeOK, NEW w \in Workers, Return(w)
  PROVE  Ends(w)
  BY DEF TypeOK, Return, Ends, Jobs, Idle, Points, Statuses

LEMMA TakeMoves ==
  ASSUME TypeOK, NEW w \in Workers, NEW point \in Points, NEW b \in BOOLEAN,
         job' = [job EXCEPT ![w].at = point, ![w].take = b]
  PROVE  Goes(w, point, b, job[w].answer)
<1> DEFINE row == [job[w] EXCEPT !.at = point, !.take = b]
<1>1. row \in Jobs /\ row.want = job[w].want
  BY DEF TypeOK, Jobs
<1>2. job' = [job EXCEPT ![w] = row]
  OBVIOUS
<1>3. row.at = point /\ row.take = b /\ row.answer = job[w].answer
  OBVIOUS
<1> HIDE DEF row
<1> QED BY <1>1, <1>2, <1>3, RowMoves

LEMMA AnswerMoves ==
  ASSUME TypeOK, NEW w \in Workers, NEW answer \in {"pending", "failed"},
         job' = [job EXCEPT ![w].at = "rollback", ![w].answer = answer]
  PROVE  Goes(w, "rollback", job[w].take, answer)
<1> DEFINE row == [job[w] EXCEPT !.at = "rollback", !.answer = answer]
<1>1. row \in Jobs /\ row.want = job[w].want
  BY DEF TypeOK, Jobs, Points, Executing
<1>2. job' = [job EXCEPT ![w] = row]
  OBVIOUS
<1>3. row.at = "rollback" /\ row.take = job[w].take /\ row.answer = answer
  OBVIOUS
<1> HIDE DEF row
<1> QED BY <1>1, <1>2, <1>3, RowMoves

LEMMA Deducts ==
  ASSUME TypeOK, Deduct
  PROVE  /\ taken' = taken + 1 /\ taken' \in Int
         /\ revoked' \in BOOLEAN /\ (revoked => revoked')
<1>1. taken' = taken + 1 /\ taken' \in Int
  BY DEF Deduct
<1>2. revoked' \in BOOLEAN /\ (revoked => revoked')
  BY Zenon DEF TypeOK, Deduct
<1> QED BY <1>1, <1>2

LEMMA LockRefundKeeps ==
  ASSUME Inv, NEW w \in Workers, LockRefund(w), Quiet
  PROVE  Orderly'
<1>1. status \in Refundable =>
      Goes(w, IF job[w].take THEN "deduct" ELSE "gateway",
           job[w].take, job[w].answer)
  BY GotoMoves DEF Inv, LockRefund, Points, Executing
<1>2. status \notin Refundable => Ends(w)
  BY ReturnMoves DEF Inv, LockRefund
<1>3. SyncOnly'
  BY <1>1, <1>2 DEF Inv, LockRefund, Goes, Ends, SyncOnly
<1>4. Serial'
  BY <1>1, <1>2 DEF Inv, LockRefund, Goes, Ends, Serial
<1>5. Exclusive'
  BY <1>1, <1>2
     DEF Inv, LockRefund, Goes, Ends, SyncOnly, Serial, Exclusive, Refundable
<1>6. Refunded'
  BY <1>1, <1>2 DEF Inv, LockRefund, Goes, Ends, Refunded, Refundable
<1>7. Recorded'
  BY <1>2 DEF Inv, LockRefund, Ends, Recorded, Refundable
<1>8. EnoughTaken'
  BY <1>1, <1>2 DEF Inv, LockRefund, Goes, Ends, EnoughTaken, Noted
<1>9. OnceTaken'
  BY <1>1, <1>2
     DEF Inv, LockRefund, Goes, Ends, OnceTaken, Calm, Undisturbed, Kept,
         SyncOnly, Serial
<1> QED BY <1>3, <1>4, <1>5, <1>6, <1>7, <1>8, <1>9

LEMMA DeductFirstKeeps ==
  ASSUME Inv, NEW w \in Workers, DeductFirst(w), Quiet
  PROVE  Orderly'
<1>1. "ROLLBACK_FAILED" \in audit => Goes(w, "gateway", FALSE, job[w].answer)
  BY TakeMoves DEF Inv, DeductFirst, Points, Executing
<1>2. "ROLLBACK_FAILED" \notin audit =>
      Goes(w, "gateway", job[w].take, job[w].answer)
  BY GotoMoves DEF Inv, DeductFirst, Points, Executing
<1>3. SyncOnly'
  BY <1>1, <1>2 DEF Inv, DeductFirst, Goes, SyncOnly
<1>4. Serial'
  BY <1>2 DEF Inv, TypeOK, DeductFirst, Goes, Serial
<1>5. Exclusive'
  BY <1>1, <1>2 DEF Inv, DeductFirst, Goes, Exclusive
<1>6. Refunded'
  BY <1>1, <1>2 DEF Inv, DeductFirst, Goes, Refunded
<1>7. Recorded'
  BY DEF Inv, DeductFirst, Recorded
<1>8. EnoughTaken'
  BY <1>1, <1>2, Deducts DEF Inv, TypeOK, DeductFirst, Goes, EnoughTaken, Noted
<1>9. OnceTaken'
  BY <1>1, <1>2, Deducts
     DEF Inv, DeductFirst, Goes, OnceTaken, EnoughTaken, Calm, Undisturbed,
         Kept, Exclusive, Refundable
<1> QED BY <1>3, <1>4, <1>5, <1>6, <1>7, <1>8, <1>9

LEMMA GatewaySkippedKeeps ==
  ASSUME Inv, NEW w \in Workers, GatewaySkipped(w), Quiet
  PROVE  Orderly'
<1>1. Goes(w, "ok", job[w].take, job[w].answer)
  BY GotoMoves DEF Inv, GatewaySkipped, Points, Executing
<1>2. SyncOnly'
  BY <1>1 DEF Inv, GatewaySkipped, Goes, SyncOnly
<1>3. Serial'
  BY DEF Inv, GatewaySkipped, Serial
<1>4. Exclusive'
  BY <1>1 DEF Inv, GatewaySkipped, Goes, Exclusive
<1>5. Refunded'
  BY DEF Inv, GatewaySkipped, Refunded
<1>6. Recorded'
  BY DEF Inv, GatewaySkipped, Recorded
<1>7. EnoughTaken'
  BY <1>1 DEF Inv, GatewaySkipped, Goes, EnoughTaken, Noted
<1>8. OnceTaken'
  BY <1>1 DEF Inv, GatewaySkipped, Goes, OnceTaken, Calm, Undisturbed, Kept
<1> QED BY <1>2, <1>3, <1>4, <1>5, <1>6, <1>7, <1>8

LEMMA GatewayRefundsKeeps ==
  ASSUME Inv, NEW w \in Workers, GatewayRefunds(w), Quiet
  PROVE  Orderly'
<1>1. Goes(w, "ok", job[w].take, job[w].answer)
  BY GotoMoves DEF Inv, GatewayRefunds, Points, Executing
<1>2. SyncOnly'
  BY <1>1 DEF Inv, GatewayRefunds, Goes, SyncOnly
<1>3. Serial'
  BY <1>1 DEF Inv, GatewayRefunds, Goes, Serial
<1>4. Exclusive'
  BY <1>1 DEF Inv, GatewayRefunds, Goes, Exclusive
<1>5. Refunded'
  BY DEF Inv, GatewayRefunds, Refunded
<1>6. Recorded'
  BY <1>1 DEF Inv, GatewayRefunds, Goes, Recorded, Exclusive
<1>7. EnoughTaken'
  BY <1>1 DEF Inv, GatewayRefunds, Goes, EnoughTaken, Noted
<1>8. OnceTaken'
  BY <1>1 DEF Inv, GatewayRefunds, Goes, OnceTaken, Calm, Undisturbed, Kept
<1> QED BY <1>2, <1>3, <1>4, <1>5, <1>6, <1>7, <1>8

LEMMA GatewayPendingKeeps ==
  ASSUME Inv, NEW w \in Workers, GatewayPending(w), Quiet
  PROVE  Orderly'
<1>1. Goes(w, "rollback", job[w].take, "pending")
  BY AnswerMoves DEF Inv, GatewayPending
<1>2. SyncOnly'
  BY DEF GatewayPending, SyncOnly
<1>3. Serial'
  BY DEF Inv, TypeOK, GatewayPending, Serial
<1>4. Exclusive'
  BY DEF Inv, TypeOK, GatewayPending, Exclusive
<1>5. Refunded'
  BY DEF Inv, TypeOK, GatewayPending, Refunded
<1>6. Recorded'
  BY DEF GatewayPending, Recorded
<1>7. EnoughTaken'
  BY DEF Inv, TypeOK, GatewayPending, EnoughTaken, Noted
<1>8. OnceTaken'
  BY DEF Inv, TypeOK, GatewayPending, OnceTaken, Calm, Undisturbed, Kept
<1> QED BY <1>2, <1>3, <1>4, <1>5, <1>6, <1>7, <1>8

LEMMA GatewayRefusesKeeps ==
  ASSUME Inv, NEW w \in Workers, GatewayRefuses(w), Quiet
  PROVE  Orderly'
<1>1. Goes(w, "rollback", job[w].take, "failed")
  BY AnswerMoves DEF Inv, GatewayRefuses
<1>2. SyncOnly'
  BY DEF Inv, TypeOK, GatewayRefuses, SyncOnly
<1>3. Serial'
  BY DEF Inv, TypeOK, GatewayRefuses, Serial
<1>4. Exclusive'
  BY DEF Inv, TypeOK, GatewayRefuses, Exclusive
<1>5. Refunded'
  BY DEF Inv, TypeOK, GatewayRefuses, Refunded
<1>6. Recorded'
  BY DEF Inv, GatewayRefuses, Recorded
<1>7. EnoughTaken'
  BY DEF Inv, TypeOK, GatewayRefuses, EnoughTaken, Noted
<1>8. OnceTaken'
  BY DEF Inv, TypeOK, GatewayRefuses, OnceTaken, Calm, Undisturbed, Kept
<1> QED BY <1>2, <1>3, <1>4, <1>5, <1>6, <1>7, <1>8

LEMMA RollbackRefundKeeps ==
  ASSUME Inv, NEW w \in Workers, RollbackRefund(w), Quiet
  PROVE  Orderly'
<1>1. Goes(w, IF job[w].answer = "pending" THEN "pending" ELSE "restore",
           job[w].take, job[w].answer)
  BY GotoMoves DEF Inv, RollbackRefund, AfterRollback, Points, Executing
<1>2. SyncOnly'
  BY <1>1 DEF Inv, RollbackRefund, Goes, SyncOnly
<1>3. Serial'
  BY <1>1 DEF Inv, RollbackRefund, Goes, Serial
<1>4. Exclusive'
  BY <1>1 DEF Inv, RollbackRefund, Goes, Exclusive
<1>5. Refunded'
  BY <1>1 DEF Inv, RollbackRefund, Goes, Refunded
<1>6. Recorded'
  BY DEF Inv, RollbackRefund, Recorded
<1>7. EnoughTaken'
  BY <1>1 DEF Inv, TypeOK, RollbackRefund, Goes, EnoughTaken, Noted, Exclusive
<1>8. OnceTaken'
  BY <1>1
     DEF Inv, RollbackRefund, Goes, OnceTaken, Calm, Undisturbed, Kept,
         Exclusive
<1> QED BY <1>2, <1>3, <1>4, <1>5, <1>6, <1>7, <1>8

LEMMA RollbackFailedKeeps ==
  ASSUME Inv, NEW w \in Workers, RollbackFailed(w),
         \/ revoked /\ Quiet
         \/ Fault("rollback")
  PROVE  Orderly'
<1>1. Goes(w, IF job[w].answer = "pending" THEN "keep" ELSE "fail",
           job[w].take, job[w].answer)
  BY GotoMoves DEF Inv, RollbackFailed, AfterRollback, Points, Executing
<1>2. SyncOnly'
  BY <1>1 DEF Inv, RollbackFailed, Goes, SyncOnly
<1>3. Serial'
  <2>1. async' = async /\ traced' = traced
    OBVIOUS
  <2>2. \A v \in Workers : v # w => At(v, "idle") \/ ~ async
    BY DEF Inv, RollbackFailed, Serial
  <2>3. \A v \in Workers : v # w => job'[v] = job[v]
    BY <1>1 DEF Goes
  <2> QED BY <2>1, <2>2, <2>3 DEF Inv, Serial
<1>4. Exclusive'
  BY <1>1 DEF Inv, RollbackFailed, Goes, Exclusive
<1>5. Refunded'
  BY <1>1 DEF Inv, RollbackFailed, Goes, Refunded
<1>6. Recorded'
  BY DEF Inv, TypeOK, RollbackFailed, AllFaults, Recorded
<1>7. EnoughTaken'
  BY <1>1 DEF Inv, RollbackFailed, Goes, EnoughTaken, Exclusive
<1>8. OnceTaken'
  BY <1>1
     DEF Inv, TypeOK, RollbackFailed, Goes, OnceTaken, Calm, Undisturbed,
         AllFaults, Kept, Exclusive
<1> QED BY <1>2, <1>3, <1>4, <1>5, <1>6, <1>7, <1>8

LEMMA RestoreStatusKeeps ==
  ASSUME Inv, NEW w \in Workers, RestoreStatus(w), Quiet
  PROVE  Orderly'
<1>1. Ends(w)
  BY ReturnMoves DEF Inv, RestoreStatus
<1>2. SyncOnly'
  BY <1>1 DEF Inv, RestoreStatus, Ends, SyncOnly
<1>3. Serial'
  BY <1>1 DEF Inv, Ends, Serial
<1>4. Exclusive'
  BY <1>1 DEF Inv, RestoreStatus, Ends, Exclusive
<1>5. Refunded'
  BY <1>1 DEF Inv, RestoreStatus, Ends, Exclusive, Refunded
<1>6. Recorded'
  BY DEF Inv, RestoreStatus, Recorded
<1>7. EnoughTaken'
  BY <1>1 DEF Inv, RestoreStatus, Ends, EnoughTaken, Noted
<1>8. OnceTaken'
  BY <1>1 DEF Inv, RestoreStatus, Ends, OnceTaken, Calm, Undisturbed, Kept
<1> QED BY <1>2, <1>3, <1>4, <1>5, <1>6, <1>7, <1>8

LEMMA MarkRefundFailedKeeps ==
  ASSUME Inv, NEW w \in Workers, MarkRefundFailed(w), Quiet
  PROVE  Orderly'
<1>1. Ends(w)
  BY ReturnMoves DEF Inv, MarkRefundFailed
<1>2. SyncOnly'
  BY <1>1 DEF Inv, MarkRefundFailed, Ends, SyncOnly
<1>3. Serial'
  BY <1>1 DEF Inv, Ends, Serial
<1>4. Exclusive'
  BY <1>1 DEF Inv, MarkRefundFailed, Ends, SyncOnly, Serial, Exclusive
<1>5. Refunded'
  BY <1>1 DEF Inv, MarkRefundFailed, Ends, Exclusive, Refunded
<1>6. Recorded'
  BY DEF Inv, MarkRefundFailed, Recorded, SyncOnly
<1>7. EnoughTaken'
  BY <1>1 DEF Inv, MarkRefundFailed, Ends, EnoughTaken, Noted
<1>8. OnceTaken'
  BY <1>1
     DEF Inv, MarkRefundFailed, Ends, OnceTaken, Calm, Undisturbed, Kept,
         Exclusive, Refundable
<1> QED BY <1>2, <1>3, <1>4, <1>5, <1>6, <1>7, <1>8

LEMMA MarkRefundPendingKeeps ==
  ASSUME Inv, NEW w \in Workers, MarkRefundPending(w), Quiet
  PROVE  Orderly'
<1>1. Goes(w, "pendingLog", At(w, "keep"), job[w].answer)
  BY TakeMoves DEF Inv, MarkRefundPending, Points, Executing
<1>2. SyncOnly'
  BY DEF Inv, MarkRefundPending, SyncOnly
<1>3. Serial'
  BY DEF Inv, TypeOK, MarkRefundPending, Serial
<1>4. Exclusive'
  BY DEF Inv, TypeOK, MarkRefundPending, Exclusive
<1>5. Refunded'
  BY DEF Inv, TypeOK, MarkRefundPending, Exclusive, Refunded
<1>6. Recorded'
  BY DEF Inv, MarkRefundPending, Recorded
<1>7. EnoughTaken'
  BY DEF Inv, TypeOK, MarkRefundPending, EnoughTaken, Noted
<1>8. OnceTaken'
  BY DEF Inv, TypeOK, MarkRefundPending, OnceTaken, Calm, Undisturbed, Kept
<1> QED BY <1>2, <1>3, <1>4, <1>5, <1>6, <1>7, <1>8

LEMMA LogRefundPendingKeeps ==
  ASSUME Inv, NEW w \in Workers, LogRefundPending(w), Quiet
  PROVE  Orderly'
<1>1. Ends(w)
  BY ReturnMoves DEF Inv, LogRefundPending
<1>2. SyncOnly'
  BY DEF Inv, LogRefundPending, SyncOnly
<1>3. Serial'
  BY <1>1 DEF Inv, Ends, Serial
<1>4. Exclusive'
  BY <1>1 DEF Inv, LogRefundPending, Ends, Exclusive
<1>5. Refunded'
  BY <1>1 DEF Inv, LogRefundPending, Ends, Refunded
<1>6. Recorded'
  BY DEF Inv, LogRefundPending, Recorded, SyncOnly
<1>7. EnoughTaken'
  BY <1>1
     DEF Inv, TypeOK, LogRefundPending, Ends, EnoughTaken, Noted, Exclusive
<1>8. OnceTaken'
  BY <1>1 DEF Inv, LogRefundPending, Ends, OnceTaken, Calm, Undisturbed, Kept
<1> QED BY <1>2, <1>3, <1>4, <1>5, <1>6, <1>7, <1>8

LEMMA MarkRefundOkKeeps ==
  ASSUME Inv, NEW w \in Workers, MarkRefundOk(w), Quiet
  PROVE  Orderly'
<1>1. Goes(w, IF At(w, "ok") THEN "okLog" ELSE "finalLog",
           job[w].take, job[w].answer)
  BY GotoMoves DEF Inv, MarkRefundOk, Points, Executing, Finalizing
<1>2. SyncOnly'
  BY <1>1 DEF Inv, MarkRefundOk, Goes, SyncOnly
<1>3. Serial'
  BY <1>1 DEF Inv, MarkRefundOk, Goes, Serial
<1>4. Exclusive'
  BY <1>1 DEF Inv, MarkRefundOk, Goes, SyncOnly, Serial, Exclusive
<1>5. Refunded'
  BY DEF Inv, MarkRefundOk, Refunded
<1>6. Recorded'
  BY <1>1 DEF Inv, MarkRefundOk, Goes, Recorded
<1>7. EnoughTaken'
  BY <1>1 DEF Inv, MarkRefundOk, Goes, EnoughTaken, Noted
<1>8. OnceTaken'
  BY <1>1
     DEF Inv, MarkRefundOk, Goes, OnceTaken, Calm, Undisturbed, Kept,
         Refundable
<1> QED BY <1>2, <1>3, <1>4, <1>5, <1>6, <1>7, <1>8

LEMMA LogRefundOkKeeps ==
  ASSUME Inv, NEW w \in Workers, LogRefundOk(w), Quiet
  PROVE  Orderly'
<1>1. Ends(w)
  BY ReturnMoves DEF Inv, LogRefundOk
<1>2. SyncOnly'
  BY <1>1 DEF Inv, LogRefundOk, Ends, SyncOnly
<1>3. Serial'
  BY <1>1 DEF Inv, Ends, Serial
<1>4. Exclusive'
  BY <1>1 DEF Inv, LogRefundOk, Ends, Exclusive
<1>5. Refunded'
  BY DEF Inv, LogRefundOk, Exclusive, Refunded
<1>6. Recorded'
  BY <1>1 DEF Inv, LogRefundOk, Ends, Recorded
<1>7. EnoughTaken'
  BY <1>1 DEF Inv, LogRefundOk, Ends, EnoughTaken, Noted
<1>8. OnceTaken'
  BY <1>1 DEF Inv, LogRefundOk, Ends, OnceTaken, Calm, Undisturbed, Kept
<1> QED BY <1>2, <1>3, <1>4, <1>5, <1>6, <1>7, <1>8

LEMMA ReadPendingNoteKeeps ==
  ASSUME Inv, NEW w \in Workers, ReadPendingNote(w), Quiet
  PROVE  Orderly'
<1>1. Goes(w, "query", note, job[w].answer)
  BY TakeMoves DEF Inv, TypeOK, ReadPendingNote, Points, Finalizing
<1>2. SyncOnly'
  BY DEF Inv, ReadPendingNote, SyncOnly
<1>3. Serial'
  BY DEF Inv, TypeOK, ReadPendingNote, Serial
<1>4. Exclusive'
  BY DEF Inv, TypeOK, ReadPendingNote, Exclusive
<1>5. Refunded'
  BY DEF Inv, TypeOK, ReadPendingNote, Refunded
<1>6. Recorded'
  BY DEF Inv, ReadPendingNote, Recorded, SyncOnly
<1>7. EnoughTaken'
  BY DEF Inv, TypeOK, ReadPendingNote, EnoughTaken, Noted
<1>8. OnceTaken'
  BY DEF Inv, TypeOK, ReadPendingNote, OnceTaken, Calm, Undisturbed, Kept
<1> QED BY <1>2, <1>3, <1>4, <1>5, <1>6, <1>7, <1>8

LEMMA QueryRefundKeeps ==
  ASSUME Inv, NEW w \in Workers, QueryRefund(w), Quiet
  PROVE  Orderly'
<1>0. job[w].at \in Holding \cup Waiting
  BY DEF QueryRefund
<1>1. gateway = "refunded" =>
      Goes(w, "finalDeduct", (job[w].take /\ ~ revoked), job[w].answer)
  BY TakeMoves DEF Inv, QueryRefund, Points, Finalizing
<1>2. gateway \in {"refused", "none"} =>
      Goes(w, "finalFail", job[w].take, job[w].answer)
  BY GotoMoves DEF Inv, QueryRefund, Points, Finalizing
<1>3. gateway = "pending" => Ends(w)
  BY ReturnMoves DEF Inv, QueryRefund
<1>4. SyncOnly'
  BY DEF Inv, QueryRefund, SyncOnly
<1>5. Serial'
  BY <1>1, <1>2, <1>3 DEF Inv, TypeOK, QueryRefund, Goes, Ends, Serial
<1>6. Exclusive'
  BY <1>1, <1>2, <1>3 DEF Inv, TypeOK, QueryRefund, Goes, Ends, Exclusive
<1>7. Refunded'
  BY <1>2, <1>3 DEF Inv, TypeOK, QueryRefund, Goes, Ends, Refunded
<1>8. Recorded'
  BY DEF Inv, QueryRefund, Recorded, SyncOnly
<1>9. EnoughTaken'
  BY <1>1, <1>2, <1>3
     DEF Inv, TypeOK, QueryRefund, Goes, Ends, EnoughTaken, Noted
<1>10. OnceTaken'
  BY <1>0, <1>1, <1>2, <1>3
     DEF Inv, TypeOK, QueryRefund, Goes, Ends, OnceTaken, Calm, Undisturbed,
         Kept, SyncOnly
<1> QED BY <1>4, <1>5, <1>6, <1>7, <1>8, <1>9, <1>10

LEMMA FinalDeductionKeeps ==
  ASSUME Inv, NEW w \in Workers, FinalDeduction(w), Quiet
  PROVE  Orderly'
<1>1. Goes(w, "finalOk", job[w].take, job[w].answer)
  BY GotoMoves DEF Inv, FinalDeduction, Points, Finalizing
<1>2. SyncOnly'
  BY DEF Inv, FinalDeduction, SyncOnly
<1>3. Serial'
  BY <1>1 DEF Inv, FinalDeduction, Goes, Serial
<1>4. Exclusive'
  BY <1>1 DEF Inv, FinalDeduction, Goes, Exclusive
<1>5. Refunded'
  BY DEF Inv, FinalDeduction, Refunded
<1>6. Recorded'
  BY DEF Inv, FinalDeduction, Recorded, SyncOnly
<1>7. EnoughTaken'
  BY <1>1, Deducts
     DEF Inv, TypeOK, FinalDeduction, Goes, EnoughTaken, Exclusive, Refunded
<1>8. OnceTaken'
  BY <1>1, Deducts
     DEF Inv, FinalDeduction, Goes, OnceTaken, Calm, Undisturbed, Kept,
         Exclusive, SyncOnly, Serial, Refundable
<1> QED BY <1>2, <1>3, <1>4, <1>5, <1>6, <1>7, <1>8

LEMMA StatementFailsKeeps ==
  ASSUME Inv, NEW w \in Workers, StatementFails(w), Fault("error")
  PROVE  Orderly'
<1>1. \/ At(w, "deduct") /\ Goes(w, "restore", job[w].take, job[w].answer)
      \/ Ends(w)
  BY GotoMoves, ReturnMoves DEF Inv, StatementFails, Points, Executing
<1>2. SyncOnly'
  BY <1>1 DEF Inv, StatementFails, Goes, Ends, SyncOnly
<1>3. Serial'
  BY <1>1 DEF Inv, Goes, Ends, Serial
<1>4. Exclusive'
  BY <1>1 DEF Inv, StatementFails, Goes, Ends, Exclusive
<1>5. Refunded'
  BY <1>1 DEF Inv, StatementFails, Goes, Ends, Refunded
<1>6. Recorded'
  BY <1>1 DEF Inv, StatementFails, Ends, Recorded
<1>7. EnoughTaken'
  BY <1>1 DEF Inv, StatementFails, Goes, Ends, EnoughTaken, Noted
<1>8. OnceTaken'
  BY <1>1
     DEF Inv, TypeOK, StatementFails, Goes, Ends, OnceTaken, Calm, Undisturbed,
         AllFaults, Kept, SyncOnly
<1> QED BY <1>2, <1>3, <1>4, <1>5, <1>6, <1>7, <1>8

LEMMA GatewayReplyLostKeeps ==
  ASSUME Inv, NEW w \in Workers, GatewayReplyLost(w), Fault("reply")
  PROVE  Orderly'
<1>1. Goes(w, "rollback", job[w].take, "failed")
  BY AnswerMoves DEF Inv, GatewayReplyLost
<1>2. SyncOnly'
  BY DEF Inv, TypeOK, GatewayReplyLost, SyncOnly
<1>3. Serial'
  BY DEF Inv, TypeOK, GatewayReplyLost, Serial
<1>4. Exclusive'
  BY DEF Inv, TypeOK, GatewayReplyLost, Exclusive
<1>5. Refunded'
  BY DEF Inv, TypeOK, GatewayReplyLost, Refunded
<1>6. Recorded'
  BY DEF Inv, TypeOK, AllFaults, Recorded
<1>7. EnoughTaken'
  BY DEF Inv, TypeOK, GatewayReplyLost, EnoughTaken, Noted
<1>8. OnceTaken'
  BY DEF Inv, TypeOK, GatewayReplyLost, OnceTaken, Calm, Undisturbed, Kept
<1> QED BY <1>2, <1>3, <1>4, <1>5, <1>6, <1>7, <1>8

LEMMA AbandonKeeps ==
  ASSUME Inv, NEW w \in Workers, Abandon(w), Fault("abandon")
  PROVE  Orderly'
<1>1. Ends(w)
  BY ReturnMoves DEF Inv, Abandon
<1>2. SyncOnly'
  BY <1>1 DEF Inv, Abandon, Ends, SyncOnly
<1>3. Serial'
  BY <1>1 DEF Inv, Ends, Serial
<1>4. Exclusive'
  BY <1>1 DEF Inv, Abandon, Ends, Exclusive
<1>5. Refunded'
  BY <1>1 DEF Inv, Abandon, Ends, Refunded
<1>6. Recorded'
  BY <1>1 DEF Inv, Abandon, Ends, Recorded
<1>7. EnoughTaken'
  BY <1>1 DEF Inv, Abandon, Ends, EnoughTaken, Noted
<1>8. OnceTaken'
  BY <1>1
     DEF Inv, TypeOK, Abandon, Ends, OnceTaken, Calm, Undisturbed, AllFaults,
         Kept, SyncOnly
<1> QED BY <1>2, <1>3, <1>4, <1>5, <1>6, <1>7, <1>8

LEMMA AuditFailsKeeps ==
  ASSUME Inv, NEW w \in Workers, AuditFails(w), Fault("audit")
  PROVE  Orderly'
<1>0. /\ UNCHANGED <<async, traced, status, gateway, audit, note>>
      /\ faults' \in [AllFaults -> Nat] /\ faults'["audit"] > 0
      /\ faults'["reply"] = faults["reply"]
  <2>1. UNCHANGED <<async, traced, status, gateway, audit, note>>
    BY DEF AuditFails
  <2>2. /\ faults' = [faults EXCEPT !["audit"] = @ + 1]
        /\ faults \in [AllFaults -> Nat]
    BY DEF Inv, TypeOK
  <2> QED BY <2>1, <2>2 DEF AllFaults
<1>1. CASE /\ job[w].at \in {"pendingLog", "okLog", "finalLog"} /\ Return(w)
            /\ keepUser
  <2>1. Ends(w)
    BY <1>1, ReturnMoves DEF Inv
  <2>2. SyncOnly'
    BY <1>0, <2>1 DEF Inv, Ends, SyncOnly
  <2>3. Serial'
    BY <2>1 DEF Inv, Ends, Serial
  <2>4. Exclusive'
    BY <1>0, <2>1 DEF Inv, Ends, Exclusive
  <2>5. Refunded'
    BY <1>0, <2>1 DEF Inv, Ends, Refunded
  <2>6. Recorded'
    BY <1>0, <2>1 DEF Inv, Ends, Recorded
  <2>7. EnoughTaken'
    BY <1>0, <1>1, <2>1 DEF Inv, Ends, EnoughTaken, Noted
  <2>8. OnceTaken'
    BY DEF Inv, TypeOK, OnceTaken, Calm, AllFaults
  <2> QED BY <2>2, <2>3, <2>4, <2>5, <2>6, <2>7, <2>8
<1>2. CASE At(w, "deduct") /\ Deduct /\ Goto(w, "gateway")
  <2>1. Goes(w, "gateway", job[w].take, job[w].answer)
    BY <1>2, GotoMoves DEF Inv, Points, Executing
  <2>2. SyncOnly'
    BY <1>0, <2>1 DEF Inv, Goes, SyncOnly
  <2>3. Serial'
    BY <1>2, <2>1 DEF Inv, Goes, Serial
  <2>4. Exclusive'
    BY <1>0, <1>2, <2>1 DEF Inv, Goes, Exclusive
  <2>5. Refunded'
    BY <1>0, <2>1 DEF Inv, Goes, Refunded
  <2>6. Recorded'
    BY <1>0, <1>2 DEF Inv, Recorded
  <2>7. EnoughTaken'
    BY <1>0, <1>2, <2>1, Deducts DEF Inv, TypeOK, Goes, EnoughTaken, Noted
  <2>8. OnceTaken'
    BY DEF Inv, TypeOK, OnceTaken, Calm, AllFaults
  <2> QED BY <2>2, <2>3, <2>4, <2>5, <2>6, <2>7, <2>8
<1>3. CASE /\ At(w, "rollback") /\ job[w].take /\ keepUser
           /\ Goto(w, AfterRollback(w, FALSE))
  <2>1. Goes(w, IF job[w].answer = "pending" THEN "keep" ELSE "fail",
             job[w].take, job[w].answer)
    BY <1>3, GotoMoves DEF Inv, AfterRollback, Points, Executing
  <2>2. SyncOnly'
    BY <1>0, <2>1 DEF Inv, Goes, SyncOnly
  <2>3. Serial'
    BY <1>3, <2>1 DEF Inv, Goes, Serial
  <2>4. Exclusive'
    BY <1>0, <1>3, <2>1 DEF Inv, Goes, Exclusive
  <2>5. Refunded'
    BY <1>0, <2>1 DEF Inv, Goes, Refunded
  <2>6. Recorded'
    BY <1>0, <1>3 DEF Inv, Recorded
  <2>7. EnoughTaken'
    BY <1>3, <2>1 DEF Inv, Goes, EnoughTaken, Exclusive
  <2>8. OnceTaken'
    BY DEF Inv, TypeOK, OnceTaken, Calm, AllFaults
  <2> QED BY <2>2, <2>3, <2>4, <2>5, <2>6, <2>7, <2>8
<1> QED BY <1>1, <1>2, <1>3 DEF AuditFails

LEMMA PrepareRefundKeeps ==
  ASSUME Inv, NEW w \in Workers, NEW want \in BOOLEAN, PrepareRefund(w, want),
         Quiet, async => \A v \in Workers : At(v, "idle")
  PROVE  Orderly'
<1>1. /\ job' \in [Workers -> Jobs]
      /\ job'[w] = [at |-> "lock", was |-> status, want |-> want,
                    take |-> want, answer |-> "none"]
      /\ \A v \in Workers : v # w => job'[v] = job[v]
  BY DEF Inv, TypeOK, PrepareRefund, Jobs, Points
<1>2. SyncOnly'
  BY DEF Inv, SyncOnly, PrepareRefund
<1>3. Serial'
  BY DEF Inv, Serial, PrepareRefund
<1>4. Exclusive'
  BY DEF Inv, Exclusive, PrepareRefund
<1>5. Refunded'
  BY DEF Inv, Refunded, PrepareRefund
<1>6. Recorded'
  BY DEF Inv, Recorded, PrepareRefund
<1>7. EnoughTaken'
  BY DEF Inv, EnoughTaken, Noted, PrepareRefund
<1>8. OnceTaken'
  BY DEF Inv, OnceTaken, Calm, Undisturbed, Kept, PrepareRefund
<1> QED BY <1>2, <1>3, <1>4, <1>5, <1>6, <1>7, <1>8

LEMMA FinalizeRefundKeeps ==
  ASSUME Inv, NEW w \in Workers, FinalizeRefund(w),
         Quiet, async => \A v \in Workers : At(v, "idle")
  PROVE  Orderly'
<1>1. /\ job' \in [Workers -> Jobs]
      /\ job'[w] = [at |-> "note", was |-> status, want |-> TRUE,
                    take |-> FALSE, answer |-> "none"]
      /\ \A v \in Workers : v # w => job'[v] = job[v]
  BY DEF Inv, TypeOK, FinalizeRefund, Jobs, Points, Finalizing
<1>2. SyncOnly'
  BY DEF Inv, SyncOnly, FinalizeRefund
<1>3. Serial'
  BY DEF Inv, Serial, FinalizeRefund
<1>4. Exclusive'
  BY DEF Inv, Exclusive, FinalizeRefund
<1>5. Refunded'
  BY DEF Inv, Refunded, FinalizeRefund
<1>6. Recorded'
  BY DEF Inv, Recorded, FinalizeRefund
<1>7. EnoughTaken'
  BY <1>1 DEF Inv, EnoughTaken, Noted, FinalizeRefund
<1>8. OnceTaken'
  BY DEF Inv, OnceTaken, Calm, Undisturbed, Kept, FinalizeRefund
<1> QED BY <1>2, <1>3, <1>4, <1>5, <1>6, <1>7, <1>8

LEMMA RequestRefundKeeps ==
  ASSUME Inv, RequestRefund, Quiet
  PROVE  Orderly'
<1>1. SyncOnly' /\ Serial' /\ Exclusive' /\ Refunded' /\ Recorded'
  BY DEF Inv, SyncOnly, Serial, Exclusive, Refunded, Recorded, RequestRefund
<1>2. EnoughTaken'
  BY DEF Inv, EnoughTaken, Noted, RequestRefund
<1>3. OnceTaken'
  BY DEF Inv, OnceTaken, Calm, Undisturbed, Kept, Refundable, RequestRefund
<1> QED BY <1>1, <1>2, <1>3

LEMMA SettleKeeps ==
  ASSUME Inv, Settle
  PROVE  Orderly'
<1>1. SyncOnly' /\ Serial' /\ Exclusive' /\ Refunded' /\ Recorded'
  BY DEF Inv, SyncOnly, Serial, Exclusive, Refunded, Recorded, Settle,
     GatewaySettles
<1>2. EnoughTaken'
  BY DEF Inv, EnoughTaken, Noted, Settle, GatewaySettles
<1>3. OnceTaken'
  BY DEF Inv, OnceTaken, Calm, Undisturbed, Kept, Settle, GatewaySettles
<1> QED BY <1>1, <1>2, <1>3

LEMMA StutterKeeps ==
  ASSUME Inv, UNCHANGED vars
  PROVE  Orderly'
<1>1. SyncOnly' /\ Serial' /\ Exclusive' /\ Refunded' /\ Recorded'
  BY DEF Inv, SyncOnly, Serial, Exclusive, Refunded, Recorded, vars
<1>2. EnoughTaken'
  BY DEF Inv, EnoughTaken, Noted, vars
<1>3. OnceTaken'
  BY DEF Inv, OnceTaken, Calm, Undisturbed, Kept, vars
<1> QED BY <1>1, <1>2, <1>3

-----------------------------------------------------------------------------
(* The row of the worker that moves stays a job, whatever it does. *)
LEMMA RowsTyped ==
  ASSUME TypeOK, NEW w \in Workers,
         \/ Continue(w) \/ StatementFails(w) \/ RollbackFailed(w)
         \/ AuditFails(w) \/ GatewayReplyLost(w) \/ Abandon(w)
  PROVE  job' \in [Workers -> Jobs]
<1>1. ASSUME NEW point \in Points, Goto(w, point)
      PROVE  job' \in [Workers -> Jobs]
  BY <1>1, GotoMoves DEF Goes
<1>2. CASE Return(w)
  BY <1>2, ReturnMoves DEF Ends
<1>3. CASE LockRefund(w) \/ DeductFirst(w) \/ QueryRefund(w)
  BY <1>1, <1>2, <1>3, TakeMoves
     DEF LockRefund, DeductFirst, QueryRefund, Goes, TypeOK, Jobs, Points,
         Executing, Finalizing
<1>4. CASE \/ GatewaySkipped(w) \/ GatewayRefunds(w) \/ GatewayPending(w)
           \/ GatewayRefuses(w) \/ GatewayReplyLost(w)
  BY <1>1, <1>4, AnswerMoves
     DEF GatewaySkipped, GatewayRefunds, GatewayPending, GatewayRefuses,
         GatewayReplyLost, Goes, Points, Executing
<1>5. CASE \/ RollbackRefund(w) \/ RollbackFailed(w) \/ AuditFails(w)
           \/ StatementFails(w) \/ FinalDeduction(w) \/ MarkRefundOk(w)
  BY <1>1, <1>2, <1>5
     DEF RollbackRefund, RollbackFailed, AuditFails, StatementFails,
         FinalDeduction, MarkRefundOk, AfterRollback, Points, Executing,
         Finalizing
<1>6. CASE MarkRefundPending(w) \/ ReadPendingNote(w)
  BY <1>6, TakeMoves
     DEF MarkRefundPending, ReadPendingNote, Goes, TypeOK, Points, Executing,
         Finalizing
<1>7. CASE \/ RestoreStatus(w) \/ MarkRefundFailed(w) \/ LogRefundOk(w)
           \/ LogRefundPending(w) \/ Abandon(w)
  BY <1>2, <1>7
     DEF RestoreStatus, MarkRefundFailed, LogRefundOk, LogRefundPending,
         Abandon
<1> QED BY <1>3, <1>4, <1>5, <1>6, <1>7 DEF Continue

(* So does all that its steps write elsewhere. *)
LEMMA WritesTyped ==
  ASSUME TypeOK, NEW w \in Workers,
         \/ Continue(w) \/ StatementFails(w) \/ RollbackFailed(w)
         \/ AuditFails(w) \/ GatewayReplyLost(w) \/ Abandon(w)
  PROVE  /\ status' \in Statuses
         /\ taken' \in Int
         /\ revoked' \in BOOLEAN
         /\ gateway' \in {"none", "pending", "refunded", "refused"}
         /\ audit' \subseteq {"ROLLBACK_FAILED", "SUCCESS"}
         /\ note' \in BOOLEAN
<1>1. CASE DeductFirst(w) \/ FinalDeduction(w) \/ AuditFails(w)
  BY <1>1, Deducts DEF TypeOK, DeductFirst, FinalDeduction, AuditFails
<1>2. CASE \/ GatewaySkipped(w) \/ GatewayRefunds(w) \/ GatewayPending(w)
           \/ GatewayRefuses(w) \/ GatewayReplyLost(w)
  BY <1>2
     DEF TypeOK, GatewaySkipped, GatewayRefunds, GatewayPending,
         GatewayRefuses, GatewayReplyLost
<1>3. CASE RollbackRefund(w)
  <2>1. taken' \in Int /\ UNCHANGED <<status, gateway, revoked, audit, note>>
    BY <1>3 DEF TypeOK, RollbackRefund
  <2> QED BY <2>1 DEF TypeOK
<1>4. CASE \/ LockRefund(w) \/ RestoreStatus(w) \/ MarkRefundFailed(w)
           \/ MarkRefundPending(w) \/ MarkRefundOk(w)
  BY <1>4
     DEF TypeOK, LockRefund, RestoreStatus, MarkRefundFailed,
         MarkRefundPending, MarkRefundOk, Statuses
<1>5. CASE \/ LogRefundPending(w) \/ LogRefundOk(w) \/ ReadPendingNote(w)
           \/ QueryRefund(w) \/ StatementFails(w) \/ Abandon(w)
  BY <1>5
     DEF TypeOK, LogRefundPending, LogRefundOk, ReadPendingNote, QueryRefund,
         StatementFails, Abandon
<1>6. CASE RollbackFailed(w)
  <2>1. /\ audit' = audit \cup {"ROLLBACK_FAILED"}
        /\ UNCHANGED <<status, gateway, taken, revoked, note>>
    BY <1>6 DEF RollbackFailed
  <2> QED BY <2>1 DEF TypeOK
<1> QED BY <1>1, <1>2, <1>3, <1>4, <1>5, <1>6 DEF Continue

LEMMA FaultTyped ==
  ASSUME TypeOK, NEW kind, Fault(kind)
  PROVE  faults' \in [AllFaults -> Nat]
<1>1. kind \in AllFaults
  BY FaultsAssumption
<1>2. faults[kind] + 1 \in Nat
  BY <1>1 DEF TypeOK
<1> QED BY <1>1, <1>2 DEF TypeOK

LEMMA BeginTyped ==
  ASSUME TypeOK, NEW w \in Workers,
         (\E want \in BOOLEAN : PrepareRefund(w, want)) \/ FinalizeRefund(w)
  PROVE  /\ job' \in [Workers -> Jobs]
         /\ UNCHANGED <<status, taken, revoked, gateway, audit, note>>
<1>1. ASSUME NEW want \in BOOLEAN, PrepareRefund(w, want)
      PROVE  job' \in [Workers -> Jobs]
  BY <1>1 DEF PrepareRefund, TypeOK, Jobs, Points
<1>2. CASE FinalizeRefund(w)
  BY <1>2 DEF FinalizeRefund, TypeOK, Jobs, Points, Finalizing
<1> QED BY <1>1, <1>2 DEF PrepareRefund, FinalizeRefund

LEMMA TypeStep ==
  ASSUME TypeOK, [Next]_vars
  PROVE  TypeOK'
<1>1. CASE UNCHANGED vars
  BY <1>1 DEF vars, TypeOK
<1>2. ASSUME NEW w \in Workers, Proceed(w)
      PROVE  TypeOK'
  <2>1. job' \in [Workers -> Jobs]
    BY <1>2, RowsTyped DEF Proceed
  <2> QED BY <1>2, <2>1, WritesTyped DEF Proceed, TypeOK
<1>3. ASSUME NEW w \in Workers, Disturb(w)
      PROVE  TypeOK'
  <2>1. job' \in [Workers -> Jobs]
    BY <1>3, RowsTyped DEF Disturb
  <2>2. faults' \in [AllFaults -> Nat] /\ UNCHANGED <<async, traced, crossed>>
    BY <1>3, FaultTyped DEF Disturb
  <2>3. /\ status' \in Statuses /\ taken' \in Int /\ revoked' \in BOOLEAN
        /\ gateway' \in {"none", "pending", "refunded", "refused"}
        /\ audit' \subseteq {"ROLLBACK_FAILED", "SUCCESS"} /\ note' \in BOOLEAN
    BY <1>3, WritesTyped DEF Disturb
  <2> QED BY <2>1, <2>2, <2>3 DEF TypeOK
<1>4. ASSUME NEW w \in Workers, Begin(w), Quiet
      PROVE  TypeOK'
  <2>1. crossed' \in Nat
    BY <1>4 DEF Begin, TypeOK
  <2> QED BY <1>4, <2>1, BeginTyped DEF Begin, TypeOK
<1>5. CASE Request
  BY <1>4, <1>5 DEF Request, RequestRefund, TypeOK, Statuses
<1>6. CASE Settle
  BY <1>6 DEF Settle, GatewaySettles, TypeOK
<1> QED BY <1>1, <1>2, <1>3, <1>5, <1>6 DEF Next

-----------------------------------------------------------------------------
LEMMA InitInv ==
  ASSUME Init
  PROVE  IInv
<1>0. Idle \in Jobs
  BY DEF Idle, Jobs, Points, Statuses
<1>1. TypeOK
  <2>1. async \in BOOLEAN /\ traced \in BOOLEAN
    BY OrderAssumption DEF Init
  <2>2. job \in [Workers -> Jobs]
    <3>1. job = [w \in Workers |-> Idle]
      BY DEF Init
    <3> QED BY <3>1, <1>0
  <2>3. faults \in [AllFaults -> Nat] /\ crossed \in Nat
    BY DEF Init
  <2>4. /\ status \in Statuses /\ taken \in Int /\ audit = {}
        /\ gateway = "none" /\ revoked = FALSE /\ note = TRUE
    BY DEF Init, Statuses
  <2> QED BY <2>1, <2>2, <2>3, <2>4 DEF TypeOK
<1>2. SyncOnly /\ Serial /\ Exclusive /\ Refunded /\ Recorded
  BY DEF SyncOnly, Serial, Exclusive, Refunded, Recorded, Init, Idle
<1>3. EnoughTaken
  BY DEF EnoughTaken, Noted, Init, Idle
<1>4. OnceTaken
  BY DEF OnceTaken, Kept, Init, Idle
<1>5. crossed = 0
  BY DEF Init
<1> QED BY <1>1, <1>2, <1>3, <1>4, <1>5 DEF IInv

LEMMA ProceedKeeps ==
  ASSUME Inv, NEW w \in Workers, Proceed(w)
  PROVE  Orderly'
<1>0. Quiet /\ Continue(w)
  BY DEF Proceed
<1>1. CASE revoked /\ RollbackFailed(w)
  BY <1>0, <1>1, RollbackFailedKeeps
<1>2. CASE LockRefund(w) \/ DeductFirst(w) \/ GatewaySkipped(w)
  BY <1>0, <1>2, LockRefundKeeps, DeductFirstKeeps, GatewaySkippedKeeps
<1>3. CASE GatewayRefunds(w) \/ GatewayPending(w) \/ GatewayRefuses(w)
  BY <1>0, <1>3, GatewayRefundsKeeps, GatewayPendingKeeps, GatewayRefusesKeeps
<1>4. CASE RollbackRefund(w) \/ RestoreStatus(w) \/ MarkRefundFailed(w)
  BY <1>0, <1>4, RollbackRefundKeeps, RestoreStatusKeeps, MarkRefundFailedKeeps
<1>5. CASE MarkRefundPending(w) \/ LogRefundPending(w)
  BY <1>0, <1>5, MarkRefundPendingKeeps, LogRefundPendingKeeps
<1>6. CASE MarkRefundOk(w) \/ LogRefundOk(w)
  BY <1>0, <1>6, MarkRefundOkKeeps, LogRefundOkKeeps
<1>7. CASE ReadPendingNote(w) \/ QueryRefund(w) \/ FinalDeduction(w)
  BY <1>0, <1>7, ReadPendingNoteKeeps, QueryRefundKeeps, FinalDeductionKeeps
<1> HIDE DEF Orderly
<1> QED BY <1>0, <1>1, <1>2, <1>3, <1>4, <1>5, <1>6, <1>7 DEF Continue

LEMMA DisturbKeeps ==
  ASSUME Inv, NEW w \in Workers, Disturb(w)
  PROVE  Orderly'
<1> HIDE DEF Orderly
<1> QED
  BY StatementFailsKeeps, RollbackFailedKeeps, AuditFailsKeeps,
     GatewayReplyLostKeeps, AbandonKeeps DEF Disturb

(* A call that crosses no other one finds nobody at work on a refund that  *)
(* may be pending.                                                         *)
LEMMA RequestKeeps ==
  ASSUME Inv, Request, crossed = 0, crossed' = 0
  PROVE  Orderly'
<1>0. Quiet
  BY DEF Request
<1>1. CASE RequestRefund
  BY <1>0, <1>1, RequestRefundKeeps
<1>2. ASSUME NEW w \in Workers, Begin(w)
      PROVE  Orderly'
  <2>1. async => \A v \in Workers : At(v, "idle")
    BY <1>2 DEF Begin
  <2> HIDE DEF Orderly
  <2> QED BY <1>0, <1>2, <2>1, PrepareRefundKeeps, FinalizeRefundKeeps DEF Begin
<1> QED BY <1>1, <1>2 DEF Request

LEMMA CrossedStep ==
  ASSUME TypeOK, [Next]_vars
  PROVE  /\ crossed' = 0 => crossed = 0
         /\ async' = async
         /\ crossed' # crossed => async
<1>1. ASSUME NEW w \in Workers, Begin(w)
      PROVE  crossed' = crossed \/ (crossed' = crossed + 1 /\ async)
  BY <1>1 DEF Begin
<1>2. \/ crossed' = crossed
      \/ crossed' = crossed + 1 /\ async
  BY <1>1 DEF Next, Proceed, Disturb, Request, Settle, vars
<1>3. async' = async
  BY DEF Next, Proceed, Disturb, Request, Settle, vars
<1> QED BY <1>2, <1>3 DEF TypeOK

LEMMA StepInv ==
  ASSUME IInv, [Next]_vars
  PROVE  IInv'
<1>1. TypeOK'
  BY TypeStep DEF IInv
<1>2. crossed' # 0 => async'
  BY CrossedStep DEF IInv
<1>3. ASSUME crossed' = 0
      PROVE  Orderly'
  <2>1. Inv /\ crossed = 0
    BY <1>3, CrossedStep DEF IInv, Inv
  <2> HIDE DEF Orderly
  <2> QED
    BY <1>3, <2>1, ProceedKeeps, DisturbKeeps, RequestKeeps, SettleKeeps,
       StutterKeeps DEF Next
<1> QED BY <1>1, <1>2, <1>3 DEF IInv

LEMMA Invariance == Spec => []IInv
<1>1. Init => IInv
  BY InitInv
<1>2. IInv /\ [Next]_vars => IInv'
  BY StepInv
<1> QED BY <1>1, <1>2, PTL DEF Spec

-----------------------------------------------------------------------------
(* Every variable keeps the type its declaration in PaymentRefund says.    *)
THEOREM TypeCorrect == Spec => []TypeOK
<1>1. IInv => TypeOK
  BY DEF IInv
<1> QED BY <1>1, Invariance, PTL

(* ExecuteRefund and QueryAndFinalizeRefund take the amount from the user  *)
(* once, through any number of attempts, failures and crashes, as long as  *)
(* the audit log works (and, for a refund that may be pending, nothing     *)
(* fails and no call crosses another one).                                 *)
THEOREM TakenOnce == Spec => []DeductedOnce
<1>1. IInv => DeductedOnce
  BY DEF IInv, OnceTaken, Calm, DeductedOnce
<1> QED BY <1>1, Invariance, PTL

(* ExecuteRefund never offers an order again whose refund the provider has *)
(* reported as made: it stays in REFUNDING until it is REFUNDED.           *)
THEOREM RefundStaysRecorded == Spec => []RefundOnRecord
<1>1. IInv => RefundOnRecord
  BY DEF IInv, Recorded, RefundOnRecord
<1> QED BY <1>1, Invariance, PTL

(* markRefundOk is only reached with the user's share taken back if the    *)
(* plan asked for it, and after the provider's refund of every order that  *)
(* has a trade number, until calls cross on a refund that may be pending.  *)
THEOREM RefundMeansDeducted == Spec => RefundedIsDeducted
<1> DEFINE Paid == /\ traced => gateway = "refunded"
                   /\ \E w \in Workers : /\ job'[w] # job[w]
                                         /\ job[w].want => taken > 0
<1>1. IInv /\ [Next]_vars =>
        [crossed = 0 /\ status # "REFUNDED" /\ status' = "REFUNDED"
            => Paid]_vars
  <2> SUFFICES ASSUME Inv, Next, status # "REFUNDED", status' = "REFUNDED"
               PROVE  Paid
    BY DEF IInv, Inv
  <2>1. PICK w \in Workers : MarkRefundOk(w)
    BY DEF Next, Proceed, Continue, Disturb, Request, Begin, Settle,
       RequestRefund, PrepareRefund, FinalizeRefund, GatewaySettles,
       LockRefund, DeductFirst, GatewaySkipped, GatewayRefunds,
       GatewayPending, GatewayRefuses, RollbackRefund,
       RollbackFailed, RestoreStatus, MarkRefundFailed, MarkRefundPending,
       LogRefundPending, LogRefundOk, ReadPendingNote, QueryRefund,
       FinalDeduction, StatementFails, AuditFails, GatewayReplyLost, Abandon
  <2>2. job'[w].at \in {"okLog", "finalLog"}
    BY <2>1, GotoMoves
       DEF Inv, MarkRefundOk, Points, Executing, Finalizing, Goes
  <2>3. job'[w] # job[w]
    BY <2>1, <2>2 DEF MarkRefundOk
  <2>4. /\ traced => gateway = "refunded"
        /\ job[w].want => taken > 0
    BY <2>1 DEF Inv, TypeOK, Refunded, EnoughTaken, MarkRefundOk
  <2> QED BY <2>3, <2>4
<1> QED BY <1>1, Invariance, PTL DEF Spec, RefundedIsDeducted

(* No late rollback, restoreStatus, refusal or pending answer overwrites   *)
(* REFUNDED, until calls cross on a refund that may be pending.            *)
THEOREM RefundStays == Spec => RefundedIsFinal
<1>1. IInv /\ [Next]_vars =>
        [crossed = 0 /\ status = "REFUNDED" => status' = "REFUNDED"]_vars
  <2> SUFFICES ASSUME Inv, Next, status = "REFUNDED"
               PROVE  status' = "REFUNDED"
    BY DEF IInv, Inv
  <2>1. \A w \in Workers : job[w].at \notin Holding \cup Waiting
    BY DEF Inv, Exclusive
  <2> QED
    BY <2>1
       DEF Next, Proceed, Continue, Disturb, Request, Begin, Settle,
           RequestRefund, PrepareRefund, FinalizeRefund, GatewaySettles,
           LockRefund, DeductFirst, GatewaySkipped, GatewayRefunds,
           GatewayPending, GatewayRefuses,
           RollbackRefund, RollbackFailed, RestoreStatus, MarkRefundFailed,
           MarkRefundPending, LogRefundPending, MarkRefundOk, LogRefundOk,
           ReadPendingNote, QueryRefund, FinalDeduction, StatementFails,
           AuditFails, GatewayReplyLost, Abandon, Refundable
<1> QED BY <1>1, Invariance, PTL DEF Spec, RefundedIsFinal

-----------------------------------------------------------------------------
(***************************************************************************)
(* The refund keeps the account of RefundAccount.                          *)
(***************************************************************************)
Entry == Account!Next \/ UNCHANGED Account!vars

Same == UNCHANGED <<taken, gateway, status, async, traced>>

LEMMA NoEntry ==
  ASSUME Same
  PROVE  Entry
  BY DEF Same, Entry, Account!vars

(* Faults and crossings are only ever counted up, so that a reliable run   *)
(* has been so all the time.                                               *)
LEMMA ReliableSofar ==
  ASSUME TypeOK, [Next]_vars, Reliable'
  PROVE  Reliable
<1>1. async' = async /\ crossed = 0
  BY CrossedStep DEF Reliable
<1>2. \A kind \in AllFaults : faults'[kind] = 0 => faults[kind] = 0
  <2>1. CASE UNCHANGED faults
    BY <2>1
  <2>2. ASSUME NEW k \in AllFaults, Fault(k)
        PROVE  \A kind \in AllFaults : faults'[kind] = 0 => faults[kind] = 0
    BY <2>2 DEF TypeOK
  <2>3. QED
    BY <2>1, <2>2
       DEF vars, Next, Proceed, Disturb, Request, Settle, AllFaults
<1> QED BY <1>1, <1>2 DEF Reliable, Undisturbed, AllFaults

LEMMA ReliableIsCalm ==
  ASSUME Inv, Reliable
  PROVE  /\ OnceTaken /\ Calm
         /\ gateway = "refunded" /\ ~ async =>
              \A w \in Workers : Held(w) => At(w, "ok")
  BY DEF Inv, Reliable, Calm, Recorded

(* A deduction finds nothing deducted, and the account open. *)
LEMMA DeductEntry ==
  ASSUME Inv, Reliable, NEW w \in Workers, DeductFirst(w) \/ FinalDeduction(w),
         keepOrder
  PROVE  Entry
<1>1. CASE taken' = taken
  BY <1>1, NoEntry DEF DeductFirst, FinalDeduction, Same
<1>2. CASE DeductFirst(w) /\ taken' # taken
  <2>1. taken = 0
    BY <1>2, ReliableIsCalm DEF Inv, DeductFirst, OnceTaken, Kept
  <2>2. taken' = 1 /\ UNCHANGED <<gateway, status>>
    BY <1>2, <2>1, Deducts DEF Inv, DeductFirst
  <2>3. status # "REFUNDED" /\ (gateway = "refunded" => async)
    BY <1>2, ReliableIsCalm DEF Inv, DeductFirst, Exclusive
  <2> QED BY <2>1, <2>2, <2>3
          DEF Entry, Account!Next, Account!Deduct, Account!Open
<1>3. CASE FinalDeduction(w) /\ taken' # taken
  <2>1. At(w, "finalDeduct") /\ job[w].take /\ Deduct
    BY <1>3 DEF FinalDeduction
  <2>2. status = "REFUND_PENDING" /\ async
    BY <2>1 DEF Inv, Exclusive, SyncOnly
  <2>3. \A v \in Workers : ~ At(v, "finalOk")
    BY <2>1, <2>2 DEF Inv, Serial
  <2>4. taken = 0
    BY <2>1, <2>2, <2>3, ReliableIsCalm DEF OnceTaken, Refundable
  <2>5. taken' = 1 /\ UNCHANGED <<gateway, status>>
    BY <1>3, <2>1, <2>4, Deducts DEF Inv, FinalDeduction
  <2> QED BY <2>2, <2>4, <2>5
          DEF Entry, Account!Next, Account!Deduct, Account!Open
<1> QED BY <1>1, <1>2, <1>3

(* A rollback gives back what was deducted, before the provider has paid   *)
(* unless its answer was "pending".                                        *)
LEMMA UndoEntry ==
  ASSUME Inv, Reliable, NEW w \in Workers, RollbackRefund(w), keepOrder
  PROVE  Entry
<1>1. UNCHANGED <<gateway, status>>
  BY DEF RollbackRefund
<1>2. CASE ~ job[w].take
  BY <1>1, <1>2, NoEntry DEF RollbackRefund, Same
<1>3. CASE job[w].take
  <2>1. taken = 1 /\ taken' = 0
    BY <1>3, ReliableIsCalm DEF RollbackRefund, OnceTaken
  <2>2. status # "REFUNDED" /\ (gateway = "refunded" => async)
    BY ReliableIsCalm DEF Inv, RollbackRefund, Exclusive
  <2> QED BY <1>1, <2>1, <2>2
          DEF Entry, Account!Next, Account!Undo, Account!Open
<1> QED BY <1>2, <1>3

(* The provider pays back an order that is not refunded yet. *)
LEMMA PayBackEntry ==
  ASSUME Inv, keepOrder,
         GatewaySettles \/ \E w \in Workers : GatewayRefunds(w)
  PROVE  Entry
<1>1. traced /\ status # "REFUNDED" /\ gateway # "refunded"
  BY DEF Inv, GatewaySettles, GatewayRefunds, SyncOnly, Serial, Refunded,
         Exclusive
<1>2. UNCHANGED <<taken, status>>
  BY DEF GatewaySettles, GatewayRefunds
<1>3. CASE gateway' = "refunded"
  BY <1>1, <1>2, <1>3 DEF Entry, Account!Next, Account!PayBack
<1>4. CASE gateway' # "refunded"
  BY <1>1, <1>2, <1>4 DEF Entry, Account!vars
<1> QED BY <1>3, <1>4

LEMMA CloseEntry ==
  ASSUME Inv, NEW w \in Workers, MarkRefundOk(w), keepOrder
  PROVE  Entry
<1>1. traced => gateway = "refunded"
  BY DEF Inv, MarkRefundOk, Refunded
<1> QED BY <1>1 DEF MarkRefundOk, Entry, Account!Next, Account!Close

(* Of the other steps, none changes what the account is about. *)
LEMMA OtherEntry ==
  ASSUME Inv, keepOrder, UNCHANGED taken, gateway' # "refunded",
         gateway # "refunded", status # "REFUNDED", status' # "REFUNDED"
  PROVE  Entry
  BY DEF Entry, Account!vars

LEMMA ProceedEntry ==
  ASSUME Inv, Reliable, NEW w \in Workers, Proceed(w)
  PROVE  Entry
<1>0. keepOrder
  BY DEF Proceed
<1>1. CASE DeductFirst(w) \/ FinalDeduction(w) \/ RollbackRefund(w)
  BY <1>0, <1>1, DeductEntry, UndoEntry
<1>2. CASE GatewayRefunds(w) \/ MarkRefundOk(w)
  BY <1>0, <1>2, PayBackEntry, CloseEntry
<1>3. CASE GatewayPending(w)
  <2>1. status = "REFUNDING"
    BY <1>3 DEF Inv, GatewayPending, Exclusive
  <2> QED BY <1>0, <1>3, <2>1, OtherEntry DEF GatewayPending
<1>4. CASE \/ GatewaySkipped(w) \/ GatewayRefuses(w) \/ RollbackFailed(w)
           \/ LogRefundPending(w) \/ LogRefundOk(w) \/ ReadPendingNote(w)
           \/ QueryRefund(w)
  BY <1>0, <1>4, NoEntry
     DEF GatewaySkipped, GatewayRefuses, RollbackFailed, LogRefundPending,
         LogRefundOk, ReadPendingNote, QueryRefund, Same
<1>5. CASE \/ LockRefund(w) \/ RestoreStatus(w) \/ MarkRefundFailed(w)
           \/ MarkRefundPending(w)
  <2>1. UNCHANGED <<taken, gateway>>
    BY <1>5 DEF LockRefund, RestoreStatus, MarkRefundFailed, MarkRefundPending
  <2>2. \/ status # "REFUNDED" /\ status' # "REFUNDED"
        \/ UNCHANGED status
    BY <1>5 DEF Inv, Exclusive, LockRefund, RestoreStatus, MarkRefundFailed,
                MarkRefundPending, Refundable
  <2> QED BY <1>0, <2>1, <2>2 DEF Entry, Account!vars
<1> QED BY <1>1, <1>2, <1>3, <1>4, <1>5 DEF Proceed, Continue

LEMMA DisturbEntry ==
  ASSUME Inv, Reliable', NEW w \in Workers, Disturb(w)
  PROVE  Entry
<1>1. ~ Fault("audit") /\ ~ Fault("reply")
  BY DEF Inv, TypeOK, Reliable, AllFaults
<1> QED
  BY <1>1, NoEntry
     DEF Disturb, StatementFails, RollbackFailed, Abandon, Same

LEMMA RequestEntry ==
  ASSUME Inv, Request
  PROVE  Entry
<1>1. CASE RequestRefund
  BY <1>1 DEF Request, RequestRefund, Entry, Account!vars
<1>2. CASE ~ RequestRefund
  BY <1>2, NoEntry DEF Request, Begin, PrepareRefund, FinalizeRefund, Same
<1> QED BY <1>1, <1>2

(* Through any number of attempts, refusals, pending answers, crashes and  *)
(* repetitions the money moves as RefundAccount says, as long as the run   *)
(* is Reliable: the deduction is taken once and undone only while the      *)
(* provider has not paid, the provider pays an order with a trade number   *)
(* once, REFUNDED comes last.                                              *)
THEOREM RefundKeepsAccount == Spec => KeepsAccount
<1>1. Init => Account!Init
  BY OrderAssumption DEF Init, Account!Init
<1>2. IInv /\ [Next]_vars => [Account!Next \/ ~ Reliable']_(Account!vars)
  <2> SUFFICES ASSUME IInv, [Next]_vars, Reliable'
               PROVE  Entry
    BY DEF Entry
  <2>1. Reliable
    BY ReliableSofar DEF IInv
  <2>2. Inv
    BY <2>1 DEF IInv, Inv, Reliable
  <2>3. CASE UNCHANGED vars
    BY <2>3, NoEntry DEF vars, Same
  <2> QED
    BY <2>1, <2>2, <2>3, ProceedEntry, DisturbEntry, RequestEntry, PayBackEntry
       DEF Next, Settle
<1> QED BY <1>1, <1>2, Invariance, PTL DEF Spec, KeepsAccount
=============================================================================
