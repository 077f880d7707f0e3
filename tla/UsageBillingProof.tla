-------------------------- MODULE UsageBillingProof --------------------------
(***************************************************************************)
(* Proofs that the variables keep their types and that no usage record is  *)
(* billed twice, for any number of requests, any capacity of the write     *)
(* queue, any costs and any number of failures.                            *)
(*                                                                         *)
(* ChargedOnce is not inductive: a charge is a step of a transaction that  *)
(* looked for the key some steps earlier.  The invariant says what the     *)
(* transaction may rely on: it is the only one of its request, and the key *)
(* it did not find is still absent when it charges.                        *)
(***************************************************************************)
EXTENDS UsageBilling, SequenceTheorems, TLAPS

Points == {"none", "queued", "claimed", "commit", "sync"}

Records == [at : Points, new : Int]

(* The part of TypeOK that the argument needs. *)
RecordTypes ==
    /\ key \in [Requests -> {"none", "live", "archived"}]
    /\ charges \in [Requests -> Nat]
    /\ task \in [Requests -> [Copies -> Records]]
    /\ balance \in Int

(* A request without a key was never charged, and one with a key once. *)
KeyPerCharge ==
    \A r \in Requests : charges[r] = IF key[r] = "none" THEN 0 ELSE 1

(* The insert of a key waits for a transaction that has inserted it. *)
OneTransaction ==
    \A r \in Requests, i, j \in Copies :
        InTransaction(r, i) /\ InTransaction(r, j) => i = j

(* What an open transaction has found out about its key. *)
KeyUnclaimed ==
    \A r \in Requests, i \in Copies :
        /\ TaskAt(r, i, "claimed") => key[r] # "live"
        /\ TaskAt(r, i, "commit") => key[r] = "none"

BillInv == RecordTypes /\ KeyPerCharge /\ OneTransaction /\ KeyUnclaimed

-----------------------------------------------------------------------------
LEMMA LessType == \A amount \in Int : Less(amount) \in Int
  BY BillingAssumption DEF Less, Floor

(* The actions that leave keys, charges and transactions alone, and at     *)
(* most end or queue a task.                                               *)
Untouched == UNCHANGED <<key, charges, task>> /\ balance' \in Int

LEMMA UntouchedKeeps == BillInv /\ Untouched => BillInv'
  BY DEF BillInv, RecordTypes, KeyPerCharge, OneTransaction, KeyUnclaimed,
         Untouched, InTransaction, TaskAt

(* A step of one task leaves the others where they are. *)
LEMMA TaskMoves ==
  ASSUME RecordTypes, NEW r \in Requests, NEW i \in Copies, NEW t \in Records,
         task' = [task EXCEPT ![r][i] = t]
  PROVE  /\ task' \in [Requests -> [Copies -> Records]]
         /\ \A q \in Requests, j \in Copies :
               task'[q][j] = IF q = r /\ j = i THEN t ELSE task[q][j]
<1> DEFINE own == [task[r] EXCEPT ![i] = t]
<1>1. /\ task \in [Requests -> [Copies -> Records]]
      /\ task[r] \in [Copies -> Records]
  BY DEF RecordTypes
<1>2. own \in [Copies -> Records]
      /\ \A j \in Copies : own[j] = IF j = i THEN t ELSE task[r][j]
  BY <1>1
<1>3. task' = [task EXCEPT ![r] = own]
  BY <1>1
<1> HIDE DEF own
<1> QED BY <1>1, <1>2, <1>3

LEMMA EndTaskMoves ==
  ASSUME RecordTypes, NEW r \in Requests, NEW i \in Copies, EndTask(r, i)
  PROVE  /\ task' \in [Requests -> [Copies -> Records]]
         /\ \A q \in Requests, j \in Copies :
               task'[q][j].at = IF q = r /\ j = i THEN "none" ELSE task[q][j].at
<1>1. NoTask \in Records /\ NoTask.at = "none"
  BY DEF NoTask, Records, Points
<1>2. task' = [task EXCEPT ![r][i] = NoTask]
  BY DEF EndTask
<1> QED BY <1>1, <1>2, TaskMoves

LEMMA TaskGotoMoves ==
  ASSUME RecordTypes, NEW r \in Requests, NEW i \in Copies,
         NEW point \in Points, TaskGoto(r, i, point)
  PROVE  /\ task' \in [Requests -> [Copies -> Records]]
         /\ \A q \in Requests, j \in Copies :
               task'[q][j].at = IF q = r /\ j = i THEN point ELSE task[q][j].at
<1> DEFINE t == [task[r][i] EXCEPT !.at = point]
<1>1. task[r][i] \in Records
  BY DEF RecordTypes
<1>2. t \in Records /\ t.at = point
  BY <1>1 DEF Records
<1>3. task' = [task EXCEPT ![r][i] = t]
  BY DEF TaskGoto
<1> HIDE DEF t
<1> QED BY <1>2, <1>3, TaskMoves

(* A task of a record ends, or is queued, without a charge. *)
LEMMA TaskOnly ==
  ASSUME BillInv, NEW r \in Requests, NEW i \in Copies,
         EndTask(r, i) \/ TaskGoto(r, i, "queued"),
         UNCHANGED accounts
  PROVE  BillInv'
<1>0. RecordTypes /\ "queued" \in Points
  BY DEF BillInv, Points
<1>1. /\ task' \in [Requests -> [Copies -> Records]]
      /\ \A q \in Requests, j \in Copies :
            \/ task'[q][j].at = task[q][j].at
            \/ task'[q][j].at \in {"none", "queued"}
  BY <1>0, EndTaskMoves, TaskGotoMoves
<1>2. \A q \in Requests, j \in Copies :
        /\ TaskAt(q, j, "claimed")' => TaskAt(q, j, "claimed")
        /\ TaskAt(q, j, "commit")' => TaskAt(q, j, "commit")
  BY <1>1 DEF TaskAt
<1>3. RecordTypes'
  BY <1>1 DEF BillInv, RecordTypes, accounts
<1> QED BY <1>2, <1>3
        DEF BillInv, KeyPerCharge, OneTransaction, InTransaction, KeyUnclaimed,
            accounts

LEMMA ClaimKeeps ==
  ASSUME BillInv, NEW r \in Requests, NEW i \in Copies, Claim(r, i)
  PROVE  BillInv'
<1>1. CASE key[r] = "live"
  BY <1>1, TaskOnly DEF Claim
<1>2. CASE key[r] # "live"
  <2>1. TaskGoto(r, i, "claimed") /\ UNCHANGED accounts
    BY <1>2 DEF Claim
  <2>2. \A j \in Copies : ~ InTransaction(r, j)
    BY DEF Claim
  <2>3. /\ task' \in [Requests -> [Copies -> Records]]
        /\ \A q \in Requests, j \in Copies :
              task'[q][j].at = IF q = r /\ j = i THEN "claimed"
                                                ELSE task[q][j].at
    BY <2>1, TaskGotoMoves DEF BillInv, Points
  <2>4. RecordTypes'
    BY <2>1, <2>3 DEF BillInv, RecordTypes, accounts
  <2>5. OneTransaction'
    BY <2>2, <2>3 DEF BillInv, OneTransaction, InTransaction, TaskAt
  <2>6. KeyUnclaimed'
    BY <1>2, <2>1, <2>3 DEF BillInv, KeyUnclaimed, TaskAt, accounts
  <2> QED BY <2>1, <2>4, <2>5, <2>6 DEF BillInv, KeyPerCharge, accounts
<1> QED BY <1>1, <1>2

LEMMA LookKeeps ==
  ASSUME BillInv, NEW r \in Requests, NEW i \in Copies, Look(r, i)
  PROVE  BillInv'
<1>1. CASE key[r] = "archived"
  BY <1>1, TaskOnly DEF Look
<1>2. CASE key[r] # "archived"
  <2>1. /\ TaskGoto(r, i, "commit") /\ UNCHANGED accounts
        /\ TaskAt(r, i, "claimed")
    BY <1>2 DEF Look
  <2>2. key[r] = "none"
    BY <1>2, <2>1 DEF BillInv, RecordTypes, KeyUnclaimed
  <2>3. /\ task' \in [Requests -> [Copies -> Records]]
        /\ \A q \in Requests, j \in Copies :
              task'[q][j].at = IF q = r /\ j = i THEN "commit"
                                                ELSE task[q][j].at
    BY <2>1, TaskGotoMoves DEF BillInv, Points
  <2>4. RecordTypes'
    BY <2>1, <2>3 DEF BillInv, RecordTypes, accounts
  <2>5. OneTransaction'
    BY <2>1, <2>3 DEF BillInv, OneTransaction, InTransaction, TaskAt
  <2>6. KeyUnclaimed'
    BY <2>1, <2>2, <2>3 DEF BillInv, KeyUnclaimed, TaskAt, accounts
  <2> QED BY <2>1, <2>4, <2>5, <2>6 DEF BillInv, KeyPerCharge, accounts
<1> QED BY <1>1, <1>2

(* The only step that charges: its own key is absent, and no other         *)
(* transaction of the request is open to charge once more.                 *)
LEMMA ChargeKeeps ==
  ASSUME BillInv, NEW r \in Requests, NEW i \in Copies,
         TaskAt(r, i, "commit"), Charge(r),
         NEW t \in [at : {"none", "sync"}, new : Int],
         task' = [task EXCEPT ![r][i] = t]
  PROVE  BillInv'
<1>1. key[r] = "none" /\ charges[r] = 0
  BY DEF BillInv, KeyUnclaimed, KeyPerCharge
<1>2. t \in Records /\ t.at \in {"none", "sync"}
  BY DEF Records, Points
<1>3. /\ task' \in [Requests -> [Copies -> Records]]
      /\ \A q \in Requests, j \in Copies :
            task'[q][j] = IF q = r /\ j = i THEN t ELSE task[q][j]
  BY <1>2, TaskMoves DEF BillInv
<1>4. RecordTypes'
  BY <1>3, LessType DEF BillInv, RecordTypes, Charge
<1>5. KeyPerCharge'
  BY <1>1 DEF BillInv, RecordTypes, KeyPerCharge, Charge
<1>6. \A j \in Copies : ~ InTransaction(r, j)'
  BY <1>2, <1>3 DEF BillInv, OneTransaction, InTransaction, TaskAt
<1>7. OneTransaction'
  BY <1>3, <1>6 DEF BillInv, OneTransaction, InTransaction, TaskAt
<1>8. \A q \in Requests : q # r => key'[q] = key[q]
  BY DEF BillInv, RecordTypes, Charge
<1>9. KeyUnclaimed'
  BY <1>3, <1>6, <1>8 DEF BillInv, KeyUnclaimed, InTransaction, TaskAt
<1> QED BY <1>4, <1>5, <1>7, <1>9 DEF BillInv

LEMMA CommitKeeps ==
  ASSUME BillInv, NEW r \in Requests, NEW i \in Copies, Commit(r, i)
  PROVE  BillInv'
<1>1. TaskAt(r, i, "commit") /\ Charge(r)
  BY DEF Commit
<1>2. balance' \in Int
  BY <1>1, LessType DEF Charge, BillInv, RecordTypes
<1>3. task' = [task EXCEPT ![r][i] = [at |-> "sync", new |-> balance']]
  BY DEF Commit
<1> QED BY <1>1, <1>2, <1>3, ChargeKeeps

LEMMA ApplyFailsKeeps ==
  ASSUME BillInv, NEW r \in Requests, NEW i \in Copies, ApplyFails(r, i)
  PROVE  BillInv'
<1>1. CASE UNCHANGED accounts
  BY <1>1, TaskOnly DEF ApplyFails
<1>2. CASE TaskAt(r, i, "commit") /\ Charge(r)
  <2>1. NoTask \in [at : {"none", "sync"}, new : Int]
    BY DEF NoTask
  <2>2. task' = [task EXCEPT ![r][i] = NoTask]
    BY DEF ApplyFails, EndTask
  <2> QED BY <1>2, <2>1, <2>2, ChargeKeeps
<1> QED BY <1>1, <1>2 DEF ApplyFails

(* A request begins under a new id only when its tasks have ended. *)
LEMMA BeginKeeps ==
  ASSUME BillInv, NEW r \in Requests, Begin(r)
  PROVE  BillInv'
<1>1. \A i \in Copies : ~ TaskAt(r, i, "claimed") /\ ~ TaskAt(r, i, "commit")
  BY DEF Begin, Ended, TaskAt
<1>2. task' = task /\ balance' = balance
  BY DEF Begin
<1>3. RecordTypes' /\ KeyPerCharge'
  BY <1>2 DEF BillInv, RecordTypes, KeyPerCharge, Begin
<1>4. OneTransaction'
  BY <1>2 DEF BillInv, OneTransaction, InTransaction, TaskAt
<1>5. KeyUnclaimed'
  BY <1>1, <1>2 DEF BillInv, RecordTypes, KeyUnclaimed, TaskAt, Begin
<1> QED BY <1>3, <1>4, <1>5 DEF BillInv

LEMMA ArchiveKeeps ==
  ASSUME BillInv, NEW r \in Requests, Archive(r)
  PROVE  BillInv'
<1>1. /\ key[r] = "live" /\ key' = [key EXCEPT ![r] = "archived"]
      /\ UNCHANGED <<task, charges, balance>>
  BY DEF Archive
<1>2. RecordTypes' /\ KeyPerCharge'
  BY <1>1 DEF BillInv, RecordTypes, KeyPerCharge
<1>3. OneTransaction'
  BY <1>1 DEF BillInv, OneTransaction, InTransaction, TaskAt
<1>4. KeyUnclaimed'
  BY <1>1 DEF BillInv, RecordTypes, KeyUnclaimed, TaskAt
<1> QED BY <1>2, <1>3, <1>4 DEF BillInv

LEMMA ServeKeeps ==
  ASSUME BillInv, NEW r \in Requests, Serve(r)
  PROVE  BillInv'
<1>1. 1 \in Copies
  BY DEF Copies
<1>2. TaskGoto(r, 1, "queued") /\ UNCHANGED accounts
  BY DEF Serve, TaskGoto
<1> QED BY <1>1, <1>2, TaskOnly

-----------------------------------------------------------------------------
LEMMA BillInit == Init => BillInv
<1> SUFFICES ASSUME Init
             PROVE  BillInv
  OBVIOUS
<1>1. NoTask \in Records /\ NoTask.at = "none"
  BY DEF NoTask, Records, Points
<1>2. \A r \in Requests, i \in Copies : task[r][i] = NoTask
  BY DEF Init
<1>3. RecordTypes
  BY <1>1, BillingAssumption DEF Init, RecordTypes
<1>4. KeyPerCharge
  BY DEF Init, KeyPerCharge
<1>5. OneTransaction /\ KeyUnclaimed
  BY <1>1, <1>2 DEF OneTransaction, KeyUnclaimed, InTransaction, TaskAt
<1> QED BY <1>3, <1>4, <1>5 DEF BillInv

LEMMA DisturbKeeps == BillInv /\ Disturb => BillInv'
<1> SUFFICES ASSUME BillInv, Disturb
             PROVE  BillInv'
  OBVIOUS
<1>0. balance \in Int
  BY DEF BillInv, RecordTypes
<1>1. ASSUME NEW r \in Requests, RequestFails(r)
      PROVE  BillInv'
  BY <1>0, <1>1, UntouchedKeeps DEF RequestFails, Untouched, accounts
<1>2. ASSUME NEW r \in Requests, Resubmit(r)
      PROVE  BillInv'
  <2>1. 2 \in Copies
    BY DEF Copies
  <2> QED BY <1>2, <2>1, TaskOnly DEF Resubmit
<1>3. ASSUME NEW r \in Requests, NEW i \in Copies, ApplyFails(r, i)
      PROVE  BillInv'
  BY <1>3, ApplyFailsKeeps
<1>4. ASSUME NEW r \in Requests, NEW i \in Copies, SyncFails(r, i)
      PROVE  BillInv'
  BY <1>4, TaskOnly DEF SyncFails
<1>5. ASSUME NEW n \in 1 .. QueueSize, WriteFails(n)
      PROVE  BillInv'
  BY <1>0, <1>5, UntouchedKeeps DEF WriteFails, Untouched, accounts
<1>6. ASSUME RenewFails
      PROVE  BillInv'
  BY <1>0, <1>6, UntouchedKeeps DEF RenewFails, Untouched, accounts
<1> QED BY <1>1, <1>2, <1>3, <1>4, <1>5, <1>6 DEF Disturb

LEMMA BillStep == BillInv /\ [Next]_vars => BillInv'
<1> SUFFICES ASSUME BillInv, [Next]_vars
             PROVE  BillInv'
  OBVIOUS
<1>0. balance \in Int
  BY DEF BillInv, RecordTypes
<1>1. ASSUME NEW r \in Requests, Request(r)
      PROVE  BillInv'
  <2>1. CASE Begin(r)
    BY <2>1, BeginKeeps
  <2>2. CASE Check(r)
    BY <1>0, <2>2, UntouchedKeeps DEF Check, Untouched, accounts
  <2>3. CASE Load(r)
    BY <1>0, <2>3, UntouchedKeeps DEF Load, Untouched, accounts
  <2>4. CASE Serve(r)
    BY <2>4, ServeKeeps
  <2> QED BY <1>1, <2>1, <2>2, <2>3, <2>4 DEF Request
<1>2. ASSUME NEW r \in Requests, NEW i \in Copies, Task(r, i)
      PROVE  BillInv'
  <2>1. CASE Sync(r, i)
    BY <2>1, TaskOnly DEF Sync
  <2> QED BY <1>2, <2>1, ClaimKeeps, LookKeeps, CommitKeeps DEF Task
<1>3. ASSUME NEW r \in Requests, Archive(r)
      PROVE  BillInv'
  BY <1>3, ArchiveKeeps
<1>4. ASSUME NEW n \in 1 .. QueueSize, Write(n)
      PROVE  BillInv'
  BY <1>0, <1>4, UntouchedKeeps DEF Write, Untouched, accounts
<1>5. CASE Age \/ Expire \/ Renew
  BY <1>0, <1>5, UntouchedKeeps DEF Age, Expire, Renew, Untouched, accounts
<1>6. CASE TopUp
  <2>1. balance' \in Int
    BY <1>0, <1>6, BillingAssumption DEF TopUp
  <2> QED BY <1>6, <2>1, UntouchedKeeps DEF TopUp, Untouched
<1>7. CASE UNCHANGED vars
  BY <1>0, <1>7, UntouchedKeeps DEF vars, Untouched, accounts
<1> QED BY <1>1, <1>2, <1>3, <1>4, <1>5, <1>6, <1>7, DisturbKeeps DEF Next

(* No record is billed twice: not when it is submitted twice, not when its *)
(* transaction commits and nobody hears of it, and not when the key has    *)
(* moved to the archive (usage_billing_repo.go).                           *)
THEOREM BilledOnce == Spec => []ChargedOnce
<1>1. Spec => []BillInv
  BY BillInit, BillStep, PTL DEF Spec
<1>2. BillInv => ChargedOnce
  BY DEF BillInv, RecordTypes, KeyPerCharge, ChargedOnce
<1> QED BY <1>1, <1>2, PTL
-----------------------------------------------------------------------------
(***************************************************************************)
(* Types.  The balance is bounded by the money that has come in, and the   *)
(* invalidations under way by the top-ups that started them.               *)
(***************************************************************************)
MoneyIn ==
    /\ balance \in Int /\ Floor =< balance
    /\ topups \in 0 .. MaxTopUps /\ balance =< Funds * (topups + 1)
    /\ renewals \in 0 .. topups
    /\ faults \in 0 .. MaxFaults

CacheTypes ==
    /\ cached \in Balances \cup {NoBalance}
    /\ fresh \in BOOLEAN
    /\ writes \in Seq(Writes) /\ Len(writes) =< QueueSize

WorkTypes ==
    /\ job \in [Requests -> {"idle", "check", "load", "admitted"}]
    /\ task \in [Requests -> [Copies -> Tasks]]

TypeInv == MoneyIn /\ CacheTypes /\ WorkTypes

LEMMA Products ==
  ASSUME NEW a \in Nat, NEW t \in Nat, NEW m \in Nat
  PROVE  /\ a * (t + 1) \in Nat
         /\ a * (t + 1) + a = a * ((t + 1) + 1)
         /\ t =< m => a * (t + 1) =< a * (m + 1)
<1>1. t =< m => a * (m + 1) = a * (t + 1) + a * (m - t) /\ a * (m - t) >= 0
  OBVIOUS
<1> QED BY <1>1

(* What is in range. *)
LEMMA Ranges ==
  /\ Balances \subseteq Int /\ 0 \in Balances /\ NoBalance \notin Balances
  /\ \A amount \in Balances : Less(amount) \in Balances
  /\ MoneyIn => balance \in Balances
<1> DEFINE most == Funds * (MaxTopUps + 1)
<1>1. most \in Nat /\ (MoneyIn => Funds * (topups + 1) =< most)
  BY Products, BillingAssumption DEF MoneyIn
<1>2. Floor \in Int /\ Floor < 0
  BY BillingAssumption DEF Floor
<1>3. Balances = Floor .. most
  BY DEF Balances
<1>4. MoneyIn => balance =< most
  BY <1>1, Products, BillingAssumption DEF MoneyIn
<1> HIDE DEF most
<1> QED BY <1>1, <1>2, <1>3, <1>4, BillingAssumption
        DEF Less, NoBalance, MoneyIn

LEMMA SetCacheType ==
  ASSUME NEW amount \in Balances, SetCache(amount)
  PROVE  cached' \in Balances \cup {NoBalance} /\ fresh' \in BOOLEAN
  BY DEF SetCache

LEMMA DeductCacheType ==
  ASSUME CacheTypes, DeductCache
  PROVE  cached' \in Balances \cup {NoBalance} /\ fresh' \in BOOLEAN
<1>1. CASE cached = NoBalance
  BY <1>1 DEF CacheTypes, DeductCache
<1>2. CASE cached # NoBalance
  BY <1>2, Ranges, SetCacheType DEF CacheTypes, DeductCache
<1> QED BY <1>1, <1>2

(* The queue takes a write only below its size. *)
LEMMA EnqueueType ==
  ASSUME CacheTypes, NEW w \in Writes, Enqueue(w), ~ QueueFull
  PROVE  writes' \in Seq(Writes) /\ Len(writes') =< QueueSize
  BY BillingAssumption DEF CacheTypes, Enqueue, QueueFull

LEMMA RemoveType ==
  ASSUME CacheTypes, NEW n \in DOMAIN writes, writes' = RemoveAt(writes, n)
  PROVE  writes' \in Seq(Writes) /\ Len(writes') =< QueueSize
<1> DEFINE front == SubSeq(writes, 1, n - 1)
           back  == SubSeq(writes, n + 1, Len(writes))
<1>1. n \in 1 .. Len(writes) /\ Len(writes) \in Nat
      /\ \A i \in 1 .. Len(writes) : writes[i] \in Writes
  BY DEF CacheTypes
<1>2. front \in Seq(Writes) /\ Len(front) = n - 1
  BY <1>1, SubSeqProperties
<1>3. back \in Seq(Writes) /\ Len(back) = Len(writes) - n
  BY <1>1, SubSeqProperties
<1>4. writes' = front \o back
  BY DEF RemoveAt
<1> HIDE DEF front, back
<1>5. writes' \in Seq(Writes) /\ Len(writes') = Len(front) + Len(back)
  BY <1>2, <1>3, <1>4, ConcatProperties
<1>6. Len(writes') = Len(writes) - 1
  BY <1>1, <1>2, <1>3, <1>5
<1>7. Len(writes) =< QueueSize /\ QueueSize \in Nat
  BY BillingAssumption DEF CacheTypes
<1> QED BY <1>1, <1>5, <1>6, <1>7

(* A step of a request or of its record. *)
LEMMA JobMoves ==
  ASSUME WorkTypes, NEW r \in Requests, Goto(r, "check") \/ Goto(r, "load")
         \/ Goto(r, "idle") \/ Goto(r, "admitted")
  PROVE  job' \in [Requests -> {"idle", "check", "load", "admitted"}]
  BY DEF WorkTypes, Goto

LEMMA TaskChanges ==
  ASSUME WorkTypes, NEW r \in Requests, NEW i \in Copies,
         \/ EndTask(r, i)
         \/ \E point \in Points : TaskGoto(r, i, point)
         \/ \E t \in Tasks : task' = [task EXCEPT ![r][i] = t]
  PROVE  task' \in [Requests -> [Copies -> Tasks]]
<1>1. task[r] \in [Copies -> Tasks] /\ task[r][i] \in Tasks
      /\ task \in [Requests -> [Copies -> Tasks]]
  BY DEF WorkTypes
<1>2. NoTask \in Tasks
  BY DEF NoTask, Tasks
<1>3. PICK t \in Tasks : task' = [task EXCEPT ![r][i] = t]
  <2>1. CASE EndTask(r, i)
    BY <1>2, <2>1 DEF EndTask
  <2>2. ASSUME NEW point \in Points, TaskGoto(r, i, point)
        PROVE  \E t \in Tasks : task' = [task EXCEPT ![r][i] = t]
    <3> DEFINE t == [task[r][i] EXCEPT !.at = point]
    <3>1. t \in Tasks
      BY <1>1 DEF Tasks, Points
    <3>2. task' = [task EXCEPT ![r][i] = t]
      BY <2>2 DEF TaskGoto
    <3> HIDE DEF t
    <3> QED BY <3>1, <3>2
  <2> QED BY <2>1, <2>2
<1> DEFINE own == [task[r] EXCEPT ![i] = t]
<1>4. own \in [Copies -> Tasks]
  BY <1>1
<1>5. task' = [task EXCEPT ![r] = own]
  BY <1>1, <1>3
<1> HIDE DEF own
<1> QED BY <1>1, <1>4, <1>5

(* One request, or one of its records, takes a step. *)
LEMMA RequestTypes ==
  ASSUME TypeInv, NEW r \in Requests, Request(r)
  PROVE  TypeInv'
<1>1. MoneyIn'
  BY DEF TypeInv, MoneyIn, Request, Begin, Check, Load, Serve, accounts,
         caching, bounds
<1>2. CacheTypes'
  <2>1. CASE Load(r) /\ ~ QueueFull
    BY <2>1, Ranges, EnqueueType DEF TypeInv, CacheTypes, Load, Writes
  <2>2. CASE UNCHANGED <<cached, fresh, writes>>
    BY <2>2 DEF TypeInv, CacheTypes
  <2> QED BY <2>1, <2>2 DEF Request, Begin, Check, Load, Serve, caching
<1>3. job' \in [Requests -> {"idle", "check", "load", "admitted"}]
  BY JobMoves DEF TypeInv, Request, Begin, Check, Load, Serve, Admit
<1>4. task' \in [Requests -> [Copies -> Tasks]]
  <2>1. CASE Serve(r)
    <3>1. TaskGoto(r, 1, "queued") /\ "queued" \in Points /\ 1 \in Copies
      BY <2>1 DEF Serve, TaskGoto, Points, Copies
    <3> QED BY <3>1, TaskChanges DEF TypeInv
  <2>2. CASE UNCHANGED task
    BY <2>2 DEF TypeInv, WorkTypes
  <2> QED BY <2>1, <2>2 DEF Request, Begin, Check, Load
<1> QED BY <1>1, <1>2, <1>3, <1>4 DEF TypeInv, WorkTypes

LEMMA ChargeTypes ==
  ASSUME TypeInv, NEW r \in Requests, Charge(r), UNCHANGED <<renewals, bounds>>
  PROVE  MoneyIn' /\ balance' \in Balances
<1>1. Less(balance) \in Int /\ Floor =< Less(balance)
      /\ Less(balance) =< balance
  BY BillingAssumption DEF TypeInv, MoneyIn, Less, Floor
<1>2. Funds * (topups + 1) \in Nat
  BY Products, BillingAssumption DEF TypeInv, MoneyIn
<1>3. balance' \in Balances
  BY Ranges DEF TypeInv, Charge
<1> QED BY <1>1, <1>2, <1>3 DEF TypeInv, MoneyIn, Charge, bounds

LEMMA TaskTypes ==
  ASSUME TypeInv, NEW r \in Requests, NEW i \in Copies, Task(r, i)
  PROVE  TypeInv'
<1>1. MoneyIn'
  <2>1. CASE Commit(r, i)
    BY <2>1, ChargeTypes DEF Commit, caching
  <2>2. CASE Claim(r, i) \/ Look(r, i) \/ Sync(r, i)
    BY <2>2 DEF TypeInv, MoneyIn, Claim, Look, Sync, accounts, caching, bounds
  <2> QED BY <2>1, <2>2 DEF Task
<1>2. CacheTypes'
  <2>1. CASE Sync(r, i)
    <3>1. CASE Below(task[r][i].new)
      BY <2>1, <3>1 DEF TypeInv, CacheTypes, Sync, Invalidate
    <3>2. CASE ~ Below(task[r][i].new) /\ QueueFull
      BY <2>1, <3>2, DeductCacheType DEF TypeInv, CacheTypes, Sync
    <3>3. CASE ~ Below(task[r][i].new) /\ ~ QueueFull
      BY <2>1, <3>3, EnqueueType DEF TypeInv, CacheTypes, Sync, Writes
    <3> QED BY <3>1, <3>2, <3>3
  <2>2. CASE Claim(r, i) \/ Look(r, i) \/ Commit(r, i)
    BY <2>2 DEF TypeInv, CacheTypes, Claim, Look, Commit, caching
  <2> QED BY <2>1, <2>2 DEF Task
<1>3. task' \in [Requests -> [Copies -> Tasks]]
  <2>1. CASE Commit(r, i)
    <3> DEFINE t == [at |-> "sync", new |-> balance']
    <3>1. t \in Tasks
      BY <2>1, ChargeTypes DEF Tasks, Commit, caching
    <3>2. task' = [task EXCEPT ![r][i] = t]
      BY <2>1 DEF Commit
    <3> HIDE DEF t
    <3> QED BY <3>1, <3>2, TaskChanges DEF TypeInv
  <2>2. CASE Claim(r, i) \/ Look(r, i) \/ Sync(r, i)
    BY <2>2, TaskChanges DEF TypeInv, Claim, Look, Sync, Points
  <2> QED BY <2>1, <2>2 DEF Task
<1>4. UNCHANGED job
  BY DEF Task, Claim, Look, Commit, Sync
<1> QED BY <1>1, <1>2, <1>3, <1>4 DEF TypeInv, WorkTypes

(* The write queue, the clock of Redis, top-ups and the archive. *)
LEMMA CacheStepTypes ==
  ASSUME TypeInv,
         \/ \E n \in 1 .. QueueSize : Write(n)
         \/ Age \/ Expire \/ TopUp \/ Renew
         \/ \E r \in Requests : Archive(r)
  PROVE  TypeInv'
<1>1. CASE \E n \in 1 .. QueueSize : Write(n)
  <2>1. PICK n \in 1 .. QueueSize : Write(n)
    BY <1>1
  <2>2. n \in DOMAIN writes /\ writes' = RemoveAt(writes, n)
        /\ writes[n] \in Writes
    BY <2>1 DEF Write, TypeInv, CacheTypes
  <2>3. cached' \in Balances \cup {NoBalance} /\ fresh' \in BOOLEAN
    <3>1. CASE writes[n] = Deduction
      BY <2>1, <3>1, DeductCacheType DEF Write, TypeInv
    <3>2. CASE writes[n] # Deduction
      BY <2>1, <2>2, <3>2, SetCacheType DEF Write, Writes
    <3> QED BY <3>1, <3>2
  <2>4. CacheTypes'
    BY <2>2, <2>3, RemoveType DEF TypeInv, CacheTypes
  <2> QED BY <2>1, <2>4
          DEF TypeInv, MoneyIn, WorkTypes, Write, accounts, bounds
<1>2. CASE TopUp
  <2>1. MoneyIn'
    <3>1. Funds * (topups + 1) \in Nat
          /\ Funds * (topups + 1) + Funds = Funds * ((topups + 1) + 1)
      BY Products, BillingAssumption DEF TypeInv, MoneyIn
    <3>2. topups' = topups + 1 /\ balance' = balance + Funds
          /\ topups' \in 0 .. MaxTopUps
      BY <1>2, BillingAssumption DEF TypeInv, MoneyIn, TopUp
    <3>3. Floor =< balance' /\ balance' =< Funds * (topups' + 1)
          /\ balance' \in Int
      BY <3>1, <3>2, BillingAssumption DEF TypeInv, MoneyIn, Floor
    <3>4. renewals' \in 0 .. topups' /\ faults' \in 0 .. MaxFaults
      BY <1>2, <3>2 DEF TypeInv, MoneyIn, TopUp
    <3> QED BY <3>2, <3>3, <3>4 DEF MoneyIn
  <2> QED BY <1>2, <2>1 DEF TypeInv, CacheTypes, WorkTypes, TopUp
<1>3. CASE Age \/ Expire \/ Renew \/ \E r \in Requests : Archive(r)
  <2>1. MoneyIn'
    BY <1>3 DEF TypeInv, MoneyIn, Age, Expire, Renew, Archive, accounts,
                caching, bounds
  <2>2. CacheTypes'
    BY <1>3 DEF TypeInv, CacheTypes, Age, Expire, Renew, Archive, Invalidate,
                caching
  <2> QED BY <1>3, <2>1, <2>2
          DEF TypeInv, WorkTypes, Age, Expire, Renew, Archive
<1> QED BY <1>1, <1>2, <1>3

LEMMA DisturbTypes ==
  ASSUME TypeInv, Disturb
  PROVE  TypeInv'
<1>1. faults' \in 0 .. MaxFaults /\ topups' = topups
  BY BillingAssumption DEF TypeInv, MoneyIn, Disturb
<1>2. ASSUME NEW r \in Requests, RequestFails(r)
      PROVE  TypeInv'
  <2>1. job' \in [Requests -> {"idle", "check", "load", "admitted"}]
    BY <1>2, JobMoves DEF TypeInv, RequestFails
  <2> QED BY <1>1, <1>2, <2>1
          DEF TypeInv, MoneyIn, CacheTypes, WorkTypes, RequestFails, accounts,
              caching
<1>3. ASSUME NEW r \in Requests, NEW i \in Copies,
             Resubmit(r) \/ ApplyFails(r, i) \/ SyncFails(r, i)
      PROVE  TypeInv'
  <2>1. task' \in [Requests -> [Copies -> Tasks]]
    <3>1. CASE Resubmit(r)
      <4>1. TaskGoto(r, 2, "queued") /\ "queued" \in Points /\ 2 \in Copies
        BY <3>1 DEF Resubmit, Points, Copies
      <4> QED BY <4>1, TaskChanges DEF TypeInv
    <3>2. CASE ApplyFails(r, i) \/ SyncFails(r, i)
      BY <3>2, TaskChanges DEF TypeInv, ApplyFails, SyncFails
    <3> QED BY <1>3, <3>1, <3>2
  <2>2. UNCHANGED <<caching, job>> /\ (Charge(r) \/ UNCHANGED accounts)
    BY <1>3 DEF Resubmit, ApplyFails, SyncFails
  <2>3. CASE UNCHANGED accounts
    BY <1>1, <2>1, <2>2, <2>3
       DEF TypeInv, MoneyIn, CacheTypes, WorkTypes, accounts, caching
  <2>4. CASE Charge(r)
    <3>1. /\ Floor =< balance' /\ balance' =< balance /\ balance' \in Int
      BY <2>4, BillingAssumption DEF TypeInv, MoneyIn, Charge, Less, Floor
    <3>2. Funds * (topups + 1) \in Nat
      BY Products, BillingAssumption DEF TypeInv, MoneyIn
    <3>3. MoneyIn'
      BY <1>1, <2>2, <3>1, <3>2 DEF TypeInv, MoneyIn, caching
    <3> QED BY <2>1, <2>2, <3>3 DEF TypeInv, CacheTypes, WorkTypes, caching
  <2> QED BY <2>2, <2>3, <2>4
<1>4. ASSUME NEW n \in 1 .. QueueSize, WriteFails(n)
      PROVE  TypeInv'
  <2>1. CacheTypes'
    BY <1>4, RemoveType DEF TypeInv, CacheTypes, WriteFails
  <2> QED BY <1>1, <1>4, <2>1
          DEF TypeInv, MoneyIn, WorkTypes, WriteFails, accounts
<1>5. CASE RenewFails
  BY <1>1, <1>5
     DEF TypeInv, MoneyIn, CacheTypes, WorkTypes, RenewFails, accounts
<1>6. 1 \in Copies
  BY DEF Copies
<1> QED BY <1>2, <1>3, <1>4, <1>5, <1>6 DEF Disturb

LEMMA TypesInit == Init => TypeInv
<1> SUFFICES ASSUME Init PROVE TypeInv
  OBVIOUS
<1>1. MoneyIn
  BY BillingAssumption DEF Init, MoneyIn, Floor
<1>2. CacheTypes
  <2>1. << >> \in Seq(Writes) /\ Len(<< >>) = 0
    BY EmptySeq
  <2>2. cached = NoBalance /\ fresh = FALSE /\ writes = << >>
    BY DEF Init
  <2>3. Len(writes) =< QueueSize
    BY <2>1, <2>2, BillingAssumption
  <2>4. cached \in Balances \cup {NoBalance} /\ fresh \in BOOLEAN
        /\ writes \in Seq(Writes)
    BY <2>1, <2>2, Zenon
  <2> QED BY <2>3, <2>4 DEF CacheTypes
<1>3. WorkTypes
  BY DEF Init, WorkTypes, NoTask, Tasks
<1> QED BY <1>1, <1>2, <1>3 DEF TypeInv

LEMMA TypesStep == TypeInv /\ [Next]_vars => TypeInv'
<1>1. TypeInv /\ UNCHANGED vars => TypeInv'
  BY DEF TypeInv, MoneyIn, CacheTypes, WorkTypes, vars, accounts, caching,
         bounds
<1> QED BY <1>1, RequestTypes, TaskTypes, CacheStepTypes, DisturbTypes DEF Next

(* The balance stays between the limit of its debts and the money that has *)
(* come in, the cached one in the same range, and the queue of writes to   *)
(* the cache within cacheWriteBufferSize.                                  *)
THEOREM TypeCorrect == Spec => []TypeOK
<1>1. Spec => [](BillInv /\ TypeInv)
  BY BillInit, BillStep, TypesInit, TypesStep, PTL DEF Spec
<1>2. BillInv /\ TypeInv => TypeOK
  <2> SUFFICES ASSUME BillInv, TypeInv PROVE TypeOK
    OBVIOUS
  <2>1. charges \in [Requests -> 0 .. 2]
    BY DEF BillInv, RecordTypes, KeyPerCharge
  <2>2. renewals \in 0 .. MaxTopUps
    BY BillingAssumption DEF TypeInv, MoneyIn
  <2> QED BY <2>1, <2>2, Ranges
          DEF BillInv, RecordTypes, TypeInv, MoneyIn, CacheTypes, WorkTypes,
              TypeOK
<1> QED BY <1>1, <1>2, PTL
=============================================================================
