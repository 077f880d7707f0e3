----------------------------- MODULE UsageBilling -----------------------------
(***************************************************************************)
(* What the requests of one user cost it: the check of the balance before  *)
(* a request is forwarded (billing_cache_service.go), the usage record     *)
(* that a worker pool bills afterwards (usage_record_worker_pool.go,       *)
(* usage_billing_repo.go), and the cached balance (billing_cache.go),      *)
(* which queued writes keep up to date in any order.                       *)
(*                                                                         *)
(* Every request costs Cost, in balance mode.  Debts beyond Floor are all  *)
(* alike: a user in debt is refused whatever it owes.                      *)
(***************************************************************************)
EXTENDS Integers, Sequences, SequencesExt

CONSTANTS Requests,
          Funds,        \* the balance, and what a top-up adds to it
          Cost,
          Reserve,      \* MinimumBalanceReserve
          QueueSize,    \* cacheWriteBufferSize
          MaxTopUps,
          MaxFaults     \* failed statements and calls, dropped and doubled records

ASSUME BillingAssumption == /\ Funds \in Nat \ {0} /\ Cost \in Nat \ {0}
                            /\ Reserve \in Nat
                            /\ QueueSize \in Nat
                            /\ MaxTopUps \in Nat /\ MaxFaults \in Nat

VARIABLES balance,  \* users.balance
          key,      \* usage_billing_dedup and its archive, by request
          cached,   \* the cached balance, or NoBalance
          fresh,    \* was the cached balance written within half its TTL?
          writes,   \* cacheWriteChan and the tasks its workers have taken
          renewals, \* invalidations that top-ups have started
          job,      \* the gateway's part of each request
          task,     \* its usage record, and a second copy of it
          charges,  \* how often the request was charged
          topups, faults

accounts == <<balance, key, charges>>
caching == <<cached, fresh, writes, renewals>>
bounds == <<topups, faults>>
vars == <<accounts, caching, job, task, bounds>>

Floor == -Cost
NoBalance == Floor - 1
Balances == Floor .. Funds * (MaxTopUps + 1)

Copies == {1, 2}
NoTask == [at |-> "none", new |-> 0]
Tasks == [at : {"none", "queued", "claimed", "commit", "sync"},
          new : Balances \cup {0}]

(* A queued write is a deduction, or sets the balance it carries.          *)
Deduction == NoBalance
Writes == Balances \cup {Deduction}

Init == /\ balance = Funds
        /\ key = [r \in Requests |-> "none"]
        /\ charges = [r \in Requests |-> 0]
        /\ cached = NoBalance
        /\ fresh = FALSE
        /\ writes = << >>
        /\ renewals = 0
        /\ job = [r \in Requests |-> "idle"]
        /\ task = [r \in Requests |-> [i \in Copies |-> NoTask]]
        /\ topups = 0
        /\ faults = 0

-----------------------------------------------------------------------------
Less(amount) == IF amount - Cost < Floor THEN Floor ELSE amount - Cost

(* balanceBelowEligibilityThreshold *)
Below(amount) == amount =< 0 \/ amount < Reserve

At(r, point) == job[r] = point

Goto(r, point) == job' = [job EXCEPT ![r] = point]

TaskAt(r, i, point) == task[r][i].at = point

TaskGoto(r, i, point) == task' = [task EXCEPT ![r][i].at = point]

EndTask(r, i) == task' = [task EXCEPT ![r][i] = NoTask]

Ended(r) == \A i \in Copies : TaskAt(r, i, "none")

QueueFull == Len(writes) >= QueueSize

Enqueue(w) == writes' = Append(writes, w)

SetCache(amount) == cached' = amount /\ fresh' = TRUE

(* The deduct script: nothing if there is no cached balance. *)
DeductCache == IF cached = NoBalance THEN UNCHANGED <<cached, fresh>>
                                     ELSE SetCache(Less(cached))

Invalidate == cached' = NoBalance /\ fresh' = FALSE

Admit(r, amount) == Goto(r, IF Below(amount) THEN "idle" ELSE "admitted")

-----------------------------------------------------------------------------
(* A request under an id of its own. *)
Begin(r) ==
    /\ At(r, "idle") /\ Ended(r)
    /\ Goto(r, "check")
    /\ key' = [key EXCEPT ![r] = "none"]
    /\ charges' = [charges EXCEPT ![r] = 0]
    /\ UNCHANGED <<balance, caching, task, bounds>>

(* checkBalanceEligibility: the cached balance decides. *)
Check(r) ==
    /\ At(r, "check")
    /\ IF cached # NoBalance THEN Admit(r, cached) ELSE Goto(r, "load")
    /\ UNCHANGED <<accounts, caching, task, bounds>>

(* The load behind balanceLoadSF: the balance read decides, and a write    *)
(* that sets it is queued unless the queue is full.                        *)
Load(r) ==
    /\ At(r, "load")
    /\ Admit(r, balance)
    /\ IF QueueFull THEN UNCHANGED writes ELSE Enqueue(balance)
    /\ UNCHANGED <<accounts, cached, fresh, renewals, task, bounds>>

(* The request is served, and its record submitted.  When the pool is full *)
(* the handler may run the task itself.                                    *)
Serve(r) ==
    /\ At(r, "admitted")
    /\ Goto(r, "idle")
    /\ task' = [task EXCEPT ![r][1].at = "queued"]
    /\ UNCHANGED <<accounts, caching, bounds>>

-----------------------------------------------------------------------------
InTransaction(r, i) == TaskAt(r, i, "claimed") \/ TaskAt(r, i, "commit")

(* INSERT INTO usage_billing_dedup: it waits for a transaction that has    *)
(* inserted the same key.                                                  *)
Claim(r, i) ==
    /\ TaskAt(r, i, "queued")
    /\ \A j \in Copies : ~ InTransaction(r, j)
    /\ IF key[r] = "live" THEN EndTask(r, i) ELSE TaskGoto(r, i, "claimed")
    /\ UNCHANGED <<accounts, caching, job, bounds>>

(* Mutant: the archive is not asked. *)
LookLive(r, i) ==
    /\ TaskAt(r, i, "claimed")
    /\ TaskGoto(r, i, "commit")
    /\ UNCHANGED <<accounts, caching, job, bounds>>

(* The archive is asked for the key; a key found there is rolled back.     *)
Look(r, i) ==
    /\ TaskAt(r, i, "claimed")
    /\ IF key[r] = "archived" THEN EndTask(r, i) ELSE TaskGoto(r, i, "commit")
    /\ UNCHANGED <<accounts, caching, job, bounds>>

(* Mutant: nothing is charged to a balance that does not cover it. *)
ChargeCovered(r) ==
    /\ balance' = IF balance >= Cost THEN balance - Cost ELSE balance
    /\ key' = [key EXCEPT ![r] = "live"]
    /\ charges' = [charges EXCEPT ![r] = @ + 1]

(* deductUsageBillingBalance, and the commit. *)
Charge(r) ==
    /\ balance' = Less(balance)
    /\ key' = [key EXCEPT ![r] = "live"]
    /\ charges' = [charges EXCEPT ![r] = @ + 1]

Commit(r, i) ==
    /\ TaskAt(r, i, "commit")
    /\ Charge(r)
    /\ task' = [task EXCEPT ![r][i] = [at |-> "sync", new |-> balance']]
    /\ UNCHANGED <<caching, job, bounds>>

(* syncBalanceCacheAfterDeduction *)
Sync(r, i) ==
    /\ TaskAt(r, i, "sync")
    /\ IF Below(task[r][i].new)
       THEN Invalidate /\ UNCHANGED writes
       ELSE IF QueueFull THEN DeductCache /\ UNCHANGED writes
                         ELSE Enqueue(Deduction) /\ UNCHANGED <<cached, fresh>>
    /\ EndTask(r, i)
    /\ UNCHANGED <<accounts, renewals, job, bounds>>

-----------------------------------------------------------------------------
(* A task of cacheWriteWorker; there are ten of them, so in any order.     *)
Write(n) ==
    /\ n \in DOMAIN writes
    /\ writes' = RemoveAt(writes, n)
    /\ IF writes[n] = Deduction THEN DeductCache ELSE SetCache(writes[n])
    /\ UNCHANGED <<accounts, renewals, job, task, bounds>>

(* Redis ends the life of a cached balance that is not written any more.   *)
Age ==
    /\ fresh
    /\ fresh' = FALSE
    /\ UNCHANGED <<accounts, cached, writes, renewals, job, task, bounds>>

Expire ==
    /\ cached # NoBalance /\ ~ fresh
    /\ cached' = NoBalance
    /\ UNCHANGED <<accounts, fresh, writes, renewals, job, task, bounds>>

(* Money arrives, and its cached balance is invalidated some time later.   *)
TopUp ==
    /\ topups < MaxTopUps /\ balance > Floor
    /\ topups' = topups + 1
    /\ balance' = balance + Funds
    /\ renewals' = renewals + 1
    /\ UNCHANGED <<key, charges, cached, fresh, writes, job, task, faults>>

Renew ==
    /\ renewals > 0
    /\ renewals' = renewals - 1
    /\ Invalidate
    /\ UNCHANGED <<accounts, writes, job, task, bounds>>

(* CleanupUsageBillingDedup moves a key in one statement. *)
Archive(r) ==
    /\ key[r] = "live"
    /\ key' = [key EXCEPT ![r] = "archived"]
    /\ UNCHANGED <<balance, charges, caching, job, task, bounds>>

-----------------------------------------------------------------------------
(* Redis does not answer: a miss.  The database does not: refused.  The    *)
(* request fails upstream, or its record is dropped: not billed.           *)
RequestFails(r) ==
    /\ \/ At(r, "check") /\ Goto(r, "load")
       \/ At(r, "load") /\ Goto(r, "idle")
       \/ At(r, "admitted") /\ Goto(r, "idle")
    /\ UNCHANGED <<accounts, caching, task>>

(* A record is submitted twice. *)
Resubmit(r) ==
    /\ ~ Ended(r) /\ TaskAt(r, 2, "none")
    /\ TaskGoto(r, 2, "queued")
    /\ UNCHANGED <<accounts, caching, job>>

(* The transaction fails; or it commits, and the task does not learn it.   *)
ApplyFails(r, i) ==
    /\ \/ (TaskAt(r, i, "queued") \/ InTransaction(r, i)) /\ UNCHANGED accounts
       \/ TaskAt(r, i, "commit") /\ Charge(r)
    /\ EndTask(r, i)
    /\ UNCHANGED <<caching, job>>

SyncFails(r, i) ==
    /\ TaskAt(r, i, "sync")
    /\ Below(task[r][i].new) \/ QueueFull
    /\ EndTask(r, i)
    /\ UNCHANGED <<accounts, caching, job>>

WriteFails(n) ==
    /\ n \in DOMAIN writes
    /\ writes' = RemoveAt(writes, n)
    /\ UNCHANGED <<accounts, cached, fresh, renewals, job, task>>

RenewFails ==
    /\ renewals > 0
    /\ renewals' = renewals - 1
    /\ UNCHANGED <<accounts, cached, fresh, writes, job, task>>

Disturb ==
    /\ faults < MaxFaults
    /\ faults' = faults + 1
    /\ \/ \E r \in Requests :
             \/ RequestFails(r) \/ Resubmit(r)
             \/ \E i \in Copies : ApplyFails(r, i) \/ SyncFails(r, i)
       \/ \E n \in 1 .. QueueSize : WriteFails(n)
       \/ RenewFails
    /\ UNCHANGED topups

Request(r) == Begin(r) \/ Check(r) \/ Load(r) \/ Serve(r)

Task(r, i) == Claim(r, i) \/ Look(r, i) \/ Commit(r, i) \/ Sync(r, i)

Next == \/ \E r \in Requests :
              \/ Request(r)
              \/ \E i \in Copies : Task(r, i)
              \/ Archive(r)
        \/ \E n \in 1 .. QueueSize : Write(n)
        \/ Age \/ Expire \/ TopUp \/ Renew
        \/ Disturb

Spec == Init /\ [][Next]_vars

(* The user sends requests for ever; tasks, queued writes and the clock of *)
(* Redis go on.                                                            *)
FairSpec == /\ Spec
            /\ \A r \in Requests :
                  /\ WF_vars(Request(r))
                  /\ \A i \in Copies : WF_vars(Task(r, i))
            /\ WF_vars(Write(1))
            /\ WF_vars(Age) /\ WF_vars(Expire) /\ WF_vars(Renew)

-----------------------------------------------------------------------------
TypeOK ==
    /\ balance \in Balances
    /\ key \in [Requests -> {"none", "live", "archived"}]
    /\ charges \in [Requests -> 0 .. 2]
    /\ cached \in Balances \cup {NoBalance}
    /\ fresh \in BOOLEAN
    /\ writes \in Seq(Writes) /\ Len(writes) =< QueueSize
    /\ renewals \in 0 .. MaxTopUps
    /\ job \in [Requests -> {"idle", "check", "load", "admitted"}]
    /\ task \in [Requests -> [Copies -> Tasks]]
    /\ topups \in 0 .. MaxTopUps /\ faults \in 0 .. MaxFaults

(* "one billable request that must be applied at most once": a record      *)
(* submitted twice, a transaction whose commit is not heard of, and keys   *)
(* that move to the archive in between do not charge a request twice.      *)
ChargedOnce == \A r \in Requests : charges[r] =< 1

(* A user who goes on sending requests can spend all of its money, and     *)
(* then is refused for good: writes to the cache that come late or get     *)
(* lost make it neither live on a balance it does not have nor starve on   *)
(* one it has.                                                             *)
SpentThenRefused ==
    <>[](Below(balance) /\ \A r \in Requests : ~ At(r, "admitted"))
=============================================================================
