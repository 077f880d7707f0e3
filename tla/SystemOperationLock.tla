-------------------------- MODULE SystemOperationLock --------------------------
(***************************************************************************)
(* The lock that keeps updates, rollbacks and restarts apart               *)
(* (system_operation_lock_service.go), taken by the handlers of            *)
(* system_handler.go in any number of server instances.                    *)
(*                                                                         *)
(* The lock is one row of the idempotency store: Timeout is its lease, and *)
(* the fingerprint of the row is the id of an operation.  A holder renews  *)
(* the lease until it releases the lock.  Two calls have the same          *)
(* operation id when one is a retry of the other.                          *)
(***************************************************************************)
EXTENDS IdempotencyStore

CONSTANTS Callers,
          RenewEvery,   \* ticks between two renewals: lease / 3
          MaxErrors,    \* how many renewals fail
          Outlasts      \* may an operation outlast a lease that it cannot renew?

ASSUME LeaseAssumption == /\ RenewEvery \in Nat \ {0} /\ MaxErrors \in Nat
                          /\ Outlasts \in BOOLEAN
                          /\ MaxDelay + RenewEvery * (MaxErrors + 1) < Timeout
                          /\ Timeout < TTL

VARIABLES job,      \* what each caller is doing
          errors    \* failed renewals so far

vars == <<row, job, errors>>

Claiming == {"create", "get", "reclaim"}

(* age: ticks since the call's now, and since it holds the lock, since the *)
(* latest renewal; from: the status it has read; mine: the row it has read *)
(* or claimed still exists; renewing: renewLoop runs.                      *)
Jobs == [at : {"idle", "held"} \cup Claiming, op : Prints, age : 0 .. TTL,
         from : Statuses, mine : BOOLEAN, renewing : BOOLEAN,
         due : 0 .. RenewEvery]

Idle == [at |-> "idle", op |-> CHOOSE op \in Prints : TRUE, age |-> 0,
         from |-> "none", mine |-> FALSE, renewing |-> FALSE, due |-> 0]

NoRow == [status |-> "none", print |-> Idle.op, body |-> Idle.op,
          lock |-> Past, left |-> Past]

Init == /\ row = NoRow
        /\ job = [c \in Callers |-> Idle]
        /\ errors = 0

-----------------------------------------------------------------------------
At(c, point) == job[c].at = point

Goto(c, point) == job' = [job EXCEPT ![c].at = point]

Return(c) == job' = [job EXCEPT ![c] = Idle]

(* Acquire returns the lock and starts renewLoop. *)
Hold(c) == job' = [job EXCEPT ![c].at = "held", ![c].mine = TRUE,
                              ![c].renewing = TRUE]

Begin(c, op) ==
    /\ At(c, "idle")
    /\ job' = [job EXCEPT ![c] = [Idle EXCEPT !.at = "create", !.op = op]]
    /\ UNCHANGED <<row, errors>>

Create(c) ==
    /\ At(c, "create")
    /\ IF Exists
       THEN /\ Goto(c, "get")
            /\ UNCHANGED row
       ELSE /\ CreateProcessing(job[c].op, job[c].age)
            /\ Hold(c)
    /\ UNCHANGED errors

(* Unlike the coordinator, Acquire reclaims a lock whose lease is over     *)
(* whether or not the row has expired.                                     *)
Get(c) ==
    /\ At(c, "get")
    /\ IF ~ Exists \/ (row.status = "processing" /\ Locked(job[c].age))
       THEN Return(c)
       ELSE job' = [job EXCEPT ![c].at = "reclaim", ![c].from = row.status,
                               ![c].mine = TRUE]
    /\ UNCHANGED <<row, errors>>

TryReclaim(c) ==
    /\ At(c, "reclaim")
    /\ IF job[c].mine /\ Reclaimable(job[c].from, job[c].age)
       THEN /\ Reclaim(job[c].age)
            /\ Hold(c)
       ELSE /\ Return(c)
            /\ UNCHANGED row
    /\ UNCHANGED errors

-----------------------------------------------------------------------------
(* Does ExtendProcessingLock find the caller's row and operation id? *)
Renews(c) == job[c].mine /\ Extendable(job[c].op)

(* Mutant: a failed renewal ends the loop. *)
RenewFailsEnds(c) ==
    /\ job[c].renewing /\ job[c].due = RenewEvery
    /\ errors < MaxErrors
    /\ errors' = errors + 1
    /\ job' = [job EXCEPT ![c].renewing = FALSE, ![c].due = 0]
    /\ UNCHANGED row

(* One turn of renewLoop whose statement fails: the loop goes on. *)
RenewFails(c) ==
    /\ job[c].renewing /\ job[c].due = RenewEvery
    /\ errors < MaxErrors
    /\ errors' = errors + 1
    /\ job' = [job EXCEPT ![c].due = 0]
    /\ UNCHANGED row

(* One turn of renewLoop.  It ends when the row is gone, is no longer      *)
(* being processed, or carries another operation's id.                     *)
Renew(c) ==
    /\ job[c].renewing /\ job[c].due = RenewEvery
    /\ IF Renews(c)
       THEN /\ Extend
            /\ job' = [job EXCEPT ![c].due = 0, ![c].age = 0]
       ELSE /\ job' = [job EXCEPT ![c].renewing = FALSE, ![c].due = 0]
            /\ UNCHANGED row
    /\ UNCHANGED errors

(* Release after a success or a failure: renewLoop is told to stop, and    *)
(* the row is marked by its id.                                            *)
Release(c) ==
    /\ At(c, "held")
    /\ IF job[c].mine
       THEN \/ MarkSucceeded(job[c].op, TTL)
            \/ MarkFailedRetryable(0, TTL)
       ELSE UNCHANGED row
    /\ Return(c)
    /\ UNCHANGED errors

(* Mutant: a Release that fails leaves renewLoop running. *)
StopRenewing(c) ==
    /\ ~ At(c, "idle")
    /\ Goto(c, "idle")
    /\ UNCHANGED <<row, errors>>

(* The statement of Release fails, a claim fails, or the process dies.     *)
Stop(c) ==
    /\ ~ At(c, "idle")
    /\ Return(c)
    /\ UNCHANGED <<row, errors>>

-----------------------------------------------------------------------------
(* The coordinator's cleanup deletes expired locks as well. *)
CleanupOnce ==
    /\ Deletable
    /\ Delete
    /\ job' = [c \in Callers |-> [job[c] EXCEPT !.mine = FALSE]]
    /\ UNCHANGED errors

(* A renewal is due every RenewEvery ticks.  Without Outlasts, an          *)
(* operation that runs under another one's id ends before its lease does.  *)
MayWait(c) ==
    /\ job[c].at \in Claiming => job[c].age < MaxDelay
    /\ job[c].renewing => job[c].due < RenewEvery
    /\ At(c, "held") /\ row.print # job[c].op /\ ~ Outlasts
          => job[c].age < Timeout - 1

Older(c) == [job[c] EXCEPT
               !.age = IF At(c, "idle") \/ @ = TTL THEN @ ELSE @ + 1,
               !.due = IF job[c].renewing THEN @ + 1 ELSE @]

Tick ==
    /\ \A c \in Callers : MayWait(c)
    /\ Pass
    /\ job' = [c \in Callers |-> Older(c)]
    /\ UNCHANGED errors

Step(c) == \/ Create(c) \/ Get(c) \/ TryReclaim(c)
           \/ Renew(c) \/ Release(c)

Next == \/ \E c \in Callers, op \in Prints : Begin(c, op)
        \/ \E c \in Callers : Step(c) \/ RenewFails(c) \/ Stop(c)
        \/ CleanupOnce
        \/ Tick

Spec == Init /\ [][Next]_vars

(* Calls go on or die; the clock runs. *)
FairSpec == /\ Spec
            /\ \A c \in Callers : WF_vars(Step(c))
            /\ WF_vars(CleanupOnce)
            /\ WF_vars(Tick)
-----------------------------------------------------------------------------
TypeOK ==
    /\ row \in RecordType
    /\ job \in [Callers -> Jobs]
    /\ \A c \in Callers : job[c].mine => Exists
    /\ errors \in 0 .. MaxErrors

Held(c) == At(c, "held")

(* "another system operation is in progress": the operations of two        *)
(* holders never overlap, although a lease is taken over when its holder   *)
(* seems dead.                                                             *)
OneOperation == \A c, d \in Callers : Held(c) /\ Held(d) => c = d

(* "locked_until should be renewed while lock is held": an operation runs  *)
(* under a lease that is not over, through failed renewals, late releases  *)
(* of others and the cleanup.                                              *)
LeaseCovers ==
    \A c \in Callers :
        Held(c) => job[c].mine /\ row.status = "processing" /\ row.lock > 0

Orphaned == /\ row.status = "processing" /\ row.lock > 0
            /\ ~ \E c \in Callers : Held(c)

(* The lock of a holder that died, or whose Release failed, becomes free:  *)
(* nothing renews it any more.                                             *)
LeaseEnds == Orphaned ~> ~ Orphaned
==============================================================================
