--------------------------- MODULE ConcurrencySlots ---------------------------
(***************************************************************************)
(* The concurrency limits of the gateway: the slots of one user and of the *)
(* accounts behind it (concurrency_cache.go, concurrency_service.go), as   *)
(* the requests of one server process take, wait for and give them back    *)
(* (gateway_helper.go, gateway_handler.go).                                *)
(*                                                                         *)
(* A pool is a sorted set in Redis.  Every statement that reads it first   *)
(* drops the members older than TTL, so a member is modelled by the ticks  *)
(* it has left and an expired one as absent.  A slot has no renewal: the   *)
(* clock does not run past the end of the slot of a request in progress    *)
(* (see the README for those that take longer).                            *)
(***************************************************************************)
EXTENDS Integers, FiniteSets

CONSTANTS Requests,
          User, Accounts,   \* the pools
          Limit,            \* concurrency of each pool
          Queue,            \* how many may wait for a pool
          TTL,              \* slotTTLSeconds
          MaxAttempts,      \* switches of account and retries of one request
          MaxFaults         \* failed statements, disconnects and crashes

Pools == {User} \cup Accounts

ASSUME SlotsAssumption == /\ IsFiniteSet(Requests) /\ User \notin Accounts
                          /\ Limit \in [Pools -> Nat \ {0}]
                          /\ Queue \in Nat \ {0} /\ TTL \in Nat \ {0}
                          /\ MaxAttempts \in Nat /\ MaxFaults \in Nat

VARIABLES job,      \* what the handler of each request is doing
          left,     \* ticks of the slots that requests hold, 0 for none
          lost,     \* members that no request will remove: how many, by ticks
          wait,     \* the wait counters
          up,       \* is the process running?
          opened,   \* increments of a wait counter that failed open
          faults    \* disturbances so far

slots == <<left, lost>>
vars == <<job, left, lost, wait, up, opened, faults>>

Waiting == {"wait", "uncount"}

(* pool: the pool it wants or has a slot of; gone: the client has.         *)
Jobs == [at : {"idle", "try", "count", "forward", "leave"} \cup Waiting,
         pool : Pools, failed : SUBSET Accounts, attempts : 0 .. MaxAttempts,
         gone : BOOLEAN]

Idle == [at |-> "idle", pool |-> User, failed |-> {}, attempts |-> 0,
         gone |-> FALSE]

Init == /\ job = [r \in Requests |-> Idle]
        /\ left = [r \in Requests |-> [k \in Pools |-> 0]]
        /\ lost = [k \in Pools |-> [t \in 1 .. TTL |-> 0]]
        /\ wait = [k \in Pools |-> 0]
        /\ up = TRUE
        /\ opened = 0
        /\ faults = 0

-----------------------------------------------------------------------------
At(r, point) == job[r].at = point

Goto(r, point) == job' = [job EXCEPT ![r].at = point]

Holders(k) == {r \in Requests : left[r][k] > 0}

LostIn(k) == Cardinality(UNION {{t} \X (1 .. lost[k][t]) : t \in 1 .. TTL})

(* Mutant: off by one. *)
FreeLast(k) == Cardinality(Holders(k)) + LostIn(k) =< Limit[k]

(* ZCARD < maxConcurrency *)
Free(k) == Cardinality(Holders(k)) + LostIn(k) < Limit[k]

Hold(r) == left' = [left EXCEPT ![r][job[r].pool] = TTL]

(* The slot is there: select an account, or forward to the one selected.   *)
Proceed(r) ==
    IF job[r].pool = User
    THEN \E a \in Accounts :
            job' = [job EXCEPT ![r].at = "try", ![r].pool = a]
    ELSE Goto(r, "forward")

Begin(r) ==
    /\ up /\ At(r, "idle")
    /\ Goto(r, "try")
    /\ UNCHANGED <<slots, wait, up, opened, faults>>

(* TryAcquireUserSlot, or the attempts of SelectAccountWithLoadAwareness.  *)
Try(r) ==
    /\ At(r, "try") /\ ~ job[r].gone
    /\ IF Free(job[r].pool)
       THEN Hold(r) /\ Proceed(r)
       ELSE Goto(r, "count") /\ UNCHANGED left
    /\ UNCHANGED <<lost, wait, up, opened, faults>>

(* Mutant: the deferred decrement also runs for a request that is refused. *)
CountRefused(r) ==
    /\ At(r, "count") /\ ~ job[r].gone
    /\ IF wait[job[r].pool] < Queue
       THEN /\ wait' = [wait EXCEPT ![job[r].pool] = @ + 1]
            /\ Goto(r, "wait")
       ELSE /\ wait' = [wait EXCEPT ![job[r].pool] = @ - 1]
            /\ Goto(r, "leave")
    /\ UNCHANGED <<slots, up, opened, faults>>

(* incrementWaitScript *)
Count(r) ==
    /\ At(r, "count") /\ ~ job[r].gone
    /\ IF wait[job[r].pool] < Queue
       THEN /\ wait' = [wait EXCEPT ![job[r].pool] = @ + 1]
            /\ Goto(r, "wait")
       ELSE /\ Goto(r, "leave")
            /\ UNCHANGED wait
    /\ UNCHANGED <<slots, up, opened, faults>>

(* An attempt of waitForSlotWithPingTimeout that succeeds. *)
Obtain(r) ==
    /\ At(r, "wait") /\ ~ job[r].gone
    /\ Free(job[r].pool)
    /\ Hold(r)
    /\ Goto(r, "uncount")
    /\ UNCHANGED <<lost, wait, up, opened, faults>>

(* The wait times out, or the client has gone. *)
GiveUp(r) ==
    /\ At(r, "wait")
    /\ Goto(r, "uncount")
    /\ UNCHANGED <<slots, wait, up, opened, faults>>

Served(r) == IF left[r][job[r].pool] > 0 THEN Proceed(r) ELSE Goto(r, "leave")

(* decrementWaitScript, run with a context of its own.  It is run whether  *)
(* or not the increment took effect.                                       *)
Uncount(r) ==
    /\ At(r, "uncount")
    /\ wait' = [wait EXCEPT ![job[r].pool] = IF @ > 0 THEN @ - 1 ELSE 0]
    /\ Served(r)
    /\ UNCHANGED <<slots, up, opened, faults>>

(* The steps of a request whose context is done: the attempt fails, and so *)
(* does the increment, which counts as success.                            *)
Cancelled(r) ==
    /\ job[r].gone
    /\ \/ At(r, "try") /\ Goto(r, "leave") /\ UNCHANGED opened
       \/ At(r, "count") /\ Goto(r, "wait") /\ opened' = opened + 1
    /\ UNCHANGED <<slots, wait, up, faults>>

-----------------------------------------------------------------------------
(* The next attempt, on an account that has not failed. *)
Attempt(r, failed) ==
    /\ job[r].attempts < MaxAttempts
    /\ \E a \in Accounts \ failed :
          job' = [job EXCEPT ![r].at = "try", ![r].pool = a,
                             ![r].failed = failed, ![r].attempts = @ + 1]

(* After a failed upstream call an error that may pass does not count as a *)
(* failure of the account (HandleFailoverError).                           *)
Retry(r) == Attempt(r, job[r].failed)

(* Any other error does.  When every account has failed, all of them may   *)
(* be tried again (HandleSelectionExhausted).                              *)
Switch(r) ==
    LET failed == job[r].failed \cup {job[r].pool} IN
    Attempt(r, IF failed = Accounts THEN {} ELSE failed)

(* Forward returns: the slot of the account is given back, and the request *)
(* ends or goes on with the same account or another one.                   *)
Ended(r) == Goto(r, "leave") \/ Retry(r) \/ Switch(r)

(* Mutant: the loop goes on without giving the slot back.                  *)
FinishKeeping(r) ==
    /\ At(r, "forward")
    /\ \/ Goto(r, "leave") /\ left' = [left EXCEPT ![r][job[r].pool] = 0]
       \/ (Retry(r) \/ Switch(r)) /\ UNCHANGED left
    /\ UNCHANGED <<lost, wait, up, opened, faults>>

Finish(r) ==
    /\ At(r, "forward")
    /\ left' = [left EXCEPT ![r][job[r].pool] = 0]
    /\ Ended(r)
    /\ UNCHANGED <<lost, wait, up, opened, faults>>

(* The handler returns: the deferred release of the user's slot. *)
Leave(r) ==
    /\ At(r, "leave")
    /\ left' = [left EXCEPT ![r][User] = 0]
    /\ job' = [job EXCEPT ![r] = Idle]
    /\ UNCHANGED <<lost, wait, up, opened, faults>>

(* wrapReleaseOnDone: the callback of a context that is done, at most once *)
(* and beside the handler.  A slot is wrapped when the wait for it is over.*)
Drop(r) ==
    /\ job[r].gone
    /\ \E k \in Pools :
          /\ left[r][k] > 0
          /\ ~ (At(r, "uncount") /\ job[r].pool = k)
          /\ left' = [left EXCEPT ![r][k] = 0]
    /\ UNCHANGED <<job, lost, wait, up, opened, faults>>

-----------------------------------------------------------------------------
(* Members of a pool stay in it, with t ticks left, and nobody knows them. *)
Lose(k, t) == lost' = [lost EXCEPT ![k][t] = @ + 1]

Disconnect(r) ==
    /\ ~ At(r, "idle") /\ ~ job[r].gone
    /\ job' = [job EXCEPT ![r].gone = TRUE]
    /\ UNCHANGED <<slots, wait, up, opened>>

(* An attempt fails, before or after it took effect. *)
AcquireFails(r) ==
    /\ \/ At(r, "try") /\ Goto(r, IF job[r].pool = User THEN "leave" ELSE "count")
       \/ At(r, "wait") /\ Goto(r, "uncount")
    /\ \/ UNCHANGED lost
       \/ Free(job[r].pool) /\ Lose(job[r].pool, TTL)
    /\ UNCHANGED <<left, wait, up, opened>>

(* IncrementWaitCount fails open, before or after it took effect. *)
CountFails(r) ==
    /\ At(r, "count")
    /\ Goto(r, "wait")
    /\ opened' = opened + 1
    /\ \/ UNCHANGED wait
       \/ /\ wait[job[r].pool] < Queue
          /\ wait' = [wait EXCEPT ![job[r].pool] = @ + 1]
    /\ UNCHANGED <<slots, up>>

UncountFails(r) ==
    /\ At(r, "uncount")
    /\ Served(r)
    /\ UNCHANGED <<slots, wait, up, opened>>

(* The statement of a release fails: nobody repeats it. *)
ReleaseFails(r) ==
    /\ \E k \in Pools :
          /\ left[r][k] > 0
          /\ \/ At(r, "forward") /\ k = job[r].pool /\ Ended(r)
             \/ At(r, "leave") /\ k = User /\ job' = [job EXCEPT ![r] = Idle]
          /\ Lose(k, left[r][k])
          /\ left' = [left EXCEPT ![r][k] = 0]
    /\ UNCHANGED <<wait, up, opened>>

Crash ==
    /\ up
    /\ up' = FALSE
    /\ job' = [r \in Requests |-> Idle]
    /\ left' = [r \in Requests |-> [k \in Pools |-> 0]]
    /\ lost' = [k \in Pools |-> [t \in 1 .. TTL |->
                   lost[k][t] + Cardinality({r \in Requests : left[r][k] = t})]]
    /\ UNCHANGED <<wait, opened>>

Disturb ==
    /\ faults < MaxFaults
    /\ faults' = faults + 1
    /\ \/ \E r \in Requests :
             \/ Disconnect(r) \/ AcquireFails(r) \/ CountFails(r)
             \/ UncountFails(r) \/ ReleaseFails(r)
       \/ Crash

(* CleanupStaleProcessSlots: no member carries the prefix of a process     *)
(* that has just started.                                                  *)
Startup ==
    /\ ~ up
    /\ up' = TRUE
    /\ lost' = [k \in Pools |-> [t \in 1 .. TTL |-> 0]]
    /\ wait' = [k \in Pools |-> 0]
    /\ UNCHANGED <<job, left, opened, faults>>

(* The cleanup at startup fails: the process serves all the same.  Crashes *)
(* are counted, so that this needs no count of its own.                    *)
StartupFails ==
    /\ ~ up
    /\ up' = TRUE
    /\ UNCHANGED <<job, slots, wait, opened, faults>>

(* A wait counter expires when it was not incremented for a whole TTL,     *)
(* which is longer than a wait.                                            *)
ForgetWait(k) ==
    /\ wait[k] > 0
    /\ \A r \in Requests : job[r].at \in Waiting => job[r].pool # k
    /\ wait' = [wait EXCEPT ![k] = 0]
    /\ UNCHANGED <<job, slots, up, opened, faults>>

(* Mutant: members age with their key, which every attempt refreshes. *)
TickByKey ==
    /\ \A r \in Requests, k \in Pools : left[r][k] # 1
    /\ left' = [r \in Requests |-> [k \in Pools |->
                   IF left[r][k] > 0 THEN left[r][k] - 1 ELSE 0]]
    /\ lost' = [k \in Pools |->
                   IF Holders(k) # {} THEN lost[k]
                   ELSE [t \in 1 .. TTL |-> IF t < TTL THEN lost[k][t + 1] ELSE 0]]
    /\ UNCHANGED <<job, wait, up, opened, faults>>

Tick ==
    /\ \A r \in Requests, k \in Pools : left[r][k] # 1
    /\ left' = [r \in Requests |-> [k \in Pools |->
                   IF left[r][k] > 0 THEN left[r][k] - 1 ELSE 0]]
    /\ lost' = [k \in Pools |-> [t \in 1 .. TTL |->
                   IF t < TTL THEN lost[k][t + 1] ELSE 0]]
    /\ UNCHANGED <<job, wait, up, opened, faults>>

Step(r) == \/ Try(r) \/ Count(r) \/ Obtain(r) \/ GiveUp(r) \/ Uncount(r)
           \/ Cancelled(r) \/ Finish(r) \/ Leave(r)

Next == \/ \E r \in Requests : Begin(r) \/ Step(r) \/ Drop(r)
        \/ \E k \in Pools : ForgetWait(k)
        \/ Disturb
        \/ Startup \/ StartupFails
        \/ Tick

Spec == Init /\ [][Next]_vars

(* Requests go on, a crashed process is started again, the clock runs.     *)
FairSpec == /\ Spec
            /\ \A r \in Requests : WF_vars(Step(r)) /\ WF_vars(Drop(r))
            /\ WF_vars(Startup)
            /\ WF_vars(Tick)

-----------------------------------------------------------------------------
TypeOK ==
    /\ job \in [Requests -> Jobs]
    /\ left \in [Requests -> [Pools -> 0 .. TTL]]
    /\ lost \in [Pools -> [1 .. TTL -> Nat]]
    /\ wait \in [Pools -> 0 .. Queue]
    /\ up \in BOOLEAN
    /\ opened \in Nat
    /\ faults \in 0 .. MaxFaults

(* maxConcurrency: the requests that hold a slot of a user or an account   *)
(* never exceed its limit, whatever replies are lost on the way, however   *)
(* often slots are released twice, and across a crash.                     *)
SlotLimit == \A k \in Pools : Cardinality(Holders(k)) =< Limit[k]

WaitingFor(k) == {r \in Requests : job[r].at \in Waiting /\ job[r].pool = k}

(* The wait queue is bounded although the counter is incremented and       *)
(* decremented in separate statements: each increment that failed open     *)
(* lets one more request wait, and no more than one, although its          *)
(* decrement is not left out.                                              *)
QueueLimit == \A k \in Pools : Cardinality(WaitingFor(k)) =< Queue + opened

(* A request is forwarded under a slot of its user and one of its account, *)
(* unless its client has gone, and a request that has ended holds none:    *)
(* waits, retries, switches of account and the callback beside the handler *)
(* (wrapReleaseOnDone) give no slot back too early and forget none.        *)
SlotsFollowRequest ==
    \A r \in Requests :
        /\ At(r, "idle") => \A k \in Pools : left[r][k] = 0
        /\ At(r, "forward") /\ ~ job[r].gone =>
              left[r][User] > 0 /\ left[r][job[r].pool] > 0

(* A slot whose release failed, or that was taken for a caller who was     *)
(* told otherwise, is free again some day, under any traffic: the limit    *)
(* does not shrink for good.                                               *)
SlotsFreed == \A k \in Pools : LostIn(k) > 0 ~> LostIn(k) = 0
=============================================================================
