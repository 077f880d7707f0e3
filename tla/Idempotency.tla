----------------------------- MODULE Idempotency -----------------------------
(***************************************************************************)
(* IdempotencyCoordinator.Execute (idempotency.go): calls that carry the   *)
(* same idempotency key, in any number of server instances, and the        *)
(* cleanup of expired rows (idempotency_cleanup_service.go).               *)
(*                                                                         *)
(* Each step of a caller is one statement on the store, or the execution   *)
(* of the operation itself.  Calls without a key execute without any of    *)
(* this and are left out.  The code puts no limit on the time between two  *)
(* statements; MaxDelay and MaxRun name the times for which the            *)
(* properties hold.                                                        *)
(***************************************************************************)
EXTENDS IdempotencyStore

CONSTANTS Callers,
          Backoff,      \* FailedRetryBackoff
          MaxRun        \* ticks an execution takes, its last statement too

(* The claim of a row takes less than ProcessingTimeout, and an execution  *)
(* ends before its row expires.                                            *)
ASSUME RunAssumption == /\ Backoff \in Nat \ {0} /\ MaxRun \in Nat
                        /\ MaxDelay < Timeout
                        /\ MaxDelay + MaxRun < TTL

VARIABLES job,      \* what each caller is doing
          owed,     \* ticks for which an answered success is to be replayed
          crossed,  \* a success was reclaimed by a caller that had read the
                    \* expired record it replaced
          foreign   \* a replay has returned the answer to another request

vars == <<row, job, owed, crossed, foreign>>

Claiming == {"create", "get", "reclaim", "reget"}
Executing == {"execute", "succeed", "fail"}

(* age: ticks since the call's now; from and expired: what it has read;    *)
(* mine: the row it has read or claimed still exists; repeat: when it      *)
(* began, a success was on record for longer than a claim takes.           *)
Jobs == [at : {"idle"} \cup Claiming \cup Executing, print : Prints,
         age : 0 .. MaxDelay + MaxRun, from : Statuses, expired : BOOLEAN,
         mine : BOOLEAN, repeat : BOOLEAN]

Idle == [at |-> "idle", print |-> CHOOSE print \in Prints : TRUE, age |-> 0,
         from |-> "none", expired |-> FALSE, mine |-> FALSE, repeat |-> FALSE]

NoRow == [status |-> "none", print |-> Idle.print, body |-> Idle.print,
          lock |-> Past, left |-> Past]

Init ==
    /\ row = NoRow
    /\ job = [c \in Callers |-> Idle]
    /\ owed = 0
    /\ crossed = FALSE
    /\ foreign = FALSE

-----------------------------------------------------------------------------
At(c, point) == job[c].at = point

Goto(c, point) == job' = [job EXCEPT ![c].at = point]

Return(c) == job' = [job EXCEPT ![c] = Idle]

keepRow == UNCHANGED row
keepPromises == UNCHANGED <<owed, crossed>>
keepHistory == keepPromises /\ UNCHANGED foreign

(* Execute, up to the first statement: now is taken. *)
Begin(c, print) ==
    /\ At(c, "idle")
    /\ job' = [job EXCEPT ![c] =
                 [Idle EXCEPT !.at = "create", !.print = print,
                              !.repeat = /\ row.status = "succeeded"
                                         /\ row.left > MaxDelay]]
    /\ keepRow /\ keepHistory

Create(c) ==
    /\ At(c, "create")
    /\ IF Exists
       THEN /\ Goto(c, "get")
            /\ keepRow
       ELSE /\ CreateProcessing(job[c].print, job[c].age)
            /\ job' = [job EXCEPT ![c].at = "execute", ![c].mine = TRUE]
    /\ keepHistory

(* Where a call goes that has read an unexpired row of its own request.    *)
(* Every branch but the reclaim returns: a replay, or a conflict.          *)
Answer(c) ==
    /\ IF row.status = "failed" /\ ~ Locked(job[c].age)
       THEN job' = [job EXCEPT ![c].at = "reclaim", ![c].from = "failed",
                               ![c].expired = FALSE, ![c].mine = TRUE]
       ELSE Return(c)
    /\ foreign' = \/ foreign
                  \/ row.status = "succeeded" /\ row.body # job[c].print

(* A conflict, or no row where one was expected. *)
Refuse(c) == Return(c) /\ UNCHANGED foreign

(* An expired row is taken over in whatever status it is. *)
TakeOver(c) ==
    /\ job' = [job EXCEPT ![c].at = "reclaim", ![c].from = row.status,
                          ![c].expired = TRUE, ![c].mine = TRUE]
    /\ UNCHANGED foreign

(* Mutant: locked_until is read for expires_at. *)
GetLocked(c) ==
    /\ At(c, "get")
    /\ IF ~ Exists \/ row.print # job[c].print
       THEN Refuse(c)
       ELSE IF ~ Locked(job[c].age) THEN TakeOver(c) ELSE Answer(c)
    /\ keepRow /\ keepPromises

Get(c) ==
    /\ At(c, "get")
    /\ IF ~ Exists \/ row.print # job[c].print
       THEN Refuse(c)
       ELSE IF Expired(job[c].age) THEN TakeOver(c) ELSE Answer(c)
    /\ keepRow /\ keepPromises

(* TryReclaim of the row whose id was read. *)
TryReclaim(c) ==
    /\ At(c, "reclaim")
    /\ IF job[c].mine /\ Reclaimable(job[c].from, job[c].age)
       THEN /\ Reclaim(job[c].age)
            /\ Goto(c, "execute")
            /\ crossed' = (crossed \/ (row.status = "succeeded" /\ row.left > 0))
       ELSE /\ IF job[c].expired THEN Goto(c, "reget") ELSE Return(c)
            /\ keepRow
            /\ UNCHANGED crossed
    /\ UNCHANGED <<owed, foreign>>

(* Mutant: the fingerprint is not compared again. *)
RegetAny(c) ==
    /\ At(c, "reget")
    /\ IF Exists THEN Answer(c) ELSE Refuse(c)
    /\ keepRow /\ keepPromises

(* The second read, after somebody else has taken the expired row. *)
Reget(c) ==
    /\ At(c, "reget")
    /\ IF Exists /\ row.print = job[c].print THEN Answer(c) ELSE Refuse(c)
    /\ keepRow /\ keepPromises

-----------------------------------------------------------------------------
(* The operation returns a value or an error. *)
Finish(c) ==
    /\ At(c, "execute")
    /\ \E point \in {"succeed", "fail"} : Goto(c, point)
    /\ keepRow /\ keepHistory

Remaining(c) == TTL - job[c].age

(* MarkSucceeded.  The caller is answered with success unless the reply    *)
(* of the statement is lost.                                               *)
Succeed(c) ==
    /\ At(c, "succeed")
    /\ IF job[c].mine THEN MarkSucceeded(job[c].print, Remaining(c))
                      ELSE keepRow
    /\ owed' \in {owed, Remaining(c)}
    /\ Return(c)
    /\ UNCHANGED <<crossed, foreign>>

Fail(c) ==
    /\ At(c, "fail")
    /\ IF job[c].mine THEN MarkFailedRetryable(Backoff, Remaining(c))
                      ELSE keepRow
    /\ Return(c)
    /\ keepHistory

(* Mutant: the call is answered although its success is not stored. *)
StopAnswered(c) ==
    /\ ~ At(c, "idle")
    /\ Return(c)
    /\ IF At(c, "succeed") THEN owed' = Remaining(c) ELSE UNCHANGED owed
    /\ keepRow
    /\ UNCHANGED <<crossed, foreign>>

(* The caller dies, or a statement fails and Execute returns its error.    *)
(* It returns before the statement takes effect; after it, is the same     *)
(* step one statement later.                                               *)
Stop(c) ==
    /\ ~ At(c, "idle")
    /\ Return(c)
    /\ keepRow /\ keepHistory

-----------------------------------------------------------------------------
(* cleanupOnce: the row is gone for those who had read or claimed it. *)
CleanupOnce ==
    /\ Deletable
    /\ Delete
    /\ job' = [c \in Callers |-> [job[c] EXCEPT !.mine = FALSE]]
    /\ keepHistory

MayWait(c) ==
    /\ job[c].at \in Claiming => job[c].age < MaxDelay
    /\ job[c].at \in Executing => job[c].age < MaxDelay + MaxRun

Older(c) == IF At(c, "idle") THEN job[c]
                             ELSE [job[c] EXCEPT !.age = @ + 1]

Tick ==
    /\ \A c \in Callers : MayWait(c)
    /\ Pass
    /\ job' = [c \in Callers |-> Older(c)]
    /\ owed' = IF owed > 0 THEN owed - 1 ELSE 0
    /\ UNCHANGED <<crossed, foreign>>

Step(c) == \/ Create(c) \/ Get(c) \/ TryReclaim(c) \/ Reget(c)
           \/ Finish(c) \/ Succeed(c) \/ Fail(c)

Next == \/ \E c \in Callers, print \in Prints : Begin(c, print)
        \/ \E c \in Callers : Step(c) \/ Stop(c)
        \/ CleanupOnce
        \/ Tick

Spec == Init /\ [][Next]_vars

(* Calls go on or die; the clock and the cleanup's ticker run. *)
FairSpec == /\ Spec
            /\ \A c \in Callers : WF_vars(Step(c))
            /\ WF_vars(CleanupOnce)
            /\ WF_vars(Tick)

-----------------------------------------------------------------------------
TypeOK ==
    /\ row \in RecordType
    /\ job \in [Callers -> Jobs]
    /\ \A c \in Callers : job[c].mine => Exists
    /\ owed \in 0 .. TTL
    /\ crossed \in BOOLEAN
    /\ foreign \in BOOLEAN

(* One execution at a time: CreateProcessing and TryReclaim let one caller *)
(* in, and the row outlasts the execution, although a caller compares      *)
(* times that are MaxDelay old and DeleteExpired looks at no lock.         *)
OneExecutor ==
    \A c, d \in Callers :
        job[c].at \in Executing /\ job[d].at \in Executing => c = d

(* A success that was answered stays on record until it expires, whoever   *)
(* else uses the key, dies or fails meanwhile; unless a caller that had    *)
(* read the expired record before has reclaimed the new one (TryReclaim    *)
(* compares status and lock, not expires_at).                              *)
AckedIsRecorded == owed > 0 /\ ~ crossed => row.status = "succeeded"

(* The coordinator implements the key of OnceOnly up to the first reclaim  *)
(* of that kind: whatever calls claim, die, fail or clean up, an execution *)
(* begins only when none is under way and no answered success is owed, and *)
(* a success leaves the record only when it is owed no longer.             *)
Key == INSTANCE OnceOnly
       WITH running <- {c \in Callers : job[c].at \in Executing},
            kept    <- row.status = "succeeded"

RunsOnce == Key!Init /\ [][Key!Next \/ crossed']_(Key!vars)

(* A replay returns the answer to the same request: a reclaimed row keeps  *)
(* its fingerprint, and rows come and go between the two reads, so what    *)
(* was compared once need not hold any more.                               *)
ReplayIsOwn == ~ foreign

(* A call that began while a success was on record does not execute the    *)
(* operation, however the claims and the cleanup interleave.               *)
RepeatReplays ==
    ~ crossed => \A c \in Callers : ~ (job[c].repeat /\ job[c].at \in Executing)

Orphaned ==
    /\ row.status = "processing"
    /\ ~ \E c \in Callers : job[c].at \in Executing /\ job[c].mine

(* When the executing process dies, or cannot store its result, the key is *)
(* usable again some day: the row expires although it is processing.       *)
KeyFreed == Orphaned ~> ~ Orphaned
==============================================================================
