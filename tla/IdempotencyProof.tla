--------------------------- MODULE IdempotencyProof ---------------------------
(***************************************************************************)
(* Proofs of the safety properties of Idempotency, for any number of       *)
(* callers and fingerprints and any times that satisfy RunAssumption.      *)
(*                                                                         *)
(* The key is ClaimsAreOld: a caller that has read an expired row while it *)
(* was processing may still try to take it over after somebody else has,   *)
(* and status and fingerprint look the same to it.  What keeps it out is   *)
(* that its time is older than the other's claim, so that the lock written *)
(* by that claim is not past for it.                                       *)
(***************************************************************************)
EXTENDS Idempotency, TLAPS

(* Only claims that began less than MaxDelay ago are still on their way. *)
ClaimAges == \A c \in Callers : job[c].at \in Claiming => job[c].age =< MaxDelay

(* A row keeps its fingerprint as long as it exists. *)
PrintsKept ==
    /\ \A c \in Callers : job[c].mine => row.print = job[c].print
    /\ row.status = "succeeded" => row.body = row.print
    /\ ~ foreign

(* The row of an execution lasts until the execution ends. *)
ExecutorHolds ==
    \A c \in Callers : job[c].at \in Executing =>
        /\ job[c].mine
        /\ row.status = "processing"
        /\ row.left >= TTL - job[c].age
        /\ row.lock >= Timeout - job[c].age

(* A caller that takes the row for one that was left in processing has     *)
(* read it before the execution claimed it.                                *)
ClaimsAreOld ==
    \A c, d \in Callers :
        job[c].at \in Executing /\ At(d, "reclaim") /\ job[d].from = "processing"
            => job[c].age =< job[d].age + MaxDelay

(* An answered success is on record for as long as it is owed. *)
OwedStays == owed > 0 /\ ~ crossed => row.status = "succeeded" /\ row.left >= owed

(* A repeated call does not get further than its first read. *)
RepeatsWait ==
    ~ crossed => \A c \in Callers : job[c].repeat =>
        /\ job[c].at \in {"create", "get"}
        /\ row.status = "succeeded"
        /\ row.left + job[c].age > MaxDelay

Inv == /\ TypeOK
       /\ ClaimAges
       /\ PrintsKept
       /\ ExecutorHolds
       /\ ClaimsAreOld
       /\ OneExecutor
       /\ OwedStays
       /\ RepeatsWait

-----------------------------------------------------------------------------
(* What a step does to the record of its caller. *)
LEMMA IdleType ==
  /\ Idle \in Jobs
  /\ Idle.at = "idle" /\ ~ Idle.mine /\ ~ Idle.repeat /\ Idle.age = 0
  BY PrintsAssumption, TimesAssumption, RunAssumption
  DEF Idle, Jobs, Statuses

LEMMA JobUpdate ==
  ASSUME job \in [Callers -> Jobs], NEW c \in Callers, NEW j \in Jobs,
         job' = [job EXCEPT ![c] = j]
  PROVE  /\ job' \in [Callers -> Jobs]
         /\ job'[c] = j
         /\ \A d \in Callers \ {c} : job'[d] = job[d]
  OBVIOUS

LEMMA ReturnEffect ==
  ASSUME job \in [Callers -> Jobs], NEW c \in Callers, Return(c)
  PROVE  /\ job' \in [Callers -> Jobs]
         /\ job'[c] = Idle
         /\ \A d \in Callers \ {c} : job'[d] = job[d]
  BY IdleType, JobUpdate DEF Return

LEMMA GotoEffect ==
  ASSUME job \in [Callers -> Jobs], NEW c \in Callers,
         NEW point \in Claiming \cup Executing, Goto(c, point)
  PROVE  /\ job' \in [Callers -> Jobs]
         /\ job'[c] = [job[c] EXCEPT !.at = point]
         /\ \A d \in Callers \ {c} : job'[d] = job[d]
<1> DEFINE j == [job[c] EXCEPT !.at = point]
<1>1. j \in Jobs
  BY DEF Jobs
<1>2. job' = [job EXCEPT ![c] = j]
  BY DEF Goto
<1> HIDE DEF j
<1>3. QED BY <1>1, <1>2, JobUpdate DEF j

(* A step of one caller that does not execute anything and leaves the row  *)
(* and the promises alone.                                                 *)
LEMMA Moves ==
  ASSUME Inv, NEW c \in Callers, keepRow, keepHistory,
         job' \in [Callers -> Jobs],
         \A d \in Callers \ {c} : job'[d] = job[d],
         job'[c].at \notin Executing,
         job'[c].at \in Claiming => job'[c].age =< MaxDelay,
         job'[c].mine => Exists /\ row.print = job'[c].print,
         job'[c].at = "reclaim" /\ job'[c].from = "processing" =>
             \A e \in Callers : job[e].at \in Executing =>
                 job[e].age =< job'[c].age + MaxDelay,
         job'[c].repeat /\ ~ crossed =>
             /\ job'[c].at \in {"create", "get"}
             /\ row.status = "succeeded"
             /\ row.left + job'[c].age > MaxDelay
  PROVE  Inv'
<1> USE DEF keepRow, keepHistory, keepPromises
<1>1. TypeOK'
  BY DEF Inv, TypeOK, Exists
<1>2. ClaimAges'
  BY DEF Inv, ClaimAges
<1>3. PrintsKept'
  BY DEF Inv, PrintsKept
<1>4. ExecutorHolds'
  BY DEF Inv, ExecutorHolds
<1>5. ClaimsAreOld'
  BY DEF Inv, ClaimsAreOld, At
<1>6. OneExecutor'
  BY DEF Inv, OneExecutor
<1>7. OwedStays'
  BY DEF Inv, OwedStays
<1>8. RepeatsWait'
  BY DEF Inv, RepeatsWait
<1> QED BY <1>1, <1>2, <1>3, <1>4, <1>5, <1>6, <1>7, <1>8 DEF Inv

LEMMA Returns ==
  ASSUME Inv, NEW c \in Callers, Return(c), keepRow, keepHistory
  PROVE  Inv'
<1>1. job \in [Callers -> Jobs]
  BY DEF Inv, TypeOK
<1> QED BY <1>1, ReturnEffect, IdleType, Moves DEF Executing, Claiming

-----------------------------------------------------------------------------
LEMMA BeginKeeps ==
  ASSUME Inv, NEW c \in Callers, NEW print \in Prints, Begin(c, print)
  PROVE  Inv'
<1> DEFINE j == [Idle EXCEPT !.at = "create", !.print = print,
                             !.repeat = /\ row.status = "succeeded"
                                        /\ row.left > MaxDelay]
<1>1. job \in [Callers -> Jobs] /\ row \in RecordType
  BY DEF Inv, TypeOK
<1>2. /\ j \in Jobs
      /\ j.at = "create" /\ ~ j.mine /\ j.age = 0
      /\ j.repeat => row.status = "succeeded" /\ row.left > MaxDelay
  BY IdleType DEF Jobs, Claiming
<1>3. job' = [job EXCEPT ![c] = j]
  BY DEF Begin
<1>4. row.left \in Int /\ MaxDelay \in Nat
  BY <1>1, TimesAssumption DEF RecordType
<1>5. keepRow /\ keepHistory
  BY DEF Begin
<1> HIDE DEF j
<1>6. /\ job' \in [Callers -> Jobs]
      /\ job'[c] = j
      /\ \A d \in Callers \ {c} : job'[d] = job[d]
  BY <1>1, <1>2, <1>3, JobUpdate
<1>7. j.age =< MaxDelay /\ (j.repeat => row.left + j.age > MaxDelay)
  BY <1>2, <1>4
<1> QED BY <1>2, <1>5, <1>6, <1>7, Moves DEF Executing

(* A call that stays before its execution keeps its own record but for the *)
(* program point.                                                          *)
LEMMA GoesOn ==
  ASSUME Inv, NEW c \in Callers, NEW point \in {"get", "reget"},
         job[c].at \in Claiming, Goto(c, point), keepRow, keepHistory,
         point = "reget" => ~ At(c, "create") /\ ~ At(c, "get")
  PROVE  Inv'
<1>1. job \in [Callers -> Jobs]
  BY DEF Inv, TypeOK
<1>2. point \in Claiming \cup Executing /\ point \notin Executing
  BY DEF Claiming, Executing
<1>3. /\ job' \in [Callers -> Jobs]
      /\ job'[c] = [job[c] EXCEPT !.at = point]
      /\ \A d \in Callers \ {c} : job'[d] = job[d]
  BY <1>1, <1>2, GotoEffect
<1>4. /\ job'[c].at = point
      /\ job'[c].age = job[c].age /\ job'[c].print = job[c].print
      /\ job'[c].mine = job[c].mine /\ job'[c].repeat = job[c].repeat
  BY <1>1, <1>3 DEF Jobs
<1>5. job'[c].age =< MaxDelay
  BY <1>4 DEF Inv, ClaimAges
<1>6. job'[c].mine => Exists /\ row.print = job'[c].print
  BY <1>4 DEF Inv, TypeOK, PrintsKept
<1>7. job'[c].repeat /\ ~ crossed =>
          /\ job'[c].at \in {"create", "get"}
          /\ row.status = "succeeded"
          /\ row.left + job'[c].age > MaxDelay
  <2> SUFFICES ASSUME job[c].repeat, ~ crossed
               PROVE  /\ point \in {"create", "get"}
                      /\ row.status = "succeeded"
                      /\ row.left + job[c].age > MaxDelay
    BY <1>4
  <2>1. /\ job[c].at \in {"create", "get"}
        /\ row.status = "succeeded"
        /\ row.left + job[c].age > MaxDelay
    BY DEF Inv, RepeatsWait
  <2> QED BY <2>1 DEF At
<1> QED BY <1>2, <1>3, <1>4, <1>5, <1>6, <1>7, Moves

(* A caller takes the row: nobody executes, and the row is in processing.  *)
LEMMA Claims ==
  ASSUME Inv, NEW c \in Callers, job[c].at \in Claiming,
         \A d \in Callers : job[d].at \notin Executing,
         job' \in [Callers -> Jobs],
         \A d \in Callers \ {c} : job'[d] = job[d],
         job'[c].at = "execute", job'[c].age = job[c].age, job'[c].mine,
         job'[c].print = job[c].print, job'[c].repeat = job[c].repeat,
         row' \in RecordType,
         row'.status = "processing", row'.print = job[c].print,
         row'.left = TTL - job[c].age, row'.lock = Timeout - job[c].age,
         \A d \in Callers : job[d].mine => row'.print = job[d].print,
         crossed' \in BOOLEAN, crossed => crossed',
         row.status = "succeeded" /\ row.left > 0 => crossed',
         UNCHANGED <<owed, foreign>>
  PROVE  Inv'
<1>1. /\ MaxDelay \in Nat /\ TTL \in Nat /\ Timeout \in Nat /\ MaxRun \in Nat
      /\ row.left \in Int /\ owed \in Nat /\ owed \in 0 .. TTL
      /\ \A d \in Callers : job[d].age \in Nat
  BY TimesAssumption, RunAssumption DEF Inv, TypeOK, RecordType, Jobs
<1>2. job[c].age =< MaxDelay
  BY DEF Inv, ClaimAges
<1>3. TypeOK'
  BY DEF Inv, TypeOK, Exists
<1>4. ClaimAges'
  BY <1>2 DEF Inv, ClaimAges
<1>5. PrintsKept'
  BY DEF Inv, PrintsKept
<1>6. ExecutorHolds'
  BY <1>1 DEF Inv, ExecutorHolds
<1>7. ClaimsAreOld'
  BY <1>1, <1>2 DEF Inv, ClaimsAreOld, At
<1>8. OneExecutor'
  BY DEF Inv, OneExecutor
<1>9. OwedStays'
  BY <1>1 DEF Inv, OwedStays
<1>10. \A d \in Callers : job[d].repeat => crossed'
  <2> SUFFICES ASSUME NEW d \in Callers, job[d].repeat, ~ crossed
               PROVE  crossed'
    OBVIOUS
  <2>1. /\ job[d].at \in Claiming /\ row.status = "succeeded"
        /\ row.left + job[d].age > MaxDelay
    BY DEF Inv, RepeatsWait, Claiming
  <2>2. row.left > 0
    BY <1>1, <2>1 DEF Inv, ClaimAges
  <2> QED BY <2>1, <2>2
<1>11. RepeatsWait'
  BY <1>10 DEF RepeatsWait
<1> QED BY <1>3, <1>4, <1>5, <1>6, <1>7, <1>8, <1>9, <1>11 DEF Inv

LEMMA CreateKeeps ==
  ASSUME Inv, NEW c \in Callers, Create(c)
  PROVE  Inv'
<1>0. job \in [Callers -> Jobs] /\ row \in RecordType
  BY DEF Inv, TypeOK
<1>1. CASE Exists
  BY <1>1, GoesOn DEF Create, At, Claiming
<1>2. CASE ~ Exists
  <2>1. CreateProcessing(job[c].print, job[c].age) /\ keepHistory
    BY <1>2 DEF Create
  <2> DEFINE j == [job[c] EXCEPT !.at = "execute", !.mine = TRUE]
  <2>2. j \in Jobs
    BY <1>0 DEF Jobs, Executing
  <2>3. /\ j.at = "execute" /\ j.age = job[c].age /\ j.mine
        /\ j.print = job[c].print /\ j.repeat = job[c].repeat
    BY <1>0 DEF Jobs
  <2>4. job' = [job EXCEPT ![c] = j]
    BY <1>0, <1>2 DEF Create
  <2> HIDE DEF j
  <2>5. /\ job' \in [Callers -> Jobs]
        /\ job'[c] = j
        /\ \A d \in Callers \ {c} : job'[d] = job[d]
    BY <1>0, <2>2, <2>4, JobUpdate
  <2>6. job[c].age \in Int /\ job[c].print \in Prints
        /\ TTL \in Int /\ Timeout \in Int
    BY <1>0, TimesAssumption DEF Jobs
  <2>7. /\ row' \in RecordType
        /\ row'.status = "processing" /\ row'.print = job[c].print
        /\ row'.left = TTL - job[c].age /\ row'.lock = Timeout - job[c].age
    BY <2>1, <2>6 DEF CreateProcessing, RecordType, Statuses
  <2>8. \A d \in Callers : job[d].at \notin Executing /\ ~ job[d].mine
    BY <1>2 DEF Inv, TypeOK, ExecutorHolds, Exists
  <2>9. row.status # "succeeded" /\ crossed' = crossed /\ crossed \in BOOLEAN
        /\ UNCHANGED <<owed, foreign>>
    BY <1>2, <2>1 DEF Exists, keepHistory, keepPromises, Inv, TypeOK
  <2>10. job[c].at \in Claiming
    BY DEF Create, At, Claiming
  <2> QED BY <2>3, <2>5, <2>7, <2>8, <2>9, <2>10, Claims
<1> QED BY <1>1, <1>2

(* The caller has compared the row with its own request and goes on to     *)
(* take it over.                                                           *)
LEMMA Approaches ==
  ASSUME Inv, NEW c \in Callers, job[c].at \in Claiming,
         NEW from \in Statuses, NEW expired \in BOOLEAN,
         Exists, row.print = job[c].print,
         job' = [job EXCEPT ![c].at = "reclaim", ![c].from = from,
                            ![c].expired = expired, ![c].mine = TRUE],
         from = "processing" => Expired(job[c].age),
         row.status = "succeeded" => Expired(job[c].age),
         keepRow, keepHistory
  PROVE  Inv'
<1> DEFINE j == [job[c] EXCEPT !.at = "reclaim", !.from = from,
                               !.expired = expired, !.mine = TRUE]
<1>1. job \in [Callers -> Jobs] /\ row \in RecordType
  BY DEF Inv, TypeOK
<1>2. j \in Jobs
  BY <1>1 DEF Jobs, Claiming
<1>3. /\ j.at = "reclaim" /\ j.from = from /\ j.mine
      /\ j.age = job[c].age /\ j.print = job[c].print /\ j.repeat = job[c].repeat
  BY <1>1 DEF Jobs
<1>4. job' = [job EXCEPT ![c] = j]
  BY <1>1
<1> HIDE DEF j
<1>5. /\ job' \in [Callers -> Jobs]
      /\ job'[c] = j
      /\ \A d \in Callers \ {c} : job'[d] = job[d]
  BY <1>1, <1>2, <1>4, JobUpdate
<1>6. /\ MaxDelay \in Nat /\ TTL \in Nat /\ MaxRun \in Nat
      /\ row.left \in Int
      /\ \A d \in Callers : job[d].age \in 0 .. MaxDelay + MaxRun
  BY <1>1, TimesAssumption, RunAssumption DEF RecordType, Jobs
<1>7. Expired(job[c].age) => \A e \in Callers : job[e].at \notin Executing
  BY <1>6, RunAssumption DEF Expired, Inv, ExecutorHolds
<1>8. ~ (job[c].repeat /\ ~ crossed)
  <2> SUFFICES ASSUME job[c].repeat, ~ crossed
               PROVE  FALSE
    OBVIOUS
  <2>1. row.status = "succeeded" /\ row.left + job[c].age > MaxDelay
    BY DEF Inv, RepeatsWait
  <2> QED BY <1>6, <2>1 DEF Expired
<1>9. job'[c].age =< MaxDelay
  BY <1>3, <1>5 DEF Inv, ClaimAges
<1>10. job'[c].at \notin Executing
  BY <1>3, <1>5 DEF Executing
<1> QED BY <1>3, <1>5, <1>7, <1>8, <1>9, <1>10, Moves

LEMMA AnswerKeeps ==
  ASSUME Inv, NEW c \in Callers, job[c].at \in Claiming,
         Exists, row.print = job[c].print, ~ Expired(job[c].age) \/ At(c, "reget"),
         Answer(c), keepRow, keepPromises
  PROVE  Inv'
<1>1. keepHistory
  BY DEF Answer, Inv, PrintsKept, TypeOK, keepHistory
<1>2. CASE row.status = "failed" /\ ~ Locked(job[c].age)
  <2>1. "failed" \in Statuses /\ FALSE \in BOOLEAN
    BY DEF Statuses
  <2>2. job' = [job EXCEPT ![c].at = "reclaim", ![c].from = "failed",
                           ![c].expired = FALSE, ![c].mine = TRUE]
    BY <1>2 DEF Answer
  <2> QED BY <1>1, <1>2, <2>1, <2>2, Approaches
<1>3. CASE ~ (row.status = "failed" /\ ~ Locked(job[c].age))
  BY <1>1, <1>3, Returns DEF Answer
<1> QED BY <1>2, <1>3

LEMMA GetKeeps ==
  ASSUME Inv, NEW c \in Callers, Get(c)
  PROVE  Inv'
<1>0. job[c].at \in Claiming /\ keepRow /\ keepPromises
  BY DEF Get, At, Claiming
<1>1. CASE ~ Exists \/ row.print # job[c].print
  BY <1>0, <1>1, Returns DEF Get, Refuse, keepHistory
<1>2. CASE Exists /\ row.print = job[c].print /\ Expired(job[c].age)
  <2>1. row.status \in Statuses /\ TRUE \in BOOLEAN
    BY DEF Inv, TypeOK, RecordType
  <2>2. TakeOver(c)
    BY <1>2 DEF Get
  <2>3. keepHistory
    BY <1>0, <2>2 DEF TakeOver, keepHistory
  <2>4. job' = [job EXCEPT ![c].at = "reclaim", ![c].from = row.status,
                           ![c].expired = TRUE, ![c].mine = TRUE]
    BY <2>2 DEF TakeOver
  <2> QED BY <1>0, <1>2, <2>1, <2>3, <2>4, Approaches
<1>3. CASE Exists /\ row.print = job[c].print /\ ~ Expired(job[c].age)
  BY <1>0, <1>3, AnswerKeeps DEF Get
<1> QED BY <1>1, <1>2, <1>3

LEMMA RegetKeeps ==
  ASSUME Inv, NEW c \in Callers, Reget(c)
  PROVE  Inv'
<1>0. job[c].at \in Claiming /\ keepRow /\ keepPromises
  BY DEF Reget, At, Claiming
<1>1. CASE ~ (Exists /\ row.print = job[c].print)
  BY <1>0, <1>1, Returns DEF Reget, Refuse, keepHistory
<1>2. CASE Exists /\ row.print = job[c].print
  BY <1>0, <1>2, AnswerKeeps DEF Reget
<1> QED BY <1>1, <1>2

(* The WHERE clause of TryReclaim turns away whoever comes while another   *)
(* caller executes: the lock is younger than the caller's time.            *)
LEMMA ReclaimedAlone ==
  ASSUME Inv, NEW c \in Callers, At(c, "reclaim"),
         Reclaimable(job[c].from, job[c].age)
  PROVE  \A d \in Callers : job[d].at \notin Executing
<1> SUFFICES ASSUME NEW d \in Callers, job[d].at \in Executing
             PROVE  FALSE
  OBVIOUS
<1>1. /\ MaxDelay \in Nat /\ Timeout \in Nat /\ MaxRun \in Nat
      /\ row.lock \in Int
      /\ job[c].age \in Nat /\ job[d].age \in Nat
  BY TimesAssumption, RunAssumption DEF Inv, TypeOK, RecordType, Jobs
<1>2. row.status = "processing" /\ row.lock >= Timeout - job[d].age
  BY DEF Inv, ExecutorHolds
<1>3. job[d].age =< job[c].age + MaxDelay
  BY <1>2 DEF Inv, ClaimsAreOld, Reclaimable
<1> QED BY <1>1, <1>2, <1>3, RunAssumption DEF Reclaimable, Locked

(* What the statements of the store do to the row. *)
LEMMA ReclaimEffect ==
  ASSUME row \in RecordType, NEW age \in Int, Reclaim(age)
  PROVE  /\ row' \in RecordType
         /\ row'.status = "processing" /\ row'.print = row.print
         /\ row'.left = TTL - age /\ row'.lock = Timeout - age
<1>1. TTL - age \in Int /\ Timeout - age \in Int
  BY TimesAssumption
<1>2. "processing" \in Statuses
  BY DEF Statuses
<1> QED BY <1>1, <1>2 DEF Reclaim, RecordType

LEMMA MarkSucceededEffect ==
  ASSUME row \in RecordType, NEW print \in Prints, NEW left \in Int,
         MarkSucceeded(print, left)
  PROVE  /\ row' \in RecordType
         /\ row'.status = "succeeded" /\ row'.print = row.print
         /\ row'.left = left /\ row'.body = print
<1>1. Past \in Int
  BY TimesAssumption DEF Past
<1>2. "succeeded" \in Statuses
  BY DEF Statuses
<1> QED BY <1>1, <1>2 DEF MarkSucceeded, RecordType

LEMMA MarkFailedEffect ==
  ASSUME row \in RecordType, NEW lock \in Int, NEW left \in Int,
         MarkFailedRetryable(lock, left)
  PROVE  /\ row' \in RecordType
         /\ row'.status = "failed" /\ row'.print = row.print
         /\ row'.left = left
<1>1. "failed" \in Statuses
  BY DEF Statuses
<1> QED BY <1>1 DEF MarkFailedRetryable, RecordType

LEMMA PassEffect ==
  ASSUME row \in RecordType, Pass
  PROVE  /\ row' \in RecordType
         /\ row'.status = row.status /\ row'.print = row.print
         /\ row'.body = row.body
         /\ row'.left >= row.left - 1 /\ row'.lock >= row.lock - 1
<1>1. MaxDelay \in Nat
  BY TimesAssumption
<1>2. \A time \in Int : Sooner(time) \in Int /\ Sooner(time) >= time - 1
  BY <1>1 DEF Sooner, Past
<1>3. row.lock \in Int /\ row.left \in Int
  BY DEF RecordType
<1>4. row' = [row EXCEPT !.lock = Sooner(row.lock), !.left = Sooner(row.left)]
  BY DEF Pass
<1> QED BY <1>2, <1>3, <1>4 DEF RecordType

LEMMA TryReclaimKeeps ==
  ASSUME Inv, NEW c \in Callers, TryReclaim(c)
  PROVE  Inv'
<1>0. /\ job \in [Callers -> Jobs] /\ row \in RecordType /\ crossed \in BOOLEAN
      /\ At(c, "reclaim") /\ job[c].at \in Claiming
      /\ UNCHANGED <<owed, foreign>>
  BY DEF Inv, TypeOK, TryReclaim, At, Claiming
<1>1. CASE ~ (job[c].mine /\ Reclaimable(job[c].from, job[c].age))
  <2>1. keepRow /\ keepHistory
    BY <1>1 DEF TryReclaim, keepRow, keepHistory, keepPromises
  <2>2. CASE job[c].expired
    <3>1. Goto(c, "reget")
      BY <1>1, <2>2 DEF TryReclaim
    <3> QED BY <1>0, <2>1, <3>1, GoesOn DEF At
  <2>3. CASE ~ job[c].expired
    BY <1>1, <2>1, <2>3, Returns DEF TryReclaim
  <2> QED BY <2>2, <2>3
<1>2. CASE job[c].mine /\ Reclaimable(job[c].from, job[c].age)
  <2>1. \A d \in Callers : job[d].at \notin Executing
    BY <1>0, <1>2, ReclaimedAlone
  <2>2. /\ Reclaim(job[c].age)
        /\ Goto(c, "execute")
        /\ crossed' = (crossed \/ (row.status = "succeeded" /\ row.left > 0))
    BY <1>2 DEF TryReclaim
  <2>3. "execute" \in Claiming \cup Executing
    BY DEF Executing
  <2>4. /\ job' \in [Callers -> Jobs]
        /\ job'[c] = [job[c] EXCEPT !.at = "execute"]
        /\ \A d \in Callers \ {c} : job'[d] = job[d]
    BY <1>0, <2>2, <2>3, GotoEffect
  <2>5. /\ job'[c].at = "execute" /\ job'[c].age = job[c].age
        /\ job'[c].print = job[c].print /\ job'[c].repeat = job[c].repeat
        /\ job'[c].mine = job[c].mine
    BY <1>0, <2>4 DEF Jobs
  <2>6. job[c].age \in Int /\ TTL \in Int /\ Timeout \in Int
    BY <1>0, TimesAssumption DEF Jobs
  <2>7. /\ row' \in RecordType
        /\ row'.status = "processing" /\ row'.print = row.print
        /\ row'.left = TTL - job[c].age /\ row'.lock = Timeout - job[c].age
    BY <1>0, <2>2, <2>6, ReclaimEffect
  <2>8. \A d \in Callers : job[d].mine => row.print = job[d].print
    BY DEF Inv, PrintsKept
  <2>9. /\ crossed' \in BOOLEAN /\ (crossed => crossed')
        /\ (row.status = "succeeded" /\ row.left > 0 => crossed')
    BY <1>0, <2>2
  <2> QED BY <1>0, <1>2, <2>1, <2>4, <2>5, <2>7, <2>8, <2>9, Claims
<1> QED BY <1>1, <1>2

-----------------------------------------------------------------------------
(* What the invariant says of the one caller that executes. *)
LEMMA OfExecutor ==
  ASSUME Inv, NEW c \in Callers, job[c].at \in Executing
  PROVE  /\ job[c].mine /\ row.status = "processing"
         /\ row.print = job[c].print
         /\ \A d \in Callers \ {c} : job[d].at \notin Executing
         /\ ~ crossed => owed = 0 /\ \A d \in Callers : ~ job[d].repeat
         /\ TTL - job[c].age \in 1 .. TTL
<1>1. job[c].mine /\ row.status = "processing"
  BY DEF Inv, ExecutorHolds
<1>2. row.print = job[c].print
  BY <1>1 DEF Inv, PrintsKept
<1>3. \A d \in Callers \ {c} : job[d].at \notin Executing
  BY DEF Inv, OneExecutor
<1>4. ~ crossed => owed = 0
  BY <1>1 DEF Inv, OwedStays, TypeOK
<1>5. ~ crossed => \A d \in Callers : ~ job[d].repeat
  BY <1>1 DEF Inv, RepeatsWait
<1>6. job[c].age \in 0 .. MaxDelay + MaxRun
  BY DEF Inv, TypeOK, Jobs
<1>7. TTL - job[c].age \in 1 .. TTL
  BY <1>6, TimesAssumption, RunAssumption
<1> QED BY <1>1, <1>2, <1>3, <1>4, <1>5, <1>7

LEMMA FinishKeeps ==
  ASSUME Inv, NEW c \in Callers, Finish(c)
  PROVE  Inv'
<1>0. job \in [Callers -> Jobs] /\ keepRow /\ keepHistory
  BY DEF Inv, TypeOK, Finish
<1>1. PICK point \in {"succeed", "fail"} : Goto(c, point)
  BY DEF Finish
<1>2. point \in Executing /\ job[c].at \in Executing
  BY DEF Executing, Finish, At
<1>3. /\ job' \in [Callers -> Jobs]
      /\ job'[c] = [job[c] EXCEPT !.at = point]
      /\ \A d \in Callers \ {c} : job'[d] = job[d]
  BY <1>0, <1>1, <1>2, GotoEffect
<1>4. /\ job'[c].at = point
      /\ job'[c].age = job[c].age /\ job'[c].print = job[c].print
      /\ job'[c].mine = job[c].mine /\ job'[c].repeat = job[c].repeat
  BY <1>0, <1>3 DEF Jobs
<1>5. \A d \in Callers : /\ job'[d].at \in Executing => d = c
                         /\ job'[d].mine = job[d].mine
                         /\ job'[d].print = job[d].print
                         /\ job'[d].age = job[d].age
                         /\ job'[d].repeat = job[d].repeat
                         /\ d # c => job'[d] = job[d]
  BY <1>2, <1>3, <1>4, OfExecutor
<1>6. \A d \in Callers : job'[d].at \in Claiming => d # c
  BY <1>1, <1>4 DEF Claiming
<1> USE DEF keepRow, keepHistory, keepPromises
<1>7. TypeOK'
  BY <1>0, <1>3, <1>5 DEF Inv, TypeOK, Exists
<1>8. ClaimAges'
  BY <1>5, <1>6 DEF Inv, ClaimAges
<1>9. PrintsKept'
  BY <1>0, <1>5 DEF Inv, PrintsKept
<1>10. ExecutorHolds'
  BY <1>0, <1>2, <1>5 DEF Inv, ExecutorHolds
<1>11. ClaimsAreOld'
  <2>1. \A d \in Callers : job'[d].at = "reclaim" => d # c
    BY <1>6 DEF Claiming
  <2> QED BY <1>2, <1>5, <2>1 DEF Inv, ClaimsAreOld, At
<1>12. OneExecutor'
  BY <1>5 DEF OneExecutor
<1>13. OwedStays'
  BY <1>0 DEF Inv, OwedStays
<1>14. RepeatsWait'
  BY <1>0, <1>2, <1>5, OfExecutor DEF RepeatsWait
<1> QED BY <1>7, <1>8, <1>9, <1>10, <1>11, <1>12, <1>13, <1>14 DEF Inv

(* The executing caller stores its result and returns. *)
LEMMA Leaves ==
  ASSUME Inv, NEW c \in Callers, job[c].at \in Executing, Return(c),
         row' \in RecordType,
         row'.status \in {"succeeded", "failed"},
         row'.print = row.print,
         row'.status = "succeeded" => row'.body = row.print,
         owed' \in 0 .. TTL,
         owed' > 0 /\ ~ crossed => row'.status = "succeeded" /\ row'.left >= owed',
         UNCHANGED <<crossed, foreign>>
  PROVE  Inv'
<1>0. job \in [Callers -> Jobs]
  BY DEF Inv, TypeOK
<1>1. /\ job' \in [Callers -> Jobs]
      /\ job'[c] = Idle
      /\ \A d \in Callers \ {c} : job'[d] = job[d]
  BY <1>0, ReturnEffect
<1>2. \A d \in Callers : job'[d].at \notin Executing
  BY <1>1, IdleType, OfExecutor DEF Executing
<1>3. \A d \in Callers : job'[d].mine \/ job'[d].repeat \/ job'[d].at \in Claiming
                             => d # c
  BY <1>1, IdleType DEF Claiming
<1>4. TypeOK'
  BY <1>1 DEF Inv, TypeOK, Exists
<1>5. ClaimAges'
  BY <1>1, <1>3 DEF Inv, ClaimAges
<1>6. PrintsKept'
  BY <1>1, <1>3 DEF Inv, PrintsKept
<1>7. ExecutorHolds' /\ ClaimsAreOld' /\ OneExecutor'
  BY <1>2 DEF ExecutorHolds, ClaimsAreOld, OneExecutor
<1>8. OwedStays'
  BY DEF OwedStays
<1>9. RepeatsWait'
  BY <1>1, <1>3, OfExecutor DEF RepeatsWait
<1> QED BY <1>4, <1>5, <1>6, <1>7, <1>8, <1>9 DEF Inv

LEMMA SucceedKeeps ==
  ASSUME Inv, NEW c \in Callers, Succeed(c)
  PROVE  Inv'
<1>0. job[c].at \in Executing /\ row \in RecordType /\ job[c].print \in Prints
  BY DEF Succeed, At, Executing, Inv, TypeOK, Jobs
<1>1. /\ job[c].mine /\ row.print = job[c].print
      /\ ~ crossed => owed = 0
      /\ TTL - job[c].age \in 1 .. TTL
  BY <1>0, OfExecutor
<1>2. TTL - job[c].age \in Int /\ owed \in 0 .. TTL
  BY <1>1 DEF Inv, TypeOK
<1>3. MarkSucceeded(job[c].print, TTL - job[c].age)
  BY <1>1 DEF Succeed, Remaining
<1>4. /\ row' \in RecordType
      /\ row'.status = "succeeded" /\ row'.print = row.print
      /\ row'.left = TTL - job[c].age /\ row'.body = job[c].print
  BY <1>0, <1>2, <1>3, MarkSucceededEffect
<1>5. owed' \in {owed, TTL - job[c].age}
  BY DEF Succeed, Remaining
<1>6. owed' \in 0 .. TTL /\ (~ crossed => row'.left >= owed')
  BY <1>1, <1>2, <1>4, <1>5
<1>7. Return(c) /\ UNCHANGED <<crossed, foreign>>
  BY DEF Succeed
<1> QED BY <1>0, <1>1, <1>4, <1>6, <1>7, Leaves

LEMMA FailKeeps ==
  ASSUME Inv, NEW c \in Callers, Fail(c)
  PROVE  Inv'
<1>0. job[c].at \in Executing /\ row \in RecordType
  BY DEF Fail, At, Executing, Inv, TypeOK
<1>1. /\ job[c].mine
      /\ ~ crossed => owed = 0
      /\ TTL - job[c].age \in 1 .. TTL
  BY <1>0, OfExecutor
<1>2. TTL - job[c].age \in Int /\ Backoff \in Int
  BY <1>1, RunAssumption
<1>3. MarkFailedRetryable(Backoff, TTL - job[c].age)
  BY <1>1 DEF Fail, Remaining
<1>4. /\ row' \in RecordType
      /\ row'.status = "failed" /\ row'.print = row.print
  BY <1>0, <1>2, <1>3, MarkFailedEffect
<1>5. Return(c) /\ UNCHANGED <<owed, crossed, foreign>>
  BY DEF Fail, keepHistory, keepPromises
<1>6. owed' \in 0 .. TTL /\ (~ crossed => owed' = 0)
  BY <1>1, <1>5 DEF Inv, TypeOK
<1> QED BY <1>0, <1>4, <1>5, <1>6, Leaves

LEMMA StopKeeps ==
  ASSUME Inv, NEW c \in Callers, Stop(c)
  PROVE  Inv'
  BY Returns DEF Stop

-----------------------------------------------------------------------------
(* DeleteExpired looks at no lock, but a row in use has not expired. *)
LEMMA CleanupKeeps ==
  ASSUME Inv, CleanupOnce
  PROVE  Inv'
<1>0. /\ job \in [Callers -> Jobs] /\ row \in RecordType
      /\ row.left \in Int /\ row.left =< 0
      /\ MaxDelay \in Nat /\ keepHistory
  BY TimesAssumption DEF Inv, TypeOK, RecordType, CleanupOnce, Deletable
<1>1. \A d \in Callers : job[d].at \notin Executing
  <2> SUFFICES ASSUME NEW d \in Callers, job[d].at \in Executing
               PROVE  FALSE
    OBVIOUS
  <2>1. TTL - job[d].age >= 1 /\ TTL - job[d].age \in Int
    BY OfExecutor
  <2>2. row.left >= TTL - job[d].age
    BY DEF Inv, ExecutorHolds
  <2> QED BY <1>0, <2>1, <2>2
<1>2. ~ (owed > 0 /\ ~ crossed)
  BY <1>0 DEF Inv, OwedStays, TypeOK
<1>3. ~ crossed => \A d \in Callers : ~ job[d].repeat
  <2> SUFFICES ASSUME ~ crossed, NEW d \in Callers, job[d].repeat
               PROVE  FALSE
    OBVIOUS
  <2>1. job[d].at \in Claiming /\ row.left + job[d].age > MaxDelay
    BY DEF Inv, RepeatsWait, Claiming
  <2>2. job[d].age \in Nat /\ job[d].age =< MaxDelay
    BY <1>0, <2>1 DEF Inv, ClaimAges, Jobs
  <2> QED BY <1>0, <2>1, <2>2
<1>4. row' \in RecordType /\ row'.status = "none" /\ row'.print = row.print
  <2>1. "none" \in Statuses
    BY DEF Statuses
  <2> QED BY <1>0, <2>1 DEF CleanupOnce, Delete, RecordType
<1>5. job' = [c \in Callers |-> [job[c] EXCEPT !.mine = FALSE]]
  BY DEF CleanupOnce
<1>6. \A d \in Callers :
        /\ job'[d] \in Jobs /\ ~ job'[d].mine
        /\ job'[d].at = job[d].at /\ job'[d].age = job[d].age
        /\ job'[d].from = job[d].from /\ job'[d].repeat = job[d].repeat
  <2> TAKE d \in Callers
  <2> DEFINE j == job[d]
  <2>1. j \in Jobs /\ job'[d] = [j EXCEPT !.mine = FALSE]
    BY <1>0, <1>5
  <2> HIDE DEF j
  <2>2. /\ job'[d] \in Jobs /\ ~ job'[d].mine
        /\ job'[d].at = j.at /\ job'[d].age = j.age
        /\ job'[d].from = j.from /\ job'[d].repeat = j.repeat
    BY <2>1 DEF Jobs
  <2> QED BY <2>2 DEF j
<1> USE DEF keepHistory, keepPromises
<1>7. TypeOK'
  <2>1. job' \in [Callers -> Jobs]
    BY <1>5, <1>6
  <2> QED BY <1>0, <1>4, <1>6, <2>1 DEF Inv, TypeOK
<1>8. ClaimAges'
  BY <1>6 DEF Inv, ClaimAges
<1>9. PrintsKept'
  BY <1>0, <1>4, <1>6 DEF Inv, PrintsKept
<1>10. ExecutorHolds' /\ ClaimsAreOld' /\ OneExecutor'
  BY <1>1, <1>6 DEF ExecutorHolds, ClaimsAreOld, OneExecutor
<1>11. OwedStays'
  BY <1>0, <1>2 DEF OwedStays
<1>12. RepeatsWait'
  BY <1>0, <1>3, <1>6 DEF RepeatsWait
<1> QED BY <1>7, <1>8, <1>9, <1>10, <1>11, <1>12 DEF Inv

(* A tick ages all callers alike and brings the times one closer. *)
LEMMA TickKeeps ==
  ASSUME Inv, Tick
  PROVE  Inv'
<1>0. /\ job \in [Callers -> Jobs] /\ row \in RecordType
      /\ row.left \in Int /\ row.lock \in Int
      /\ MaxDelay \in Nat /\ TTL \in Nat /\ Timeout \in Nat /\ MaxRun \in Nat
      /\ owed \in 0 .. TTL
      /\ UNCHANGED <<crossed, foreign>>
  BY TimesAssumption, RunAssumption DEF Inv, TypeOK, RecordType, Tick
<1>1. /\ row' \in RecordType
      /\ row'.status = row.status /\ row'.print = row.print
      /\ row'.body = row.body
      /\ row'.left >= row.left - 1 /\ row'.lock >= row.lock - 1
  BY <1>0, PassEffect DEF Tick
<1>2. row'.left \in Int /\ row'.lock \in Int
  BY <1>1 DEF RecordType
<1>3. job' = [c \in Callers |-> Older(c)]
  BY DEF Tick
<1>4. \A d \in Callers :
        /\ job'[d] \in Jobs
        /\ job'[d].at = job[d].at /\ job'[d].print = job[d].print
        /\ job'[d].from = job[d].from /\ job'[d].repeat = job[d].repeat
        /\ job'[d].mine = job[d].mine
        /\ job[d].at # "idle" => job'[d].age = job[d].age + 1
        /\ job[d].at \in Claiming => job[d].age < MaxDelay
  <2> TAKE d \in Callers
  <2> DEFINE j == job[d]
  <2>1. /\ j \in Jobs
        /\ job'[d] = IF j.at = "idle" THEN j ELSE [j EXCEPT !.age = j.age + 1]
    BY <1>0, <1>3 DEF Older, At
  <2>2. /\ j.at \in Claiming => j.age < MaxDelay
        /\ j.at \in Executing => j.age < MaxDelay + MaxRun
    BY DEF Tick, MayWait
  <2> HIDE DEF j
  <2>3. j.age \in Nat /\ j.at \in {"idle"} \cup Claiming \cup Executing
    BY <1>0, <2>1 DEF Jobs
  <2>4. j.at # "idle" => j.age + 1 \in 0 .. MaxDelay + MaxRun
    BY <1>0, <2>2, <2>3
  <2>5. CASE j.at = "idle"
    BY <2>1, <2>2, <2>5 DEF j
  <2>6. CASE j.at # "idle"
    <3>1. job'[d] = [j EXCEPT !.age = j.age + 1] /\ j.age + 1 \in 0 .. MaxDelay + MaxRun
      BY <2>1, <2>4, <2>6
    <3>2. /\ job'[d] \in Jobs
          /\ job'[d].at = j.at /\ job'[d].print = j.print
          /\ job'[d].from = j.from /\ job'[d].repeat = j.repeat
          /\ job'[d].mine = j.mine /\ job'[d].age = j.age + 1
      BY <2>1, <3>1 DEF Jobs
    <3> QED BY <2>2, <3>2 DEF j
  <2> QED BY <2>5, <2>6
<1>5. \A d \in Callers : job[d].age \in Nat
  BY <1>0 DEF Jobs
<1>6. TypeOK'
  <2>1. job' \in [Callers -> Jobs]
    BY <1>3, <1>4
  <2>2. owed' \in 0 .. TTL
    BY <1>0 DEF Tick
  <2> QED BY <1>0, <1>1, <1>4, <2>1, <2>2 DEF Inv, TypeOK, Exists
<1>7. ClaimAges'
  BY <1>0, <1>4, <1>5 DEF ClaimAges, Claiming
<1>8. PrintsKept'
  BY <1>0, <1>1, <1>4 DEF Inv, PrintsKept
<1>9. ExecutorHolds'
  <2> SUFFICES ASSUME NEW d \in Callers, job[d].at \in Executing
               PROVE  /\ job'[d].mine
                      /\ row'.status = "processing"
                      /\ row'.left >= TTL - job'[d].age
                      /\ row'.lock >= Timeout - job'[d].age
    BY <1>4 DEF ExecutorHolds
  <2>1. /\ job[d].mine /\ row.status = "processing"
        /\ row.left >= TTL - job[d].age /\ row.lock >= Timeout - job[d].age
    BY DEF Inv, ExecutorHolds
  <2>2. job'[d].age = job[d].age + 1 /\ job'[d].mine = job[d].mine
    BY <1>4 DEF Executing
  <2> QED BY <1>0, <1>1, <1>2, <1>5, <2>1, <2>2
<1>10. ClaimsAreOld'
  <2> SUFFICES ASSUME NEW c \in Callers, NEW d \in Callers,
                      job[c].at \in Executing, job[d].at = "reclaim",
                      job[d].from = "processing"
               PROVE  job'[c].age =< job'[d].age + MaxDelay
    BY <1>4 DEF ClaimsAreOld, At
  <2>1. job[c].age =< job[d].age + MaxDelay
    BY DEF Inv, ClaimsAreOld, At
  <2>2. job'[c].age = job[c].age + 1 /\ job'[d].age = job[d].age + 1
    BY <1>4 DEF Executing
  <2> QED BY <1>0, <1>5, <2>1, <2>2
<1>11. OneExecutor'
  BY <1>4 DEF Inv, OneExecutor
<1>12. OwedStays'
  <2> SUFFICES ASSUME owed' > 0, ~ crossed
               PROVE  row'.status = "succeeded" /\ row'.left >= owed'
    BY <1>0 DEF OwedStays
  <2>1. owed > 0 /\ owed' = owed - 1
    BY <1>0 DEF Tick
  <2>2. row.status = "succeeded" /\ row.left >= owed
    BY <2>1 DEF Inv, OwedStays
  <2> QED BY <1>0, <1>1, <1>2, <2>1, <2>2
<1>13. RepeatsWait'
  <2> SUFFICES ASSUME ~ crossed, NEW d \in Callers, job[d].repeat
               PROVE  /\ job'[d].at \in {"create", "get"}
                      /\ row'.status = "succeeded"
                      /\ row'.left + job'[d].age > MaxDelay
    BY <1>0, <1>4 DEF RepeatsWait
  <2>1. /\ job[d].at \in {"create", "get"}
        /\ row.status = "succeeded"
        /\ row.left + job[d].age > MaxDelay
    BY DEF Inv, RepeatsWait
  <2>2. job'[d].at = job[d].at /\ job'[d].age = job[d].age + 1
    BY <1>4, <2>1
  <2> QED BY <1>0, <1>1, <1>2, <1>5, <2>1, <2>2
<1> QED BY <1>6, <1>7, <1>8, <1>9, <1>10, <1>11, <1>12, <1>13 DEF Inv

-----------------------------------------------------------------------------
LEMMA InitKeeps ==
  ASSUME Init
  PROVE  Inv
<1>1. NoRow \in RecordType /\ NoRow.status = "none"
  BY IdleType, TimesAssumption DEF NoRow, RecordType, Statuses, Past, Jobs
<1>2. \A c \in Callers : job[c] = Idle
  BY DEF Init
<1>3. \A c \in Callers : /\ job[c].at = "idle" /\ ~ job[c].mine /\ ~ job[c].repeat
  BY <1>2, IdleType
<1>4. TypeOK
  <2>1. job \in [Callers -> Jobs]
    BY IdleType DEF Init
  <2>2. owed \in 0 .. TTL
    BY TimesAssumption DEF Init
  <2>3. crossed \in BOOLEAN /\ foreign \in BOOLEAN
    BY DEF Init
  <2>4. row \in RecordType
    BY <1>1 DEF Init
  <2> QED BY <1>3, <2>1, <2>2, <2>3, <2>4 DEF TypeOK
<1>5. ClaimAges /\ ExecutorHolds /\ ClaimsAreOld /\ OneExecutor
  BY <1>3 DEF ClaimAges, ExecutorHolds, ClaimsAreOld, OneExecutor, Claiming, Executing
<1>6. PrintsKept /\ RepeatsWait
  BY <1>1, <1>3 DEF PrintsKept, RepeatsWait, Init
<1>7. OwedStays
  BY DEF OwedStays, Init
<1> QED BY <1>4, <1>5, <1>6, <1>7 DEF Inv

LEMMA InvStep ==
  ASSUME Inv, [Next]_vars
  PROVE  Inv'
<1>1. ASSUME NEW c \in Callers, NEW print \in Prints, Begin(c, print)
      PROVE  Inv'
  BY <1>1, BeginKeeps
<1>2. ASSUME NEW c \in Callers, Step(c)
      PROVE  Inv'
  BY <1>2, CreateKeeps, GetKeeps, TryReclaimKeeps, RegetKeeps,
     FinishKeeps, SucceedKeeps, FailKeeps DEF Step
<1>3. ASSUME NEW c \in Callers, Stop(c)
      PROVE  Inv'
  BY <1>3, StopKeeps
<1>4. CASE CleanupOnce
  BY <1>4, CleanupKeeps
<1>5. CASE Tick
  BY <1>5, TickKeeps
<1>6. CASE UNCHANGED vars
  BY <1>6 DEF vars, Inv, TypeOK, ClaimAges, PrintsKept, ExecutorHolds,
     ClaimsAreOld, OneExecutor, OwedStays, RepeatsWait, Exists, At
<1> QED BY <1>1, <1>2, <1>3, <1>4, <1>5, <1>6 DEF Next

THEOREM Invariance == Spec => []Inv
<1>1. Init => Inv
  BY InitKeeps
<1>2. Inv /\ [Next]_vars => Inv'
  BY InvStep
<1> QED BY <1>1, <1>2, PTL DEF Spec

(* The state is well typed, and a caller holds a row only while it exists: *)
(* DeleteExpired takes it from everybody.                                  *)
THEOREM TypeCorrect == Spec => []TypeOK
<1>1. Inv => TypeOK
  BY DEF Inv
<1> QED BY <1>1, Invariance, PTL

(* CreateProcessing and TryReclaim let one caller execute at a time.       *)
THEOREM ExecutedAlone == Spec => []OneExecutor
<1>1. Inv => OneExecutor
  BY DEF Inv
<1> QED BY <1>1, Invariance, PTL

(* A success that was answered stays on record as long as it is to be      *)
(* replayed, unless a reclaim has taken the new record for the expired one.*)
THEOREM AnsweredIsKept == Spec => []AckedIsRecorded
<1>1. Inv => AckedIsRecorded
  BY DEF Inv, OwedStays, AckedIsRecorded
<1> QED BY <1>1, Invariance, PTL

(* An answer is replayed to the request it was given to only. *)
THEOREM ReplaysAreOwn == Spec => []ReplayIsOwn
<1>1. Inv => ReplayIsOwn
  BY DEF Inv, PrintsKept, ReplayIsOwn
<1> QED BY <1>1, Invariance, PTL

(* A call that begins while a success is on record replays it. *)
THEOREM RepeatsNeverRun == Spec => []RepeatReplays
<1>1. Inv => RepeatReplays
  BY DEF Inv, RepeatsWait, RepeatReplays, Executing
<1> QED BY <1>1, Invariance, PTL
-----------------------------------------------------------------------------
(***************************************************************************)
(* The coordinator implements OnceOnly.                                    *)
(***************************************************************************)
Running == {c \in Callers : job[c].at \in Executing}

(* Only c moves. *)
Others(c) == \A d \in Callers \ {c} : job'[d] = job[d]

LEMMA NoneRuns ==
  ASSUME Inv, ~ crossed, row.status = "processing" => Running = {}
  PROVE  Running = {} /\ (owed > 0 => row.status = "succeeded")
         /\ (owed > 0 => row.left >= owed)
  BY DEF Inv, ExecutorHolds, OwedStays, Running

LEMMA RunsAlone ==
  ASSUME Inv, ~ crossed, NEW c \in Callers, job[c].at \in Executing
  PROVE  Running = {c} /\ owed = 0 /\ row.status = "processing" /\ job[c].mine
         /\ TTL - job[c].age \in 0 .. TTL
  BY OfExecutor, TimesAssumption DEF Running

(* A step that starts and ends no execution. *)
LEMMA KeyRests ==
  ASSUME NEW c \in Callers, Others(c),
         job'[c].at \in Executing <=> job[c].at \in Executing,
         row'.status = row.status, owed' = owed
  PROVE  UNCHANGED Key!vars
<1>1. Running' = Running
  BY DEF Running, Others
<1> QED BY <1>1 DEF Key!vars, Running

LEMMA KeyRuns ==
  ASSUME NEW c \in Callers, Others(c), Running = {},
         job'[c].at \in Executing, row'.status = "processing",
         owed = 0, owed' = 0
  PROVE  Key!Next
<1>1. Running' = {c}
  BY DEF Running, Others
<1> QED BY <1>1 DEF Key!Next, Key!Run, Running

(* A step that ends the execution of c. *)
LEMMA KeyStops ==
  ASSUME NEW c \in Callers, Others(c), Running = {c},
         job'[c].at \notin Executing,
         \/ row'.status = "succeeded" /\ owed' \in 0 .. TTL
         \/ (row'.status = "succeeded" <=> row.status = "succeeded")
            /\ owed' = owed
  PROVE  Key!Next
<1>1. Running' = {}
  BY DEF Running, Others
<1> QED BY <1>1 DEF Key!Next, Key!Succeed, Key!Fail, Running

(* The calls that are on their way to a claim or a replay. *)
LEMMA ReadStep ==
  ASSUME Inv, NEW c \in Callers,
         \/ \E print \in Prints : Begin(c, print)
         \/ Get(c) \/ Reget(c) \/ Finish(c)
         \/ Stop(c) /\ job[c].at \notin Executing
  PROVE  UNCHANGED Key!vars
<1>1. job \in [Callers -> Jobs] /\ Idle.at = "idle"
  BY IdleType DEF Inv, TypeOK
<1>2. CASE \E print \in Prints : Begin(c, print)
  <2>1. PICK print \in Prints : Begin(c, print)
    BY <1>2
  <2>2. UNCHANGED <<row, owed>> /\ At(c, "idle")
    BY <2>1, Zenon DEF Begin, keepRow, keepHistory, keepPromises
  <2>3. PICK repeat :
          job' = [job EXCEPT ![c] = [Idle EXCEPT !.at = "create",
                                       !.print = print, !.repeat = repeat]]
    BY <2>1, Zenon DEF Begin
  <2> DEFINE call == [Idle EXCEPT !.at = "create", !.print = print,
                                  !.repeat = repeat]
  <2>4. call.at = "create"
    BY DEF Idle
  <2> HIDE DEF call
  <2>5. job' = [job EXCEPT ![c] = call]
    BY <2>3 DEF call
  <2>6. Others(c) /\ job'[c].at = "create"
    BY <1>1, <2>4, <2>5 DEF Others
  <2> QED BY <2>2, <2>6, KeyRests DEF At, Executing
<1>3. CASE Get(c) \/ Reget(c)
  <2>1. (Refuse(c) \/ TakeOver(c) \/ Answer(c)) /\ UNCHANGED <<row, owed>>
        /\ job[c].at \notin Executing
    BY <1>3 DEF Get, Reget, At, Executing, keepRow, keepPromises
  <2>2. Others(c) /\ job'[c].at \notin Executing
    <3>1. CASE Refuse(c)
      BY <1>1, <3>1 DEF Refuse, Return, Others, Executing
    <3>2. CASE TakeOver(c)
      BY <1>1, <3>2 DEF TakeOver, Others, Executing, Jobs
    <3>3. CASE Answer(c)
      BY <1>1, <3>3 DEF Answer, Return, Others, Executing, Jobs
    <3> QED BY <2>1, <3>1, <3>2, <3>3
  <2> QED BY <2>1, <2>2, KeyRests
<1>4. CASE Finish(c)
  <2>1. Others(c) /\ UNCHANGED <<row, owed>>
    BY <1>1, <1>4 DEF Finish, Goto, Others, keepRow, keepHistory, keepPromises
  <2>2. job[c].at \in Executing /\ job'[c].at \in Executing
    BY <1>1, <1>4 DEF Finish, Goto, At, Executing, Jobs
  <2> QED BY <2>1, <2>2, KeyRests
<1>5. CASE Stop(c) /\ job[c].at \notin Executing
  <2>1. Others(c) /\ UNCHANGED <<row, owed>> /\ job'[c].at \notin Executing
    BY <1>1, <1>5 DEF Stop, Return, Others, Executing, keepRow, keepHistory,
                      keepPromises
  <2> QED BY <1>5, <2>1, KeyRests
<1> QED BY <1>2, <1>3, <1>4, <1>5

LEMMA CreateStep ==
  ASSUME Inv, ~ crossed, NEW c \in Callers, Create(c)
  PROVE  [Key!Next]_(Key!vars)
<1>1. job \in [Callers -> Jobs] /\ owed \in Nat /\ owed' = owed
  BY TimesAssumption DEF Inv, TypeOK, Create, keepHistory, keepPromises
<1>2. CASE Exists
  <2>1. Others(c) /\ UNCHANGED row /\ job[c].at \notin Executing
        /\ job'[c].at \notin Executing
    BY <1>1, <1>2 DEF Create, Goto, At, Others, keepRow, Executing, Jobs
  <2> QED BY <1>1, <2>1, KeyRests
<1>3. CASE ~ Exists
  <2>1. Others(c) /\ job'[c].at \in Executing /\ row'.status = "processing"
    BY <1>1, <1>3 DEF Create, CreateProcessing, Others, Executing, Jobs
  <2>2. Running = {} /\ owed = 0
    BY <1>1, <1>3, NoneRuns DEF Exists
  <2> QED BY <1>1, <2>1, <2>2, KeyRuns
<1> QED BY <1>2, <1>3

LEMMA ReclaimStep ==
  ASSUME Inv, ~ crossed', NEW c \in Callers, TryReclaim(c)
  PROVE  [Key!Next]_(Key!vars)
<1>1. job \in [Callers -> Jobs] /\ owed \in Nat /\ owed' = owed
      /\ row \in RecordType /\ crossed \in BOOLEAN
  BY TimesAssumption DEF Inv, TypeOK, TryReclaim
<1>2. ~ crossed
  BY <1>1 DEF TryReclaim
<1>3. CASE job[c].mine /\ Reclaimable(job[c].from, job[c].age)
  <2>1. Others(c) /\ job'[c].at \in Executing
    BY <1>1, <1>3 DEF TryReclaim, Goto, Others, Executing, Jobs
  <2>2. row'.status = "processing"
    BY <1>1, <1>3 DEF TryReclaim, Reclaim, RecordType
  <2>3. Running = {}
    BY <1>3, ReclaimedAlone DEF TryReclaim, Running
  <2>4. owed = 0
    <3>1. row.left \in Int /\ ~ (row.status = "succeeded" /\ row.left > 0)
      BY <1>1, <1>3 DEF TryReclaim, RecordType
    <3> QED BY <1>1, <1>2, <3>1 DEF Inv, OwedStays
  <2> QED BY <1>1, <2>1, <2>2, <2>3, <2>4, KeyRuns
<1>4. CASE ~ (job[c].mine /\ Reclaimable(job[c].from, job[c].age))
  <2>1. Others(c) /\ UNCHANGED row /\ job[c].at \notin Executing
        /\ job'[c].at \notin Executing
    BY <1>1, <1>4, IdleType
       DEF TryReclaim, Goto, Return, At, Others, keepRow, Executing, Jobs
  <2> QED BY <1>1, <2>1, KeyRests
<1> QED BY <1>3, <1>4

LEMMA EndStep ==
  ASSUME Inv, ~ crossed, NEW c \in Callers,
         Succeed(c) \/ Fail(c) \/ (Stop(c) /\ job[c].at \in Executing)
  PROVE  Key!Next
<1>1. job[c].at \in Executing
  BY DEF Succeed, Fail, At, Executing
<1>2. Running = {c} /\ owed = 0 /\ row.status = "processing" /\ job[c].mine
      /\ TTL - job[c].age \in 0 .. TTL
  BY <1>1, RunsAlone
<1>3. Others(c) /\ job'[c].at \notin Executing
  BY IdleType, ReturnEffect
     DEF Inv, TypeOK, Succeed, Fail, Stop, Others, Executing
<1>4. row \in RecordType
  BY DEF Inv, TypeOK
<1>5. CASE Succeed(c)
  <2>1. row'.status = "succeeded" /\ owed' \in {owed, TTL - job[c].age}
    BY <1>2, <1>4, <1>5 DEF Succeed, MarkSucceeded, Remaining, RecordType
  <2>2. owed' \in 0 .. TTL
    BY <1>2, <2>1, TimesAssumption
  <2> QED BY <1>2, <1>3, <2>1, <2>2, KeyStops
<1>6. CASE Fail(c) \/ Stop(c)
  <2>1. row'.status # "succeeded" /\ owed' = owed
    BY <1>2, <1>4, <1>6 DEF Fail, Stop, MarkFailedRetryable, keepRow,
                            keepHistory, keepPromises, RecordType
  <2> QED BY <1>2, <1>3, <2>1, KeyStops
<1> QED BY <1>5, <1>6

LEMMA CleanupStep ==
  ASSUME Inv, ~ crossed, CleanupOnce
  PROVE  [Key!Next]_(Key!vars)
<1>1. Running' = Running /\ owed' = owed /\ row'.status = "none"
  BY DEF Inv, TypeOK, RecordType, CleanupOnce, Delete, Running, Executing, Jobs,
         keepHistory, keepPromises
<1>2. owed = 0
  <2>1. row.left \in Int /\ row.left =< 0 /\ owed \in Nat
    BY TimesAssumption DEF Inv, TypeOK, RecordType, CleanupOnce, Deletable
  <2> QED BY <2>1 DEF Inv, OwedStays
<1> QED BY <1>1, <1>2 DEF Key!Next, Key!Forget, Running

LEMMA PassStep ==
  ASSUME Inv, Tick
  PROVE  [Key!Next]_(Key!vars)
<1>1. row'.status = row.status
  BY PassEffect DEF Inv, TypeOK, Tick
<1>2. Running' = Running
  <2>1. \A c \in Callers : job'[c].at = job[c].at
    BY DEF Inv, TypeOK, Tick, Older, Jobs
  <2> QED BY <2>1 DEF Running
<1>3. CASE owed > 0
  BY <1>1, <1>2, <1>3 DEF Tick, Key!Next, Key!Pass, Running
<1>4. CASE ~ owed > 0
  <2>1. owed' = owed
    BY <1>4, TimesAssumption DEF Inv, TypeOK, Tick
  <2> QED BY <1>1, <1>2, <2>1 DEF Key!vars, Running
<1> QED BY <1>3, <1>4

LEMMA KeyStep ==
  ASSUME Inv, ~ crossed', [Next]_vars
  PROVE  [Key!Next]_(Key!vars)
<1>1. CASE \E c \in Callers : TryReclaim(c)
  BY <1>1, ReclaimStep
<1>2. CASE ~ \E c \in Callers : TryReclaim(c)
  <2>1. ~ crossed
    BY <1>2 DEF Next, Begin, Step, Create, Get, Reget, Finish, Succeed, Fail,
                Stop, CleanupOnce, Tick, vars, keepHistory, keepPromises
  <2>2. CASE \E c \in Callers : Step(c) \/ Stop(c)
    BY <1>2, <2>1, <2>2, ReadStep, CreateStep, EndStep DEF Step
  <2>3. CASE \E c \in Callers, print \in Prints : Begin(c, print)
    BY <2>3, ReadStep
  <2>4. CASE UNCHANGED vars
    BY <2>4 DEF vars, Key!vars
  <2> QED BY <2>1, <2>2, <2>3, <2>4, CleanupStep, PassStep DEF Next
<1> QED BY <1>1, <1>2

(* Until a reclaim takes the new record for the expired one, the           *)
(* coordinator behaves like the key of OnceOnly: an execution begins only  *)
(* when nobody runs and no answered success is owed.                       *)
THEOREM KeyRefines == Spec => RunsOnce
<1>1. Init => Key!Init
  <2>1. ASSUME Init PROVE Running = {} /\ row.status = "none" /\ owed = 0
    BY <2>1, IdleType DEF Init, Running, Executing, NoRow
  <2> QED BY <2>1 DEF Key!Init, Running
<1>2. Inv /\ [Next]_vars => [Key!Next \/ crossed']_(Key!vars)
  BY KeyStep
<1> QED BY <1>1, <1>2, Invariance, PTL DEF Spec, RunsOnce
=============================================================================
