----------------------- MODULE SystemOperationLockProof -----------------------
(***************************************************************************)
(* Proof that the lock for system operations excludes: at most one         *)
(* operation runs, under a lease that is not over, for any number of       *)
(* callers, any times that satisfy LeaseAssumption and any number of       *)
(* renewals that fail within it.                                           *)
(*                                                                         *)
(* The invariant is an account of time.  The lease of a holder ends        *)
(* Timeout ticks after its latest renewal; since then, the renewals that   *)
(* have failed and the one that is due next account for all the ticks.     *)
(***************************************************************************)
EXTENDS SystemOperationLock, TLAPS

(* The longest time between two renewals that succeed. *)
Budget(c) == MaxDelay + RenewEvery * errors + job[c].due

Timely == \A c \in Callers : /\ job[c].at \in Claiming => job[c].age =< MaxDelay
                             /\ job[c].renewing => At(c, "held")

Covered(c) ==
    At(c, "held") =>
        /\ job[c].mine /\ row.status = "processing"
        /\ row.lock = Timeout - job[c].age /\ row.left = TTL - job[c].age
        /\ row.print = job[c].op => job[c].renewing /\ job[c].age =< Budget(c)
        /\ row.print # job[c].op => job[c].age < Timeout

Inv == TypeOK /\ Timely /\ OneOperation /\ \A c \in Callers : Covered(c)

-----------------------------------------------------------------------------
LEMMA Times ==
  /\ Timeout \in Nat /\ TTL \in Nat /\ MaxDelay \in Nat /\ MaxErrors \in Nat
  /\ RenewEvery \in Nat /\ RenewEvery > 0 /\ Timeout < TTL /\ MaxDelay < Timeout
  /\ \A n \in 0 .. MaxErrors :
        /\ RenewEvery * n \in Nat
        /\ MaxDelay + RenewEvery * n + RenewEvery < Timeout
        /\ RenewEvery * (n + 1) = RenewEvery * n + RenewEvery
<1>1. /\ Timeout \in Nat /\ TTL \in Nat /\ MaxDelay \in Nat /\ MaxErrors \in Nat
      /\ RenewEvery \in Nat /\ RenewEvery > 0 /\ Timeout < TTL
      /\ MaxDelay + RenewEvery * (MaxErrors + 1) < Timeout
  BY TimesAssumption, LeaseAssumption
<1>2. \A m, n \in Nat : RenewEvery * n \in Nat
                        /\ (n =< m => RenewEvery * n =< RenewEvery * m)
                        /\ RenewEvery * (n + 1) = RenewEvery * n + RenewEvery
  BY <1>1
<1> QED BY <1>1, <1>2

LEMMA Rows ==
  ASSUME TypeOK
  PROVE  /\ row \in RecordType /\ row.lock \in Int /\ row.left \in Int
         /\ errors \in 0 .. MaxErrors
         /\ \A c \in Callers : /\ job[c] \in Jobs /\ job[c].op \in Prints
                               /\ job[c].age \in 0 .. TTL
                               /\ job[c].due \in 0 .. RenewEvery
                               /\ job[c].from \in Statuses
                               /\ job[c].mine \in BOOLEAN
                               /\ job[c].renewing \in BOOLEAN
  BY DEF TypeOK, RecordType, Jobs

LEMMA IdleRow ==
  /\ Idle \in Jobs /\ Idle.at = "idle" /\ Idle.op \in Prints /\ ~ Idle.mine
  /\ ~ Idle.renewing /\ Idle.age = 0
<1>1. (CHOOSE op \in Prints : TRUE) \in Prints
  BY PrintsAssumption
<1> QED BY <1>1, Times DEF Idle, Jobs, Claiming, Statuses

(* What a caller's step does to the rows of the callers. *)
LEMMA RowMoves ==
  ASSUME TypeOK, NEW c \in Callers, NEW new \in Jobs,
         job' = [job EXCEPT ![c] = new]
  PROVE  /\ job' \in [Callers -> Jobs] /\ job'[c] = new
         /\ \A d \in Callers : d # c => job'[d] = job[d]
  BY DEF TypeOK

(* A holder's lease is running. *)
LEMMA LeaseRuns ==
  ASSUME Inv, NEW c \in Callers, At(c, "held")
  PROVE  /\ job[c].age < Timeout /\ row.lock > 0 /\ row.left > 0 /\ Exists
         /\ job[c].mine /\ row.status = "processing"
<1>1. TypeOK /\ Covered(c)
  BY DEF Inv
<1>2. /\ job[c].age \in Nat /\ job[c].due \in 0 .. RenewEvery
      /\ errors \in 0 .. MaxErrors
  BY <1>1, Rows
<1>3. MaxDelay + RenewEvery * errors + RenewEvery < Timeout
      /\ RenewEvery * errors \in Nat
  BY <1>2, Times
<1>4. job[c].age < Timeout
  BY <1>1, <1>2, <1>3, Times DEF Covered, Budget
<1> QED BY <1>1, <1>2, <1>4, Times DEF Covered, Exists

-----------------------------------------------------------------------------
(* What the statements of the store do to the row. *)
LEMMA CreateEffect ==
  ASSUME NEW op \in Prints, NEW age \in Nat, CreateProcessing(op, age)
  PROVE  /\ row' \in RecordType /\ row'.status = "processing" /\ row'.print = op
         /\ row'.lock = Timeout - age /\ row'.left = TTL - age
<1>1. Timeout - age \in Int /\ TTL - age \in Int
  BY Times
<1> QED BY <1>1 DEF CreateProcessing, RecordType, Statuses

LEMMA ReclaimEffect ==
  ASSUME TypeOK, NEW age \in Nat, Reclaim(age)
  PROVE  /\ row' \in RecordType /\ row'.status = "processing"
         /\ row'.lock = Timeout - age /\ row'.left = TTL - age
<1> DEFINE lock == Timeout - age
           left == TTL - age
<1>1. lock \in Int /\ left \in Int /\ row \in RecordType
  BY Rows, Times
<1>2. row' = [row EXCEPT !.status = "processing", !.lock = lock, !.left = left]
  BY DEF Reclaim
<1> HIDE DEF lock, left
<1>3. /\ row' \in RecordType /\ row'.status = "processing"
      /\ row'.lock = lock /\ row'.left = left
  BY <1>1, <1>2 DEF RecordType, Statuses
<1> QED BY <1>3 DEF lock, left

LEMMA ExtendEffect ==
  ASSUME TypeOK, Extend
  PROVE  /\ row' \in RecordType /\ row'.status = row.status
         /\ row'.print = row.print /\ row'.lock = Timeout /\ row'.left = TTL
<1>1. Timeout \in Int /\ TTL \in Int /\ row \in RecordType
  BY Rows, Times
<1> QED BY <1>1 DEF Extend, RecordType

LEMMA MarkEffect ==
  ASSUME TypeOK, NEW op \in Prints,
         MarkSucceeded(op, TTL) \/ MarkFailedRetryable(0, TTL)
  PROVE  row' \in RecordType /\ row'.status # "none"
<1>1. Past \in Int /\ TTL \in Int /\ 0 \in Int /\ row \in RecordType
  BY Rows, Times DEF Past
<1> HIDE DEF Past
<1>2. CASE MarkSucceeded(op, TTL)
  BY <1>1, <1>2 DEF MarkSucceeded, RecordType, Statuses
<1>3. CASE MarkFailedRetryable(0, TTL)
  BY <1>1, <1>3 DEF MarkFailedRetryable, RecordType, Statuses
<1> QED BY <1>2, <1>3

LEMMA PassEffect ==
  ASSUME TypeOK, Pass
  PROVE  /\ row' \in RecordType
         /\ row'.status = row.status /\ row'.print = row.print
         /\ row.lock > 0 => row'.lock = row.lock - 1
         /\ row.left > 0 => row'.left = row.left - 1
<1> DEFINE lock == Sooner(row.lock)
           left == Sooner(row.left)
<1>1. /\ lock \in Int /\ left \in Int
      /\ row.lock > 0 => lock = row.lock - 1
      /\ row.left > 0 => left = row.left - 1
  BY Rows, Times DEF Sooner, Past
<1>2. row' = [row EXCEPT !.lock = lock, !.left = left]
  BY DEF Pass
<1> HIDE DEF lock, left
<1>3. row' \in RecordType /\ row'.status = row.status /\ row'.print = row.print
      /\ row'.lock = lock /\ row'.left = left
  BY <1>1, <1>2, Rows DEF RecordType
<1> QED BY <1>1, <1>3

-----------------------------------------------------------------------------
(* A step of a caller after which it does not hold the lock, and that      *)
(* leaves the row alone, or is a release of its holder.                    *)
LEMMA QuietKeeps ==
  ASSUME Inv, NEW c \in Callers, NEW new \in Jobs,
         job' = [job EXCEPT ![c] = new],
         errors' = errors, row' \in RecordType,
         new.at # "held", ~ new.renewing,
         new.at \in Claiming => new.age =< MaxDelay,
         new.mine => row'.status # "none",
         Exists => row'.status # "none",
         row' = row \/ At(c, "held")
  PROVE  Inv'
<1>1. /\ TypeOK /\ Timely /\ OneOperation /\ \A d \in Callers : Covered(d)
      /\ job' \in [Callers -> Jobs] /\ job'[c] = new
      /\ \A d \in Callers : d # c => job'[d] = job[d]
  BY RowMoves DEF Inv
<1>2. TypeOK'
  <2>1. \A d \in Callers : job'[d].mine => row'.status # "none"
    BY <1>1 DEF TypeOK
  <2> QED BY <1>1, <2>1 DEF TypeOK, Exists
<1>3. Timely'
  BY <1>1 DEF Timely, At
<1>4. \A d \in Callers : At(d, "held")' => At(d, "held") /\ d # c
  BY <1>1 DEF At
<1>5. OneOperation'
  BY <1>1, <1>4 DEF OneOperation, Held
<1>6. ASSUME NEW d \in Callers, At(d, "held")'
      PROVE  Covered(d)'
  <2>1. At(d, "held") /\ d # c
    BY <1>4, <1>6
  <2>2. row' = row /\ job'[d] = job[d]
    BY <1>1, <2>1 DEF OneOperation, Held
  <2> QED BY <1>1, <2>2 DEF Covered, Budget, At
<1>7. \A d \in Callers : Covered(d)'
  BY <1>6 DEF Covered
<1> QED BY <1>2, <1>3, <1>5, <1>7 DEF Inv

(* Acquire: nobody holds the lock, and the lease begins at the caller's    *)
(* time.                                                                   *)
LEMMA HoldKeeps ==
  ASSUME Inv, NEW c \in Callers, job[c].at \in Claiming, Hold(c),
         errors' = errors,
         \A d \in Callers : ~ At(d, "held"),
         row' \in RecordType, row'.status = "processing",
         row'.lock = Timeout - job[c].age, row'.left = TTL - job[c].age
  PROVE  Inv'
<1> DEFINE new == [job[c] EXCEPT !.at = "held", !.mine = TRUE,
                                 !.renewing = TRUE]
<1>1. TypeOK /\ Timely /\ job[c] \in Jobs
  BY Rows DEF Inv
<1>2. /\ new \in Jobs /\ new.at = "held" /\ new.mine /\ new.renewing
      /\ new.age = job[c].age /\ new.due = job[c].due /\ new.op = job[c].op
  BY <1>1 DEF Jobs
<1>3. job' = [job EXCEPT ![c] = new]
  BY <1>1 DEF Hold, TypeOK, Jobs
<1> HIDE DEF new
<1>4. /\ job' \in [Callers -> Jobs] /\ job'[c] = new
      /\ \A d \in Callers : d # c => job'[d] = job[d]
  BY <1>1, <1>2, <1>3, RowMoves
<1>5. TypeOK'
  <2>1. errors' \in 0 .. MaxErrors
    BY <1>1 DEF TypeOK
  <2> QED BY <1>4, <2>1 DEF TypeOK, Exists
<1>6. Timely'
  BY <1>1, <1>2, <1>4 DEF Timely, At, Claiming
<1>7. \A d \in Callers : At(d, "held")' => d = c
  BY <1>4 DEF At
<1>8. OneOperation'
  BY <1>7 DEF OneOperation, Held
<1>9. Covered(c)'
  <2>1. /\ job[c].age \in Nat /\ job[c].age =< MaxDelay /\ job[c].due \in Nat
        /\ errors \in 0 .. MaxErrors
    BY <1>1, Rows DEF Timely
  <2>2. /\ job[c].age < Timeout
        /\ job[c].age =< MaxDelay + RenewEvery * errors + job[c].due
    BY <2>1, Times
  <2> QED BY <1>2, <1>4, <2>2 DEF Covered, Budget
<1>10. \A d \in Callers : Covered(d)'
  BY <1>7, <1>9 DEF Covered
<1> QED BY <1>5, <1>6, <1>8, <1>10 DEF Inv

-----------------------------------------------------------------------------
LEMMA ReturnKeeps ==
  ASSUME Inv, NEW c \in Callers, Return(c), errors' = errors,
         row' \in RecordType, Exists => row'.status # "none",
         row' = row \/ At(c, "held")
  PROVE  Inv'
<1>1. Idle.at \notin Claiming
  BY IdleRow DEF Claiming
<1> QED BY <1>1, IdleRow, QuietKeeps DEF Return

LEMMA BeginKeeps ==
  ASSUME Inv, NEW c \in Callers, NEW op \in Prints, Begin(c, op)
  PROVE  Inv'
<1> DEFINE new == [Idle EXCEPT !.at = "create", !.op = op]
<1>1. /\ new \in Jobs /\ new.at = "create" /\ ~ new.renewing /\ ~ new.mine
      /\ new.age = 0
  BY IdleRow DEF Jobs, Claiming
<1>2. job' = [job EXCEPT ![c] = new] /\ row' = row /\ errors' = errors
  BY DEF Begin
<1>3. TypeOK
  BY DEF Inv
<1> HIDE DEF new
<1>4. row' \in RecordType /\ (Exists => row'.status # "none") /\ 0 =< MaxDelay
  BY <1>2, <1>3, Rows, Times DEF Exists
<1> QED BY <1>1, <1>2, <1>4, QuietKeeps

LEMMA CreateKeeps ==
  ASSUME Inv, NEW c \in Callers, Create(c)
  PROVE  Inv'
<1>1. TypeOK /\ Timely /\ At(c, "create") /\ errors' = errors /\ job[c] \in Jobs
  BY Rows DEF Inv, Create
<1>2. CASE Exists
  <2> DEFINE new == [job[c] EXCEPT !.at = "get"]
  <2>1. /\ new \in Jobs /\ new.at = "get" /\ new.renewing = job[c].renewing
        /\ new.mine = job[c].mine /\ new.age = job[c].age
    BY <1>1 DEF Jobs, Claiming
  <2>2. job' = [job EXCEPT ![c] = new] /\ row' = row
    BY <1>2 DEF Create, Goto
  <2> HIDE DEF new
  <2>3. ~ job[c].renewing /\ job[c].age =< MaxDelay /\ row' \in RecordType
    BY <1>1, <2>2, Rows DEF Timely, At, Claiming
  <2>4. new.mine => row'.status # "none"
    BY <1>2, <2>2 DEF Exists
  <2> QED BY <1>1, <1>2, <2>1, <2>2, <2>3, <2>4, QuietKeeps DEF Exists
<1>3. CASE ~ Exists
  <2>1. CreateProcessing(job[c].op, job[c].age) /\ Hold(c)
    BY <1>3 DEF Create
  <2>2. job[c].op \in Prints /\ job[c].age \in Nat /\ job[c].at \in Claiming
    BY <1>1, Rows DEF At, Claiming
  <2>3. \A d \in Callers : ~ At(d, "held")
    BY <1>3, LeaseRuns
  <2> QED BY <1>1, <2>1, <2>2, <2>3, CreateEffect, HoldKeeps
<1> QED BY <1>2, <1>3

LEMMA GetKeeps ==
  ASSUME Inv, NEW c \in Callers, Get(c)
  PROVE  Inv'
<1>1. /\ TypeOK /\ Timely /\ At(c, "get") /\ errors' = errors /\ row' = row
      /\ job[c] \in Jobs /\ row \in RecordType
  BY Rows DEF Inv, Get
<1>2. CASE ~ Exists \/ (row.status = "processing" /\ Locked(job[c].age))
  <2>1. Return(c)
    BY <1>2 DEF Get
  <2> QED BY <1>1, <2>1, ReturnKeeps DEF Exists
<1>3. CASE ~ (~ Exists \/ (row.status = "processing" /\ Locked(job[c].age)))
  <2> DEFINE new == [job[c] EXCEPT !.at = "reclaim", !.from = row.status,
                                   !.mine = TRUE]
  <2>1. row.status \in Statuses
    BY <1>1 DEF RecordType
  <2>2. /\ new \in Jobs /\ new.at = "reclaim" /\ new.renewing = job[c].renewing
        /\ new.age = job[c].age
    BY <1>1, <2>1 DEF Jobs, Claiming
  <2>3. job' = [job EXCEPT ![c] = new]
    BY <1>1, <1>3 DEF Get, TypeOK, Jobs
  <2> HIDE DEF new
  <2>4. ~ job[c].renewing /\ job[c].age =< MaxDelay
    BY <1>1 DEF Timely, At, Claiming
  <2>5. row'.status # "none"
    BY <1>1, <1>3 DEF Exists
  <2> QED BY <1>1, <2>2, <2>3, <2>4, <2>5, QuietKeeps
<1> QED BY <1>2, <1>3

LEMMA TryReclaimKeeps ==
  ASSUME Inv, NEW c \in Callers, TryReclaim(c)
  PROVE  Inv'
<1>1. /\ TypeOK /\ At(c, "reclaim") /\ errors' = errors /\ row \in RecordType
      /\ job[c].age \in Nat /\ job[c].at \in Claiming
  BY Rows DEF Inv, TryReclaim, At, Claiming
<1>2. CASE job[c].mine /\ Reclaimable(job[c].from, job[c].age)
  <2>1. Reclaim(job[c].age) /\ Hold(c)
    BY <1>2 DEF TryReclaim
  <2>2. ASSUME NEW d \in Callers, At(d, "held")
        PROVE  FALSE
    <3>1. row.lock > 0 /\ row.lock \in Int
      BY <1>1, <2>2, LeaseRuns, Rows
    <3> QED BY <1>1, <1>2, <3>1 DEF Reclaimable, Locked
  <2> QED BY <1>1, <2>1, <2>2, ReclaimEffect, HoldKeeps
<1>3. CASE ~ (job[c].mine /\ Reclaimable(job[c].from, job[c].age))
  <2>1. Return(c) /\ row' = row
    BY <1>3 DEF TryReclaim
  <2> QED BY <1>1, <2>1, ReturnKeeps DEF Exists
<1> QED BY <1>2, <1>3

LEMMA ReleaseKeeps ==
  ASSUME Inv, NEW c \in Callers, Release(c)
  PROVE  Inv'
<1>1. /\ TypeOK /\ At(c, "held") /\ Return(c) /\ errors' = errors
      /\ row \in RecordType /\ job[c].op \in Prints
  BY Rows DEF Inv, Release
<1>2. CASE job[c].mine
  <2>1. row' \in RecordType /\ row'.status # "none"
    BY <1>1, <1>2, MarkEffect DEF Release
  <2> QED BY <1>1, <2>1, ReturnKeeps
<1>3. CASE ~ job[c].mine
  BY <1>1, <1>3, ReturnKeeps DEF Release, Exists
<1> QED BY <1>2, <1>3

LEMMA StopKeeps ==
  ASSUME Inv, NEW c \in Callers, Stop(c)
  PROVE  Inv'
<1>1. Return(c) /\ errors' = errors /\ row' = row /\ row \in RecordType
  BY Rows DEF Inv, Stop
<1> QED BY <1>1, ReturnKeeps DEF Exists

-----------------------------------------------------------------------------
(* One turn of renewLoop, whatever comes of it: only the holder takes one. *)
LEMMA TurnKeeps ==
  ASSUME Inv, NEW c \in Callers, At(c, "held"), NEW new \in Jobs,
         job' = [job EXCEPT ![c] = new],
         new.at = "held", new.mine, new.op = job[c].op, new.due = 0,
         row' \in RecordType, row'.status = "processing",
         row'.print = row.print,
         row'.lock = Timeout - new.age, row'.left = TTL - new.age,
         errors' \in 0 .. MaxErrors,
         row.print = job[c].op =>
             new.renewing /\ new.age =< MaxDelay + RenewEvery * errors',
         row.print # job[c].op => new.age < Timeout
  PROVE  Inv'
<1>1. /\ TypeOK /\ Timely /\ OneOperation
      /\ job' \in [Callers -> Jobs] /\ job'[c] = new
      /\ \A d \in Callers : d # c => job'[d] = job[d] /\ ~ At(d, "held")
  BY RowMoves DEF Inv, OneOperation, Held
<1>2. TypeOK'
  BY <1>1 DEF TypeOK, Exists
<1>3. Timely'
  BY <1>1 DEF Timely, At, Claiming
<1>4. \A d \in Callers : At(d, "held")' => d = c
  BY <1>1 DEF At
<1>5. OneOperation'
  BY <1>4 DEF OneOperation, Held
<1>6. RenewEvery * errors' \in Nat
  BY Times
<1>7. Covered(c)'
  BY <1>1, <1>6, Times DEF Covered, Budget
<1>8. \A d \in Callers : Covered(d)'
  BY <1>4, <1>7 DEF Covered
<1> QED BY <1>2, <1>3, <1>5, <1>8 DEF Inv

LEMMA RenewKeeps ==
  ASSUME Inv, NEW c \in Callers, Renew(c)
  PROVE  Inv'
<1>1. /\ TypeOK /\ Timely /\ Covered(c) /\ At(c, "held") /\ job[c] \in Jobs
      /\ errors' = errors /\ errors \in 0 .. MaxErrors
  BY Rows DEF Inv, Timely, Renew
<1>2. /\ job[c].mine /\ row.status = "processing" /\ row \in RecordType
      /\ row.lock = Timeout - job[c].age /\ row.left = TTL - job[c].age
  BY <1>1, Rows DEF Covered
<1>3. 0 \in 0 .. TTL /\ 0 \in 0 .. RenewEvery /\ RenewEvery * errors \in Nat
      /\ Timeout = Timeout - 0 /\ TTL = TTL - 0 /\ 0 < Timeout
      /\ 0 =< MaxDelay + RenewEvery * errors
  BY <1>1, Times
<1>4. CASE Renews(c)
  <2> DEFINE new == [job[c] EXCEPT !.due = 0, !.age = 0]
  <2>1. /\ new \in Jobs /\ new.at = job[c].at /\ new.mine = job[c].mine
        /\ new.op = job[c].op /\ new.due = 0 /\ new.age = 0
        /\ new.renewing = job[c].renewing
    BY <1>1, <1>3 DEF Jobs
  <2>2. job' = [job EXCEPT ![c] = new]
    BY <1>1, <1>4 DEF Renew, TypeOK, Jobs
  <2> HIDE DEF new
  <2>3. /\ row' \in RecordType /\ row'.status = "processing"
        /\ row'.print = row.print /\ row'.lock = Timeout /\ row'.left = TTL
    BY <1>1, <1>2, <1>4, ExtendEffect DEF Renew
  <2>4. job[c].renewing
    BY DEF Renew
  <2> QED BY <1>1, <1>2, <1>3, <2>1, <2>2, <2>3, <2>4, TurnKeeps DEF At
<1>5. CASE ~ Renews(c)
  <2> DEFINE new == [job[c] EXCEPT !.renewing = FALSE, !.due = 0]
  <2>1. /\ new \in Jobs /\ new.at = job[c].at /\ new.mine = job[c].mine
        /\ new.op = job[c].op /\ new.due = 0 /\ new.age = job[c].age
    BY <1>1, <1>3 DEF Jobs
  <2>2. job' = [job EXCEPT ![c] = new] /\ row' = row
    BY <1>1, <1>5 DEF Renew, TypeOK, Jobs
  <2> HIDE DEF new
  <2>3. row.print # job[c].op /\ job[c].age < Timeout
    BY <1>1, <1>2, <1>5 DEF Renews, Extendable, Covered
  <2> QED BY <1>1, <1>2, <2>1, <2>2, <2>3, TurnKeeps DEF At
<1> QED BY <1>4, <1>5

LEMMA RenewFailsKeeps ==
  ASSUME Inv, NEW c \in Callers, RenewFails(c)
  PROVE  Inv'
<1>1. /\ TypeOK /\ Timely /\ Covered(c) /\ At(c, "held") /\ job[c] \in Jobs
      /\ job[c].renewing /\ job[c].due = RenewEvery
      /\ errors' = errors + 1 /\ errors < MaxErrors /\ row' = row
      /\ job' = [job EXCEPT ![c].due = 0]
      /\ errors \in 0 .. MaxErrors /\ job[c].age \in Nat
  BY Rows DEF Inv, Timely, RenewFails
<1>2. /\ job[c].mine /\ row.status = "processing" /\ row \in RecordType
      /\ row.lock = Timeout - job[c].age /\ row.left = TTL - job[c].age
  BY <1>1, Rows DEF Covered
<1>3. /\ 0 \in 0 .. RenewEvery /\ errors' \in 0 .. MaxErrors
      /\ RenewEvery * errors' = RenewEvery * errors + RenewEvery
      /\ RenewEvery * errors \in Nat
  BY <1>1, Times
<1>4. row.print = job[c].op => job[c].age =< MaxDelay + RenewEvery * errors'
  BY <1>1, <1>3, Times DEF Covered, Budget
<1> DEFINE new == [job[c] EXCEPT !.due = 0]
<1>5. /\ new \in Jobs /\ new.at = job[c].at /\ new.mine = job[c].mine
      /\ new.op = job[c].op /\ new.due = 0 /\ new.age = job[c].age
      /\ new.renewing = job[c].renewing
  BY <1>1, <1>3 DEF Jobs
<1>6. job' = [job EXCEPT ![c] = new]
  BY <1>1
<1> HIDE DEF new
<1>7. row.print # job[c].op => job[c].age < Timeout
  BY <1>1 DEF Covered
<1> QED BY <1>1, <1>2, <1>3, <1>4, <1>5, <1>6, <1>7, TurnKeeps DEF At

-----------------------------------------------------------------------------
(* The cleanup does not touch a lease that is running. *)
LEMMA CleanupKeeps ==
  ASSUME Inv, CleanupOnce
  PROVE  Inv'
<1>1. /\ TypeOK /\ Timely /\ row \in RecordType /\ errors' = errors
      /\ \A c \in Callers : job[c] \in Jobs
      /\ job' = [c \in Callers |-> [job[c] EXCEPT !.mine = FALSE]]
      /\ row' = [row EXCEPT !.status = "none"]
  BY Rows DEF Inv, CleanupOnce, Delete
<1>2. \A c \in Callers : ~ At(c, "held")
  <2> SUFFICES ASSUME NEW c \in Callers, At(c, "held") PROVE FALSE
    OBVIOUS
  <2>1. row.left > 0 /\ row.left \in Int
    BY <1>1, LeaseRuns, Rows
  <2> QED BY <2>1 DEF CleanupOnce, Deletable
<1>3. \A c \in Callers :
        /\ job'[c] \in Jobs /\ ~ job'[c].mine /\ job'[c].at = job[c].at
        /\ job'[c].age = job[c].age /\ job'[c].renewing = job[c].renewing
  BY <1>1 DEF Jobs
<1>4. job' \in [Callers -> Jobs] /\ row' \in RecordType
  BY <1>1, <1>3 DEF RecordType, Statuses
<1>5. TypeOK'
  BY <1>1, <1>3, <1>4 DEF TypeOK
<1>6. Timely'
  BY <1>1, <1>3 DEF Timely, At
<1>7. \A c \in Callers : ~ At(c, "held")'
  BY <1>2, <1>3 DEF At
<1> QED BY <1>5, <1>6, <1>7 DEF Inv, OneOperation, Held, Covered

LEMMA TickKeeps ==
  ASSUME Inv, ~ Outlasts, Tick
  PROVE  Inv'
<1>1. /\ TypeOK /\ Timely /\ OneOperation /\ \A c \in Callers : Covered(c)
      /\ errors' = errors /\ errors \in 0 .. MaxErrors
      /\ job' = [c \in Callers |-> Older(c)]
      /\ \A c \in Callers : job[c] \in Jobs /\ MayWait(c)
  BY Rows DEF Inv, Tick
<1>2. /\ row' \in RecordType
      /\ row'.status = row.status /\ row'.print = row.print
      /\ row.lock > 0 => row'.lock = row.lock - 1
      /\ row.left > 0 => row'.left = row.left - 1
  BY <1>1, PassEffect DEF Tick
<1> DEFINE age(c) == IF At(c, "idle") \/ job[c].age = TTL THEN job[c].age
                     ELSE job[c].age + 1
           due(c) == IF job[c].renewing THEN job[c].due + 1 ELSE job[c].due
<1>3. ASSUME NEW c \in Callers
      PROVE  age(c) \in 0 .. TTL /\ due(c) \in 0 .. RenewEvery
  <2>1. job[c].age \in 0 .. TTL /\ job[c].due \in 0 .. RenewEvery
        /\ (job[c].renewing => job[c].due < RenewEvery)
    BY <1>1, Rows DEF MayWait
  <2> QED BY <2>1, Times
<1>4. \A c \in Callers :
         Older(c) = [job[c] EXCEPT !.age = age(c), !.due = due(c)]
  BY <1>1 DEF Older, Jobs
<1> HIDE DEF age, due
<1>5. \A c \in Callers :
        /\ job'[c] \in Jobs /\ job'[c].at = job[c].at /\ job'[c].op = job[c].op
        /\ job'[c].mine = job[c].mine /\ job'[c].renewing = job[c].renewing
        /\ job'[c].age = age(c) /\ job'[c].due = due(c)
  <2> SUFFICES ASSUME NEW c \in Callers PROVE <1>5!(c)
    OBVIOUS
  <2>1. /\ age(c) \in 0 .. TTL /\ due(c) \in 0 .. RenewEvery
        /\ job[c] \in Jobs
        /\ job'[c] = [job[c] EXCEPT !.age = age(c), !.due = due(c)]
    BY <1>1, <1>3, <1>4
  <2> QED BY <2>1 DEF Jobs
<1>6. TypeOK'
  <2>1. job' \in [Callers -> Jobs]
    BY <1>1, <1>5
  <2> QED BY <1>1, <1>2, <1>5, <2>1 DEF TypeOK, Exists
<1>7. Timely'
  <2> SUFFICES ASSUME NEW c \in Callers
               PROVE  /\ job'[c].at \in Claiming => job'[c].age =< MaxDelay
                      /\ job'[c].renewing => At(c, "held")'
    BY DEF Timely
  <2>1. job[c].at \in Claiming => job[c].age < MaxDelay
    BY <1>1 DEF MayWait
  <2>2. job[c].age \in Nat
    BY <1>1, Rows
  <2>3. job[c].at \in Claiming => age(c) =< MaxDelay
    BY <2>1, <2>2, Times DEF age
  <2> QED BY <1>1, <1>5, <2>3 DEF Timely, At
<1>8. OneOperation'
  BY <1>1, <1>5 DEF OneOperation, Held, At
<1>9. ASSUME NEW c \in Callers, At(c, "held")'
      PROVE  Covered(c)'
  <2>1. At(c, "held") /\ job[c].at # "idle"
    BY <1>5, <1>9 DEF At
  <2>2. /\ job[c].age < Timeout /\ row.lock > 0 /\ row.left > 0
        /\ job[c].age \in Nat /\ job[c].due \in Nat
        /\ row.lock \in Int /\ row.left \in Int
        /\ job[c].mine /\ row.status = "processing"
        /\ row.lock = Timeout - job[c].age /\ row.left = TTL - job[c].age
    BY <1>1, <2>1, LeaseRuns, Rows DEF Covered
  <2>3. age(c) = job[c].age + 1
    BY <2>1, <2>2, Times DEF age, At
  <2>4. row'.lock = Timeout - age(c) /\ row'.left = TTL - age(c)
    BY <1>2, <2>2, <2>3, Times
  <2>5. CASE row.print = job[c].op
    <3>1. /\ job[c].renewing
          /\ job[c].age =< MaxDelay + RenewEvery * errors + job[c].due
      BY <1>1, <2>1, <2>5 DEF Covered, Budget
    <3>2. due(c) = job[c].due + 1 /\ RenewEvery * errors \in Nat
      BY <1>1, <3>1, Times DEF due
    <3>3. age(c) =< MaxDelay + RenewEvery * errors + due(c)
      BY <2>2, <2>3, <3>1, <3>2, Times
    <3> QED BY <1>1, <1>2, <1>5, <2>2, <2>4, <2>5, <3>1, <3>3
            DEF Covered, Budget
  <2>6. CASE row.print # job[c].op
    <3>1. job[c].age < Timeout - 1
      BY <1>1, <2>1, <2>6 DEF MayWait
    <3>2. age(c) < Timeout
      BY <2>2, <2>3, <3>1, Times
    <3> QED BY <1>1, <1>2, <1>5, <2>2, <2>4, <2>6, <3>2 DEF Covered
  <2> QED BY <2>5, <2>6
<1>10. \A c \in Callers : Covered(c)'
  BY <1>9 DEF Covered
<1> QED BY <1>6, <1>7, <1>8, <1>10 DEF Inv

-----------------------------------------------------------------------------
LEMMA InitInv == Init => Inv
<1> SUFFICES ASSUME Init PROVE Inv
  OBVIOUS
<1>1. \A c \in Callers : job[c] = Idle
  BY DEF Init
<1>2. NoRow \in RecordType
  <2>1. Past \in Int
    BY Times DEF Past
  <2> QED BY <2>1, IdleRow DEF NoRow, RecordType, Statuses
<1>3. TypeOK
  <2>1. job \in [Callers -> Jobs] /\ errors \in 0 .. MaxErrors
    BY IdleRow, Times DEF Init
  <2> QED BY <1>1, <1>2, <2>1, IdleRow DEF Init, TypeOK
<1> QED BY <1>1, <1>3, IdleRow
        DEF Inv, Timely, OneOperation, Held, Covered, At, Claiming

LEMMA StepInv ==
  ASSUME ~ Outlasts, Inv, [Next]_vars
  PROVE  Inv'
<1>1. CASE UNCHANGED vars
  BY <1>1 DEF vars, Inv, TypeOK, Exists, Timely, OneOperation, Held, Covered,
              Budget, At
<1>2. ASSUME NEW c \in Callers, NEW op \in Prints, Begin(c, op)
      PROVE  Inv'
  BY <1>2, BeginKeeps
<1>3. ASSUME NEW c \in Callers, Step(c)
      PROVE  Inv'
  BY <1>3, CreateKeeps, GetKeeps, TryReclaimKeeps, RenewKeeps, ReleaseKeeps
     DEF Step
<1>4. ASSUME NEW c \in Callers, RenewFails(c) \/ Stop(c)
      PROVE  Inv'
  BY <1>4, RenewFailsKeeps, StopKeeps
<1>5. CASE CleanupOnce
  BY <1>5, CleanupKeeps
<1>6. CASE Tick
  BY <1>6, TickKeeps
<1> QED BY <1>1, <1>2, <1>3, <1>4, <1>5, <1>6 DEF Next

(* The assumption of every theorem: an operation whose lease cannot be     *)
(* renewed, since the row carries another one's id, ends before its lease. *)
LEMMA Invariance == Spec /\ ~ Outlasts => [](Inv /\ ~ Outlasts)
<1>1. Init /\ ~ Outlasts => Inv /\ ~ Outlasts
  BY InitInv
<1>2. (Inv /\ ~ Outlasts) /\ [Next]_vars => (Inv /\ ~ Outlasts)'
  BY StepInv
<1> QED BY <1>1, <1>2, PTL DEF Spec

(* Every variable keeps its type, and a caller that believes it holds the  *)
(* row holds one that exists (SystemOperationLockService).                 *)
THEOREM TypeCorrect == Spec /\ ~ Outlasts => []TypeOK
<1>1. Inv /\ ~ Outlasts => TypeOK
  BY DEF Inv
<1> QED BY <1>1, Invariance, PTL

(* Acquire never lets two system operations run at once, as long as an     *)
(* operation that cannot renew its lease does not outlast it.              *)
THEOREM OperationsExclude == Spec /\ ~ Outlasts => []OneOperation
<1>1. Inv /\ ~ Outlasts => OneOperation
  BY DEF Inv
<1> QED BY <1>1, Invariance, PTL

(* renewLoop keeps the lease of a running operation alive, through         *)
(* MaxErrors renewals that fail.                                           *)
THEOREM LeaseHolds == Spec /\ ~ Outlasts => []LeaseCovers
<1>1. Inv /\ ~ Outlasts => LeaseCovers
  <2> SUFFICES ASSUME Inv PROVE LeaseCovers
    OBVIOUS
  <2> QED BY LeaseRuns DEF LeaseCovers, Held
<1> QED BY <1>1, Invariance, PTL
===============================================================================
