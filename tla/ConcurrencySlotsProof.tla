------------------------ MODULE ConcurrencySlotsProof ------------------------
(***************************************************************************)
(* What is proved of concurrency slots, for any number of requests,        *)
(* accounts and faults, any limits and any queue length.                   *)
(*                                                                         *)
(* A slot is only taken when the members of the pool, those that nobody    *)
(* knows included, are fewer than its limit (OneMore).  A wait counter and *)
(* the increments that failed open count at least those who wait           *)
(* (Counted); only the floor of the decrement lets it count more.          *)
(***************************************************************************)
EXTENDS ConcurrencySlots, FiniteSetTheorems, TLAPS

(* A process that is down serves nobody. *)
DownIsIdle == ~ up => \A r \in Requests : At(r, "idle")

Counted == \A k \in Pools : Cardinality(WaitingFor(k)) =< wait[k] + opened

(* Only an account's slot lets a request through to it. *)
AtAccount == \A r \in Requests : At(r, "forward") => job[r].pool # User

Inv == TypeOK /\ DownIsIdle /\ AtAccount /\ SlotLimit /\ Counted

(* What a step does to the row of a request. *)
Moves(r, points) ==
    /\ job' \in [Requests -> Jobs]
    /\ job'[r].at \in points
    /\ At(r, "forward")' => job'[r].pool # User
    /\ \A s \in Requests : s # r => job'[s] = job[s]

(* It still waits for, or wants, the same pool. *)
Stays(r) == job'[r].pool = job[r].pool

(* Nobody starts to wait. *)
NoneEnters ==
    \A r \in Requests :
        job'[r].at \in Waiting => /\ job[r].at \in Waiting
                                  /\ job'[r].pool = job[r].pool

(* Nobody takes a slot. *)
NoneHolds == \A r \in Requests, k \in Pools :
                 left'[r][k] > 0 => left[r][k] > 0

-----------------------------------------------------------------------------
(* Rows *)
LEMMA Rows ==
  ASSUME TypeOK, NEW r \in Requests
  PROVE  /\ job[r] \in Jobs /\ Idle \in Jobs
         /\ job[r].pool \in Pools /\ job[r].attempts \in 0 .. MaxAttempts
         /\ job[r].failed \in SUBSET Accounts
  BY SlotsAssumption DEF TypeOK, Jobs, Idle, Pools

LEMMA RowMoves ==
  ASSUME TypeOK, NEW r \in Requests, NEW row \in Jobs,
         row.at = "forward" => row.pool # User, job' = [job EXCEPT ![r] = row]
  PROVE  Moves(r, {row.at}) /\ job'[r] = row
  BY DEF TypeOK, Moves, At

LEMMA GotoMoves ==
  ASSUME TypeOK, NEW r \in Requests, 
         NEW point \in {"try", "count", "leave", "wait", "uncount"},
         Goto(r, point)
  PROVE  Moves(r, {point}) /\ Stays(r)
  BY Rows DEF TypeOK, Goto, Moves, Stays, Jobs, Waiting, At

LEMMA ProceedMoves ==
  ASSUME TypeOK, NEW r \in Requests, Proceed(r)
  PROVE  Moves(r, {"try", "forward"})
<1>1. CASE job[r].pool = User
  <2>1. PICK a \in Accounts :
          job' = [job EXCEPT ![r].at = "try", ![r].pool = a]
    BY <1>1 DEF Proceed
  <2> DEFINE row == [job[r] EXCEPT !.at = "try", !.pool = a]
  <2>2. row \in Jobs /\ row.at = "try"
    BY Rows DEF Jobs, Pools
  <2>3. job' = [job EXCEPT ![r] = row]
    BY <2>1, Rows DEF TypeOK, Jobs
  <2> HIDE DEF row
  <2> QED BY <2>2, <2>3, RowMoves DEF Moves
<1>2. CASE job[r].pool # User
  <2> DEFINE row == [job[r] EXCEPT !.at = "forward"]
  <2>1. row \in Jobs /\ row.at = "forward" /\ row.pool # User
    BY <1>2, Rows DEF Jobs
  <2>2. job' = [job EXCEPT ![r] = row]
    BY <1>2, Rows DEF TypeOK, Jobs, Proceed, Goto
  <2> HIDE DEF row
  <2> QED BY <2>1, <2>2, RowMoves DEF Moves
<1> QED BY <1>1, <1>2

LEMMA ServedMoves ==
  ASSUME TypeOK, NEW r \in Requests, Served(r)
  PROVE  Moves(r, {"try", "forward", "leave"})
  BY ProceedMoves, GotoMoves DEF Served, Moves

LEMMA AttemptMoves ==
  ASSUME TypeOK, NEW r \in Requests, NEW failed \in SUBSET Accounts,
         Attempt(r, failed)
  PROVE  Moves(r, {"try"})
<1>1. PICK a \in Accounts :
        job' = [job EXCEPT ![r].at = "try", ![r].pool = a,
                           ![r].failed = failed, ![r].attempts = @ + 1]
  BY DEF Attempt
<1> DEFINE row == [job[r] EXCEPT !.at = "try", !.pool = a, !.failed = failed,
                                 !.attempts = @ + 1]
<1>2. job[r].attempts + 1 \in 0 .. MaxAttempts
  BY Rows, SlotsAssumption DEF Attempt
<1>3. row \in Jobs /\ row.at = "try"
  BY <1>2, Rows DEF Jobs, Pools
<1>4. job' = [job EXCEPT ![r] = row]
  BY <1>1, Rows DEF TypeOK, Jobs
<1> HIDE DEF row
<1> QED BY <1>3, <1>4, RowMoves DEF Moves

LEMMA EndedMoves ==
  ASSUME TypeOK, NEW r \in Requests, At(r, "forward"), Ended(r),
         job[r].pool # User
  PROVE  Moves(r, {"leave", "try"})
<1>1. CASE Goto(r, "leave")
  BY <1>1, GotoMoves DEF Moves
<1>2. CASE Retry(r)
  BY <1>2, AttemptMoves, Rows DEF Retry, Moves
<1>3. CASE Switch(r)
  BY <1>3, AttemptMoves, Rows DEF Switch, Moves, Pools
<1> QED BY <1>1, <1>2, <1>3 DEF Ended

-----------------------------------------------------------------------------
(* Slots *)
LEMMA HoldersFinite ==
  ASSUME NEW k \in Pools
  PROVE  IsFiniteSet(Holders(k)) /\ Cardinality(Holders(k)) \in Nat
<1>1. Holders(k) \in SUBSET Requests
  BY DEF Holders
<1> QED BY <1>1, FS_Subset, FS_CardinalityType, SlotsAssumption

LEMMA LostIsNat ==
  ASSUME TypeOK, NEW k \in Pools
  PROVE  LostIn(k) \in Nat
<1>0. \A t \in 1 .. TTL : lost[k][t] \in Int
  BY SlotsAssumption DEF TypeOK
<1> DEFINE Members(t) == {t} \X (1 .. lost[k][t])
           Sets == {Members(t) : t \in 1 .. TTL}
           members == [t \in 1 .. TTL |-> Members(t)]
<1>1. IsFiniteSet(1 .. TTL)
  BY FS_Interval, SlotsAssumption
<1>2. \A s \in Sets : IsFiniteSet(s)
  <2> SUFFICES ASSUME NEW t \in 1 .. TTL
               PROVE  IsFiniteSet(Members(t))
    OBVIOUS
  <2>1. IsFiniteSet(1 .. lost[k][t])
    BY <1>0, FS_Interval
  <2> QED BY <2>1, FS_Singleton, FS_Product
<1>3. members \in Surjection(1 .. TTL, Sets)
  BY DEF Surjection
<1> HIDE DEF members, Members
<1>4. IsFiniteSet(Sets)
  BY <1>1, <1>3, FS_Surjection
<1>5. IsFiniteSet(UNION Sets)
  BY <1>2, <1>4, FS_UNION
<1> QED BY <1>5, FS_CardinalityType DEF LostIn, Members

LEMMA LimitKept ==
  ASSUME TypeOK, SlotLimit, NoneHolds
  PROVE  SlotLimit'
<1> SUFFICES ASSUME NEW k \in Pools
             PROVE  Cardinality(Holders(k)') =< Limit[k]
  BY DEF SlotLimit, Holders
<1>1. Holders(k)' \in SUBSET Holders(k)
  BY DEF Holders, NoneHolds
<1>2. Cardinality(Holders(k)') =< Cardinality(Holders(k))
  BY <1>1, FS_Subset, HoldersFinite
<1>3. Cardinality(Holders(k)') \in Nat /\ Cardinality(Holders(k)) \in Nat
  BY <1>1, FS_Subset, FS_CardinalityType, HoldersFinite
<1>4. Cardinality(Holders(k)) =< Limit[k] /\ Limit[k] \in Nat
  BY SlotsAssumption DEF SlotLimit
<1> QED BY <1>2, <1>3, <1>4

LEMMA OneMore ==
  ASSUME TypeOK, SlotLimit, NEW r \in Requests, Free(job[r].pool), Hold(r)
  PROVE  SlotLimit'
<1> SUFFICES ASSUME NEW k \in Pools
             PROVE  Cardinality(Holders(k)') =< Limit[k]
  BY DEF SlotLimit, Holders
<1>1. \A s \in Requests :
         left'[s][k] = IF s = r /\ k = job[r].pool THEN TTL ELSE left[s][k]
  BY DEF TypeOK, Hold
<1>2. Limit[k] \in Nat /\ Cardinality(Holders(k)) \in Nat
  BY HoldersFinite, SlotsAssumption
<1>3. CASE k = job[r].pool
  <2>1. Holders(k)' = Holders(k) \cup {r}
    BY <1>1, <1>3, SlotsAssumption DEF Holders
  <2>2. \/ Cardinality(Holders(k)') = Cardinality(Holders(k))
        \/ Cardinality(Holders(k)') = Cardinality(Holders(k)) + 1
    BY <2>1, FS_AddElement, HoldersFinite
  <2>3. Cardinality(Holders(k)') \in Nat
    BY <2>1, FS_AddElement, FS_CardinalityType, HoldersFinite
  <2>4. Cardinality(Holders(k)) + LostIn(k) < Limit[k] /\ LostIn(k) \in Nat
    BY <1>3, LostIsNat DEF Free
  <2> QED BY <1>2, <2>2, <2>3, <2>4
<1>4. CASE k # job[r].pool
  <2>1. Holders(k)' = Holders(k)
    BY <1>1, <1>4 DEF Holders
  <2> QED BY <2>1 DEF SlotLimit
<1> QED BY <1>3, <1>4

-----------------------------------------------------------------------------
(* Queues *)
LEMMA WaitersFinite ==
  ASSUME NEW k \in Pools
  PROVE  /\ IsFiniteSet(WaitingFor(k))
         /\ Cardinality(WaitingFor(k)) \in Nat
<1>1. WaitingFor(k) \in SUBSET Requests
  BY DEF WaitingFor
<1> QED BY <1>1, FS_Subset, FS_CardinalityType, SlotsAssumption

LEMMA FewerWait ==
  ASSUME NoneEnters, NEW k \in Pools
  PROVE  /\ Cardinality(WaitingFor(k)') =< Cardinality(WaitingFor(k))
         /\ Cardinality(WaitingFor(k)') \in Nat
<1>1. WaitingFor(k)' \in SUBSET WaitingFor(k)
  BY DEF WaitingFor, NoneEnters
<1> QED BY <1>1, FS_Subset, FS_CardinalityType, WaitersFinite

LEMMA CountedKept ==
  ASSUME TypeOK, TypeOK', Counted, NoneEnters,
         \A k \in Pools : wait[k] + opened =< wait'[k] + opened'
  PROVE  Counted'
<1> SUFFICES ASSUME NEW k \in Pools
             PROVE  Cardinality(WaitingFor(k)') =< wait'[k] + opened'
  BY DEF Counted, WaitingFor
<1>1. Cardinality(WaitingFor(k)') \in Int /\ Cardinality(WaitingFor(k)) \in Int
  BY WaitersFinite, FewerWait
<1> QED BY <1>1, FewerWait DEF TypeOK, Counted

(* A request joins the queue and is counted, or its increment failed open. *)
LEMMA CountedJoins ==
  ASSUME TypeOK, TypeOK', Counted, NEW r \in Requests, At(r, "count"),
         Moves(r, {"wait"}), Stays(r),
         \A k \in Pools : wait[k] + opened =< wait'[k] + opened',
         wait[job[r].pool] + opened + 1 =< wait'[job[r].pool] + opened'
  PROVE  Counted'
<1> SUFFICES ASSUME NEW k \in Pools
             PROVE  Cardinality(WaitingFor(k)') =< wait'[k] + opened'
  BY DEF Counted, WaitingFor
<1>1. CASE k = job[r].pool
  <2>1. WaitingFor(k)' = WaitingFor(k) \cup {r}
    BY <1>1 DEF WaitingFor, Moves, Stays, Waiting
  <2>2. \/ Cardinality(WaitingFor(k)') = Cardinality(WaitingFor(k))
        \/ Cardinality(WaitingFor(k)') = Cardinality(WaitingFor(k)) + 1
    BY <2>1, FS_AddElement, WaitersFinite
  <2>3. Cardinality(WaitingFor(k)) =< wait[k] + opened
    BY DEF Counted
  <2>4. Cardinality(WaitingFor(k)) \in Int /\ wait[k] + opened \in Int
    BY WaitersFinite, SlotsAssumption DEF TypeOK
  <2>5. wait'[k] + opened' \in Int
    BY SlotsAssumption DEF TypeOK
  <2> QED BY <1>1, <2>2, <2>3, <2>4, <2>5
<1>2. CASE k # job[r].pool
  <2>1. WaitingFor(k)' = WaitingFor(k)
    BY <1>2 DEF WaitingFor, Moves, Stays, Waiting, At
  <2> QED BY <2>1, WaitersFinite DEF TypeOK, Counted
<1> QED BY <1>1, <1>2

(* A request leaves the queue, and one less is counted.                    *)
LEMMA CountedLeaves ==
  ASSUME TypeOK, TypeOK', Counted, NEW r \in Requests, At(r, "uncount"),
         Moves(r, {"try", "forward", "leave"}), opened' = opened,
         \A k \in Pools :
            wait[k] - (IF k = job[r].pool THEN 1 ELSE 0) =< wait'[k]
  PROVE  Counted'
<1> SUFFICES ASSUME NEW k \in Pools
             PROVE  Cardinality(WaitingFor(k)') =< wait'[k] + opened'
  BY DEF Counted, WaitingFor
<1>1. CASE k = job[r].pool
  <2>1. WaitingFor(k)' = WaitingFor(k) \ {r} /\ r \in WaitingFor(k)
    BY <1>1 DEF WaitingFor, Moves, Waiting, At
  <2>2. Cardinality(WaitingFor(k)') = Cardinality(WaitingFor(k)) - 1
    BY <2>1, FS_RemoveElement, WaitersFinite
  <2> QED BY <1>1, <2>2, WaitersFinite DEF TypeOK, Counted
<1>2. CASE k # job[r].pool
  <2>1. WaitingFor(k)' = WaitingFor(k)
    BY <1>2 DEF WaitingFor, Moves, Waiting, At
  <2> QED BY <1>2, <2>1, WaitersFinite DEF TypeOK, Counted
<1> QED BY <1>1, <1>2

-----------------------------------------------------------------------------
(* Steps *)
LEMMA BusyIsUp ==
  ASSUME Inv, NEW r \in Requests, ~ At(r, "idle")
  PROVE  up
  BY DEF Inv, DownIsIdle

LEMMA RowsKeep ==
  ASSUME Inv, NEW r \in Requests, NEW points, Moves(r, points), up, up' = up
  PROVE  DownIsIdle' /\ AtAccount'
  BY DEF Inv, TypeOK, DownIsIdle, AtAccount, Moves, At

LEMMA StillWaiting ==
  ASSUME TypeOK, NEW r \in Requests, Moves(r, {"uncount"}), Stays(r),
         At(r, "wait")
  PROVE  NoneEnters
  BY DEF Moves, Stays, NoneEnters, Waiting, At

LEMMA HoldTypes ==
  ASSUME TypeOK, NEW r \in Requests, Hold(r)
  PROVE  left' \in [Requests -> [Pools -> 0 .. TTL]]
<1>1. job[r].pool \in Pools /\ TTL \in 0 .. TTL
  BY Rows, SlotsAssumption
<1> QED BY <1>1 DEF TypeOK, Hold

LEMMA DropTypes ==
  ASSUME TypeOK, NEW r \in Requests, NEW k \in Pools,
         left' = [left EXCEPT ![r][k] = 0]
  PROVE  left' \in [Requests -> [Pools -> 0 .. TTL]] /\ NoneHolds
<1>1. left' \in [Requests -> [Pools -> 0 .. TTL]]
  BY SlotsAssumption DEF TypeOK
<1>2. NoneHolds
  BY SlotsAssumption DEF TypeOK, NoneHolds
<1> QED BY <1>1, <1>2

LEMMA LoseTypes ==
  ASSUME TypeOK, NEW k \in Pools, NEW t \in 1 .. TTL, Lose(k, t)
  PROVE  lost' \in [Pools -> [1 .. TTL -> Nat]]
<1>1. lost[k][t] + 1 \in Nat
  BY SlotsAssumption DEF TypeOK
<1>2. [lost[k] EXCEPT ![t] = @ + 1] \in [1 .. TTL -> Nat]
  BY <1>1 DEF TypeOK
<1> QED BY <1>2 DEF TypeOK, Lose

LEMMA Counters ==
  ASSUME TypeOK, NEW k \in Pools
  PROVE  /\ wait[k] \in Nat /\ wait[k] =< Queue /\ Queue \in Nat
         /\ opened \in Nat
  BY SlotsAssumption DEF TypeOK

LEMMA BeginKeeps ==
  ASSUME Inv, NEW r \in Requests, Begin(r)
  PROVE  Inv'
<1>1. Moves(r, {"try"})
  BY GotoMoves DEF Inv, Begin
<1>2. TypeOK'
  BY <1>1 DEF Inv, TypeOK, Begin, Moves, slots
<1>3. SlotLimit'
  BY LimitKept DEF Inv, Begin, NoneHolds, slots
<1>4. Counted'
  <2>1. NoneEnters
    BY <1>1 DEF Moves, NoneEnters, Waiting
  <2> QED BY <1>2, <2>1, CountedKept DEF Inv, TypeOK, Begin
<1> QED BY <1>1, <1>2, <1>3, <1>4, RowsKeep DEF Inv, Begin

LEMMA TryKeeps ==
  ASSUME Inv, NEW r \in Requests, Try(r)
  PROVE  Inv'
<1>1. up
  BY BusyIsUp DEF Try, At
<1>2. Moves(r, {"try", "forward", "count"})
  BY ProceedMoves, GotoMoves DEF Inv, Try, Moves
<1>3. TypeOK'
  BY <1>2, HoldTypes DEF Inv, TypeOK, Try, Moves
<1>4. SlotLimit'
  <2>1. CASE Free(job[r].pool)
    BY <2>1, OneMore DEF Inv, Try
  <2>2. CASE ~ Free(job[r].pool)
    BY <2>2, LimitKept DEF Inv, Try, NoneHolds
  <2> QED BY <2>1, <2>2
<1>5. Counted'
  <2>1. NoneEnters
    BY <1>2 DEF Moves, NoneEnters, Waiting
  <2> QED BY <1>3, <2>1, CountedKept DEF Inv, TypeOK, Try
<1> QED BY <1>1, <1>2, <1>3, <1>4, <1>5, RowsKeep DEF Inv, Try

LEMMA CountKeeps ==
  ASSUME Inv, NEW r \in Requests, Count(r)
  PROVE  Inv'
<1>1. up
  BY BusyIsUp DEF Count, At
<1>2. Moves(r, {"wait", "leave"})
  BY GotoMoves DEF Inv, Count, Moves
<1>3. TypeOK'
  <2>1. wait' \in [Pools -> 0 .. Queue]
    <3>1. wait[job[r].pool] < Queue => wait[job[r].pool] + 1 \in 0 .. Queue
      BY Rows, SlotsAssumption DEF Inv, TypeOK
    <3> QED BY <3>1 DEF Inv, TypeOK, Count
  <2> QED BY <1>2, <2>1 DEF Inv, TypeOK, Count, Moves, slots
<1>4. SlotLimit'
  BY LimitKept DEF Inv, Count, NoneHolds, slots
<1>5. Counted'
  <2>1. CASE wait[job[r].pool] < Queue
    <3>1. Moves(r, {"wait"}) /\ Stays(r)
      BY <2>1, GotoMoves DEF Inv, Count
    <3>2. \A k \in Pools : wait'[k] = IF k = job[r].pool THEN wait[k] + 1
                                                         ELSE wait[k]
      BY <2>1 DEF Inv, TypeOK, Count
    <3>3. /\ \A k \in Pools : wait[k] + opened =< wait'[k] + opened'
          /\ wait[job[r].pool] + opened + 1 =< wait'[job[r].pool] + opened'
      BY <3>2, Rows, Counters DEF Inv, Count
    <3> QED BY <1>3, <3>1, <3>3, CountedJoins DEF Inv, Count
  <2>2. CASE ~ wait[job[r].pool] < Queue
    <3>1. Moves(r, {"leave"})
      BY <2>2, GotoMoves DEF Inv, Count
    <3>2. NoneEnters
      BY <3>1 DEF Moves, NoneEnters, Waiting
    <3> QED BY <1>3, <2>2, <3>2, CountedKept DEF Inv, TypeOK, Count
  <2> QED BY <2>1, <2>2
<1> QED BY <1>1, <1>2, <1>3, <1>4, <1>5, RowsKeep DEF Inv, Count

LEMMA ObtainKeeps ==
  ASSUME Inv, NEW r \in Requests, Obtain(r)
  PROVE  Inv'
<1>1. up
  BY BusyIsUp DEF Obtain, At
<1>2. Moves(r, {"uncount"}) /\ Stays(r)
  BY GotoMoves DEF Inv, Obtain
<1>3. TypeOK'
  BY <1>2, HoldTypes DEF Inv, TypeOK, Obtain, Moves
<1>4. SlotLimit'
  BY OneMore DEF Inv, Obtain
<1>5. Counted'
  BY <1>2, <1>3, CountedKept, StillWaiting DEF Inv, TypeOK, Obtain
<1> QED BY <1>1, <1>2, <1>3, <1>4, <1>5, RowsKeep DEF Inv, Obtain

LEMMA GiveUpKeeps ==
  ASSUME Inv, NEW r \in Requests, GiveUp(r)
  PROVE  Inv'
<1>1. up
  BY BusyIsUp DEF GiveUp, At
<1>2. Moves(r, {"uncount"}) /\ Stays(r)
  BY GotoMoves DEF Inv, GiveUp
<1>3. TypeOK'
  BY <1>2 DEF Inv, TypeOK, GiveUp, Moves, slots
<1>4. SlotLimit'
  BY LimitKept DEF Inv, GiveUp, NoneHolds, slots
<1>5. Counted'
  BY <1>2, <1>3, CountedKept, StillWaiting DEF Inv, TypeOK, GiveUp
<1> QED BY <1>1, <1>2, <1>3, <1>4, <1>5, RowsKeep DEF Inv, GiveUp

LEMMA UncountKeeps ==
  ASSUME Inv, NEW r \in Requests, Uncount(r)
  PROVE  Inv'
<1>1. up
  BY BusyIsUp DEF Uncount, At
<1>2. Moves(r, {"try", "forward", "leave"})
  BY ServedMoves DEF Inv, Uncount
<1>3. \A k \in Pools :
         wait'[k] = IF k = job[r].pool /\ wait[k] > 0 THEN wait[k] - 1
                                                      ELSE wait[k]
  BY SlotsAssumption DEF Inv, TypeOK, Uncount
<1>4. TypeOK'
  <2>1. \A k \in Pools : wait'[k] \in 0 .. Queue
    BY <1>3, Counters DEF Inv
  <2>2. wait' \in [Pools -> 0 .. Queue]
    BY <2>1 DEF Inv, TypeOK, Uncount
  <2> QED BY <1>2, <2>2 DEF Inv, TypeOK, Uncount, Moves, slots
<1>5. SlotLimit'
  BY LimitKept DEF Inv, Uncount, NoneHolds, slots
<1>6. Counted'
  <2>1. \A k \in Pools :
           wait[k] - (IF k = job[r].pool THEN 1 ELSE 0) =< wait'[k]
    BY <1>3, Counters DEF Inv
  <2> QED BY <1>2, <1>4, <2>1, CountedLeaves DEF Inv, Uncount
<1> QED BY <1>1, <1>2, <1>4, <1>5, <1>6, RowsKeep DEF Inv, Uncount

LEMMA CancelledKeeps ==
  ASSUME Inv, NEW r \in Requests, Cancelled(r)
  PROVE  Inv'
<1>1. up
  BY BusyIsUp DEF Cancelled, At
<1>2. Moves(r, {"wait", "leave"})
  BY GotoMoves DEF Inv, Cancelled, Moves
<1>3. TypeOK'
  BY <1>2 DEF Inv, TypeOK, Cancelled, Moves, slots
<1>4. SlotLimit'
  BY LimitKept DEF Inv, Cancelled, NoneHolds, slots
<1>5. Counted'
  <2>1. CASE Goto(r, "leave") /\ UNCHANGED opened
    <3>1. Moves(r, {"leave"})
      BY <2>1, GotoMoves DEF Inv
    <3>2. NoneEnters
      BY <3>1 DEF Moves, NoneEnters, Waiting
    <3> QED BY <1>3, <2>1, <3>2, CountedKept DEF Inv, TypeOK, Cancelled
  <2>2. CASE At(r, "count") /\ Goto(r, "wait") /\ opened' = opened + 1
    <3>1. Moves(r, {"wait"}) /\ Stays(r)
      BY <2>2, GotoMoves DEF Inv
    <3>2. /\ \A k \in Pools : wait[k] + opened =< wait'[k] + opened'
          /\ wait[job[r].pool] + opened + 1 =< wait'[job[r].pool] + opened'
      BY <2>2, Rows, Counters DEF Inv, Cancelled
    <3> QED BY <1>3, <2>2, <3>1, <3>2, CountedJoins DEF Inv
  <2> QED BY <2>1, <2>2 DEF Cancelled
<1> QED BY <1>1, <1>2, <1>3, <1>4, <1>5, RowsKeep DEF Inv, Cancelled

LEMMA FinishKeeps ==
  ASSUME Inv, NEW r \in Requests, Finish(r)
  PROVE  Inv'
<1>1. up
  BY BusyIsUp DEF Finish, At
<1>2. Moves(r, {"leave", "try"})
  BY EndedMoves DEF Inv, Finish, AtAccount
<1>3. left' \in [Requests -> [Pools -> 0 .. TTL]] /\ NoneHolds
  BY Rows, DropTypes DEF Inv, Finish
<1>4. TypeOK'
  BY <1>2, <1>3 DEF Inv, TypeOK, Finish, Moves
<1>5. SlotLimit'
  BY <1>3, LimitKept DEF Inv
<1>6. Counted'
  <2>1. NoneEnters
    BY <1>2 DEF Moves, NoneEnters, Waiting
  <2> QED BY <1>4, <2>1, CountedKept DEF Inv, TypeOK, Finish
<1> QED BY <1>1, <1>2, <1>4, <1>5, <1>6, RowsKeep DEF Inv, Finish

LEMMA LeaveKeeps ==
  ASSUME Inv, NEW r \in Requests, Leave(r)
  PROVE  Inv'
<1>1. up
  BY BusyIsUp DEF Leave, At
<1>2. Moves(r, {"idle"})
  BY Rows, RowMoves DEF Inv, Leave, Idle
<1>3. left' \in [Requests -> [Pools -> 0 .. TTL]] /\ NoneHolds
  BY DropTypes DEF Inv, Leave, Pools
<1>4. TypeOK'
  BY <1>2, <1>3 DEF Inv, TypeOK, Leave, Moves
<1>5. SlotLimit'
  BY <1>3, LimitKept DEF Inv
<1>6. Counted'
  <2>1. NoneEnters
    BY <1>2 DEF Moves, NoneEnters, Waiting
  <2> QED BY <1>4, <2>1, CountedKept DEF Inv, TypeOK, Leave
<1> QED BY <1>1, <1>2, <1>4, <1>5, <1>6, RowsKeep DEF Inv, Leave

LEMMA DropKeeps ==
  ASSUME Inv, NEW r \in Requests, Drop(r)
  PROVE  Inv'
<1>1. left' \in [Requests -> [Pools -> 0 .. TTL]] /\ NoneHolds
  BY DropTypes DEF Inv, Drop
<1>2. TypeOK'
  BY <1>1 DEF Inv, TypeOK, Drop
<1>3. SlotLimit'
  BY <1>1, LimitKept DEF Inv
<1>4. Counted'
  BY <1>2, CountedKept DEF Inv, TypeOK, Drop, NoneEnters
<1> QED BY <1>2, <1>3, <1>4 DEF Inv, Drop, DownIsIdle, AtAccount, At

-----------------------------------------------------------------------------
(* Disturbances *)
LEMMA FaultCounts ==
  ASSUME TypeOK, faults < MaxFaults, faults' = faults + 1
  PROVE  faults' \in 0 .. MaxFaults
  BY SlotsAssumption DEF TypeOK

LEMMA DisconnectKeeps ==
  ASSUME Inv, NEW r \in Requests, Disconnect(r), faults' \in 0 .. MaxFaults
  PROVE  Inv'
<1>1. /\ job' \in [Requests -> Jobs]
      /\ \A s \in Requests : /\ job'[s].at = job[s].at
                             /\ job'[s].pool = job[s].pool
  BY DEF Inv, TypeOK, Disconnect, Jobs
<1>2. TypeOK'
  BY <1>1 DEF Inv, TypeOK, Disconnect, slots
<1>3. SlotLimit'
  BY LimitKept DEF Inv, Disconnect, NoneHolds, slots
<1>4. Counted'
  BY <1>1, <1>2, CountedKept DEF Inv, TypeOK, Disconnect, NoneEnters
<1> QED BY <1>1, <1>2, <1>3, <1>4 DEF Inv, Disconnect, DownIsIdle, AtAccount, At

LEMMA AcquireFailsKeeps ==
  ASSUME Inv, NEW r \in Requests, AcquireFails(r), faults' \in 0 .. MaxFaults
  PROVE  Inv'
<1>1. up
  BY BusyIsUp DEF AcquireFails, At
<1>2. \/ Moves(r, {"leave", "count"})
      \/ At(r, "wait") /\ Moves(r, {"uncount"}) /\ Stays(r)
  BY GotoMoves DEF Inv, AcquireFails, Moves
<1>3. NoneEnters
  BY <1>2, StillWaiting DEF Inv, Moves, NoneEnters, Waiting
<1>4. job' \in [Requests -> Jobs]
  BY <1>2 DEF Moves
<1>5. lost' \in [Pools -> [1 .. TTL -> Nat]]
  <2>1. TTL \in 1 .. TTL /\ job[r].pool \in Pools
    BY Rows, SlotsAssumption DEF Inv
  <2>2. UNCHANGED lost \/ Lose(job[r].pool, TTL)
    BY DEF AcquireFails
  <2> QED BY <2>1, <2>2, LoseTypes DEF Inv, TypeOK
<1>6. TypeOK'
  BY <1>4, <1>5 DEF Inv, TypeOK, AcquireFails
<1>7. SlotLimit'
  BY LimitKept DEF Inv, AcquireFails, NoneHolds
<1>8. Counted'
  BY <1>3, <1>6, CountedKept DEF Inv, TypeOK, AcquireFails
<1> QED BY <1>1, <1>2, <1>6, <1>7, <1>8, RowsKeep DEF Inv, AcquireFails

LEMMA CountFailsKeeps ==
  ASSUME Inv, NEW r \in Requests, CountFails(r), faults' \in 0 .. MaxFaults
  PROVE  Inv'
<1>1. up
  BY BusyIsUp DEF CountFails, At
<1>2. Moves(r, {"wait"}) /\ Stays(r)
  BY GotoMoves DEF Inv, CountFails
<1>3. \A k \in Pools : /\ wait'[k] \in {wait[k], wait[k] + 1}
                       /\ wait'[k] \in 0 .. Queue
  BY Counters DEF Inv, TypeOK, CountFails
<1>4. TypeOK'
  <2>1. wait' \in [Pools -> 0 .. Queue]
    BY <1>3 DEF Inv, TypeOK, CountFails
  <2> QED BY <1>2, <2>1 DEF Inv, TypeOK, CountFails, Moves, slots
<1>5. SlotLimit'
  BY LimitKept DEF Inv, CountFails, NoneHolds, slots
<1>6. Counted'
  <2>1. /\ \A k \in Pools : wait[k] + opened =< wait'[k] + opened'
        /\ wait[job[r].pool] + opened + 1 =< wait'[job[r].pool] + opened'
    BY <1>3, Rows, Counters DEF Inv, CountFails
  <2> QED BY <1>2, <1>4, <2>1, CountedJoins DEF Inv, CountFails
<1> QED BY <1>1, <1>2, <1>4, <1>5, <1>6, RowsKeep DEF Inv, CountFails

LEMMA UncountFailsKeeps ==
  ASSUME Inv, NEW r \in Requests, UncountFails(r), faults' \in 0 .. MaxFaults
  PROVE  Inv'
<1>1. up
  BY BusyIsUp DEF UncountFails, At
<1>2. Moves(r, {"try", "forward", "leave"})
  BY ServedMoves DEF Inv, UncountFails
<1>3. TypeOK'
  BY <1>2 DEF Inv, TypeOK, UncountFails, Moves, slots
<1>4. SlotLimit'
  BY LimitKept DEF Inv, UncountFails, NoneHolds, slots
<1>5. NoneEnters
  BY <1>2 DEF Moves, NoneEnters, Waiting
<1>6. Counted'
  BY <1>3, <1>5, CountedKept DEF Inv, TypeOK, UncountFails
<1> QED BY <1>1, <1>2, <1>3, <1>4, <1>6, RowsKeep DEF Inv, UncountFails

LEMMA ReleaseFailsKeeps ==
  ASSUME Inv, NEW r \in Requests, ReleaseFails(r), faults' \in 0 .. MaxFaults
  PROVE  Inv'
<1>1. PICK k \in Pools :
         /\ left[r][k] > 0
         /\ \/ At(r, "forward") /\ k = job[r].pool /\ Ended(r)
            \/ At(r, "leave") /\ k = User /\ job' = [job EXCEPT ![r] = Idle]
         /\ Lose(k, left[r][k])
         /\ left' = [left EXCEPT ![r][k] = 0]
  BY DEF ReleaseFails
<1>2. up
  BY <1>1, BusyIsUp DEF At
<1>3. Moves(r, {"leave", "try", "idle"})
  <2>1. CASE At(r, "forward") /\ Ended(r)
    BY <2>1, EndedMoves DEF Inv, AtAccount, Moves
  <2>2. CASE job' = [job EXCEPT ![r] = Idle]
    BY <2>2, Rows, RowMoves DEF Inv, Idle, Moves
  <2> QED BY <1>1, <2>1, <2>2
<1>4. left' \in [Requests -> [Pools -> 0 .. TTL]] /\ NoneHolds
  BY <1>1, DropTypes DEF Inv
<1>5. lost' \in [Pools -> [1 .. TTL -> Nat]]
  <2>1. left[r][k] \in 1 .. TTL
    BY <1>1, SlotsAssumption DEF Inv, TypeOK
  <2> QED BY <1>1, <2>1, LoseTypes DEF Inv
<1>6. TypeOK'
  BY <1>3, <1>4, <1>5 DEF Inv, TypeOK, ReleaseFails, Moves
<1>7. SlotLimit'
  BY <1>4, LimitKept DEF Inv
<1>8. NoneEnters
  BY <1>3 DEF Moves, NoneEnters, Waiting
<1>9. Counted'
  BY <1>6, <1>8, CountedKept DEF Inv, TypeOK, ReleaseFails
<1> QED BY <1>2, <1>3, <1>6, <1>7, <1>9, RowsKeep DEF Inv, ReleaseFails

LEMMA CrashKeeps ==
  ASSUME Inv, Crash, faults' \in 0 .. MaxFaults
  PROVE  Inv'
<1>1. \A r \in Requests : job'[r] = Idle /\ Idle \in Jobs
  BY Rows DEF Inv, Crash
<1>2. lost' \in [Pools -> [1 .. TTL -> Nat]]
  <2>1. \A k \in Pools, t \in 1 .. TTL :
           Cardinality({r \in Requests : left[r][k] = t}) \in Nat
    <3> SUFFICES ASSUME NEW k \in Pools, NEW t \in 1 .. TTL
                 PROVE  Cardinality({r \in Requests : left[r][k] = t}) \in Nat
      OBVIOUS
    <3>1. {r \in Requests : left[r][k] = t} \in SUBSET Requests
      OBVIOUS
    <3> QED BY <3>1, FS_Subset, FS_CardinalityType, SlotsAssumption
  <2>2. \A k \in Pools, t \in 1 .. TTL :
           lost[k][t] + Cardinality({r \in Requests : left[r][k] = t}) \in Nat
    <3>1. \A k \in Pools, t \in 1 .. TTL : lost[k][t] \in Nat
      BY SlotsAssumption DEF Inv, TypeOK
    <3> QED BY <2>1, <3>1
  <2> QED BY <2>2 DEF Crash
<1>3. job' \in [Requests -> Jobs]
  BY <1>1 DEF Crash
<1>4. left' \in [Requests -> [Pools -> 0 .. TTL]] /\ NoneHolds
  BY SlotsAssumption DEF Crash, NoneHolds
<1>5. TypeOK'
  BY <1>2, <1>3, <1>4 DEF Inv, TypeOK, Crash
<1>6. SlotLimit'
  BY <1>4, LimitKept DEF Inv
<1>7. NoneEnters
  BY <1>1 DEF NoneEnters, Idle, Waiting
<1>8. Counted'
  <2>1. \A k \in Pools : wait[k] + opened =< wait'[k] + opened'
    BY Counters DEF Inv, Crash
  <2> QED BY <1>5, <1>7, <2>1, CountedKept DEF Inv
<1> QED BY <1>1, <1>5, <1>6, <1>8 DEF Inv, DownIsIdle, AtAccount, Idle, At

-----------------------------------------------------------------------------
(* The rest, and the theorems *)
LEMMA StartupFailsKeeps ==
  ASSUME Inv, StartupFails
  PROVE  Inv'
<1>1. TypeOK'
  BY DEF Inv, TypeOK, StartupFails, slots
<1>2. SlotLimit'
  BY LimitKept DEF Inv, StartupFails, NoneHolds, slots
<1>3. Counted'
  BY <1>1, CountedKept DEF Inv, TypeOK, StartupFails, NoneEnters
<1> QED BY <1>1, <1>2, <1>3 DEF Inv, StartupFails, DownIsIdle, AtAccount, At

LEMMA StartupKeeps ==
  ASSUME Inv, Startup
  PROVE  Inv'
<1>1. TypeOK'
  BY SlotsAssumption DEF Inv, TypeOK, Startup
<1>2. SlotLimit'
  BY LimitKept DEF Inv, Startup, NoneHolds
<1>3. Counted'
  <2> SUFFICES ASSUME NEW k \in Pools
               PROVE  Cardinality(WaitingFor(k)') =< wait'[k] + opened'
    BY DEF Counted, WaitingFor
  <2>1. WaitingFor(k)' = {}
    BY DEF Inv, Startup, DownIsIdle, WaitingFor, Waiting, At
  <2> QED BY <1>1, <2>1, FS_EmptySet DEF TypeOK
<1> QED BY <1>1, <1>2, <1>3 DEF Inv, Startup, DownIsIdle, AtAccount, At

LEMMA ForgetWaitKeeps ==
  ASSUME Inv, NEW k \in Pools, ForgetWait(k)
  PROVE  Inv'
<1>1. TypeOK'
  BY SlotsAssumption DEF Inv, TypeOK, ForgetWait, slots
<1>2. SlotLimit'
  BY LimitKept DEF Inv, ForgetWait, NoneHolds, slots
<1>3. Counted'
  <2> SUFFICES ASSUME NEW pool \in Pools
               PROVE  Cardinality(WaitingFor(pool)') =< wait'[pool] + opened'
    BY DEF Counted, WaitingFor
  <2>1. CASE pool = k
    <3>1. WaitingFor(pool)' = {}
      BY <2>1 DEF ForgetWait, WaitingFor
    <3> QED BY <1>1, <3>1, FS_EmptySet DEF TypeOK
  <2>2. CASE pool # k
    <3>1. WaitingFor(pool)' = WaitingFor(pool) /\ wait'[pool] = wait[pool]
      BY <2>2 DEF Inv, TypeOK, ForgetWait, WaitingFor
    <3> QED BY <3>1 DEF Inv, Counted, ForgetWait
  <2> QED BY <2>1, <2>2
<1> QED BY <1>1, <1>2, <1>3 DEF Inv, ForgetWait, DownIsIdle, AtAccount, At

LEMMA TickKeeps ==
  ASSUME Inv, Tick
  PROVE  Inv'
<1>1. left' \in [Requests -> [Pools -> 0 .. TTL]] /\ NoneHolds
  <2>1. \A r \in Requests, k \in Pools :
           left[r][k] \in 0 .. TTL
    BY DEF Inv, TypeOK
  <2>2. \A r \in Requests, k \in Pools :
           (IF left[r][k] > 0 THEN left[r][k] - 1 ELSE 0) \in 0 .. TTL
    BY <2>1, SlotsAssumption
  <2>3. left' \in [Requests -> [Pools -> 0 .. TTL]]
    BY <2>2 DEF Tick
  <2>4. NoneHolds
    BY <2>1, SlotsAssumption DEF Tick, NoneHolds
  <2> QED BY <2>3, <2>4
<1>2. lost' \in [Pools -> [1 .. TTL -> Nat]]
  <2>1. \A k \in Pools, t \in 1 .. TTL :
           (IF t < TTL THEN lost[k][t + 1] ELSE 0) \in Nat
    BY SlotsAssumption DEF Inv, TypeOK
  <2> QED BY <2>1 DEF Tick
<1>3. TypeOK'
  BY <1>1, <1>2 DEF Inv, TypeOK, Tick
<1>4. SlotLimit'
  BY <1>1, LimitKept DEF Inv
<1>5. Counted'
  BY <1>3, CountedKept DEF Inv, TypeOK, Tick, NoneEnters
<1> QED BY <1>3, <1>4, <1>5 DEF Inv, Tick, DownIsIdle, AtAccount, At

LEMMA StutterKeeps ==
  ASSUME Inv, UNCHANGED vars
  PROVE  Inv'
<1>1. TypeOK'
  BY DEF Inv, TypeOK, vars, slots
<1>2. SlotLimit'
  BY LimitKept DEF Inv, vars, slots, NoneHolds
<1>3. Counted'
  BY <1>1, CountedKept DEF Inv, TypeOK, vars, slots, NoneEnters
<1> QED BY <1>1, <1>2, <1>3 DEF Inv, vars, DownIsIdle, AtAccount, At

LEMMA StepInv ==
  ASSUME Inv, [Next]_vars
  PROVE  Inv'
<1>1. CASE \E r \in Requests : Begin(r) \/ Step(r) \/ Drop(r)
  BY <1>1, BeginKeeps, TryKeeps, CountKeeps, ObtainKeeps, GiveUpKeeps,
     UncountKeeps, CancelledKeeps, FinishKeeps, LeaveKeeps, DropKeeps
     DEF Step
<1>2. CASE Disturb
  <2>1. faults' \in 0 .. MaxFaults
    BY <1>2, FaultCounts DEF Inv, Disturb
  <2> QED BY <1>2, <2>1, DisconnectKeeps, AcquireFailsKeeps, CountFailsKeeps,
             UncountFailsKeeps, ReleaseFailsKeeps, CrashKeeps
        DEF Disturb
<1> QED BY <1>1, <1>2, ForgetWaitKeeps, StartupKeeps, StartupFailsKeeps,
           TickKeeps, StutterKeeps DEF Next

LEMMA InitInv ==
  ASSUME Init
  PROVE  Inv
<1>1. Idle \in Jobs
  BY SlotsAssumption DEF Idle, Jobs, Pools
<1>2. TypeOK
  <2>1. job \in [Requests -> Jobs]
    BY <1>1 DEF Init
  <2>2. left \in [Requests -> [Pools -> 0 .. TTL]]
    BY SlotsAssumption DEF Init
  <2>3. wait \in [Pools -> 0 .. Queue] /\ lost \in [Pools -> [1 .. TTL -> Nat]]
    BY SlotsAssumption DEF Init
  <2> QED BY <2>1, <2>2, <2>3, SlotsAssumption DEF Init, TypeOK
<1>3. \A r \in Requests : job[r].at = "idle"
  BY DEF Init, Idle
<1>4. SlotLimit
  <2> SUFFICES ASSUME NEW k \in Pools
               PROVE  Cardinality(Holders(k)) =< Limit[k]
    BY DEF SlotLimit
  <2>1. Holders(k) = {}
    BY DEF Init, Holders
  <2>2. Limit[k] \in Nat
    BY SlotsAssumption
  <2> QED BY <2>1, <2>2, FS_EmptySet
<1>5. Counted
  <2> SUFFICES ASSUME NEW k \in Pools
               PROVE  Cardinality(WaitingFor(k)) =< wait[k] + opened
    BY DEF Counted
  <2>1. WaitingFor(k) = {}
    BY <1>3 DEF WaitingFor, Waiting
  <2> QED BY <2>1, FS_EmptySet DEF Init
<1> QED BY <1>2, <1>3, <1>4, <1>5 DEF Inv, DownIsIdle, AtAccount, At

LEMMA Invariance == Spec => []Inv
<1>1. Init => Inv
  BY InitInv
<1>2. Inv /\ [Next]_vars => Inv'
  BY StepInv
<1> QED BY <1>1, <1>2, PTL DEF Spec

(* Every variable keeps its type; a wait counter stays within the queue.   *)
THEOREM TypeCorrect == Spec => []TypeOK
<1>1. Inv => TypeOK
  BY DEF Inv
<1> QED BY <1>1, Invariance, PTL

(* The acquire script never lets more requests hold a slot of a user or an *)
(* account than its concurrency allows, whatever is released twice, lost   *)
(* or left behind by a crash.                                              *)
THEOREM LimitHolds == Spec => []SlotLimit
<1>1. Inv => SlotLimit
  BY DEF Inv
<1> QED BY <1>1, Invariance, PTL

(* IncrementWaitCount and DecrementWaitCount bound the queue of a pool,    *)
(* but for one request for each increment that failed open.                *)
THEOREM QueueHolds == Spec => []QueueLimit
<1>1. Inv => QueueLimit
  <2> SUFFICES ASSUME Inv, NEW k \in Pools
               PROVE  Cardinality(WaitingFor(k)) =< Queue + opened
    BY DEF QueueLimit
  <2>1. Cardinality(WaitingFor(k)) =< wait[k] + opened
    BY DEF Inv, Counted
  <2> QED BY <2>1, Counters, WaitersFinite DEF Inv
<1> QED BY <1>1, Invariance, PTL

-----------------------------------------------------------------------------
(* Which slots a request holds at which place. *)
HeldByPlace(r) ==
    LET at == job[r].at
        pool == job[r].pool IN
    /\ \A a \in Accounts :
          left[r][a] > 0 => a = pool /\ at \in {"uncount", "forward"}
    /\ at = "idle" => pool = User
    /\ left[r][User] > 0 => at # "idle" /\ (pool = User => at = "uncount")
    /\ ~ job[r].gone /\ at # "idle" /\ pool # User => left[r][User] > 0
    /\ ~ job[r].gone /\ at = "forward" => left[r][pool] > 0

Placed == \A r \in Requests : HeldByPlace(r)

(* Only r moves. *)
Alone(r) == \A s \in Requests : s # r => job'[s] = job[s]

AloneHolds(r) == \A s \in Requests : s # r => left'[s] = left[s]

LEMMA PlacedByOne ==
  ASSUME Placed, NEW r \in Requests, Alone(r), AloneHolds(r), HeldByPlace(r)'
  PROVE  Placed'
  BY DEF Placed, HeldByPlace, Alone, AloneHolds

LEMMA GotoRow ==
  ASSUME TypeOK, NEW r \in Requests, NEW point, Goto(r, point)
  PROVE  /\ Alone(r) /\ job'[r].at = point
         /\ job'[r].pool = job[r].pool /\ job'[r].gone = job[r].gone
  BY DEF TypeOK, Goto, Jobs, Alone

LEMMA ProceedRow ==
  ASSUME TypeOK, NEW r \in Requests, Proceed(r)
  PROVE  /\ Alone(r) /\ job'[r].gone = job[r].gone
         /\ job[r].pool = User =>
               job'[r].at = "try" /\ job'[r].pool \in Accounts
         /\ job[r].pool # User =>
               job'[r].at = "forward" /\ job'[r].pool = job[r].pool
<1>1. CASE job[r].pool = User
  <2>1. PICK a \in Accounts :
          job' = [job EXCEPT ![r].at = "try", ![r].pool = a]
    BY <1>1 DEF Proceed
  <2> QED BY <1>1, <2>1 DEF TypeOK, Jobs, Alone
<1>2. CASE job[r].pool # User
  BY <1>2, GotoRow DEF Proceed
<1> QED BY <1>1, <1>2

LEMMA AttemptRow ==
  ASSUME TypeOK, NEW r \in Requests, NEW failed, Attempt(r, failed)
  PROVE  /\ Alone(r) /\ job'[r].gone = job[r].gone
         /\ job'[r].at = "try" /\ job'[r].pool \in Accounts
<1>1. PICK a \in Accounts :
        job' = [job EXCEPT ![r].at = "try", ![r].pool = a,
                           ![r].failed = failed, ![r].attempts = @ + 1]
  BY DEF Attempt
<1> QED BY <1>1 DEF TypeOK, Jobs, Alone

LEMMA EndedRow ==
  ASSUME TypeOK, NEW r \in Requests, Ended(r)
  PROVE  /\ Alone(r) /\ job'[r].gone = job[r].gone
         /\ \/ job'[r].at = "leave" /\ job'[r].pool = job[r].pool
            \/ job'[r].at = "try" /\ job'[r].pool \in Accounts
  BY GotoRow, AttemptRow DEF Ended, Retry, Switch

LEMMA HoldSlot ==
  ASSUME TypeOK, NEW r \in Requests, Hold(r)
  PROVE  /\ AloneHolds(r)
         /\ \A k \in Pools :
               left'[r][k] = IF k = job[r].pool THEN TTL ELSE left[r][k]
  BY DEF TypeOK, Hold, AloneHolds

LEMMA DropSlot ==
  ASSUME TypeOK, NEW r \in Requests, NEW k \in Pools,
         left' = [left EXCEPT ![r][k] = 0]
  PROVE  /\ AloneHolds(r)
         /\ \A j \in Pools : left'[r][j] = IF j = k THEN 0 ELSE left[r][j]
  BY DEF TypeOK, AloneHolds

(* What the steps below need to know of a request and the pools. *)
LEMMA PlaceFacts ==
  ASSUME Inv, Placed, NEW r \in Requests
  PROVE  /\ HeldByPlace(r) /\ job[r].pool \in Pools
         /\ User \in Pools /\ Accounts \subseteq Pools /\ User \notin Accounts
         /\ TTL > 0 /\ \A k \in Pools : left[r][k] \in Nat
         /\ At(r, "forward") => job[r].pool # User
<1>1. \A k \in Pools : left[r][k] \in Nat
  BY SlotsAssumption DEF Inv, TypeOK
<1> QED BY <1>1, Rows, SlotsAssumption DEF Inv, Placed, AtAccount, Pools

LEMMA TryPlaces ==
  ASSUME Inv, Placed, NEW r \in Requests, Try(r)
  PROVE  Placed'
<1>1. CASE Free(job[r].pool)
  <2>1. HeldByPlace(r)'
    BY <1>1, HoldSlot, ProceedRow, PlaceFacts
       DEF Inv, Try, At, HeldByPlace, Pools
  <2> QED BY <1>1, <2>1, HoldSlot, ProceedRow, PlacedByOne DEF Inv, Try
<1>2. CASE ~ Free(job[r].pool)
  <2>1. HeldByPlace(r)' /\ AloneHolds(r)
    BY <1>2, GotoRow, PlaceFacts DEF Inv, Try, At, HeldByPlace, AloneHolds
  <2> QED BY <1>2, <2>1, GotoRow, PlacedByOne DEF Inv, Try
<1> QED BY <1>1, <1>2

LEMMA ObtainPlaces ==
  ASSUME Inv, Placed, NEW r \in Requests, Obtain(r)
  PROVE  Placed'
<1>1. HeldByPlace(r)'
  BY HoldSlot, GotoRow, PlaceFacts DEF Inv, Obtain, At, HeldByPlace, Pools
<1> QED BY <1>1, HoldSlot, GotoRow, PlacedByOne DEF Inv, Obtain

(* Steps that leave the slots alone and go to a place without one. *)
LEMMA GotoPlaces ==
  ASSUME Inv, Placed, NEW r \in Requests, UNCHANGED left,
         NEW point \in {"try", "count", "wait", "uncount", "leave"},
         Goto(r, point), job[r].at \in {"idle", "try", "count", "wait"}
  PROVE  Placed'
<1>1. HeldByPlace(r)' /\ AloneHolds(r)
  BY GotoRow, PlaceFacts DEF Inv, At, HeldByPlace, AloneHolds
<1> QED BY <1>1, GotoRow, PlacedByOne DEF Inv

LEMMA WaitingPlaces ==
  ASSUME Inv, Placed, NEW r \in Requests,
         \/ Begin(r) \/ Count(r) \/ GiveUp(r) \/ Cancelled(r)
         \/ AcquireFails(r) \/ CountFails(r)
  PROVE  Placed'
<1>1. PICK point \in {"try", "count", "wait", "uncount", "leave"} :
         Goto(r, point) /\ job[r].at \in {"idle", "try", "count", "wait"}
  BY DEF Begin, Count, GiveUp, Cancelled, AcquireFails, CountFails, At
<1>2. UNCHANGED left
  BY DEF Begin, Count, GiveUp, Cancelled, AcquireFails, CountFails, slots
<1> QED BY <1>1, <1>2, GotoPlaces

LEMMA ServedPlaces ==
  ASSUME Inv, Placed, NEW r \in Requests, At(r, "uncount"), Served(r),
         UNCHANGED left
  PROVE  Placed'
<1>1. HeldByPlace(r)' /\ Alone(r) /\ AloneHolds(r)
  <2>1. CASE left[r][job[r].pool] > 0
    BY <2>1, ProceedRow, PlaceFacts
       DEF Inv, Served, At, HeldByPlace, AloneHolds
  <2>2. CASE ~ left[r][job[r].pool] > 0
    BY <2>2, GotoRow, PlaceFacts DEF Inv, Served, At, HeldByPlace, AloneHolds
  <2> QED BY <2>1, <2>2
<1> QED BY <1>1, PlacedByOne

LEMMA FinishPlaces ==
  ASSUME Inv, Placed, NEW r \in Requests, At(r, "forward"), Ended(r),
         left' = [left EXCEPT ![r][job[r].pool] = 0]
  PROVE  Placed'
<1>1. /\ AloneHolds(r) /\ left'[r][User] = left[r][User]
      /\ \A a \in Accounts : ~ left'[r][a] > 0
  <2>1. /\ AloneHolds(r)
        /\ \A j \in Pools :
              left'[r][j] = IF j = job[r].pool THEN 0 ELSE left[r][j]
    BY DropSlot, PlaceFacts DEF Inv
  <2>2. \A a \in Accounts : left[r][a] > 0 => a = job[r].pool
    BY PlaceFacts DEF HeldByPlace
  <2>3. \A a \in Accounts : ~ left'[r][a] > 0
    BY <2>1, <2>2, PlaceFacts
  <2> QED BY <2>1, <2>3, PlaceFacts
<1>2. HeldByPlace(r)'
  BY <1>1, EndedRow, PlaceFacts DEF Inv, At, HeldByPlace
<1> QED BY <1>1, <1>2, EndedRow, PlacedByOne DEF Inv

LEMMA LeavePlaces ==
  ASSUME Inv, Placed, NEW r \in Requests, At(r, "leave"),
         left' = [left EXCEPT ![r][User] = 0], job' = [job EXCEPT ![r] = Idle]
  PROVE  Placed'
<1>1. job'[r] = Idle /\ Alone(r)
  BY DEF Inv, TypeOK, Alone
<1>2. AloneHolds(r) /\ \A k \in Pools : ~ left'[r][k] > 0
  <2>1. \A a \in Accounts : ~ left[r][a] > 0
    BY PlaceFacts DEF At, HeldByPlace
  <2>2. /\ AloneHolds(r)
        /\ \A j \in Pools : left'[r][j] = IF j = User THEN 0 ELSE left[r][j]
    BY DropSlot, PlaceFacts DEF Inv
  <2> QED BY <2>1, <2>2 DEF Pools
<1>3. HeldByPlace(r)'
  BY <1>1, <1>2, PlaceFacts DEF HeldByPlace, Idle
<1> QED BY <1>1, <1>2, <1>3, PlacedByOne

LEMMA ReleaseFailsPlaces ==
  ASSUME Inv, Placed, NEW r \in Requests, ReleaseFails(r)
  PROVE  Placed'
<1>1. PICK k \in Pools :
         /\ \/ At(r, "forward") /\ k = job[r].pool /\ Ended(r)
            \/ At(r, "leave") /\ k = User /\ job' = [job EXCEPT ![r] = Idle]
         /\ left' = [left EXCEPT ![r][k] = 0]
  BY DEF ReleaseFails
<1> QED BY <1>1, FinishPlaces, LeavePlaces

LEMMA DropPlaces ==
  ASSUME Inv, Placed, NEW r \in Requests, Drop(r)
  PROVE  Placed'
<1>1. PICK k \in Pools : left' = [left EXCEPT ![r][k] = 0]
  BY DEF Drop
<1>2. HeldByPlace(r)' /\ Alone(r)
  BY <1>1, DropSlot, PlaceFacts DEF Inv, Drop, HeldByPlace, Alone
<1> QED BY <1>1, <1>2, DropSlot, PlacedByOne DEF Inv

LEMMA DisconnectPlaces ==
  ASSUME Inv, Placed, NEW r \in Requests, Disconnect(r)
  PROVE  Placed'
<1>1. /\ Alone(r) /\ job'[r].at = job[r].at /\ job'[r].pool = job[r].pool
      /\ job'[r].gone
  BY DEF Inv, TypeOK, Jobs, Disconnect, Alone
<1>2. HeldByPlace(r)' /\ AloneHolds(r)
  BY <1>1, PlaceFacts DEF Disconnect, HeldByPlace, AloneHolds, slots
<1> QED BY <1>1, <1>2, PlacedByOne

LEMMA CrashPlaces ==
  ASSUME Inv, Placed, Crash
  PROVE  Placed'
  BY PlaceFacts DEF Crash, Placed, HeldByPlace, Idle

LEMMA TickPlaces ==
  ASSUME Inv, Placed, Tick
  PROVE  Placed'
<1>1. \A r \in Requests, k \in Pools :
         /\ left[r][k] > 0 => left'[r][k] > 0
         /\ ~ left[r][k] > 0 => ~ left'[r][k] > 0
  BY PlaceFacts DEF Tick
<1> SUFFICES ASSUME NEW r \in Requests
             PROVE  HeldByPlace(r)'
  BY DEF Placed
<1> QED BY <1>1, PlaceFacts DEF Tick, HeldByPlace

LEMMA StepPlaces ==
  ASSUME Inv, Placed, [Next]_vars
  PROVE  Placed'
<1>1. CASE \E r \in Requests : Begin(r) \/ Step(r) \/ Drop(r)
  BY <1>1, WaitingPlaces, TryPlaces, ObtainPlaces, ServedPlaces, FinishPlaces,
     LeavePlaces, DropPlaces DEF Step, Uncount, Finish, Leave, slots
<1>2. CASE Disturb
  BY <1>2, DisconnectPlaces, WaitingPlaces, ServedPlaces, ReleaseFailsPlaces,
     CrashPlaces
     DEF Disturb, UncountFails, slots, Placed, HeldByPlace
<1>3. CASE \/ Startup \/ StartupFails \/ UNCHANGED vars
           \/ \E k \in Pools : ForgetWait(k)
  BY <1>3 DEF Startup, StartupFails, ForgetWait, vars, slots, Placed,
              HeldByPlace
<1> QED BY <1>1, <1>2, <1>3, TickPlaces DEF Next

LEMMA PlacedInvariance == Spec => []Placed
<1>1. Init => Placed
  BY SlotsAssumption DEF Init, Placed, HeldByPlace, Idle, Pools
<1>2. Inv /\ Placed /\ [Next]_vars => Placed'
  BY StepPlaces
<1> QED BY <1>1, <1>2, Invariance, PTL DEF Spec

(* A request is forwarded under a slot of its user and one of its account  *)
(* unless its client has gone, and none is left when the handler is done,  *)
(* whichever way it went (TryAcquireUserSlot, the waits, the failover loop *)
(* of gateway_handler.go, wrapReleaseOnDone).                              *)
THEOREM SlotsAreMatched == Spec => []SlotsFollowRequest
<1>1. Inv /\ Placed => SlotsFollowRequest
  <2> SUFFICES ASSUME Inv, Placed, NEW r \in Requests
               PROVE  /\ At(r, "idle") => \A k \in Pools : left[r][k] = 0
                      /\ At(r, "forward") /\ ~ job[r].gone =>
                            left[r][User] > 0 /\ left[r][job[r].pool] > 0
    BY DEF SlotsFollowRequest
  <2> QED BY PlaceFacts DEF HeldByPlace, At, Pools
<1> QED BY <1>1, Invariance, PlacedInvariance, PTL

=============================================================================
