------------------------ MODULE OAuthTokenRefreshProof ------------------------
(***************************************************************************)
(* What is proved of the refresh of OAuth tokens, for any number of        *)
(* requests, services and instances, of refreshes, retries and faults.     *)
(*                                                                         *)
(* The argument does not lean on the lock, which several callers may hold. *)
(* It is the provider that lets one refresh through: who is about to store *)
(* new credentials is alone in having them (Alone), and they are newer     *)
(* than what is stored (Bounds).  Only the last theorem, that an account   *)
(* is not disabled too early, needs the lock (Exclusive).                  *)
(***************************************************************************)
EXTENDS OAuthTokenRefresh, TLAPS

CallerBounds(c) ==
    /\ job[c].acct =< issued /\ job[c].used =< issued
    /\ At(c, "refresh") => job[c].used =< due
    /\ At(c, "recover") => job[c].used < issued
    /\ At(c, "persist") => job[c].new = issued /\ cred < issued

Bounds == /\ cred =< issued /\ due < MaxIssued /\ urgent =< due
          /\ \A c \in Callers : CallerBounds(c)

Alone ==
    \A c, d \in Callers :
        At(c, "persist") /\ c # d =>
            /\ ~ At(d, "persist")
            /\ job[d].acct < issued /\ job[d].used < issued

Inv == TypeOK /\ Bounds /\ Alone

Quick == {"lookup", "mutex", "lock", "wait", "check", "store", "clear",
          "invalidate", "disable", "defer", "idle"}

Inside == {"reread", "refresh", "recover", "persist"}

(* The lock of Redis, seen from a caller's row before and after its step. *)
LockRow(c, old, row) ==
    \/ /\ lock' = lock /\ row.mine = old.mine
       /\ old.at \in Protected => row.at \in Protected
       /\ row.at \in Inside => old.at \in Inside
    \/ lock = None /\ lock' = c /\ row.mine /\ row.at \in Protected
    \/ /\ ~ row.mine /\ row.at \notin Inside
       /\ lock' = lock \/ (old.mine /\ lock' = None)

Refused(row) == row.at = "disable" \/ (row.at = "leave" /\ row.result = "refused")

(* How a step that stores and issues nothing changes the caller's row. *)
PlainRow(old, row) ==
    /\ old.at # "persist" /\ row.at # "persist"
    /\ row.acct = old.acct \/ row.acct =< cred
    /\ row.used = old.used \/ row.used =< cred \/ row.used = old.acct
    /\ row.stored = old.stored \/ row.stored =< cred
    /\ row.at = "refresh" => /\ old.at = "reread" /\ row.used =< due
                             /\ \/ row.used = cred
                                \/ /\ row.used = old.acct
                                   /\ faults'["read"] = faults["read"] + 1
    /\ row.at = "recover" => /\ old.at = "refresh"
                             /\ row.used = old.used /\ old.used # issued
    /\ row.shared => old.shared \/ faults'["read"] = faults["read"] + 1
    /\ row.at = "store" /\ faults'["read"] = 0 => row.acct >= cred
    /\ Refused(row) => \/ Refused(old)
                       \/ /\ old.at = "recover"
                          /\ \/ cred = old.used
                             \/ faults'["read"] = faults["read"] + 1

(* The rest of a caller's step. *)
Moved(c) == /\ job' \in [Callers -> Jobs]
            /\ \A d \in Callers : d # c => job'[d] = job[d]

RestTypes == /\ status \in {"active", "error"} /\ deferred \in BOOLEAN
             /\ cached \in Numbers \cup {None}
             /\ lock \in Callers \cup {None}
             /\ mutex \in [Hosts -> Callers \cup {None}]

MoreFaults == /\ faults' \in [Kinds -> Nat]
              /\ \A kind \in Kinds : faults[kind] =< faults'[kind]

Plain(c) ==
    /\ cred' = cred /\ issued' = issued /\ due' = due /\ urgent' = urgent
    /\ RestTypes' /\ MoreFaults
    /\ Moved(c) /\ PlainRow(job[c], job'[c])
    /\ faults'["redis"] = 0 => LockRow(c, job[c], job'[c])
    /\ status' = status \/ At(c, "disable")

-----------------------------------------------------------------------------
(* The helpers from which the actions are built. *)
LEMMA Rows ==
  ASSUME TypeOK, NEW c \in Callers
  PROVE  job[c] \in Jobs /\ Idle \in Jobs
  BY CallersAssumption DEF TypeOK, Idle, Jobs, Points, Results, Numbers

LEMMA RowMoves ==
  ASSUME TypeOK, NEW c \in Callers, NEW row \in Jobs,
         job' = [job EXCEPT ![c] = row]
  PROVE  Moved(c) /\ job'[c] = row
  BY DEF TypeOK, Moved

LEMMA GotoMoves ==
  ASSUME TypeOK, NEW c \in Callers, NEW point \in Points, Goto(c, point)
  PROVE  Moved(c) /\ job'[c] = [job[c] EXCEPT !.at = point]
  BY Rows DEF TypeOK, Goto, Moved, Jobs

LEMMA ReturnMoves ==
  ASSUME TypeOK, NEW c \in Callers, Return(c)
  PROVE  Moved(c) /\ job'[c] = Idle
  BY Rows DEF TypeOK, Return, Moved

LEMMA LeaveMoves ==
  ASSUME TypeOK, NEW c \in Callers, NEW result \in Results, Leave(c, result)
  PROVE  Moved(c) /\ job'[c] = [job[c] EXCEPT !.at = "leave", !.result = result]
<1> DEFINE row == [job[c] EXCEPT !.at = "leave", !.result = result]
<1>1. row \in Jobs
  BY Rows DEF Jobs, Points, Protected
<1>2. job' = [job EXCEPT ![c] = row]
  BY Rows DEF TypeOK, Leave, Jobs
<1> HIDE DEF row
<1>3. Moved(c) /\ job'[c] = row
  BY <1>1, <1>2, RowMoves
<1> QED BY <1>3 DEF row

LEMMA WorkMoves ==
  ASSUME TypeOK, NEW c \in Callers, NEW used \in Numbers, NEW shared \in BOOLEAN,
         NEW blocked \in BOOLEAN, WorkWith(c, used, shared, blocked)
  PROVE  /\ Moved(c)
         /\ job'[c].stored = job[c].stored /\ job'[c].mine = job[c].mine
         /\ \/ /\ used =< Window(c)
               /\ job'[c].at = "refresh" /\ job'[c].used = used
               /\ job'[c].acct = job[c].acct /\ job'[c].shared = shared
            \/ /\ job'[c].at = "leave" /\ job'[c].result = "current"
               /\ job'[c].acct = used /\ job'[c].used = job[c].used
               /\ job'[c].shared = job[c].shared
<1> DEFINE refreshing == [job[c] EXCEPT !.at = "refresh", !.used = used,
                                       !.shared = shared, !.blocked = blocked]
           leaving == [job[c] EXCEPT !.at = "leave", !.result = "current",
                                     !.acct = used]
<1>0. job[c] \in Jobs
  BY Rows
<1>1. /\ refreshing \in Jobs
      /\ refreshing.at = "refresh" /\ refreshing.used = used
      /\ refreshing.acct = job[c].acct /\ refreshing.shared = shared
      /\ refreshing.stored = job[c].stored /\ refreshing.mine = job[c].mine
  BY <1>0 DEF Jobs, Points, Protected
<1>2. /\ leaving \in Jobs
      /\ leaving.at = "leave" /\ leaving.result = "current"
      /\ leaving.acct = used /\ leaving.used = job[c].used
      /\ leaving.shared = job[c].shared
      /\ leaving.stored = job[c].stored /\ leaving.mine = job[c].mine
  BY <1>0 DEF Jobs, Points, Protected, Results
<1>3. \/ used =< Window(c) /\ job' = [job EXCEPT ![c] = refreshing]
      \/ job' = [job EXCEPT ![c] = leaving]
  BY <1>0 DEF TypeOK, WorkWith, Jobs
<1> HIDE DEF refreshing, leaving
<1>4. CASE used =< Window(c) /\ job' = [job EXCEPT ![c] = refreshing]
  BY <1>1, <1>4, RowMoves
<1>5. CASE job' = [job EXCEPT ![c] = leaving]
  BY <1>2, <1>5, RowMoves
<1> QED BY <1>3, <1>4, <1>5

LEMMA FaultCounts ==
  ASSUME TypeOK, NEW kind \in Kinds, Fault(kind)
  PROVE  /\ MoreFaults
         /\ \A k \in Kinds :
               faults'[k] = IF k = kind THEN faults[k] + 1 ELSE faults[k]
  BY DEF TypeOK, Fault, MoreFaults

LEMMA NoFault == TypeOK /\ UNCHANGED faults => MoreFaults
  BY DEF TypeOK, MoreFaults

LEMMA WindowIsDue ==
  ASSUME TypeOK, Bounds, NEW c \in Callers, NEW n \in Numbers, n =< Window(c)
  PROVE  n =< due
  BY DEF TypeOK, Bounds, Window, Numbers

Settled(c) == /\ Moved(c) /\ PlainRow(job[c], job'[c])
              /\ LockRow(c, job[c], job'[c])

LEMMA GotoSettles ==
  ASSUME TypeOK, NEW c \in Callers, NEW point \in Quick \ {"disable"},
         Goto(c, point), job[c].at \in Quick, lock' = lock,
         point = "store" /\ faults'["read"] = 0 => job[c].acct >= cred
  PROVE  Settled(c)
<1>1. point \in Points
  BY DEF Quick, Points
<1>2. job[c] \in Jobs
  BY Rows
<1>3. Moved(c) /\ job'[c] = [job[c] EXCEPT !.at = point]
  BY <1>1, GotoMoves
<1> QED
  BY <1>2, <1>3 DEF Settled, PlainRow, LockRow, Refused, Quick, Inside,
                    Protected, Jobs

LEMMA ReturnSettles ==
  ASSUME TypeOK, NEW c \in Callers, Return(c), job[c].at \in Quick, lock' = lock
  PROVE  Settled(c)
<1>1. job[c] \in Jobs
  BY Rows
<1>2. Moved(c) /\ job'[c] = Idle
  BY ReturnMoves
<1> QED
  BY <1>1, <1>2 DEF Settled, PlainRow, LockRow, Refused, Quick, Inside,
                    Protected, Idle, Jobs, TypeOK, Numbers

LEMMA LeaveSettles ==
  ASSUME TypeOK, NEW c \in Callers, NEW result \in Results, Leave(c, result),
         At(c, "lock") \/ At(c, "refresh") \/ At(c, "recover"), lock' = lock,
         result = "refused" =>
            At(c, "recover") /\ \/ cred = job[c].used
                                \/ faults'["read"] = faults["read"] + 1
  PROVE  Settled(c)
<1>1. job[c] \in Jobs
  BY Rows
<1>2. Moved(c) /\ job'[c] = [job[c] EXCEPT !.at = "leave", !.result = result]
  BY LeaveMoves
<1>3. /\ job'[c].at = "leave" /\ job'[c].result = result
      /\ job'[c].acct = job[c].acct /\ job'[c].used = job[c].used
      /\ job'[c].stored = job[c].stored /\ job'[c].shared = job[c].shared
      /\ job'[c].mine = job[c].mine
  BY <1>1, <1>2 DEF Jobs
<1> QED
  BY <1>2, <1>3 DEF Settled, PlainRow, LockRow, Refused, Inside, Protected, At

LEMMA WorkSettles ==
  ASSUME TypeOK, Bounds, NEW c \in Callers, NEW used \in Numbers,
         NEW shared \in BOOLEAN, NEW blocked \in BOOLEAN,
         WorkWith(c, used, shared, blocked), At(c, "reread"), lock' = lock,
         \/ used = cred /\ ~ shared
         \/ used = job[c].acct /\ faults'["read"] = faults["read"] + 1
  PROVE  Settled(c)
<1>1. used =< Window(c) => used =< due
  BY WindowIsDue
<1>2. (used = job[c].acct \/ used =< cred) /\ cred =< cred
  BY DEF TypeOK, Numbers
<1> QED
  BY <1>1, <1>2, WorkMoves DEF Settled, PlainRow, LockRow, Refused, Inside,
                               Protected, At

-----------------------------------------------------------------------------
(* Every action but the refresh that succeeds and the write is plain. *)
keepRest == keepStore /\ keepRedis /\ keepProvider /\ keepTime /\ keepMutex

LEMMA SettledIsPlain ==
  ASSUME TypeOK, NEW c \in Callers, Settled(c), RestTypes', MoreFaults,
         keepProvider, keepTime, cred' = cred,
         status' = status \/ At(c, "disable")
  PROVE  Plain(c)
  BY DEF Plain, Settled, keepProvider, keepTime

LEMMA RestSettled ==
  ASSUME TypeOK, NEW c \in Callers, keepRest, Settled(c), MoreFaults
  PROVE  Plain(c)
<1>1. RestTypes' /\ cred' = cred /\ status' = status
  BY DEF TypeOK, RestTypes, keepRest, keepStore, keepRedis, keepMutex
<1> QED BY <1>1, SettledIsPlain DEF keepRest

LEMMA QuickGoto ==
  ASSUME TypeOK, NEW c \in Callers, NEW point \in Quick \ {"disable", "store"},
         Goto(c, point), job[c].at \in Quick, keepRest, MoreFaults
  PROVE  Plain(c)
<1>1. lock' = lock
  BY DEF keepRest, keepRedis
<1>2. Settled(c)
  BY <1>1, GotoSettles
<1> QED BY <1>2, RestSettled

LEMMA QuickReturn ==
  ASSUME TypeOK, NEW c \in Callers, Return(c), job[c].at \in Quick, keepRest,
         MoreFaults
  PROVE  Plain(c)
<1>1. lock' = lock
  BY DEF keepRest, keepRedis
<1>2. Settled(c)
  BY <1>1, ReturnSettles
<1> QED BY <1>2, RestSettled

LEMMA MissCachePlain ==
  ASSUME TypeOK, NEW c \in Callers, MissCache(c), At(c, "lookup"), keepRest,
         MoreFaults
  PROVE  Plain(c)
<1>1. Goto(c, "mutex") \/ Goto(c, "check")
  BY DEF MissCache
<1>2. job[c].at \in Quick
      /\ "mutex" \in Quick \ {"disable", "store"}
      /\ "check" \in Quick \ {"disable", "store"}
  BY DEF At, Quick
<1> QED BY <1>1, <1>2, QuickGoto

LEMMA BeginPlain ==
  ASSUME TypeOK, Bounds, NEW c \in Callers, UNCHANGED faults,
         Request(c) \/ Collect(c)
  PROVE  Plain(c)
<1>1. CASE Request(c)
  <2>1. PICK acct \in 1 .. cred :
           job' = [job EXCEPT ![c].at = "lookup", ![c].acct = acct,
                              ![c].stored = cred]
    BY <1>1 DEF Request
  <2> DEFINE row == [job[c] EXCEPT !.at = "lookup", !.acct = acct,
                                   !.stored = cred]
  <2>0. acct \in Numbers /\ cred \in Numbers
    BY CallersAssumption DEF TypeOK, Numbers
  <2>2. /\ row \in Jobs /\ row.at = "lookup" /\ row.acct = acct
        /\ row.stored = cred /\ row.used = job[c].used
        /\ row.shared = job[c].shared /\ row.mine = job[c].mine
    BY <2>0, Rows DEF Jobs, Points
  <2>3. job' = [job EXCEPT ![c] = row]
    BY <2>1, Rows DEF TypeOK, Jobs
  <2> HIDE DEF row
  <2>4. Moved(c) /\ job'[c] = row
    BY <2>2, <2>3, RowMoves
  <2>5. row.acct =< cred /\ row.stored =< cred
    BY <2>0, <2>2 DEF Numbers
  <2>6. lock' = lock /\ job[c].at = "idle" /\ keepRest
    BY <1>1 DEF Request, keepRest, keepRedis, At
  <2>7. Settled(c)
    BY <2>2, <2>4, <2>5, <2>6
       DEF Settled, PlainRow, LockRow, Refused, Inside, Protected
  <2> QED BY <2>6, <2>7, RestSettled, NoFault
<1>2. CASE Collect(c)
  <2> DEFINE row == [job[c] EXCEPT !.at = "mutex", !.acct = cred]
  <2>0. cred \in Numbers
    BY DEF TypeOK
  <2>1. /\ row \in Jobs /\ row.at = "mutex" /\ row.acct = cred
        /\ row.stored = job[c].stored /\ row.used = job[c].used
        /\ row.shared = job[c].shared /\ row.mine = job[c].mine
    BY <2>0, Rows DEF Jobs, Points
  <2>2. job' = [job EXCEPT ![c] = row]
    BY <1>2, Rows DEF TypeOK, Jobs, Collect
  <2> HIDE DEF row
  <2>3. Moved(c) /\ job'[c] = row
    BY <2>1, <2>2, RowMoves
  <2>4. row.acct =< cred
    BY <2>1 DEF TypeOK, Numbers
  <2>5. lock' = lock /\ job[c].at = "idle" /\ keepRest
    BY <1>2 DEF Collect, keepRest, keepRedis, At
  <2>6. Settled(c)
    BY <2>1, <2>3, <2>4, <2>5
       DEF Settled, PlainRow, LockRow, Refused, Inside, Protected
  <2> QED BY <2>5, <2>6, RestSettled, NoFault
<1> QED BY <1>1, <1>2

LEMMA LookupPlain ==
  ASSUME TypeOK, NEW c \in Callers, UNCHANGED faults,
         Lookup(c) \/ Wait(c) \/ CheckTokenVersion(c)
  PROVE  Plain(c)
<1>1. keepRest /\ MoreFaults
  BY NoFault DEF Lookup, Wait, CheckTokenVersion, keepRest
<1>2. job[c].at \in Quick /\ lock' = lock
      /\ "check" \in Quick \ {"disable", "store"}
      /\ "store" \in Quick \ {"disable"}
  BY <1>1 DEF Lookup, Wait, CheckTokenVersion, At, Quick, keepRest, keepRedis
<1>3. \/ Return(c)
      \/ MissCache(c) /\ At(c, "lookup")
      \/ Goto(c, "check")
      \/ Goto(c, "store") /\ ~ (cred > job[c].acct)
  BY DEF Lookup, Wait, CheckTokenVersion
<1>4. CASE Goto(c, "store") /\ ~ (cred > job[c].acct)
  <2>1. job[c].acct >= cred
    BY <1>4, Rows DEF TypeOK, Numbers, Jobs
  <2>2. Settled(c)
    BY <1>2, <1>4, <2>1, GotoSettles
  <2> QED BY <1>1, <2>2, RestSettled
<1> QED BY <1>1, <1>2, <1>3, <1>4, QuickReturn, MissCachePlain, QuickGoto

LEMMA StorePlain ==
  ASSUME TypeOK, NEW c \in Callers, UNCHANGED faults,
         \/ SetAccessToken(c) \/ ClearTempUnschedulable(c) \/ InvalidateToken(c)
         \/ SetError(c) \/ SetTempUnschedulable(c)
  PROVE  Plain(c)
<1>1. /\ keepProvider /\ keepTime /\ cred' = cred /\ MoreFaults
      /\ status' = status \/ At(c, "disable")
  BY NoFault DEF SetAccessToken, ClearTempUnschedulable, InvalidateToken,
                 SetError, SetTempUnschedulable, keepStore
<1>2. lock' = lock /\ job[c].at \in Quick
  BY DEF SetAccessToken, ClearTempUnschedulable, InvalidateToken, SetError,
         SetTempUnschedulable, keepRedis, At, Quick
<1>3. job[c].acct \in Numbers
  BY Rows DEF Jobs
<1>4. RestTypes'
  BY <1>3 DEF TypeOK, RestTypes, SetAccessToken, ClearTempUnschedulable,
              InvalidateToken, SetError, SetTempUnschedulable, keepStore,
              keepRedis, keepMutex
<1>5. Return(c) \/ Goto(c, "invalidate")
  BY DEF SetAccessToken, ClearTempUnschedulable, InvalidateToken, SetError,
         SetTempUnschedulable
<1>6. "invalidate" \in Quick \ {"disable"}
  BY DEF Quick
<1>7. Settled(c)
  BY <1>2, <1>5, <1>6, GotoSettles, ReturnSettles
<1> QED BY <1>1, <1>4, <1>7, SettledIsPlain

LEMMA AcquirePlain ==
  ASSUME TypeOK, NEW c \in Callers, UNCHANGED faults,
         LockMutex(c) \/ AcquireRefreshLock(c)
  PROVE  Plain(c)
<1>1. MoreFaults /\ job[c] \in Jobs
  BY NoFault, Rows
<1>2. CASE LockMutex(c)
  <2>1. /\ lock' = lock /\ job[c].at \in Quick /\ "lock" \in Quick \ {"disable"}
        /\ Goto(c, "lock") /\ "lock" # "store"
    BY <1>2 DEF LockMutex, keepRedis, At, Quick
  <2>2. Settled(c)
    BY <2>1, GotoSettles
  <2>3. RestTypes' /\ cred' = cred /\ status' = status
    BY <1>2 DEF TypeOK, RestTypes, LockMutex, keepStore, keepRedis
  <2> QED BY <1>1, <1>2, <2>2, <2>3, SettledIsPlain DEF LockMutex
<1>3. CASE AcquireRefreshLock(c)
  <2>1. RestTypes' /\ cred' = cred /\ status' = status
    BY <1>3 DEF TypeOK, RestTypes, AcquireRefreshLock, keepStore, keepMutex
  <2>2. CASE lock = None
    <3> DEFINE row == [job[c] EXCEPT !.at = "reread", !.mine = TRUE]
    <3>1. /\ row \in Jobs /\ row.at = "reread" /\ row.mine
          /\ row.acct = job[c].acct /\ row.used = job[c].used
          /\ row.stored = job[c].stored /\ row.shared = job[c].shared
      BY <1>1 DEF Jobs, Points, Protected
    <3>2. job' = [job EXCEPT ![c] = row]
      BY <1>3, <2>2, <1>1 DEF AcquireRefreshLock, TypeOK, Jobs
    <3> HIDE DEF row
    <3>3. Moved(c) /\ job'[c] = row
      BY <3>1, <3>2, RowMoves
    <3>4. lock' = c /\ job[c].at = "lock"
      BY <1>3, <2>2 DEF AcquireRefreshLock, At
    <3>5. Settled(c)
      BY <2>2, <3>1, <3>3, <3>4
         DEF Settled, PlainRow, LockRow, Refused, Inside, Protected
    <3> QED BY <1>1, <1>3, <2>1, <3>5, SettledIsPlain DEF AcquireRefreshLock
  <2>3. CASE lock # None
    <3>1. Leave(c, "held") /\ lock' = lock /\ At(c, "lock") /\ "held" \in Results
      BY <1>3, <2>3 DEF AcquireRefreshLock, Results
    <3>2. Settled(c)
      BY <3>1, LeaveSettles
    <3> QED BY <1>1, <1>3, <2>1, <3>2, SettledIsPlain DEF AcquireRefreshLock
  <2> QED BY <2>2, <2>3
<1> QED BY <1>2, <1>3

LEMMA RereadPlain ==
  ASSUME TypeOK, Bounds, NEW c \in Callers, UNCHANGED faults, Reread(c)
  PROVE  Plain(c)
<1>1. /\ WorkWith(c, cred, FALSE, deferred) /\ At(c, "reread") /\ lock' = lock
      /\ keepRest
  BY DEF Reread, keepRest, keepRedis
<1>2. cred \in Numbers /\ deferred \in BOOLEAN /\ FALSE \in BOOLEAN
  BY DEF TypeOK
<1>3. Settled(c)
  BY <1>1, <1>2, WorkSettles
<1> QED BY <1>1, <1>3, RestSettled, NoFault

(* The row of a call that is sent back by the provider. *)
LEMMA RefusedPlain ==
  ASSUME TypeOK, NEW c \in Callers, UNCHANGED faults, Refresh(c),
         job[c].used # issued
  PROVE  Plain(c)
<1>1. /\ Goto(c, "recover") /\ lock' = lock /\ job[c].at = "refresh" /\ keepRest
      /\ "recover" \in Points
  BY DEF Refresh, keepRest, keepRedis, At, Points, Protected
<1>2. Moved(c) /\ job'[c] = [job[c] EXCEPT !.at = "recover"] /\ job[c] \in Jobs
  BY <1>1, GotoMoves, Rows
<1>3. Settled(c)
  BY <1>1, <1>2
     DEF Settled, PlainRow, LockRow, Refused, Inside, Protected, Jobs
<1> QED BY <1>1, <1>3, RestSettled, NoFault

LEMMA RecoverPlain ==
  ASSUME TypeOK, NEW c \in Callers, UNCHANGED faults, Recover(c)
  PROVE  Plain(c)
<1>1. keepRest /\ lock' = lock /\ At(c, "recover") /\ job[c] \in Jobs
      /\ "refused" \in Results
  BY Rows DEF Recover, keepRest, keepRedis, Results
<1>2. CASE cred # job[c].used
  <2> DEFINE row == [job[c] EXCEPT !.at = "leave", !.result = "current",
                                   !.acct = cred]
  <2>1. cred \in Numbers /\ cred =< cred
    BY DEF TypeOK, Numbers
  <2>2. /\ row \in Jobs /\ row.at = "leave" /\ row.result = "current"
        /\ row.acct = cred /\ row.used = job[c].used /\ row.mine = job[c].mine
        /\ row.stored = job[c].stored /\ row.shared = job[c].shared
    BY <1>1, <2>1 DEF Jobs, Points, Protected, Results
  <2>3. job' = [job EXCEPT ![c] = row]
    BY <1>1, <1>2 DEF Recover, TypeOK, Jobs
  <2> HIDE DEF row
  <2>4. Moved(c) /\ job'[c] = row
    BY <2>2, <2>3, RowMoves
  <2>5. Settled(c)
    BY <1>1, <2>1, <2>2, <2>4
       DEF Settled, PlainRow, LockRow, Refused, Inside, Protected, At
  <2> QED BY <1>1, <2>5, RestSettled, NoFault
<1>3. CASE cred = job[c].used
  <2>1. Leave(c, "refused")
    BY <1>3 DEF Recover
  <2>2. Settled(c)
    BY <1>1, <1>3, <2>1, LeaveSettles
  <2> QED BY <1>1, <2>2, RestSettled, NoFault
<1> QED BY <1>2, <1>3

(* The end of RefreshIfNeeded, for requests and services. *)
LEMMA DepartMoves ==
  ASSUME TypeOK, NEW c \in Callers, At(c, "leave"), Depart(c)
  PROVE  /\ Moved(c) /\ mutex' \in [Hosts -> Callers \cup {None}]
         /\ job'[c].at \in Quick \ {"store"} /\ ~ job'[c].mine
         /\ job'[c].acct = job[c].acct \/ job'[c].acct =< cred
         /\ job'[c].stored = job[c].stored \/ job'[c].stored =< cred
         /\ job'[c].used =< cred /\ ~ job'[c].shared
         /\ job'[c].at = "disable" => job[c].result = "refused"
<1> DEFINE point == IF c \in Requests THEN RequestGoesOn(c) ELSE ServiceGoesOn(c)
           attempt == IF point = "mutex" THEN job[c].attempt + 1
                                         ELSE job[c].attempt
           row == [Idle EXCEPT !.at = point, !.acct = job[c].acct,
                               !.stored = job[c].stored, !.attempt = attempt]
<1>1. /\ point \in Quick \ {"store"}
      /\ point = "disable" => job[c].result = "refused"
      /\ point = "mutex" => job[c].attempt < MaxRetries
  BY DEF RequestGoesOn, ServiceGoesOn, Quick
<1>2. GoOn(c, point) /\ mutex' = [mutex EXCEPT ![Host(c)] = None]
  BY DEF Depart
<1>3. job[c] \in Jobs /\ Idle \in Jobs
  BY Rows
<1>4. 1 =< cred
  BY DEF TypeOK, Numbers
<1>5. mutex' \in [Hosts -> Callers \cup {None}]
  BY <1>2 DEF TypeOK
<1> HIDE DEF point
<1>6. CASE point = "idle"
  <2>1. Return(c)
    BY <1>2, <1>6 DEF GoOn
  <2>2. Moved(c) /\ job'[c] = Idle
    BY <2>1, ReturnMoves
  <2> QED BY <1>4, <1>5, <2>2 DEF Idle, Quick
<1>7. CASE point # "idle"
  <2>1. attempt \in 1 .. MaxRetries
    BY <1>1, <1>3, CallersAssumption DEF Jobs
  <2>2. job' = [job EXCEPT ![c] = row]
    BY <1>2, <1>7 DEF GoOn
  <2> HIDE DEF attempt
  <2>3. point \in Points
    BY <1>1 DEF Quick, Points
  <2>4. /\ row \in Jobs /\ row.at = point /\ row.acct = job[c].acct
        /\ row.stored = job[c].stored /\ row.used = 1
        /\ row.shared = FALSE /\ row.mine = FALSE
    BY <1>3, <2>1, <2>3 DEF Idle, Jobs
  <2> HIDE DEF row
  <2>5. Moved(c) /\ job'[c] = row
    BY <2>2, <2>4, RowMoves
  <2> QED BY <1>1, <1>4, <1>5, <2>4, <2>5
<1> QED BY <1>6, <1>7

LEMMA DepartRow ==
  ASSUME TypeOK, NEW c \in Callers, At(c, "leave"), Depart(c)
  PROVE  PlainRow(job[c], job'[c])
<1>1. job'[c].at # "leave"
  BY DepartMoves DEF Quick
<1>2. Refused(job'[c]) => Refused(job[c])
  BY <1>1, DepartMoves DEF Refused, At
<1> QED BY <1>2, DepartMoves DEF PlainRow, Quick, At

LEMMA ReleasePlain ==
  ASSUME TypeOK, NEW c \in Callers, UNCHANGED faults, Release(c)
  PROVE  Plain(c)
<1>1. /\ At(c, "leave") /\ Depart(c) /\ keepProvider /\ keepTime
      /\ cred' = cred /\ status' = status
      /\ lock' = lock \/ (job[c].mine /\ lock' = None)
  BY DEF Release, keepStore
<1>2. MoreFaults
  BY NoFault
<1>3. RestTypes'
  BY <1>1, DepartMoves DEF TypeOK, RestTypes, Release, keepStore
<1>4. job'[c].at \notin Inside
  BY <1>1, DepartMoves DEF Quick, Inside
<1>5. LockRow(c, job[c], job'[c])
  BY <1>1, <1>4, DepartMoves DEF LockRow
<1>6. Settled(c)
  BY <1>1, <1>5, DepartMoves, DepartRow DEF Settled
<1> QED BY <1>1, <1>2, <1>3, <1>6, SettledIsPlain

-----------------------------------------------------------------------------
(* What goes wrong. *)
LEMMA RedisPlain ==
  ASSUME TypeOK, Bounds, NEW c \in Callers, keepProvider, keepTime,
         Fault("redis"), LockFails(c) \/ ReleaseFails(c) \/ CacheFails(c)
  PROVE  Plain(c)
<1>1. MoreFaults /\ faults'["redis"] # 0
  BY FaultCounts DEF Kinds, TypeOK
<1>2. CASE LockFails(c)
  <2>1. Goto(c, "reread") /\ "reread" \in Points /\ At(c, "lock")
    BY <1>2 DEF LockFails, Points, Protected
  <2>2. Moved(c) /\ job'[c] = [job[c] EXCEPT !.at = "reread"] /\ job[c] \in Jobs
    BY <2>1, GotoMoves, Rows
  <2>3. PlainRow(job[c], job'[c])
    BY <2>1, <2>2 DEF PlainRow, Refused, At, Jobs
  <2>4. RestTypes' /\ cred' = cred /\ status' = status
    BY <1>2 DEF TypeOK, RestTypes, LockFails, keepStore, keepMutex
  <2> QED BY <1>1, <2>2, <2>3, <2>4 DEF Plain, keepProvider, keepTime
<1>3. CASE ReleaseFails(c)
  <2>1. At(c, "leave") /\ Depart(c)
    BY <1>3 DEF ReleaseFails
  <2>2. RestTypes' /\ cred' = cred /\ status' = status
    BY <1>3, <2>1, DepartMoves
       DEF TypeOK, RestTypes, ReleaseFails, keepStore, keepRedis
  <2> QED BY <1>1, <2>1, <2>2, DepartMoves, DepartRow
          DEF Plain, keepProvider, keepTime
<1>4. CASE CacheFails(c)
  <2>1. keepRest
    BY <1>4 DEF CacheFails, keepRest
  <2>2. job[c].at \in Quick /\ "check" \in Quick \ {"disable", "store"}
    BY <1>4 DEF CacheFails, At, Quick
  <2>3. (At(c, "lookup") /\ MissCache(c)) \/ Goto(c, "check") \/ Return(c)
    BY <1>4 DEF CacheFails
  <2> QED BY <1>1, <2>1, <2>2, <2>3, MissCachePlain, QuickGoto, QuickReturn
<1> QED BY <1>2, <1>3, <1>4

LEMMA ReadPlain ==
  ASSUME TypeOK, Bounds, NEW c \in Callers, keepProvider, keepTime,
         Fault("read"), ReadFails(c)
  PROVE  Plain(c)
<1>1. MoreFaults /\ faults'["read"] = faults["read"] + 1 /\ faults'["read"] # 0
  BY FaultCounts DEF Kinds, TypeOK
<1>2. keepRest /\ lock' = lock /\ job[c] \in Jobs
  BY Rows DEF ReadFails, keepRest, keepRedis
<1>3. CASE At(c, "reread") /\ WorkWith(c, job[c].acct, TRUE, FALSE)
  <2>1. job[c].acct \in Numbers /\ TRUE \in BOOLEAN /\ FALSE \in BOOLEAN
    BY <1>2 DEF Jobs
  <2>2. Settled(c)
    BY <1>1, <1>2, <1>3, <2>1, WorkSettles
  <2> QED BY <1>1, <1>2, <2>2, RestSettled
<1>4. CASE At(c, "recover") /\ Leave(c, "refused")
  <2>1. "refused" \in Results
    BY DEF Results
  <2>2. Settled(c)
    BY <1>1, <1>2, <1>4, <2>1, LeaveSettles
  <2> QED BY <1>1, <1>2, <2>2, RestSettled
<1>5. CASE At(c, "check") /\ Goto(c, "store")
  <2>1. "store" \in Quick \ {"disable"} /\ job[c].at \in Quick
    BY <1>5 DEF Quick, At
  <2>2. Settled(c)
    BY <1>1, <1>2, <1>5, <2>1, GotoSettles
  <2> QED BY <1>1, <1>2, <2>2, RestSettled
<1> QED BY <1>3, <1>4, <1>5 DEF ReadFails

LEMMA MarkPlain ==
  ASSUME TypeOK, NEW c \in Callers, keepProvider, keepTime, MoreFaults,
         MarkFails(c) \/ ProviderFails(c)
  PROVE  Plain(c)
<1>1. keepRest /\ lock' = lock
  BY DEF MarkFails, ProviderFails, keepRest, keepRedis
<1>2. CASE MarkFails(c)
  <2>1. job[c].at \in Quick /\ "invalidate" \in Quick \ {"disable", "store"}
    BY <1>2 DEF MarkFails, At, Quick
  <2>2. Goto(c, "invalidate") \/ Return(c)
    BY <1>2 DEF MarkFails
  <2> QED BY <1>1, <2>1, <2>2, QuickGoto, QuickReturn
<1>3. CASE ProviderFails(c)
  <2>1. At(c, "refresh") /\ Leave(c, "retry") /\ "retry" \in Results
        /\ "retry" # "refused"
    BY <1>3 DEF ProviderFails, Results
  <2>2. Settled(c)
    BY <1>1, <2>1, LeaveSettles
  <2> QED BY <1>1, <2>2, RestSettled
<1> QED BY <1>2, <1>3

-----------------------------------------------------------------------------
(* The steps that are not plain: a refresh that the provider grants, the   *)
(* write of its result, a crash, and what happens outside the callers.     *)
Granted(c) ==
    /\ At(c, "refresh") /\ job[c].used = issued
    /\ issued' = issued + 1 /\ cred' = cred /\ due' = due /\ urgent' = urgent
    /\ status' = status /\ lock' = lock /\ RestTypes' /\ MoreFaults /\ Moved(c)
    /\ job'[c].acct = job[c].acct /\ job'[c].used = job[c].used
    /\ job'[c].stored = job[c].stored /\ job'[c].shared = job[c].shared
    /\ job'[c].mine = job[c].mine
    /\ \/ job'[c].at = "persist" /\ job'[c].new = issued + 1
       \/ /\ job'[c].at = "leave" /\ job'[c].result = "retry"
          /\ faults'["reply"] # 0

Written(c) ==
    /\ At(c, "persist")
    /\ issued' = issued /\ due' = due /\ urgent' = urgent
    /\ status' = status /\ lock' = lock /\ RestTypes' /\ MoreFaults /\ Moved(c)
    /\ job'[c].used = job[c].used /\ job'[c].stored = job[c].stored
    /\ job'[c].shared = job[c].shared /\ job'[c].mine = job[c].mine
    /\ job'[c].at = "leave" /\ job'[c].result # "refused"
    /\ \/ cred' = job[c].new /\ job'[c].acct = job[c].new
       \/ /\ cred' \in {cred, job[c].new} /\ faults'["write"] # 0
          /\ \/ job'[c].acct = job[c].acct
             \/ job'[c].acct = job[c].new /\ job[c].shared

Crashed ==
    /\ cred' = cred /\ issued' = issued /\ due' = due /\ urgent' = urgent
    /\ status' = status /\ lock' = lock /\ RestTypes' /\ MoreFaults
    /\ faults'["crash"] # 0
    /\ job' \in [Callers -> Jobs]
    /\ \A c \in Callers : job'[c] = job[c] \/ job'[c] = Idle

Outside ==
    /\ cred' = cred /\ issued' = issued /\ job' = job /\ status' = status
    /\ due' \in {due, cred} /\ due =< due' /\ due' < MaxIssued
    /\ urgent' =< due' /\ urgent' \in Nat /\ RestTypes' /\ MoreFaults
    /\ \/ lock' = lock
       \/ lock' = None /\ ~ \E c \in Callers : Protects(c)
       \/ lock' = None /\ faults'["slow"] # 0

LEMMA RefreshGranted ==
  ASSUME TypeOK, Bounds, NEW c \in Callers, UNCHANGED faults, Refresh(c),
         job[c].used = issued
  PROVE  Granted(c)
<1>1. job[c] \in Jobs /\ MoreFaults
  BY Rows, NoFault
<1>2. /\ At(c, "refresh") /\ issued' = issued + 1
      /\ keepStore /\ keepRedis /\ keepTime /\ keepMutex
      /\ job' = [job EXCEPT ![c].at = "persist", ![c].new = issued + 1]
  BY DEF Refresh
<1>3. issued + 1 \in Numbers
  BY <1>2, CallersAssumption DEF TypeOK, Bounds, CallerBounds, Numbers
<1> DEFINE row == [job[c] EXCEPT !.at = "persist", !.new = issued + 1]
<1>4. /\ row \in Jobs /\ row.at = "persist" /\ row.new = issued + 1
      /\ row.acct = job[c].acct /\ row.used = job[c].used
      /\ row.stored = job[c].stored /\ row.shared = job[c].shared
      /\ row.mine = job[c].mine
  BY <1>1, <1>3 DEF Jobs, Points, Protected
<1>5. job' = [job EXCEPT ![c] = row]
  BY <1>1, <1>2 DEF TypeOK, Jobs
<1> HIDE DEF row
<1>6. Moved(c) /\ job'[c] = row
  BY <1>4, <1>5, RowMoves
<1>7. RestTypes' /\ cred' = cred /\ status' = status /\ lock' = lock
      /\ due' = due /\ urgent' = urgent
  BY <1>2 DEF TypeOK, RestTypes, keepStore, keepRedis, keepTime, keepMutex
<1> QED BY <1>1, <1>2, <1>4, <1>6, <1>7 DEF Granted

LEMMA ReplyGranted ==
  ASSUME TypeOK, Bounds, NEW c \in Callers, Fault("reply"), ReplyLost(c), keepTime
  PROVE  Granted(c)
<1>1. job[c] \in Jobs /\ MoreFaults /\ faults'["reply"] # 0
  BY Rows, FaultCounts DEF Kinds, TypeOK
<1>2. /\ At(c, "refresh") /\ issued' = issued + 1 /\ job[c].used = issued
      /\ keepStore /\ keepRedis /\ keepMutex
      /\ Leave(c, "retry") /\ "retry" \in Results
  BY DEF ReplyLost, Results
<1>3. Moved(c) /\ job'[c] = [job[c] EXCEPT !.at = "leave", !.result = "retry"]
  BY <1>2, LeaveMoves
<1>4. /\ job'[c].at = "leave" /\ job'[c].result = "retry"
      /\ job'[c].acct = job[c].acct /\ job'[c].used = job[c].used
      /\ job'[c].stored = job[c].stored /\ job'[c].shared = job[c].shared
      /\ job'[c].mine = job[c].mine
  BY <1>1, <1>3 DEF Jobs
<1>5. RestTypes' /\ cred' = cred /\ status' = status /\ lock' = lock
      /\ due' = due /\ urgent' = urgent
  BY <1>2 DEF TypeOK, RestTypes, keepStore, keepRedis, keepTime, keepMutex
<1> QED BY <1>1, <1>2, <1>3, <1>4, <1>5 DEF Granted

LEMMA PersistWritten ==
  ASSUME TypeOK, NEW c \in Callers, UNCHANGED faults, Persist(c)
  PROVE  Written(c)
<1>1. job[c] \in Jobs /\ MoreFaults
  BY Rows, NoFault
<1>2. /\ At(c, "persist") /\ cred' = job[c].new
      /\ UNCHANGED <<status, deferred>>
      /\ keepRedis /\ keepProvider /\ keepTime /\ keepMutex
      /\ job' = [job EXCEPT ![c].at = "leave", ![c].result = "refreshed",
                            ![c].acct = job[c].new]
  BY DEF Persist
<1> DEFINE row == [job[c] EXCEPT !.at = "leave", !.result = "refreshed",
                                 !.acct = job[c].new]
<1>3. /\ row \in Jobs /\ row.at = "leave" /\ row.result = "refreshed"
      /\ row.acct = job[c].new /\ row.used = job[c].used
      /\ row.stored = job[c].stored /\ row.shared = job[c].shared
      /\ row.mine = job[c].mine
  BY <1>1 DEF Jobs, Points, Protected, Results
<1>4. job' = [job EXCEPT ![c] = row]
  BY <1>1, <1>2 DEF TypeOK, Jobs
<1> HIDE DEF row
<1>5. Moved(c) /\ job'[c] = row
  BY <1>3, <1>4, RowMoves
<1>6. RestTypes' /\ status' = status /\ lock' = lock /\ issued' = issued
      /\ due' = due /\ urgent' = urgent
  BY <1>2 DEF TypeOK, RestTypes, keepProvider, keepRedis, keepTime, keepMutex
<1> QED BY <1>1, <1>2, <1>3, <1>5, <1>6 DEF Written

LEMMA FailureWritten ==
  ASSUME TypeOK, NEW c \in Callers, Fault("write"), PersistFails(c),
         keepProvider, keepTime
  PROVE  Written(c)
<1>1. job[c] \in Jobs /\ MoreFaults /\ faults'["write"] # 0
  BY Rows, FaultCounts DEF Kinds, TypeOK
<1> DEFINE acct == IF job[c].shared THEN job[c].new ELSE job[c].acct
           row == [job[c] EXCEPT !.at = "leave", !.result = "retry",
                                 !.acct = acct]
<1>2. /\ At(c, "persist") /\ cred' \in {cred, job[c].new}
      /\ UNCHANGED <<status, deferred>> /\ keepRedis /\ keepMutex
  BY DEF PersistFails
<1>3. /\ acct \in Numbers
      /\ acct = job[c].acct \/ (acct = job[c].new /\ job[c].shared)
  BY <1>1 DEF Jobs
<1>4. job' = [job EXCEPT ![c] = row]
  BY <1>1 DEF PersistFails, TypeOK, Jobs
<1> HIDE DEF acct
<1>5. /\ row \in Jobs /\ row.at = "leave" /\ row.result = "retry"
      /\ row.acct = acct /\ row.used = job[c].used
      /\ row.stored = job[c].stored /\ row.shared = job[c].shared
      /\ row.mine = job[c].mine
  BY <1>1, <1>3 DEF Jobs, Points, Protected, Results
<1> HIDE DEF row
<1>6. Moved(c) /\ job'[c] = row
  BY <1>4, <1>5, RowMoves
<1>7. RestTypes' /\ status' = status /\ lock' = lock /\ issued' = issued
      /\ due' = due /\ urgent' = urgent
  BY <1>2 DEF TypeOK, RestTypes, keepProvider, keepRedis, keepTime, keepMutex
<1> QED BY <1>1, <1>2, <1>3, <1>5, <1>6, <1>7 DEF Written

LEMMA CrashCrashed ==
  ASSUME TypeOK, NEW h \in Hosts, Fault("crash"), Crash(h), keepProvider, keepTime
  PROVE  Crashed
<1>1. MoreFaults /\ faults'["crash"] # 0
  BY FaultCounts DEF Kinds, TypeOK
<1>2. /\ job' = [c \in Callers |-> IF Host(c) = h THEN Idle ELSE job[c]]
      /\ mutex' = [mutex EXCEPT ![h] = None] /\ keepStore /\ keepRedis
  BY DEF Crash
<1>3. \A c \in Callers : job[c] \in Jobs /\ Idle \in Jobs
  BY Rows
<1>4. /\ job' \in [Callers -> Jobs]
      /\ \A c \in Callers : job'[c] = job[c] \/ job'[c] = Idle
  BY <1>2, <1>3
<1>5. RestTypes' /\ cred' = cred /\ status' = status /\ lock' = lock
      /\ issued' = issued /\ due' = due /\ urgent' = urgent
  BY <1>2 DEF TypeOK, RestTypes, keepStore, keepRedis, keepProvider, keepTime
<1> QED BY <1>1, <1>4, <1>5 DEF Crashed

LEMMA EnvironmentOutside ==
  ASSUME TypeOK, Bounds,
         Time \/ UNCHANGED vars
              \/ (Fault("slow") /\ ExpireEarly /\ keepProvider /\ keepTime)
  PROVE  Outside
<1>1. CASE Time
  <2>1. MoreFaults
    BY <1>1, NoFault DEF Time
  <2>2. CASE ComesDue
    BY <2>1, <2>2 DEF Outside, ComesDue, TypeOK, Bounds, RestTypes, Numbers,
                      keepStore, keepRedis, keepProvider, keepMutex
  <2>3. CASE GetsUrgent
    BY <2>1, <2>3 DEF Outside, GetsUrgent, TypeOK, Bounds, RestTypes, Numbers,
                      keepStore, keepRedis, keepProvider, keepMutex
  <2>4. CASE TokenExpires
    BY <2>1, <2>4 DEF Outside, TokenExpires, TypeOK, Bounds, RestTypes, Numbers,
                      keepStore, keepProvider, keepTime, keepMutex
  <2>5. CASE LockExpires
    BY <2>1, <2>5 DEF Outside, LockExpires, TypeOK, Bounds, RestTypes, Numbers,
                      keepStore, keepProvider, keepTime, keepMutex
  <2>6. CASE BecomesSchedulable
    <3>1. RestTypes'
      BY <2>6 DEF BecomesSchedulable, TypeOK, RestTypes, keepRedis, keepMutex
    <3>2. /\ UNCHANGED <<cred, issued, due, urgent, status, lock, job>>
      BY <2>6 DEF BecomesSchedulable, keepRedis, keepProvider, keepTime
    <3>3. due \in Nat /\ urgent \in Nat /\ urgent =< due /\ due < MaxIssued
      BY DEF TypeOK, Bounds
    <3> QED BY <2>1, <3>1, <3>2, <3>3 DEF Outside
  <2> QED BY <1>1, <2>2, <2>3, <2>4, <2>5, <2>6 DEF Time
<1>2. CASE UNCHANGED vars
  BY <1>2, NoFault DEF vars, Outside, TypeOK, Bounds, RestTypes, Numbers
<1>3. CASE Fault("slow") /\ ExpireEarly /\ keepProvider /\ keepTime
  <2>1. MoreFaults /\ faults'["slow"] # 0
    BY <1>3, FaultCounts DEF Kinds, TypeOK
  <2> QED
    BY <1>3, <2>1 DEF Outside, ExpireEarly, TypeOK, Bounds, RestTypes, Numbers,
                      keepStore, keepProvider, keepTime
<1> QED BY <1>1, <1>2, <1>3

Classified == \/ \E c \in Callers : Plain(c) \/ Granted(c) \/ Written(c)
              \/ Crashed
              \/ Outside

LEMMA StepClassified ==
  ASSUME TypeOK, Bounds, NEW c \in Callers, Proceed(c)
  PROVE  Classified
<1>1. CASE Refresh(c)
  BY <1>1, RefusedPlain, RefreshGranted DEF Proceed, Classified
<1>2. CASE LockMutex(c) \/ AcquireRefreshLock(c)
  BY <1>2, AcquirePlain DEF Proceed, Classified
<1>3. CASE Reread(c)
  BY <1>3, RereadPlain DEF Proceed, Classified
<1>4. CASE Recover(c)
  BY <1>4, RecoverPlain DEF Proceed, Classified
<1>5. CASE Persist(c)
  BY <1>5, PersistWritten DEF Proceed, Classified
<1>6. CASE Release(c)
  BY <1>6, ReleasePlain DEF Proceed, Classified
<1>7. CASE Lookup(c) \/ Wait(c) \/ CheckTokenVersion(c)
  BY <1>7, LookupPlain DEF Proceed, Classified
<1>8. CASE \/ SetAccessToken(c) \/ ClearTempUnschedulable(c)
           \/ InvalidateToken(c) \/ SetError(c) \/ SetTempUnschedulable(c)
  BY <1>8, StorePlain DEF Proceed, Classified
<1> QED
  BY <1>1, <1>2, <1>3, <1>4, <1>5, <1>6, <1>7, <1>8 DEF Proceed, Step

LEMMA DisturbClassified ==
  ASSUME TypeOK, Bounds, Disturb
  PROVE  Classified
<1>1. keepTime
  BY DEF Disturb
<1>2. ASSUME NEW c \in Callers, CallFails(c), keepProvider
      PROVE  Classified
  <2>1. CASE Fault("redis") /\ (LockFails(c) \/ ReleaseFails(c) \/ CacheFails(c))
    BY <1>1, <1>2, <2>1, RedisPlain DEF Classified
  <2>2. CASE Fault("read") /\ ReadFails(c)
    BY <1>1, <1>2, <2>2, ReadPlain DEF Classified
  <2>3. CASE Fault("write") /\ PersistFails(c)
    BY <1>1, <1>2, <2>3, FailureWritten DEF Classified
  <2>4. CASE \/ Fault("write") /\ MarkFails(c)
             \/ Fault("network") /\ ProviderFails(c)
    <3>1. MoreFaults
      BY <2>4, FaultCounts DEF Kinds
    <3> QED BY <1>1, <1>2, <2>4, <3>1, MarkPlain DEF Classified
  <2> QED BY <1>2, <2>1, <2>2, <2>3, <2>4 DEF CallFails
<1>3. ASSUME NEW h \in Hosts, Fault("crash"), Crash(h), keepProvider
      PROVE  Classified
  BY <1>1, <1>3, CrashCrashed DEF Classified
<1>4. ASSUME Fault("slow"), ExpireEarly, keepProvider
      PROVE  Classified
  BY <1>1, <1>4, EnvironmentOutside DEF Classified
<1>5. ASSUME NEW c \in Callers, Fault("reply"), ReplyLost(c)
      PROVE  Classified
  BY <1>1, <1>5, ReplyGranted DEF Classified
<1> QED BY <1>2, <1>3, <1>4, <1>5 DEF Disturb

LEMMA AllClassified ==
  ASSUME TypeOK, Bounds, [Next]_vars
  PROVE  Classified
<1>1. CASE \E c \in Callers : Proceed(c)
  BY <1>1, StepClassified
<1>2. CASE Begin
  <2>1. UNCHANGED faults /\ \E c \in Callers : Request(c) \/ Collect(c)
    BY <1>2 DEF Begin, Callers
  <2>2. PICK c \in Callers : Request(c) \/ Collect(c)
    BY <2>1
  <2>3. Plain(c)
    BY <2>1, <2>2, BeginPlain
  <2> QED BY <2>3 DEF Classified
<1>3. CASE Time \/ UNCHANGED vars
  BY <1>3, EnvironmentOutside DEF Classified
<1>4. CASE Disturb
  BY <1>4, DisturbClassified
<1> QED BY <1>1, <1>2, <1>3, <1>4 DEF Next

-----------------------------------------------------------------------------
(* Types, bounds and the caller that is alone with new credentials. *)
LEMMA InitInv == Init => Inv
<1> SUFFICES ASSUME Init PROVE Inv
  OBVIOUS
<1>1. 1 \in Numbers
  BY CallersAssumption DEF Numbers
<1>2. Idle \in Jobs
  BY <1>1, CallersAssumption DEF Idle, Jobs, Points, Results
<1>3. TypeOK
  <2>1. /\ cred \in Numbers /\ issued \in Numbers
        /\ due \in 0 .. MaxIssued /\ urgent \in 0 .. MaxIssued
    BY <1>1, CallersAssumption DEF Init
  <2>2. /\ status \in {"active", "error"} /\ deferred \in BOOLEAN
        /\ cached \in Numbers \cup {None} /\ lock \in Callers \cup {None}
    BY DEF Init
  <2>3. /\ mutex \in [Hosts -> Callers \cup {None}]
        /\ job \in [Callers -> Jobs] /\ faults \in [Kinds -> Nat]
    BY <1>2 DEF Init
  <2> QED BY <2>1, <2>2, <2>3 DEF TypeOK
<1>4. \A c \in Callers : job[c] = Idle
  BY DEF Init
<1>5. Bounds
  BY <1>4, CallersAssumption DEF Init, Bounds, CallerBounds, Idle, At
<1>6. Alone
  BY <1>4 DEF Alone, Idle, At
<1> QED BY <1>3, <1>5, <1>6 DEF Inv

LEMMA TypesKept ==
  ASSUME Inv, Classified
  PROVE  TypeOK'
<1>1. TypeOK /\ Bounds
  BY DEF Inv
<1> DEFINE Typed == /\ RestTypes' /\ MoreFaults /\ job' \in [Callers -> Jobs]
                   /\ cred' \in Numbers /\ issued' \in Numbers
                   /\ due' \in 0 .. MaxIssued /\ urgent' \in 0 .. MaxIssued
<1>2. Typed
  <2>1. CASE \E c \in Callers : Plain(c)
    BY <1>1, <2>1 DEF Plain, Moved, TypeOK
  <2>2. ASSUME NEW c \in Callers, Granted(c)
        PROVE  Typed
    <3>1. issued + 1 \in Numbers
      BY <1>1, <2>2, CallersAssumption
         DEF Granted, TypeOK, Bounds, CallerBounds, Numbers
    <3> QED BY <1>1, <2>2, <3>1 DEF Granted, Moved, TypeOK
  <2>3. ASSUME NEW c \in Callers, Written(c)
        PROVE  Typed
    <3>1. job[c].new \in Numbers
      BY <1>1, Rows DEF Jobs
    <3> QED BY <1>1, <2>3, <3>1 DEF Written, Moved, TypeOK
  <2>4. CASE Crashed
    BY <1>1, <2>4 DEF Crashed, TypeOK
  <2>5. CASE Outside
    <3>1. due' \in 0 .. MaxIssued /\ urgent' \in 0 .. MaxIssued
      BY <1>1, <2>5, CallersAssumption DEF Outside, TypeOK, Numbers
    <3> QED BY <1>1, <2>5, <3>1 DEF Outside, TypeOK
  <2> HIDE DEF Typed
  <2> QED BY <2>1, <2>2, <2>3, <2>4, <2>5 DEF Classified
<1> QED BY <1>2 DEF RestTypes, MoreFaults, TypeOK

(* Numbers are integers, in this state and the next. *)
LEMMA AllNaturals ==
  ASSUME TypeOK
  PROVE  /\ cred \in Nat /\ issued \in Nat /\ due \in Nat /\ urgent \in Nat
         /\ 1 =< cred
         /\ \A c \in Callers : /\ job[c].acct \in Nat /\ job[c].used \in Nat
                               /\ job[c].new \in Nat /\ job[c].stored \in Nat
  BY Rows, CallersAssumption DEF TypeOK, Numbers, Jobs

LEMMA NextNaturals ==
  ASSUME TypeOK'
  PROVE  /\ cred' \in Nat /\ issued' \in Nat
         /\ \A c \in Callers : /\ job'[c].acct \in Nat /\ job'[c].used \in Nat
                               /\ job'[c].new \in Nat /\ job'[c].stored \in Nat
  BY CallersAssumption DEF TypeOK, Numbers, Jobs

LEMMA BoundsKept ==
  ASSUME Inv, Classified
  PROVE  Bounds'
<1>1. /\ TypeOK /\ Bounds /\ Alone
      /\ \A d \in Callers : CallerBounds(d)
  BY DEF Inv, Bounds
<1>2. CASE \E c \in Callers : Plain(c)
  <2>1. PICK c \in Callers : Plain(c)
    BY <1>2
  <2>2. /\ cred' = cred /\ issued' = issued /\ due' = due /\ urgent' = urgent
        /\ PlainRow(job[c], job'[c])
        /\ \A d \in Callers : d # c => job'[d] = job[d]
    BY <2>1 DEF Plain, Moved
  <2>3. CallerBounds(c)'
    <3>1. /\ job[c].acct =< issued /\ job[c].used =< issued /\ cred =< issued
          /\ job[c].acct \in Nat /\ job[c].used \in Nat
          /\ job'[c].acct \in Nat /\ job'[c].used \in Nat
          /\ cred \in Nat /\ issued \in Nat
      BY <1>1, TypesKept, AllNaturals, NextNaturals DEF CallerBounds, Bounds
    <3>2. job'[c].acct =< issued /\ job'[c].used =< issued
      BY <2>2, <3>1 DEF PlainRow
    <3>3. job'[c].at = "recover" => job'[c].used < issued
      BY <2>2, <3>1 DEF PlainRow
    <3> QED BY <2>2, <3>2, <3>3 DEF CallerBounds, PlainRow, At
  <2>4. \A d \in Callers : CallerBounds(d)'
    BY <1>1, <2>2, <2>3 DEF CallerBounds, At
  <2> QED BY <1>1, <2>2, <2>4 DEF Bounds
<1>3. ASSUME NEW c \in Callers, Granted(c)
      PROVE  Bounds'
  <2>1. /\ \A d \in Callers : d # c => job'[d] = job[d] /\ job[d].at # "persist"
        /\ issued' = issued + 1 /\ UNCHANGED <<cred, due, urgent>>
    BY <1>1, <1>3, AllNaturals
       DEF Granted, Moved, Bounds, CallerBounds, Alone, At
  <2>2. CallerBounds(c)'
    BY <1>1, <1>3, AllNaturals DEF Granted, CallerBounds, Bounds, At
  <2>3. \A d \in Callers : d # c => CallerBounds(d)'
    BY <1>1, <2>1, AllNaturals DEF CallerBounds, At
  <2> QED BY <1>1, <2>1, <2>2, <2>3, AllNaturals DEF Bounds
<1>4. ASSUME NEW c \in Callers, Written(c)
      PROVE  Bounds'
  <2>1. /\ \A d \in Callers : d # c => job'[d] = job[d] /\ job[d].at # "persist"
        /\ UNCHANGED <<issued, due, urgent>>
    BY <1>1, <1>4 DEF Written, Moved, Alone, At
  <2>2. job[c].new = issued /\ cred =< issued /\ job[c].acct =< issued
    BY <1>1, <1>4 DEF Written, Bounds, CallerBounds
  <2>3. cred' =< issued /\ job'[c].acct =< issued
    BY <1>1, <1>4, <2>2, AllNaturals DEF Written
  <2>4. CallerBounds(c)'
    BY <1>1, <1>4, <2>3 DEF Written, CallerBounds, At
  <2>5. \A d \in Callers : d # c => CallerBounds(d)'
    BY <1>1, <2>1 DEF CallerBounds, At
  <2> QED BY <1>1, <2>1, <2>3, <2>4, <2>5 DEF Bounds
<1>5. CASE Crashed
  <2>1. \A d \in Callers : CallerBounds(d)'
    BY <1>1, <1>5, AllNaturals DEF Crashed, Bounds, CallerBounds, Idle, At
  <2> QED BY <1>1, <1>5, <2>1 DEF Crashed, Bounds
<1>6. CASE Outside
  <2>1. \A d \in Callers : CallerBounds(d)'
    BY <1>1, <1>6, AllNaturals DEF Outside, CallerBounds, At
  <2> QED BY <1>1, <1>6, <2>1 DEF Outside, Bounds
<1> QED BY <1>2, <1>3, <1>4, <1>5, <1>6 DEF Classified

LEMMA AloneKept ==
  ASSUME Inv, Classified
  PROVE  Alone'
<1>1. TypeOK /\ Bounds /\ Alone
  BY DEF Inv
<1>2. CASE \E c \in Callers : Plain(c)
  <2>1. PICK c \in Callers : Plain(c)
    BY <1>2
  <2>2. /\ issued' = issued /\ PlainRow(job[c], job'[c])
        /\ \A d \in Callers : d # c => job'[d] = job[d]
    BY <2>1 DEF Plain, Moved
  <2>3. SUFFICES ASSUME NEW a \in Callers, NEW d \in Callers, a # d,
                        job'[a].at = "persist"
                 PROVE  /\ job'[d].at # "persist"
                        /\ job'[d].acct < issued /\ job'[d].used < issued
    BY <2>2 DEF Alone, At
  <2>4. a # c /\ job[a].at = "persist"
    BY <2>2, <2>3 DEF PlainRow
  <2>5. /\ job[d].at # "persist" /\ cred < issued
        /\ job[d].acct < issued /\ job[d].used < issued
    BY <1>1, <2>3, <2>4 DEF Bounds, CallerBounds, Alone, At
  <2>6. CASE d # c
    BY <2>2, <2>5, <2>6
  <2>7. CASE d = c
    <3>1. /\ job'[c].acct \in Nat /\ job'[c].used \in Nat
          /\ job[c].acct \in Nat /\ job[c].used \in Nat
          /\ cred \in Nat /\ issued \in Nat
      BY <1>1, TypesKept, AllNaturals, NextNaturals
    <3> QED BY <2>2, <2>5, <2>7, <3>1 DEF PlainRow
  <2> QED BY <2>6, <2>7
<1>3. ASSUME NEW c \in Callers, Granted(c)
      PROVE  Alone'
  <2>1. \A d \in Callers : d # c => job'[d] = job[d] /\ job[d].at # "persist"
    BY <1>1, <1>3, AllNaturals DEF Granted, Moved, Bounds, CallerBounds, Alone, At
  <2> QED BY <1>1, <1>3, <2>1, AllNaturals
          DEF Granted, Bounds, CallerBounds, Alone, At
<1>4. ASSUME NEW c \in Callers, Written(c)
      PROVE  Alone'
  <2>1. \A d \in Callers : d # c => job'[d] = job[d] /\ job[d].at # "persist"
    BY <1>1, <1>4 DEF Written, Moved, Alone, At
  <2> QED BY <1>4, <2>1 DEF Written, Alone, At
<1>5. CASE Crashed
  <2>1. \A c \in Callers : At(c, "persist")' => At(c, "persist")
    BY <1>5 DEF Crashed, Idle, At
  <2>2. \A c \in Callers : At(c, "persist") => 1 < issued
    BY <1>1, AllNaturals DEF Bounds, CallerBounds
  <2>3. \A d \in Callers : \/ job'[d] = job[d]
                            \/ /\ job'[d].acct = 1 /\ job'[d].used = 1
                               /\ job'[d].at # "persist"
    BY <1>5 DEF Crashed, Idle
  <2>4. issued' = issued
    BY <1>5 DEF Crashed
  <2> QED BY <1>1, <2>1, <2>2, <2>3, <2>4 DEF Alone, At
<1>6. CASE Outside
  BY <1>1, <1>6 DEF Outside, Alone, At
<1> QED BY <1>2, <1>3, <1>4, <1>5, <1>6 DEF Classified

LEMMA StepInv == Inv /\ [Next]_vars => Inv'
<1> SUFFICES ASSUME Inv, [Next]_vars PROVE Inv'
  OBVIOUS
<1>1. Classified
  BY AllClassified DEF Inv
<1> QED BY <1>1, TypesKept, BoundsKept, AloneKept DEF Inv

LEMMA Invariance == Spec => []Inv
<1> QED BY InitInv, StepInv, PTL DEF Spec

(* Every variable keeps its type, and never more than MaxIssued            *)
(* credentials are issued, whatever fails: RefreshIfNeeded refreshes only  *)
(* what it has found to expire.                                            *)
THEOREM TypeCorrect == Spec => []TypeOK
<1>1. Inv => TypeOK
  BY DEF Inv
<1> QED BY <1>1, Invariance, PTL

(* persistAccountCredentials never overwrites credentials with older ones, *)
(* with any number of instances and without a lock that could be relied on.*)
THEOREM NeverRegress == Spec => CredentialsNeverRegress
<1>1. Inv /\ [Next]_vars => [cred' >= cred]_cred
  <2> SUFFICES ASSUME Inv, [Next]_vars PROVE cred' >= cred
    OBVIOUS
  <2>1. TypeOK /\ Bounds /\ Classified
    BY AllClassified DEF Inv
  <2>2. ASSUME NEW c \in Callers, Written(c)
        PROVE  cred' >= cred
    BY <2>1, <2>2, AllNaturals DEF Written, Bounds, CallerBounds
  <2> QED BY <2>1, <2>2, AllNaturals DEF Classified, Plain, Granted, Crashed, Outside
<1> QED BY <1>1, Invariance, PTL DEF CredentialsNeverRegress, Spec

-----------------------------------------------------------------------------
LEMMA SparedBefore ==
  ASSUME TypeOK, MoreFaults, NEW kinds \in SUBSET Kinds, Spared(kinds)'
  PROVE  Spared(kinds)
  BY DEF TypeOK, MoreFaults, Spared

LEMMA MoreFaultsAlways ==
  ASSUME Classified
  PROVE  MoreFaults
  BY DEF Classified, Plain, Granted, Written, Crashed, Outside

LEMMA NewestStep ==
  ASSUME Inv, Classified, NewestIsKept
  PROVE  NewestIsKept'
<1> DEFINE kinds == {"reply", "write", "crash"}
<1>1. TypeOK /\ Bounds /\ Alone
  BY DEF Inv
<1>2. SUFFICES ASSUME Spared(kinds)', cred' # issued'
               PROVE  \E c \in Callers :
                         At(c, "persist")' /\ job'[c].new = issued'
  BY DEF NewestIsKept
<1>3. /\ Spared(kinds)
      /\ faults'["reply"] = 0 /\ faults'["write"] = 0 /\ faults'["crash"] = 0
  BY <1>1, <1>2, SparedBefore, MoreFaultsAlways DEF Kinds, Spared
<1>4. CASE cred = issued
  <2>1. ASSUME NEW c \in Callers, Granted(c)
        PROVE  At(c, "persist")' /\ job'[c].new = issued'
    BY <1>3, <2>1 DEF Granted, At
  <2>2. ASSUME NEW c \in Callers, Written(c)
        PROVE  FALSE
    BY <1>1, <1>4, <2>2, AllNaturals DEF Written, Bounds, CallerBounds
  <2>3. ASSUME NEW c \in Callers, Plain(c)
        PROVE  FALSE
    BY <1>2, <1>4, <2>3 DEF Plain
  <2>4. ~ Crashed /\ ~ Outside
    BY <1>2, <1>4 DEF Crashed, Outside
  <2> QED BY <2>1, <2>2, <2>3, <2>4 DEF Classified
<1>5. CASE cred # issued
  <2>1. PICK a \in Callers : At(a, "persist") /\ job[a].new = issued
    BY <1>3, <1>5 DEF NewestIsKept
  <2>2. ASSUME NEW c \in Callers, Plain(c)
        PROVE  At(a, "persist")' /\ job'[a].new = issued'
    BY <2>1, <2>2 DEF Plain, PlainRow, Moved, At
  <2>3. ASSUME NEW c \in Callers, Granted(c)
        PROVE  At(c, "persist")' /\ job'[c].new = issued'
    BY <1>3, <2>3 DEF Granted, At
  <2>4. ASSUME NEW c \in Callers, Written(c)
        PROVE  FALSE
    <3>1. cred' = issued'
      BY <1>1, <1>3, <2>4 DEF Written, Bounds, CallerBounds
    <3> QED BY <1>2, <3>1
  <2>5. CASE Crashed
    BY <1>3, <2>5 DEF Crashed
  <2>6. CASE Outside
    BY <2>1, <2>6 DEF Outside, At
  <2> QED BY <2>2, <2>3, <2>4, <2>5, <2>6 DEF Classified
<1> QED BY <1>4, <1>5

(* The refresh token that the provider will take next is in the database   *)
(* or about to be written there, unless a reply, a statement or an         *)
(* instance is lost: no interleaving of refreshes throws it away.          *)
THEOREM NewestKept == Spec => []NewestIsKept
<1>1. Init => NewestIsKept
  BY DEF Init, NewestIsKept
<1>2. Inv /\ NewestIsKept /\ [Next]_vars => NewestIsKept'
  <2> SUFFICES ASSUME Inv, NewestIsKept, [Next]_vars PROVE NewestIsKept'
    OBVIOUS
  <2> QED BY AllClassified, NewestStep DEF Inv
<1> QED BY <1>1, <1>2, Invariance, PTL DEF Spec

-----------------------------------------------------------------------------
(* What a call has found in the database is not newer than what is there.  *)
StoredBefore == \A c \in Callers : job[c].stored =< cred

CacheInv ==
    /\ StoredBefore
    /\ faults["read"] = 0 =>
          \A c \in Callers : At(c, "store") => job[c].acct >= job[c].stored

LEMMA CacheStep ==
  ASSUME Inv, Classified, CacheInv
  PROVE  CacheInv'
<1>1. TypeOK /\ TypeOK' /\ Bounds /\ MoreFaults /\ StoredBefore
  BY TypesKept, MoreFaultsAlways DEF Inv, CacheInv
<1>2. faults'["read"] = 0 => faults["read"] = 0
  BY <1>1 DEF TypeOK, MoreFaults, Kinds
<1>3. ASSUME NEW c \in Callers, Plain(c)
      PROVE  CacheInv'
  <2>1. /\ cred' = cred /\ PlainRow(job[c], job'[c])
        /\ \A d \in Callers : d # c => job'[d] = job[d]
    BY <1>3 DEF Plain, Moved
  <2>2. /\ cred \in Nat /\ job'[c].acct \in Nat /\ job'[c].stored \in Nat
        /\ job[c].stored =< cred
    BY <1>1, AllNaturals, NextNaturals DEF StoredBefore
  <2>3. /\ job'[c].stored =< cred
        /\ job'[c].at = "store" /\ faults'["read"] = 0 =>
              job'[c].acct >= job'[c].stored
    BY <2>1, <2>2 DEF PlainRow
  <2>4. StoredBefore'
    BY <1>1, <2>1, <2>3 DEF StoredBefore
  <2> QED BY <1>2, <2>1, <2>3, <2>4 DEF CacheInv, At
<1>4. ASSUME NEW c \in Callers, Granted(c)
      PROVE  CacheInv'
  <2>1. /\ cred' = cred /\ job'[c].stored = job[c].stored /\ job'[c].at # "store"
        /\ \A d \in Callers : d # c => job'[d] = job[d]
    BY <1>4 DEF Granted, Moved
  <2>2. StoredBefore'
    BY <1>1, <2>1 DEF StoredBefore
  <2> QED BY <1>2, <2>1, <2>2 DEF CacheInv, At
<1>5. ASSUME NEW c \in Callers, Written(c)
      PROVE  CacheInv'
  <2>1. /\ job'[c].stored = job[c].stored /\ job'[c].at # "store"
        /\ \A d \in Callers : d # c => job'[d] = job[d]
    BY <1>5 DEF Written, Moved
  <2>2. cred =< cred' /\ cred' \in Nat /\ cred \in Nat
    BY <1>1, <1>5, AllNaturals, NextNaturals DEF Written, Bounds, CallerBounds
  <2>3. \A d \in Callers : job'[d].stored =< cred'
    BY <1>1, <2>1, <2>2, AllNaturals DEF StoredBefore
  <2> QED BY <1>2, <2>1, <2>3 DEF CacheInv, StoredBefore, At
<1>6. CASE Crashed
  <2>1. \A d \in Callers : \/ job'[d] = job[d]
                           \/ job'[d].stored = 1 /\ job'[d].at # "store"
    BY <1>6 DEF Crashed, Idle
  <2>2. cred' = cred /\ 1 =< cred
    BY <1>1, <1>6, AllNaturals DEF Crashed
  <2> QED BY <1>1, <1>2, <2>1, <2>2 DEF CacheInv, StoredBefore, At
<1>7. CASE Outside
  BY <1>2, <1>7 DEF CacheInv, StoredBefore, Outside, At
<1> QED BY <1>3, <1>4, <1>5, <1>6, <1>7 DEF Classified

(* GetAccessToken does not cache a token that is older than the one in the *)
(* database when the call began, unless CheckTokenVersion cannot read.     *)
THEOREM CachesNothingOlder == Spec => []CachesNoOlder
<1>1. Init => CacheInv
  BY DEF Init, CacheInv, StoredBefore, Idle, At
<1>2. Inv /\ CacheInv /\ [Next]_vars => CacheInv'
  <2> SUFFICES ASSUME Inv, CacheInv, [Next]_vars PROVE CacheInv'
    OBVIOUS
  <2> QED BY AllClassified, CacheStep DEF Inv
<1>3. CacheInv => CachesNoOlder
  BY DEF CacheInv, CachesNoOlder, Spared, Callers
<1> QED BY <1>1, <1>2, <1>3, Invariance, PTL DEF Spec

-----------------------------------------------------------------------------
(* An account is not disabled too early.  As long as Redis keeps the lock, *)
(* it is the lock of the only caller that reads, refreshes and writes; and *)
(* what that caller has read is what the database holds, unless the read   *)
(* failed.                                                                 *)
LockKept == Spared({"redis", "slow"})

Locked(c) == /\ job[c].mine => lock = c /\ job[c].at \in Protected
             /\ job[c].at \in Inside => job[c].mine

Exclusive == LockKept => \A c \in Callers : Locked(c)

Current(c) == /\ job[c].acct =< cred /\ ~ job[c].shared
              /\ LockKept /\ job[c].at \in Inside \ {"reread"} =>
                    job[c].used = cred

Fresh == faults["read"] = 0 => \A c \in Callers : Current(c)

Condemned == status = "error" \/ \E c \in Callers : Refused(job[c])

(* Once a refusal is believed, nobody can refresh any more. *)
Hopeless(c) == ~ At(c, "persist") /\ (At(c, "refresh") => job[c].used < issued)

Dead ==
    LockKept /\ faults["read"] =< 1 /\ Condemned =>
        cred < issued /\ \A c \in Callers : Hopeless(c)

LockInv == Exclusive /\ Fresh /\ Dead

LEMMA KeptBefore ==
  ASSUME TypeOK, MoreFaults, LockKept'
  PROVE  LockKept /\ faults'["redis"] = 0 /\ faults'["slow"] = 0
<1>1. {"redis", "slow"} \in SUBSET Kinds
  BY DEF Kinds
<1> QED BY <1>1, SparedBefore DEF LockKept, Spared

LEMMA ExclusiveStep ==
  ASSUME Inv, Classified, Exclusive
  PROVE  Exclusive'
<1>1. TypeOK /\ MoreFaults
  BY MoreFaultsAlways DEF Inv
<1>2. SUFFICES ASSUME LockKept' PROVE \A c \in Callers : Locked(c)'
  BY DEF Exclusive
<1>3. /\ faults'["redis"] = 0 /\ faults'["slow"] = 0
      /\ \A c \in Callers : Locked(c)
  BY <1>1, <1>2, KeptBefore DEF Exclusive
<1>4. ASSUME NEW c \in Callers, Plain(c)
      PROVE  \A d \in Callers : Locked(d)'
  <2>1. /\ LockRow(c, job[c], job'[c])
        /\ \A d \in Callers : d # c => job'[d] = job[d]
    BY <1>3, <1>4 DEF Plain, Moved
  <2>2. Locked(c)'
    BY <1>3, <2>1 DEF LockRow, Locked
  <2>3. ASSUME NEW d \in Callers, d # c
        PROVE  Locked(d)'
    BY <1>3, <2>1, <2>3, CallersAssumption DEF LockRow, Locked
  <2> QED BY <2>2, <2>3
<1>5. ASSUME NEW c \in Callers, Granted(c) \/ Written(c)
      PROVE  \A d \in Callers : Locked(d)'
  <2>1. /\ lock' = lock /\ job'[c].mine = job[c].mine
        /\ job[c].at \in Inside /\ job'[c].at \in Protected
        /\ \A d \in Callers : d # c => job'[d] = job[d]
    BY <1>5 DEF Granted, Written, Moved, At, Inside, Protected
  <2> QED BY <1>3, <2>1 DEF Locked
<1>6. CASE Crashed
  <2>1. lock' = lock
        /\ \A d \in Callers : \/ job'[d] = job[d]
                              \/ ~ job'[d].mine /\ job'[d].at \notin Inside
    BY <1>6 DEF Crashed, Idle, Inside
  <2> QED BY <1>3, <2>1 DEF Locked
<1>7. CASE Outside
  <2>1. job' = job
        /\ \/ lock' = lock
           \/ \A d \in Callers :
                 ~ (lock = d /\ job[d].mine /\ job[d].at \in Protected)
    BY <1>3, <1>7 DEF Outside, Protects
  <2> QED BY <1>3, <2>1 DEF Locked
<1> QED BY <1>4, <1>5, <1>6, <1>7 DEF Classified

(* Only one caller is past the lock. *)
LEMMA OneInside ==
  ASSUME Exclusive, LockKept, NEW c \in Callers, NEW d \in Callers, c # d,
         job[c].at \in Inside
  PROVE  job[d].at \notin Inside
  BY DEF Exclusive, Locked

LEMMA FreshStep ==
  ASSUME Inv, Classified, Exclusive, Fresh
  PROVE  Fresh'
<1>1. TypeOK /\ TypeOK' /\ Bounds /\ MoreFaults
  BY TypesKept, MoreFaultsAlways DEF Inv
<1>2. SUFFICES ASSUME faults'["read"] = 0 PROVE \A c \in Callers : Current(c)'
  BY DEF Fresh
<1>3. faults["read"] = 0 /\ \A c \in Callers : Current(c)
  BY <1>1, <1>2 DEF TypeOK, MoreFaults, Kinds, Fresh
<1>4. LockKept' => LockKept
  BY <1>1, KeptBefore
<1>5. ASSUME NEW c \in Callers, Plain(c)
      PROVE  \A d \in Callers : Current(d)'
  <2>1. /\ cred' = cred /\ PlainRow(job[c], job'[c])
        /\ \A d \in Callers : d # c => job'[d] = job[d]
    BY <1>5 DEF Plain, Moved
  <2>2. faults'["read"] # faults["read"] + 1
    BY <1>2, <1>3
  <2>3. job'[c].acct =< cred /\ ~ job'[c].shared
    BY <1>3, <2>1, <2>2 DEF PlainRow, Current
  <2>4. job'[c].at = "refresh" => job'[c].used = cred
    BY <2>1, <2>2 DEF PlainRow
  <2>5. LockKept /\ job'[c].at = "recover" => job'[c].used = cred
    BY <1>3, <2>1 DEF PlainRow, Current, Inside
  <2>6. job'[c].at # "persist"
    BY <2>1 DEF PlainRow
  <2>7. Current(c)'
    BY <1>4, <2>1, <2>3, <2>4, <2>5, <2>6 DEF Current, Inside
  <2> QED BY <1>3, <1>4, <2>1, <2>7 DEF Current
<1>6. ASSUME NEW c \in Callers, Granted(c)
      PROVE  \A d \in Callers : Current(d)'
  <2>1. /\ cred' = cred /\ job'[c].acct = job[c].acct
        /\ job'[c].shared = job[c].shared /\ job'[c].used = job[c].used
        /\ job[c].at \in Inside \ {"reread"}
        /\ \A d \in Callers : d # c => job'[d] = job[d]
    BY <1>6 DEF Granted, Moved, At, Inside
  <2> QED BY <1>3, <1>4, <2>1 DEF Current
<1>7. ASSUME NEW c \in Callers, Written(c)
      PROVE  \A d \in Callers : Current(d)'
  <2>1. /\ job'[c].shared = job[c].shared /\ job'[c].at \notin Inside
        /\ job[c].at \in Inside
        /\ \A d \in Callers : d # c => job'[d] = job[d]
    BY <1>7 DEF Written, Moved, At, Inside
  <2>2. cred =< cred' /\ cred' \in Nat /\ cred \in Nat
    BY <1>1, <1>7, AllNaturals, NextNaturals DEF Written, Bounds, CallerBounds
  <2>3. job'[c].acct =< cred'
    BY <1>1, <1>3, <1>7, <2>2, AllNaturals DEF Written, Current
  <2>4. Current(c)'
    BY <1>3, <2>1, <2>3 DEF Current
  <2>5. ASSUME NEW d \in Callers, d # c
        PROVE  Current(d)'
    <3>1. job[d].acct =< cred' /\ ~ job[d].shared
      BY <1>1, <1>3, <2>2, AllNaturals DEF Current
    <3>2. LockKept' => job[d].at \notin Inside
      BY <1>4, <2>1, <2>5, OneInside
    <3> QED BY <2>1, <2>5, <3>1, <3>2 DEF Current
  <2> QED BY <2>4, <2>5
<1>8. CASE Crashed
  <2>1. \A d \in Callers : \/ job'[d] = job[d]
                           \/ /\ job'[d].acct = 1 /\ ~ job'[d].shared
                              /\ job'[d].at \notin Inside
    BY <1>8 DEF Crashed, Idle, Inside
  <2>2. cred' = cred /\ 1 =< cred
    BY <1>1, <1>8, AllNaturals DEF Crashed
  <2> QED BY <1>3, <1>4, <2>1, <2>2 DEF Current
<1>9. CASE Outside
  BY <1>3, <1>4, <1>9 DEF Current, Outside
<1> QED BY <1>5, <1>6, <1>7, <1>8, <1>9 DEF Classified

(* A refusal is believed only if the database, read again under the lock,  *)
(* has nothing newer than what the provider refused.                       *)
LEMMA DeadStep ==
  ASSUME Inv, Classified, LockInv
  PROVE  Dead'
<1>1. /\ TypeOK /\ TypeOK' /\ Bounds /\ MoreFaults
      /\ Exclusive /\ Fresh /\ Dead
      /\ \A c \in Callers : CallerBounds(c)
  BY TypesKept, MoreFaultsAlways DEF Inv, LockInv, Bounds
<1>2. SUFFICES ASSUME LockKept', faults'["read"] =< 1, Condemned'
               PROVE  cred' < issued' /\ \A c \in Callers : Hopeless(c)'
  BY DEF Dead
<1>3. /\ LockKept /\ faults["read"] =< 1
      /\ faults'["read"] = faults["read"] + 1 => faults["read"] = 0
  <2>1. /\ faults["read"] \in Nat /\ faults'["read"] \in Nat
        /\ faults["read"] =< faults'["read"]
    BY <1>1 DEF TypeOK, MoreFaults, Kinds
  <2> QED BY <1>1, <1>2, <2>1, KeptBefore
<1>4. Condemned => cred < issued /\ \A c \in Callers : Hopeless(c)
  BY <1>1, <1>3 DEF Dead
<1>5. ASSUME NEW c \in Callers, Plain(c)
      PROVE  cred' < issued' /\ \A d \in Callers : Hopeless(d)'
  <2>1. /\ cred' = cred /\ issued' = issued /\ PlainRow(job[c], job'[c])
        /\ \A d \in Callers : d # c => job'[d] = job[d]
        /\ status' = status \/ At(c, "disable")
    BY <1>5 DEF Plain, Moved
  <2>2. CASE Condemned
    <3>1. cred < issued /\ \A d \in Callers : Hopeless(d)
      BY <1>4, <2>2
    <3>2. job'[c].at # "persist"
      BY <2>1 DEF PlainRow
    <3>3. faults["read"] = 0 => job[c].acct =< cred
      BY <1>1 DEF Fresh, Current
    <3>4. job'[c].at = "refresh" =>
             \/ job'[c].used = cred
             \/ job'[c].used = job[c].acct /\ job[c].acct =< cred
      BY <1>3, <2>1, <3>3 DEF PlainRow
    <3>5. job'[c].at = "refresh" => job'[c].used < issued
      BY <1>1, <3>1, <3>4, AllNaturals
    <3>6. Hopeless(c)'
      BY <2>1, <3>2, <3>5 DEF Hopeless, At
    <3> QED BY <2>1, <3>1, <3>6 DEF Hopeless, At
  <2>3. CASE ~ Condemned
    <3>1. status # "error" /\ ~ Refused(job[c]) /\ ~ At(c, "disable")
          /\ \A d \in Callers : ~ Refused(job[d])
      BY <2>3 DEF Condemned, Refused, At
    <3>2. Refused(job'[c])
      BY <1>2, <2>1, <3>1 DEF Condemned
    <3>3. /\ job[c].at = "recover"
          /\ cred = job[c].used \/ faults'["read"] = faults["read"] + 1
      BY <2>1, <3>1, <3>2 DEF PlainRow
    <3>4. cred = job[c].used
      BY <1>1, <1>3, <3>3 DEF Fresh, Current, Inside
    <3>5. cred < issued
      BY <1>1, <3>3, <3>4 DEF CallerBounds, At
    <3>6. ASSUME NEW d \in Callers, d # c
          PROVE  Hopeless(d)'
      <4>1. job[d].at \notin Inside
        BY <1>1, <1>3, <3>3, <3>6, OneInside DEF Inside
      <4> QED BY <2>1, <3>6, <4>1 DEF Hopeless, At, Inside
    <3>7. Hopeless(c)'
      BY <3>2 DEF Hopeless, Refused, At
    <3> QED BY <2>1, <3>5, <3>6, <3>7
  <2> QED BY <2>2, <2>3
<1>6. ASSUME NEW c \in Callers, Granted(c) \/ Written(c)
      PROVE  FALSE
  <2>1. /\ status' = status /\ ~ Refused(job'[c])
        /\ \A d \in Callers : d # c => job'[d] = job[d]
    BY <1>6 DEF Granted, Written, Moved, Refused
  <2>2. Condemned
    BY <1>2, <2>1 DEF Condemned
  <2>3. Hopeless(c)
    BY <1>4, <2>2
  <2> QED BY <1>1, <1>6, <2>3, AllNaturals DEF Hopeless, Granted, Written
<1>7. CASE Crashed
  <2>1. /\ cred' = cred /\ issued' = issued /\ status' = status
        /\ \A d \in Callers : \/ job'[d] = job[d]
                              \/ ~ Refused(job'[d]) /\ job'[d].at = "idle"
    BY <1>7 DEF Crashed, Idle, Refused
  <2>2. Condemned
    BY <1>2, <2>1 DEF Condemned
  <2> QED BY <1>4, <2>1, <2>2 DEF Hopeless, At
<1>8. CASE Outside
  <2>1. Condemned
    BY <1>2, <1>8 DEF Condemned, Outside
  <2> QED BY <1>4, <1>8, <2>1 DEF Hopeless, At, Outside
<1> QED BY <1>5, <1>6, <1>7, <1>8 DEF Classified

(* "race recovery": as long as Redis keeps the lock and the database fails *)
(* to answer at most once, an account is not disabled for an invalid_grant *)
(* that another refresh has caused.                                        *)
THEOREM DisabledOnlyDead == Spec => []DisabledIsDead
<1>1. Init => LockInv
  <2> SUFFICES ASSUME Init PROVE LockInv
    OBVIOUS
  <2>1. cred = 1 /\ status = "active" /\ \A c \in Callers : job[c] = Idle
    BY DEF Init
  <2> QED BY <2>1 DEF LockInv, Exclusive, Locked, Fresh, Current, Dead, Condemned,
                      Refused, Idle, Inside
<1>2. Inv /\ LockInv /\ [Next]_vars => LockInv'
  <2> SUFFICES ASSUME Inv, LockInv, [Next]_vars PROVE LockInv'
    OBVIOUS
  <2>1. Classified
    BY AllClassified DEF Inv
  <2> QED BY <2>1, ExclusiveStep, FreshStep, DeadStep DEF LockInv
<1>3. Inv /\ LockInv => DisabledIsDead
  <2> SUFFICES ASSUME Inv, LockInv, Spared({"redis", "slow"}),
                      faults["read"] =< 1, status = "error"
               PROVE  cred # issued
    BY DEF DisabledIsDead
  <2>1. cred < issued
    BY DEF LockInv, Dead, LockKept, Condemned
  <2> QED BY <2>1, AllNaturals DEF Inv
<1> QED BY <1>1, <1>2, <1>3, Invariance, PTL DEF Spec
===============================================================================
