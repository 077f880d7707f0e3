-------------------------- MODULE OAuthTokenRefresh --------------------------
(***************************************************************************)
(* Refreshing the OAuth token of one account (oauth_refresh_api.go) by the *)
(* requests that need it (claude_token_provider.go) and by the background  *)
(* service of every server instance (token_refresh_service.go).            *)
(*                                                                         *)
(* The provider rotates refresh tokens: each is good for one refresh.      *)
(* Credentials are numbered in the order in which the provider issues      *)
(* them; the number also stands for _token_version.  The scheduler's copy  *)
(* of an account, from which a request takes it, may be older than the     *)
(* database.                                                               *)
(***************************************************************************)
EXTENDS Integers, FiniteSets

CONSTANTS Requests,     \* calls of GetAccessToken
          Services,     \* background services, one per instance
          HostOf,       \* the instance of each of them
          MaxRetries,   \* attempts of the background service
          MaxIssued,    \* bound: credentials that are ever issued
          MaxFaults,    \* bound: things that go wrong
          None

Callers == Requests \cup Services
Hosts == {HostOf[c] : c \in Callers}

ASSUME CallersAssumption ==
    /\ Requests \cap Services = {}
    /\ None \notin Callers
    /\ MaxRetries \in Nat \ {0} /\ MaxIssued \in Nat \ {0} /\ MaxFaults \in Nat

VARIABLES cred,     \* credentials in the database
          issued,   \* the newest the provider has issued
          due,      \* the newest that expire within the service's window
          urgent,   \* the newest that expire within the requests' window
          status,   \* the account's status
          deferred, \* temp_unschedulable_until is in the future
          cached,   \* the access token in Redis
          lock,     \* who has set the lock in Redis; the key has no owner
          mutex,    \* the mutex of each instance
          job,      \* what each caller is doing
          faults    \* what has gone wrong, by kind

vars == <<cred, issued, due, urgent, status, deferred, cached, lock, mutex,
          job, faults>>

Numbers == 1 .. MaxIssued

(* redis: a command fails; slow: the lock expires before its holder is     *)
(* done; read, write: a statement fails; network, reply: the provider is   *)
(* not reached, or not heard; crash: an instance dies.                     *)
Kinds == {"redis", "slow", "read", "write", "network", "reply", "crash"}

Protected == {"reread", "refresh", "recover", "persist", "leave"}

Points == {"idle", "lookup", "mutex", "lock", "wait", "check", "store", "clear",
           "invalidate", "disable", "defer"} \cup Protected

Results == {"none", "refreshed", "current", "held", "retry", "refused"}

(* acct: the account passed to RefreshIfNeeded; used: the account it works *)
(* with; shared: both are one object, since the row could not be read; new:*)
(* what a refresh returned; mine: the lock was acquired; blocked: used was *)
(* unschedulable; stored: what the database held when the call began.      *)
Jobs == [at : Points, acct : Numbers, used : Numbers, shared : BOOLEAN,
         new : Numbers, mine : BOOLEAN, result : Results,
         attempt : 1 .. MaxRetries, blocked : BOOLEAN, stored : Numbers]

Idle == [at |-> "idle", acct |-> 1, used |-> 1, shared |-> FALSE, new |-> 1,
         mine |-> FALSE, result |-> "none", attempt |-> 1, blocked |-> FALSE,
         stored |-> 1]

Init ==
    /\ cred = 1 /\ issued = 1
    /\ due = 0 /\ urgent = 0
    /\ status = "active" /\ deferred = FALSE
    /\ cached = None
    /\ lock = None
    /\ mutex = [h \in Hosts |-> None]
    /\ job = [c \in Callers |-> Idle]
    /\ faults = [kind \in Kinds |-> 0]

-----------------------------------------------------------------------------
At(c, point) == job[c].at = point

Goto(c, point) == job' = [job EXCEPT ![c].at = point]

Return(c) == job' = [job EXCEPT ![c] = Idle]

Leave(c, result) == job' = [job EXCEPT ![c].at = "leave", ![c].result = result]

Host(c) == HostOf[c]

(* The refresh window of the caller. *)
Window(c) == IF c \in Requests THEN urgent ELSE due

keepStore == UNCHANGED <<cred, status, deferred>>
keepRedis == UNCHANGED <<cached, lock>>
keepProvider == UNCHANGED issued
keepTime == UNCHANGED <<due, urgent>>
keepMutex == UNCHANGED mutex

-----------------------------------------------------------------------------
(* GetAccessToken, with an account as old as the scheduler's copy of it. *)
Request(c) ==
    /\ At(c, "idle")
    /\ \E acct \in 1 .. cred :
           job' = [job EXCEPT ![c].at = "lookup", ![c].acct = acct,
                              ![c].stored = cred]
    /\ keepStore /\ keepRedis /\ keepProvider /\ keepTime /\ keepMutex

(* processRefresh: the account is listed and needs a refresh. *)
Collect(c) ==
    /\ At(c, "idle")
    /\ status = "active" /\ ~ deferred
    /\ cred =< due
    /\ job' = [job EXCEPT ![c].at = "mutex", ![c].acct = cred]
    /\ keepStore /\ keepRedis /\ keepProvider /\ keepTime /\ keepMutex

MissCache(c) == Goto(c, IF job[c].acct =< urgent THEN "mutex" ELSE "check")

Lookup(c) ==
    /\ At(c, "lookup")
    /\ IF cached # None THEN Return(c) ELSE MissCache(c)
    /\ keepStore /\ keepRedis /\ keepProvider /\ keepTime /\ keepMutex

LockMutex(c) ==
    /\ At(c, "mutex")
    /\ mutex[Host(c)] = None
    /\ mutex' = [mutex EXCEPT ![Host(c)] = c]
    /\ Goto(c, "lock")
    /\ keepStore /\ keepRedis /\ keepProvider /\ keepTime

AcquireRefreshLock(c) ==
    /\ At(c, "lock")
    /\ IF lock = None
       THEN /\ lock' = c
            /\ job' = [job EXCEPT ![c].at = "reread", ![c].mine = TRUE]
       ELSE /\ Leave(c, "held")
            /\ UNCHANGED lock
    /\ UNCHANGED cached
    /\ keepStore /\ keepProvider /\ keepTime /\ keepMutex

(* The second check of NeedsRefresh, on the account just read. *)
WorkWith(c, used, shared, blocked) ==
    IF used =< Window(c)
    THEN job' = [job EXCEPT ![c].at = "refresh", ![c].used = used,
                            ![c].shared = shared, ![c].blocked = blocked]
    ELSE job' = [job EXCEPT ![c].at = "leave", ![c].result = "current",
                            ![c].acct = used]

Reread(c) ==
    /\ At(c, "reread")
    /\ WorkWith(c, cred, FALSE, deferred)
    /\ keepStore /\ keepRedis /\ keepProvider /\ keepTime /\ keepMutex

(* The provider takes a refresh token once; a used one is invalid_grant. *)
Refresh(c) ==
    /\ At(c, "refresh")
    /\ IF job[c].used = issued
       THEN /\ issued' = issued + 1
            /\ job' = [job EXCEPT ![c].at = "persist", ![c].new = issued + 1]
       ELSE /\ Goto(c, "recover")
            /\ keepProvider
    /\ keepStore /\ keepRedis /\ keepTime /\ keepMutex

(* Mutant: the database is not asked whether somebody else was faster. *)
RecoverNever(c) ==
    /\ At(c, "recover")
    /\ Leave(c, "refused")
    /\ keepStore /\ keepRedis /\ keepProvider /\ keepTime /\ keepMutex

(* tryRecoverFromRefreshRace *)
Recover(c) ==
    /\ At(c, "recover")
    /\ IF cred # job[c].used
       THEN job' = [job EXCEPT ![c].at = "leave", ![c].result = "current",
                               ![c].acct = cred]
       ELSE Leave(c, "refused")
    /\ keepStore /\ keepRedis /\ keepProvider /\ keepTime /\ keepMutex

(* Mutant: the result is dropped when the lock has been lost. *)
PersistLocked(c) ==
    /\ At(c, "persist")
    /\ cred' = IF job[c].mine /\ lock # c THEN cred ELSE job[c].new
    /\ job' = [job EXCEPT ![c].at = "leave", ![c].result = "refreshed",
                          ![c].acct = job[c].new]
    /\ UNCHANGED <<status, deferred>>
    /\ keepRedis /\ keepProvider /\ keepTime /\ keepMutex

(* persistAccountCredentials: one column, without a condition. *)
Persist(c) ==
    /\ At(c, "persist")
    /\ cred' = job[c].new
    /\ job' = [job EXCEPT ![c].at = "leave", ![c].result = "refreshed",
                          ![c].acct = job[c].new]
    /\ UNCHANGED <<status, deferred>>
    /\ keepRedis /\ keepProvider /\ keepTime /\ keepMutex

-----------------------------------------------------------------------------
(* What the caller of RefreshIfNeeded does with its result. *)
RequestGoesOn(c) == IF job[c].result = "held" THEN "wait" ELSE "check"

(* Mutant: a refused refresh token is only skipped. *)
ServiceSkips(c) ==
    CASE job[c].result = "refreshed" -> IF job[c].blocked THEN "clear" ELSE "invalidate"
      [] job[c].result = "retry" ->
             IF job[c].attempt < MaxRetries THEN "mutex" ELSE "defer"
      [] OTHER -> "idle"

ServiceGoesOn(c) ==
    CASE job[c].result = "refreshed" -> IF job[c].blocked THEN "clear" ELSE "invalidate"
      [] job[c].result = "refused" -> "disable"
      [] job[c].result = "retry" ->
             IF job[c].attempt < MaxRetries THEN "mutex" ELSE "defer"
      [] OTHER -> "idle"

GoOn(c, point) ==
    IF point = "idle" THEN Return(c)
    ELSE job' = [job EXCEPT ![c] =
                   [Idle EXCEPT !.at = point, !.acct = job[c].acct, !.stored = job[c].stored,
                       !.attempt = IF point = "mutex" THEN job[c].attempt + 1
                                                      ELSE job[c].attempt]]

Depart(c) ==
    /\ mutex' = [mutex EXCEPT ![Host(c)] = None]
    /\ GoOn(c, IF c \in Requests THEN RequestGoesOn(c) ELSE ServiceGoesOn(c))

(* The deferred calls: ReleaseRefreshLock deletes the key, whoever has set *)
(* it, and the mutex is unlocked.                                          *)
Release(c) ==
    /\ At(c, "leave")
    /\ lock' = IF job[c].mine THEN None ELSE lock
    /\ Depart(c)
    /\ UNCHANGED cached
    /\ keepStore /\ keepProvider /\ keepTime

(* The cache once more, 200 ms after another caller held the lock. *)
Wait(c) ==
    /\ At(c, "wait")
    /\ IF cached # None THEN Return(c) ELSE Goto(c, "check")
    /\ keepStore /\ keepRedis /\ keepProvider /\ keepTime /\ keepMutex

(* Mutant: the version of the account is not compared. *)
CheckTokenVersionNever(c) ==
    /\ At(c, "check")
    /\ Goto(c, "store")
    /\ keepStore /\ keepRedis /\ keepProvider /\ keepTime /\ keepMutex

(* A newer token is served but not cached. *)
CheckTokenVersion(c) ==
    /\ At(c, "check")
    /\ IF cred > job[c].acct THEN Return(c) ELSE Goto(c, "store")
    /\ keepStore /\ keepRedis /\ keepProvider /\ keepTime /\ keepMutex

SetAccessToken(c) ==
    /\ At(c, "store")
    /\ cached' = job[c].acct
    /\ Return(c)
    /\ UNCHANGED lock
    /\ keepStore /\ keepProvider /\ keepTime /\ keepMutex

(* postRefreshActions: ClearTempUnschedulable, then InvalidateToken. *)
ClearTempUnschedulable(c) ==
    /\ At(c, "clear")
    /\ deferred' = FALSE
    /\ Goto(c, "invalidate")
    /\ UNCHANGED <<cred, status>>
    /\ keepRedis /\ keepProvider /\ keepTime /\ keepMutex

InvalidateToken(c) ==
    /\ At(c, "invalidate")
    /\ cached' = None
    /\ Return(c)
    /\ UNCHANGED lock
    /\ keepStore /\ keepProvider /\ keepTime /\ keepMutex

SetError(c) ==
    /\ At(c, "disable")
    /\ status' = "error"
    /\ Return(c)
    /\ UNCHANGED <<cred, deferred>>
    /\ keepRedis /\ keepProvider /\ keepTime /\ keepMutex

(* Mutant: the whole row is written, as it was read. *)
SetTempUnschedulableRow(c) ==
    /\ At(c, "defer")
    /\ deferred' = TRUE
    /\ cred' = job[c].acct
    /\ Return(c)
    /\ UNCHANGED status
    /\ keepRedis /\ keepProvider /\ keepTime /\ keepMutex

SetTempUnschedulable(c) ==
    /\ At(c, "defer")
    /\ deferred' = TRUE
    /\ Return(c)
    /\ UNCHANGED <<cred, status>>
    /\ keepRedis /\ keepProvider /\ keepTime /\ keepMutex

-----------------------------------------------------------------------------
(* What goes wrong, and what the code makes of it. *)
Total == Cardinality({fault \in Kinds \X (1 .. MaxFaults) : fault[2] =< faults[fault[1]]})

Fault(kind) ==
    /\ Total < MaxFaults
    /\ faults' = [faults EXCEPT ![kind] = @ + 1]

(* The refresh goes on without the lock, even if the command took effect. *)
LockFails(c) ==
    /\ At(c, "lock")
    /\ Goto(c, "reread")
    /\ lock' \in {lock, IF lock = None THEN c ELSE lock}
    /\ UNCHANGED cached
    /\ keepStore /\ keepMutex

(* The key stays until it expires. *)
ReleaseFails(c) ==
    /\ At(c, "leave") /\ job[c].mine
    /\ Depart(c)
    /\ keepStore /\ keepRedis

CacheFails(c) ==
    /\ \/ At(c, "lookup") /\ MissCache(c)
       \/ At(c, "wait") /\ Goto(c, "check")
       \/ (At(c, "store") \/ At(c, "invalidate")) /\ Return(c)
    /\ keepStore /\ keepRedis /\ keepMutex

(* The account that was passed is used; the result of a refresh is then    *)
(* written to it, too.                                                     *)
ReadFails(c) ==
    /\ \/ At(c, "reread") /\ WorkWith(c, job[c].acct, TRUE, FALSE)
       \/ At(c, "recover") /\ Leave(c, "refused")
       \/ At(c, "check") /\ Goto(c, "store")
    /\ keepStore /\ keepRedis /\ keepMutex

(* The statement may have been executed all the same. *)
PersistFails(c) ==
    /\ At(c, "persist")
    /\ cred' \in {cred, job[c].new}
    /\ job' = [job EXCEPT ![c].at = "leave", ![c].result = "retry",
                          ![c].acct = IF job[c].shared THEN job[c].new ELSE @]
    /\ UNCHANGED <<status, deferred>>
    /\ keepRedis /\ keepMutex

MarkFails(c) ==
    /\ \/ At(c, "clear") /\ Goto(c, "invalidate")
       \/ (At(c, "disable") \/ At(c, "defer")) /\ Return(c)
    /\ keepStore /\ keepRedis /\ keepMutex

ProviderFails(c) ==
    /\ At(c, "refresh")
    /\ Leave(c, "retry")
    /\ keepStore /\ keepRedis /\ keepMutex

ReplyLost(c) ==
    /\ At(c, "refresh")
    /\ job[c].used = issued
    /\ issued' = issued + 1
    /\ Leave(c, "retry")
    /\ keepStore /\ keepRedis /\ keepMutex

Crash(h) ==
    /\ job' = [c \in Callers |-> IF Host(c) = h THEN Idle ELSE job[c]]
    /\ mutex' = [mutex EXCEPT ![h] = None]
    /\ keepStore /\ keepRedis

Protects(c) == lock = c /\ job[c].mine /\ job[c].at \in Protected

ExpireEarly ==
    /\ \E c \in Callers : Protects(c)
    /\ lock' = None
    /\ UNCHANGED <<cached, job, mutex>>
    /\ keepStore

CallFails(c) == \/ Fault("redis") /\ (LockFails(c) \/ ReleaseFails(c) \/ CacheFails(c))
                \/ Fault("read") /\ ReadFails(c)
                \/ Fault("write") /\ (PersistFails(c) \/ MarkFails(c))
                \/ Fault("network") /\ ProviderFails(c)

Disturb ==
    /\ \/ /\ \/ \E c \in Callers : CallFails(c)
             \/ \E h \in Hosts : Fault("crash") /\ Crash(h)
             \/ Fault("slow") /\ ExpireEarly
          /\ keepProvider
       \/ \E c \in Callers : Fault("reply") /\ ReplyLost(c)
    /\ keepTime

-----------------------------------------------------------------------------
(* Time passes. *)
ComesDue ==
    /\ due < cred /\ cred < MaxIssued
    /\ due' = cred
    /\ UNCHANGED urgent
    /\ keepStore /\ keepRedis /\ keepProvider /\ keepMutex /\ UNCHANGED job

GetsUrgent ==
    /\ urgent < due
    /\ urgent' = due
    /\ UNCHANGED due
    /\ keepStore /\ keepRedis /\ keepProvider /\ keepMutex /\ UNCHANGED job

TokenExpires ==
    /\ cached # None
    /\ cached' = None
    /\ UNCHANGED <<lock, job>>
    /\ keepStore /\ keepProvider /\ keepTime /\ keepMutex

(* The key of a caller that died, or could not release it. *)
LockExpires ==
    /\ lock # None /\ ~ \E c \in Callers : Protects(c)
    /\ lock' = None
    /\ UNCHANGED <<cached, job>>
    /\ keepStore /\ keepProvider /\ keepTime /\ keepMutex

(* tokenRefreshTempUnschedDuration is over. *)
BecomesSchedulable ==
    /\ deferred
    /\ deferred' = FALSE
    /\ UNCHANGED <<cred, status, job>>
    /\ keepRedis /\ keepProvider /\ keepTime /\ keepMutex

Step(c) ==
    \/ LockMutex(c) \/ AcquireRefreshLock(c) \/ Reread(c) \/ Refresh(c)
    \/ Recover(c) \/ Persist(c) \/ Release(c)
    \/ Lookup(c) \/ Wait(c) \/ CheckTokenVersion(c) \/ SetAccessToken(c)
    \/ ClearTempUnschedulable(c) \/ InvalidateToken(c) \/ SetError(c)
    \/ SetTempUnschedulable(c)

Proceed(c) == Step(c) /\ UNCHANGED faults

Begin == /\ \/ \E c \in Requests : Request(c)
            \/ \E c \in Services : Collect(c)
         /\ UNCHANGED faults

Time == /\ \/ ComesDue \/ GetsUrgent \/ TokenExpires \/ LockExpires
           \/ BecomesSchedulable
        /\ UNCHANGED faults

Next == \/ \E c \in Callers : Proceed(c)
        \/ Begin
        \/ Time
        \/ Disturb

Spec == Init /\ [][Next]_vars

(* The tickers of the services run, calls go on, keys expire.  Nobody is   *)
(* promised to come through to the locks, and no token to become due.      *)
FairSpec ==
    /\ Spec
    /\ \A c \in Callers : /\ WF_vars(Proceed(c))
                          /\ SF_vars(LockMutex(c) /\ UNCHANGED faults)
    /\ \A c \in Services : WF_vars(Collect(c) /\ UNCHANGED faults)
    /\ WF_vars(GetsUrgent /\ UNCHANGED faults)
    /\ WF_vars(TokenExpires /\ UNCHANGED faults)
    /\ WF_vars(LockExpires /\ UNCHANGED faults)
    /\ WF_vars(BecomesSchedulable /\ UNCHANGED faults)

-----------------------------------------------------------------------------
TypeOK ==
    /\ cred \in Numbers /\ issued \in Numbers
    /\ due \in 0 .. MaxIssued /\ urgent \in 0 .. MaxIssued
    /\ status \in {"active", "error"} /\ deferred \in BOOLEAN
    /\ cached \in Numbers \cup {None}
    /\ lock \in Callers \cup {None}
    /\ mutex \in [Hosts -> Callers \cup {None}]
    /\ job \in [Callers -> Jobs]
    /\ faults \in [Kinds -> Nat]

Spared(kinds) == \A kind \in kinds : faults[kind] = 0

(* The refresh token that the provider will take next is never thrown      *)
(* away: it is in the database, or a refresh is about to write it there,   *)
(* whether or not the lock still protects that refresh.                    *)
NewestIsKept ==
    Spared({"reply", "write", "crash"}) /\ cred # issued =>
        \E c \in Callers : At(c, "persist") /\ job[c].new = issued

(* An account is disabled for an invalid_grant only if its refresh token   *)
(* is really dead, not because another refresh has just used the token     *)
(* ("race recovery"); the lock must work, and one read may fail.           *)
DisabledIsDead ==
    (Spared({"redis", "slow"}) /\ faults["read"] =< 1 /\ status = "error") =>
        cred # issued

(* UpdateCredentials has no condition, and neither lock nor mutex can be   *)
(* relied on, but newer credentials are never overwritten by older ones:   *)
(* only who has read the newest can get new ones.                          *)
CredentialsNeverRegress == [][cred' >= cred]_cred

(* A token that is about to expire is refreshed, whatever fails and        *)
(* whichever instance dies with the lock or the mutex in its hands; or the *)
(* account is disabled.                                                    *)
RenewsOrFails == cred =< due ~> cred > due \/ status = "error"

(* A request that begins after new credentials are stored does not put     *)
(* older ones into the cache, however old the scheduler's copy of the      *)
(* account is and whichever way the call takes (CheckTokenVersion).        *)
CachesNoOlder ==
    Spared({"read"}) =>
        \A c \in Requests : At(c, "store") => job[c].acct >= job[c].stored
=============================================================================
