----------------------------- MODULE UsageReporter -----------------------------
(***************************************************************************)
(* One machine running cc_usage_reporter.  Several processes or threads    *)
(* (GUI, its scheduler, daemon, CLI) call reporter.run on the same         *)
(* database, the same state file and the same lock file.                   *)
(*                                                                         *)
(* log stands for proxy_request_logs of CC Switch: one element per         *)
(* request, in order of created_at, holding the bucket the request falls   *)
(* into, or Filtered for a request app_types or only_success leaves out.   *)
(* The signature of a bucket is abstracted to the request count it was     *)
(* computed from; 0 stands for "no signature".                             *)
(***************************************************************************)
EXTENDS UsageWire, Sequences

CONSTANTS Procs,             \* callers of reporter.run
          BatchSize,         \* cfg.batch_size
          MaxLog,            \* bound on the length of the log
          AbandonedMayLand,  \* does a report outlive its client?
          Missing,           \* state file absent or not valid JSON
          NoProc, NoConn

ASSUME BatchSizeAssumption == BatchSize \in Nat \ {0}
ASSUME MaxLogAssumption == MaxLog \in Nat
ASSUME AbandonedAssumption == AbandonedMayLand \in BOOLEAN
ASSUME NoProcAssumption == NoProc \notin Procs
ASSUME NoConnAssumption == NoConn \notin Conns

VARIABLES log,       \* proxy_request_logs
          file,      \* the state file
          lock,      \* holder of the exclusive lock on <state file>.lock
          pc,        \* where each caller is in run()
          mem,       \* State._data of each caller
          snap,      \* the bucket values it read
          pending,   \* the buckets it still has to send
          conn       \* the connection whose answer it awaits

Filtered == 0

(* Has the same value as State()._data before any load. *)
EmptyState == [sigs |-> [b \in Buckets |-> 0], watermark |-> 0]

States == [sigs : [Buckets -> Nat], watermark : Nat]

ASSUME MissingAssumption == Missing \notin States

NoSnap == [b \in Buckets |-> 0]

(* Program points of run() at which the caller holds the lock. *)
Critical == {"locked", "login", "upload", "await", "finish"}

ReporterInit ==
    /\ log = << >>
    /\ file = Missing
    /\ lock = NoProc
    /\ pc = [p \in Procs |-> "idle"]
    /\ mem = [p \in Procs |-> EmptyState]
    /\ snap = [p \in Procs |-> NoSnap]
    /\ pending = [p \in Procs |-> {}]
    /\ conn = [p \in Procs |-> NoConn]

-----------------------------------------------------------------------------
(* read_daily_model_usage: the number of requests in each bucket. *)
Usage(l) == [b \in Buckets |-> Cardinality({i \in 1 .. Len(l) : l[i] = b})]

(* max_created_at: the newest record, filtered or not. *)
MaxCreatedAt == Len(log)

(* State._load on top of the data d: a missing or unreadable file keeps d. *)
Load(d) == IF file = Missing THEN d ELSE file

(* Mutant: a bucket that was reported once is never reported again. *)
ChangedNewOnly(usage, d) == {b \in Buckets : usage[b] # 0 /\ d.sigs[b] = 0}

(* The buckets that exist and whose signature differs from the recorded    *)
(* one.                                                                    *)
Changed(usage, d) == {b \in Buckets : usage[b] # 0 /\ usage[b] # d.sigs[b]}

(* The next slice of cfg.batch_size buckets. *)
Chunk(S) == {b \in S : Cardinality({x \in S : x < b}) < BatchSize}

(* build_payload: the values of a chunk as they were read. *)
BuildPayload(S, usage) == [b \in Buckets |-> IF b \in S THEN usage[b] ELSE 0]

(* state.mark for every bucket of a chunk. *)
Mark(d, S, usage) ==
    [d EXCEPT !.sigs = [b \in Buckets |-> IF b \in S THEN usage[b]
                                                     ELSE d.sigs[b]]]

(* Mutant: any answer 200 counts as delivery of the whole batch. *)
BatchAcceptedOnOk(resp, S) == resp.ok

(* A batch counts as delivered only if the sidecar took all of it.  (run   *)
(* takes a missing count for full success; the sidecar sends both.)        *)
BatchAccepted(resp, S) ==
    resp.ok /\ resp.accepted = Cardinality(S) /\ resp.rejected = 0

(* Leaving run(), normally or by an exception: State.locked releases the   *)
(* lock and the caller's memory is gone.                                   *)
Leave(p) ==
    /\ lock' = IF lock = p THEN NoProc ELSE lock
    /\ pc' = [pc EXCEPT ![p] = "idle"]
    /\ mem' = [mem EXCEPT ![p] = EmptyState]
    /\ snap' = [snap EXCEPT ![p] = NoSnap]
    /\ pending' = [pending EXCEPT ![p] = {}]
    /\ conn' = [conn EXCEPT ![p] = NoConn]

-----------------------------------------------------------------------------
(* State(cfg.state_path): the constructor loads the file before the lock   *)
(* is taken.                                                               *)
NewState(p) ==
    /\ pc[p] = "idle"
    /\ pc' = [pc EXCEPT ![p] = "waiting"]
    /\ mem' = [mem EXCEPT ![p] = Load(EmptyState)]
    /\ UNCHANGED <<log, file, lock, snap, pending, conn, net>>

(* Mutant: run() without state.locked(). *)
AcquireUnlocked(p) ==
    /\ pc[p] = "waiting"
    /\ lock' = p
    /\ pc' = [pc EXCEPT ![p] = "locked"]
    /\ mem' = [mem EXCEPT ![p] = Load(mem[p])]
    /\ UNCHANGED <<log, file, snap, pending, conn, net>>

(* Mutant: the state loaded by the constructor is not loaded again under   *)
(* the lock.                                                               *)
AcquireNoReload(p) ==
    /\ pc[p] = "waiting"
    /\ lock = NoProc
    /\ lock' = p
    /\ pc' = [pc EXCEPT ![p] = "locked"]
    /\ UNCHANGED <<log, file, mem, snap, pending, conn, net>>

(* state.locked() and the second _load() under the lock. *)
Acquire(p) ==
    /\ pc[p] = "waiting"
    /\ lock = NoProc
    /\ lock' = p
    /\ pc' = [pc EXCEPT ![p] = "locked"]
    /\ mem' = [mem EXCEPT ![p] = Load(mem[p])]
    /\ UNCHANGED <<log, file, snap, pending, conn, net>>

(* msvcrt.locking gives up after ten attempts on Windows. *)
LockTimeout(p) ==
    /\ pc[p] = "waiting"
    /\ lock # NoProc
    /\ Leave(p)
    /\ UNCHANGED <<log, file, net>>

(* Read all buckets and keep the changed ones. *)
Read(p) ==
    LET usage == Usage(log)
        todo  == Changed(usage, mem[p]) IN
    /\ pc[p] = "locked"
    /\ snap' = [snap EXCEPT ![p] = usage]
    /\ pending' = [pending EXCEPT ![p] = todo]
    /\ pc' = [pc EXCEPT ![p] = IF todo = {} THEN "finish" ELSE "login"]
    /\ UNCHANGED <<log, file, lock, mem, conn, net>>

(* A configured token is used as it is; otherwise the login succeeded. *)
Login(p) ==
    /\ pc[p] = "login"
    /\ pc' = [pc EXCEPT ![p] = "upload"]
    /\ UNCHANGED <<log, file, lock, mem, snap, pending, conn, net>>

(* client.report: POST the next chunk on a connection of its own. *)
Post(p, c) ==
    /\ pc[p] = "upload"
    /\ net[c].phase = "free"
    /\ net' = [net EXCEPT ![c] =
                  Request(BuildPayload(Chunk(pending[p]), snap[p]))]
    /\ conn' = [conn EXCEPT ![p] = c]
    /\ pc' = [pc EXCEPT ![p] = "await"]
    /\ UNCHANGED <<log, file, lock, mem, snap, pending>>

(* The whole batch was accepted: mark its buckets, save, go on. *)
BatchDone(p) ==
    LET c     == conn[p]
        chunk == Chunk(pending[p])
        rest  == pending[p] \ chunk
        data  == Mark(mem[p], chunk, snap[p]) IN
    /\ pc[p] = "await"
    /\ net[c].phase = "replied"
    /\ BatchAccepted(net[c].resp, chunk)
    /\ mem' = [mem EXCEPT ![p] = data]
    /\ file' = data
    /\ pending' = [pending EXCEPT ![p] = rest]
    /\ pc' = [pc EXCEPT ![p] = IF rest = {} THEN "finish" ELSE "upload"]
    /\ net' = [net EXCEPT ![c] = FreeConn]
    /\ conn' = [conn EXCEPT ![p] = NoConn]
    /\ UNCHANGED <<log, lock, snap>>

(* An HTTP error or a partly accepted batch: Sub2ApiError ends the run. *)
BatchFailed(p) ==
    LET c == conn[p] IN
    /\ pc[p] = "await"
    /\ net[c].phase = "replied"
    /\ ~ BatchAccepted(net[c].resp, Chunk(pending[p]))
    /\ net' = [net EXCEPT ![c] = FreeConn]
    /\ Leave(p)
    /\ UNCHANGED <<log, file>>

(* Record the newest created_at, save, and return. *)
Finish(p) ==
    /\ pc[p] = "finish"
    /\ file' = [mem[p] EXCEPT !.watermark = MaxCreatedAt]
    /\ Leave(p)
    /\ UNCHANGED <<log, net>>

(* dry_run: the pending buckets are listed and nothing else happens. *)
DryRun(p) ==
    /\ pc[p] = "locked"
    /\ Leave(p)
    /\ UNCHANGED <<log, file, net>>

(* The run ends early: the process is killed, the database or the state    *)
(* file cannot be read or written, the login fails, or no answer comes     *)
(* within cfg.timeout.  A report already on its way is lost, or may still  *)
(* reach the sidecar.                                                      *)
Abort(p) ==
    LET c == conn[p] IN
    /\ pc[p] # "idle"
    /\ Leave(p)
    /\ net' = IF c # NoConn /\ (net[c].phase = "replied" \/ ~ AbandonedMayLand)
              THEN [net EXCEPT ![c] = FreeConn]
              ELSE net
    /\ UNCHANGED <<log, file>>

-----------------------------------------------------------------------------
(* CC Switch appends a request. *)
LogRequest(b) ==
    /\ Len(log) < MaxLog
    /\ log' = Append(log, b)
    /\ UNCHANGED <<file, lock, pc, mem, snap, pending, conn, net>>

(* The state file is deleted or truncated from outside. *)
LoseState ==
    /\ file # Missing
    /\ file' = Missing
    /\ UNCHANGED <<log, lock, pc, mem, snap, pending, conn, net>>
=============================================================================
