---------------------------- MODULE UsagePipeline ----------------------------
(***************************************************************************)
(* The usage pipeline as a whole: the reporters of one machine, the        *)
(* sidecar, and the world around them.                                     *)
(*                                                                         *)
(* Everything that goes wrong from outside (a crash, a timeout, a refused  *)
(* report, a lost state file) or ends a run early on purpose (dry run) is  *)
(* a disturbance.  A behaviour has at most MaxFaults of them, anywhere;    *)
(* a machine on which every run is killed can promise nothing.             *)
(***************************************************************************)
EXTENDS UsageReporter, UsageSidecar

CONSTANT MaxFaults

ASSUME MaxFaultsAssumption == MaxFaults \in Nat

VARIABLE faults      \* disturbances so far

reporterVars == <<log, file, lock, pc, mem, snap, pending, conn>>
vars == <<reporterVars, net, rows, faults>>

Init == ReporterInit /\ SidecarInit /\ NetInit /\ faults = 0

(* Does a client still wait on the connection? *)
Open(c) == \E p \in Procs : conn[p] = c

(* The steps of a run that nothing disturbs. *)
RunStep(p) ==
    /\ \/ NewState(p)
       \/ Acquire(p)
       \/ Read(p)
       \/ Login(p)
       \/ \E c \in Conns : Post(p, c)
       \/ BatchDone(p)
       \/ BatchFailed(p)
       \/ Finish(p)
    /\ UNCHANGED <<rows, faults>>

GiveUp(p) == LockTimeout(p) /\ UNCHANGED <<rows, faults>>

Serve(c) == HandleReport(c, Open(c)) /\ UNCHANGED <<reporterVars, faults>>

Grow == /\ \E b \in Buckets \cup {Filtered} : LogRequest(b)
        /\ UNCHANGED <<rows, faults>>

Disturb ==
    /\ faults < MaxFaults
    /\ faults' = faults + 1
    /\ \/ \E p \in Procs : Abort(p) /\ UNCHANGED rows
       \/ \E p \in Procs : DryRun(p) /\ UNCHANGED rows
       \/ \E c \in Conns : RefuseReport(c, Open(c)) /\ UNCHANGED reporterVars
       \/ LoseState /\ UNCHANGED rows

Next == \/ \E p \in Procs : RunStep(p) \/ GiveUp(p)
        \/ \E c \in Conns : Serve(c)
        \/ Grow
        \/ Disturb

Spec == Init /\ [][Next]_vars

(* The scheduler, the service manager or the user starts run() again and   *)
(* again, a started run goes on, and the sidecar answers what reaches it.  *)
Fairness == /\ \A p \in Procs : WF_vars(RunStep(p))
            /\ \A c \in Conns : WF_vars(Serve(c))

FairSpec == Spec /\ Fairness

-----------------------------------------------------------------------------
(* Every variable has the type its declaration says. *)
TypeOK ==
    /\ log \in Seq(Buckets \cup {Filtered})
    /\ file \in States \cup {Missing}
    /\ lock \in Procs \cup {NoProc}
    /\ pc \in [Procs -> {"idle", "waiting"} \cup Critical]
    /\ mem \in [Procs -> States]
    /\ snap \in [Procs -> [Buckets -> Nat]]
    /\ pending \in [Procs -> SUBSET Buckets]
    /\ conn \in [Procs -> Conns \cup {NoConn}]
    /\ net \in [Conns -> Connections]
    /\ rows \in [Rows -> Nat]
    /\ faults \in Nat

(* The buckets the sidecar can store, each in a row of its own. *)
Storable == {b \in Buckets : RowOf[b] # Invalid}

(* README.md, "Idempotent design": a report overwrites and never adds up,  *)
(* so no sequence of retries, crashes and re-sent batches makes a stored   *)
(* row larger than what CC Switch has logged for its bucket.               *)
NoOvercount ==
    \A b \in Storable : rows[RowOf[b]] =< Usage(log)[b]

(* A bucket is skipped as unchanged only if the sidecar holds that value:  *)
(* the signature saved in the state file never runs ahead of the table.    *)
MarkedIsStored ==
    file # Missing =>
        \A b \in Buckets :
            file.sigs[b] # 0 => /\ b \in Storable
                                /\ file.sigs[b] =< rows[RowOf[b]]

(* A run that reaches its end, after any number of batches or because      *)
(* nothing had changed, leaves in the table exactly what it has read: no   *)
(* bucket of its snapshot was skipped, refused or overwritten meanwhile.   *)
FinishedIsStored ==
    \A p \in Procs : pc[p] = "finish" =>
        \A b \in Buckets :
            /\ snap[p][b] # 0 => b \in Storable
            /\ b \in Storable => rows[RowOf[b]] = snap[p][b]

(* Whatever the sidecar rejects is never marked: a bucket without a row    *)
(* stays in every later report until the sidecar takes it.                 *)
RejectedIsUnmarked ==
    file # Missing => \A b \in Buckets : file.sigs[b] # 0 => b \in Storable

(* A saved signature is never replaced by that of an older snapshot, and a *)
(* batch saved by one process is not undone by another process that loaded *)
(* the file earlier.                                                       *)
MarksNeverRegress ==
    [][file # Missing /\ file' # Missing =>
          \A b \in Buckets : file.sigs[b] =< file'.sigs[b]]_vars

(* A stored row never goes back to an earlier cumulative value. *)
RowsNeverRegress ==
    [][\A r \in Rows : rows[r] =< rows'[r]]_vars

(* The pipeline implements the ledger of UsageLedger: to the server, all   *)
(* the snapshots, batches, retries, crashes and racing processes of one    *)
(* machine are one copy that follows the log.  A row never goes back to an *)
(* earlier cumulative value and never holds one that was not yet logged.   *)
Ledger == INSTANCE UsageLedger
          WITH Buckets <- Storable,
               logged  <- [b \in Storable |-> Usage(log)[b]],
               stored  <- [b \in Storable |-> rows[RowOf[b]]]

KeepsLedger == Ledger!Spec

(* Once the log stops growing, every bucket of it is on the server with    *)
(* its latest cumulative value, and stays there.                           *)
Converges ==
    <>[](\A b \in Storable : rows[RowOf[b]] = Usage(log)[b])

(* state.py says of the watermark that it is "the largest created_at       *)
(* covered by the most recent successful report", so that every request up *)
(* to it would be in the reported signatures.  It does not hold, since     *)
(* run() reads the watermark after the upload; no run checks it (README,   *)
(* section 7).                                                             *)
WatermarkCovered ==
    file # Missing =>
        \A b \in Buckets :
            Usage(SubSeq(log, 1, file.watermark))[b] =< file.sigs[b]
=============================================================================
