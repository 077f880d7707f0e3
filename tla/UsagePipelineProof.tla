-------------------------- MODULE UsagePipelineProof --------------------------
(***************************************************************************)
(* Machine-checked proofs about UsagePipeline, for any number of buckets,  *)
(* processes, connections, log entries and disturbances.                   *)
(***************************************************************************)
EXTENDS UsagePipeline, FiniteSetTheorems, TLAPS

(* A bucket count is a natural number and never shrinks when a request is  *)
(* logged.                                                                 *)
LEMMA UsageType ==
  ASSUME NEW l \in Seq(Buckets \cup {Filtered})
  PROVE  Usage(l) \in [Buckets -> Nat]
<1>1. ASSUME NEW b \in Buckets
      PROVE  Cardinality({i \in 1 .. Len(l) : l[i] = b}) \in Nat
  <2>1. IsFiniteSet(1 .. Len(l))
    BY FS_Interval
  <2>2. IsFiniteSet({i \in 1 .. Len(l) : l[i] = b})
    BY <2>1, FS_Subset
  <2> QED BY <2>2, FS_CardinalityType
<1> QED BY <1>1 DEF Usage

LEMMA UsageGrows ==
  ASSUME NEW l \in Seq(Buckets \cup {Filtered}),
         NEW x \in Buckets \cup {Filtered},
         NEW b \in Buckets
  PROVE  Usage(l)[b] =< Usage(Append(l, x))[b]
<1> DEFINE S == {i \in 1 .. Len(l) : l[i] = b}
           T == {i \in 1 .. Len(Append(l, x)) : Append(l, x)[i] = b}
<1>1. S \subseteq T
  OBVIOUS
<1>2. IsFiniteSet(T)
  <2>1. Len(Append(l, x)) \in Int
    OBVIOUS
  <2>2. IsFiniteSet(1 .. Len(Append(l, x)))
    BY <2>1, FS_Interval
  <2> QED BY <2>2, FS_Subset
<1>3. Cardinality(S) =< Cardinality(T)
  BY <1>1, <1>2, FS_Subset
<1> QED BY <1>3 DEF Usage

LEMMA CardinalityOfBuckets ==
  ASSUME NEW S \in SUBSET Buckets
  PROVE  IsFiniteSet(S) /\ Cardinality(S) \in Nat
<1>1. IsFiniteSet(Buckets)
  BY FS_Interval, NumBucketsAssumption DEF Buckets
<1> QED BY <1>1, FS_Subset, FS_CardinalityType

(* The types of the values the actions build. *)
LEMMA EmptyStateType == EmptyState \in States
  BY DEF EmptyState, States

LEMMA WireTypes ==
  /\ NoSnap \in [Buckets -> Nat]
  /\ FreeConn \in Connections
  /\ \A items \in Payloads : Request(items) \in Connections
  /\ \A items \in Payloads, resp \in Responses :
        Reply(items, resp) \in Connections
  BY DEF NoSnap, FreeConn, Connections, Request, Reply, Payloads, NoItems,
         Responses, HttpError

LEMMA HttpErrorType == HttpError \in Responses
  BY DEF HttpError, Responses

LEMMA ReportResponseType ==
  ASSUME NEW items \in Payloads
  PROVE  ReportResponse(items) \in Responses
  BY CardinalityOfBuckets DEF ReportResponse, Responses, ValidItems, Carried

LEMMA MarkType ==
  ASSUME NEW d \in States, NEW S \in SUBSET Buckets,
         NEW usage \in [Buckets -> Nat]
  PROVE  Mark(d, S, usage) \in States
  BY DEF Mark, States

(* Marking a chunk sets the signatures of the chunk and no other. *)
LEMMA MarkSigs ==
  ASSUME NEW d \in States, NEW S \in SUBSET Buckets,
         NEW usage \in [Buckets -> Nat], NEW b \in Buckets
  PROVE  /\ b \in S => Mark(d, S, usage).sigs[b] = usage[b]
         /\ b \notin S => Mark(d, S, usage).sigs[b] = d.sigs[b]
  BY DEF Mark, States

-----------------------------------------------------------------------------
LEMMA TypeInit == Init => TypeOK
<1> SUFFICES ASSUME Init PROVE TypeOK
  OBVIOUS
<1>1. log \in Seq(Buckets \cup {Filtered})
  BY DEF Init, ReporterInit
<1>2. net \in [Conns -> Connections]
  BY WireTypes DEF Init, NetInit
<1> QED BY <1>1, <1>2, EmptyStateType, WireTypes
        DEF Init, ReporterInit, SidecarInit, TypeOK

(* What leaving run() does to the caller's variables keeps their types. *)
LEMMA LeaveType ==
  ASSUME TypeOK, NEW p \in Procs, Leave(p)
  PROVE  /\ lock' \in Procs \cup {NoProc}
         /\ pc' \in [Procs -> {"idle", "waiting"} \cup Critical]
         /\ mem' \in [Procs -> States]
         /\ snap' \in [Procs -> [Buckets -> Nat]]
         /\ pending' \in [Procs -> SUBSET Buckets]
         /\ conn' \in [Procs -> Conns \cup {NoConn}]
  BY EmptyStateType, WireTypes DEF TypeOK, Leave

(* A caller that awaits an answer has a connection. *)
ConnInv == \A p \in Procs : pc[p] = "await" => conn[p] \in Conns

LEMMA TypeRunStep ==
  ASSUME TypeOK, ConnInv, NEW p \in Procs, RunStep(p)
  PROVE  TypeOK'
<1> USE DEF TypeOK
<1>1. CASE NewState(p)
  BY <1>1, EmptyStateType DEF RunStep, NewState, Load
<1>2. CASE Acquire(p)
  BY <1>2 DEF RunStep, Acquire, Load, Critical
<1>3. CASE Read(p)
  BY <1>3, UsageType DEF RunStep, Read, Changed, Critical
<1>4. CASE Login(p)
  BY <1>4 DEF RunStep, Login, Critical
<1>5. ASSUME NEW c \in Conns, Post(p, c) PROVE TypeOK'
  <2>1. BuildPayload(Chunk(pending[p]), snap[p]) \in Payloads
    BY DEF BuildPayload, Payloads
  <2>2. net' \in [Conns -> Connections]
    BY <1>5, <2>1, WireTypes DEF Post
  <2> QED BY <1>5, <2>2 DEF RunStep, Post, Critical
<1>6. CASE BatchDone(p)
  <2>1. Chunk(pending[p]) \in SUBSET Buckets
    BY DEF Chunk
  <2>2. Mark(mem[p], Chunk(pending[p]), snap[p]) \in States
    BY <2>1, MarkType
  <2> QED BY <1>6, <2>1, <2>2, WireTypes DEF RunStep, BatchDone, Critical
<1>7. CASE BatchFailed(p)
  BY <1>7, LeaveType, WireTypes DEF RunStep, BatchFailed
<1>8. CASE Finish(p)
  <2>1. MaxCreatedAt \in Nat
    BY DEF MaxCreatedAt
  <2>2. [mem[p] EXCEPT !.watermark = MaxCreatedAt] \in States
    BY <2>1 DEF States
  <2> QED BY <1>8, <2>2, LeaveType DEF RunStep, Finish
<1> QED BY <1>1, <1>2, <1>3, <1>4, <1>5, <1>6, <1>7, <1>8 DEF RunStep

LEMMA TypeServe ==
  ASSUME TypeOK, NEW c \in Conns, Serve(c)
  PROVE  TypeOK'
<1> DEFINE items == net[c].items
<1>1. items \in Payloads
  BY DEF TypeOK, Connections
<1>2. net' \in [Conns -> Connections]
  <2>1. PICK resp \in Responses : Answer(c, resp, Open(c))
    BY <1>1, HttpErrorType, ReportResponseType DEF Serve, HandleReport
  <2>2. Reply(items, resp) \in Connections /\ FreeConn \in Connections
    BY <1>1, WireTypes
  <2> QED BY <2>1, <2>2 DEF Answer, TypeOK
<1>3. rows' \in [Rows -> Nat]
  <2>1. CASE ReportFits(items)
    <3>1. ASSUME NEW r \in Rows PROVE UpsertBatch(items, ValidItems(items))[r] \in Nat
      <4>1. CASE \E b \in ValidItems(items) : RowOf[b] = r
        <5>1. (CHOOSE b \in ValidItems(items) : RowOf[b] = r) \in Buckets
          BY <4>1 DEF ValidItems, Carried
        <5> QED BY <4>1, <5>1, <1>1 DEF UpsertBatch, Payloads
      <4>2. CASE ~ \E b \in ValidItems(items) : RowOf[b] = r
        BY <4>2 DEF UpsertBatch, TypeOK
      <4> QED BY <4>1, <4>2
    <3> QED BY <2>1, <3>1 DEF Serve, HandleReport, UpsertBatch
  <2>2. CASE ~ ReportFits(items)
    BY <2>2 DEF Serve, HandleReport, TypeOK
  <2> QED BY <2>1, <2>2
<1> QED BY <1>2, <1>3 DEF Serve, TypeOK, reporterVars

LEMMA TypeDisturb ==
  ASSUME TypeOK, Disturb
  PROVE  TypeOK'
<1> USE DEF TypeOK
<1>0. faults' \in Nat
  BY DEF Disturb
<1>1. ASSUME NEW p \in Procs, Abort(p), UNCHANGED rows PROVE TypeOK'
  <2>1. net' \in [Conns -> Connections]
    BY <1>1, WireTypes DEF Abort
  <2> QED BY <1>0, <1>1, <2>1, LeaveType DEF Abort
<1>2. ASSUME NEW p \in Procs, DryRun(p), UNCHANGED rows PROVE TypeOK'
  BY <1>0, <1>2, LeaveType DEF DryRun
<1>3. ASSUME NEW c \in Conns, RefuseReport(c, Open(c)), UNCHANGED reporterVars
      PROVE  TypeOK'
  <2>1. net[c].items \in Payloads
    BY DEF Connections
  <2>2. net' \in [Conns -> Connections]
    BY <1>3, <2>1, WireTypes, HttpErrorType DEF RefuseReport, Answer
  <2> QED BY <1>0, <1>3, <2>2 DEF RefuseReport, reporterVars
<1>4. ASSUME LoseState, UNCHANGED rows PROVE TypeOK'
  BY <1>0, <1>4 DEF LoseState
<1> QED BY <1>1, <1>2, <1>3, <1>4 DEF Disturb

LEMMA ConnStep ==
  ASSUME TypeOK, ConnInv, [Next]_vars
  PROVE  ConnInv'
<1> USE DEF ConnInv, TypeOK
<1>1. ASSUME NEW p \in Procs, RunStep(p) PROVE ConnInv'
  BY <1>1 DEF RunStep, NewState, Acquire, Read, Login, Post, BatchDone,
              BatchFailed, Finish, Leave
<1>2. ASSUME NEW p \in Procs, GiveUp(p) PROVE ConnInv'
  BY <1>2 DEF GiveUp, LockTimeout, Leave
<1>3. ASSUME NEW c \in Conns, Serve(c) PROVE ConnInv'
  BY <1>3 DEF Serve, reporterVars
<1>4. CASE Grow
  BY <1>4 DEF Grow, LogRequest
<1>5. CASE Disturb
  BY <1>5 DEF Disturb, Abort, DryRun, RefuseReport, LoseState, Leave,
              reporterVars
<1>6. CASE UNCHANGED vars
  BY <1>6 DEF vars, reporterVars
<1> QED BY <1>1, <1>2, <1>3, <1>4, <1>5, <1>6 DEF Next

LEMMA TypeStep ==
  ASSUME TypeOK, ConnInv, [Next]_vars
  PROVE  TypeOK'
<1>1. ASSUME NEW p \in Procs, GiveUp(p) PROVE TypeOK'
  BY <1>1, LeaveType DEF GiveUp, LockTimeout, TypeOK
<1>2. CASE Grow
  BY <1>2 DEF Grow, LogRequest, TypeOK
<1>3. CASE UNCHANGED vars
  BY <1>3 DEF vars, reporterVars, TypeOK
<1> QED BY <1>1, <1>2, <1>3, TypeRunStep, TypeServe, TypeDisturb DEF Next

(* Type correctness: in every reachable state of the reporters, the        *)
(* connections and the sidecar, every variable has its type.  The proof    *)
(* needs ConnInv: BatchDone reads net at conn[p].                          *)
THEOREM TypeCorrect == Spec => [](TypeOK /\ ConnInv)
<1>1. Init => TypeOK /\ ConnInv
  BY TypeInit DEF Init, ReporterInit, ConnInv
<1>2. TypeOK /\ ConnInv /\ [Next]_vars => (TypeOK /\ ConnInv)'
  BY TypeStep, ConnStep
<1> QED BY <1>1, <1>2, PTL DEF Spec

-----------------------------------------------------------------------------
(***************************************************************************)
(* Saved signatures never regress, whatever becomes of abandoned reports   *)
(* and however buckets map to rows.  The argument: only the lock holder    *)
(* writes the file; what it holds in memory is what the file says, since   *)
(* it reloaded the file under the lock; and no signature, in memory or on  *)
(* disk, exceeds the bucket it was computed from, so the values of a fresh *)
(* snapshot are at least the recorded ones.                                *)
(***************************************************************************)
(* Exactly the lock holder is inside run(). *)
LockInv == \A p \in Procs : pc[p] \in Critical <=> lock = p

(* Program points after the snapshot was taken. *)
HaveRead == {"login", "upload", "await", "finish"}

(* Nothing anywhere exceeds what the log holds. *)
BoundInv ==
    /\ \A p \in Procs, b \in Buckets : /\ snap[p][b] =< Usage(log)[b]
                                       /\ mem[p].sigs[b] =< Usage(log)[b]
    /\ file # Missing => \A b \in Buckets : file.sigs[b] =< Usage(log)[b]
    /\ \A c \in Conns, b \in Buckets : net[c].items[b] =< Usage(log)[b]

(* The holder's memory agrees with the file and is behind its snapshot. *)
HolderInv ==
    \A p \in Procs :
        /\ pc[p] \in Critical /\ file # Missing => file.sigs = mem[p].sigs
        /\ pc[p] \in HaveRead =>
              \A b \in Buckets : mem[p].sigs[b] =< snap[p][b]

MarkInv == TypeOK /\ ConnInv /\ LockInv /\ BoundInv /\ HolderInv

LEMMA LockStep ==
  ASSUME TypeOK, LockInv, [Next]_vars
  PROVE  LockInv'
<1> USE NoProcAssumption DEF LockInv, TypeOK, Critical
<1>1. ASSUME NEW p \in Procs, RunStep(p) PROVE LockInv'
  <2>1. CASE NewState(p)
    BY <2>1 DEF NewState
  <2>2. CASE Acquire(p)
    BY <2>2 DEF Acquire
  <2>3. CASE Read(p) \/ Login(p) \/ (\E c \in Conns : Post(p, c))
    BY <2>3 DEF Read, Login, Post
  <2>4. CASE BatchDone(p)
    BY <2>4 DEF BatchDone
  <2>5. CASE BatchFailed(p) \/ Finish(p)
    BY <2>5 DEF BatchFailed, Finish, Leave
  <2> QED BY <1>1, <2>1, <2>2, <2>3, <2>4, <2>5 DEF RunStep
<1>2. ASSUME NEW p \in Procs, GiveUp(p) PROVE LockInv'
  BY <1>2 DEF GiveUp, LockTimeout, Leave
<1>3. ASSUME NEW c \in Conns, Serve(c) PROVE LockInv'
  BY <1>3 DEF Serve, reporterVars
<1>4. CASE Grow
  BY <1>4 DEF Grow, LogRequest
<1>5. CASE Disturb
  BY <1>5 DEF Disturb, Abort, DryRun, RefuseReport, LoseState, Leave,
              reporterVars
<1>6. CASE UNCHANGED vars
  BY <1>6 DEF vars, reporterVars
<1> QED BY <1>1, <1>2, <1>3, <1>4, <1>5, <1>6 DEF Next

(* Leaving run() clears the caller's values, so all of them stay bounded. *)
LEMMA BoundLeave ==
  ASSUME TypeOK, BoundInv, NEW p \in Procs, Leave(p), UNCHANGED log
  PROVE  \A q \in Procs, b \in Buckets : /\ snap'[q][b] =< Usage(log')[b]
                                         /\ mem'[q].sigs[b] =< Usage(log')[b]
<1>1. \A b \in Buckets : Usage(log)[b] \in Nat
  BY UsageType DEF TypeOK
<1> QED BY <1>1 DEF TypeOK, BoundInv, Leave, NoSnap, EmptyState, States

LEMMA BoundStep ==
  ASSUME TypeOK, ConnInv, BoundInv, [Next]_vars
  PROVE  BoundInv'
<1>0. \A b \in Buckets : Usage(log)[b] \in Nat
  BY UsageType DEF TypeOK
<1> USE DEF TypeOK
<1>1. ASSUME NEW p \in Procs, RunStep(p) PROVE BoundInv'
  <2>0. Chunk(pending[p]) \in SUBSET Buckets
    BY DEF Chunk
  <2>1. CASE NewState(p)
    BY <1>0, <2>1 DEF NewState, BoundInv, Load, EmptyState, States
  <2>2. CASE Acquire(p)
    BY <2>2 DEF Acquire, BoundInv, Load
  <2>3. CASE Read(p)
    BY <1>0, <2>3 DEF Read, BoundInv
  <2>4. CASE Login(p)
    BY <2>4 DEF Login, BoundInv
  <2>5. ASSUME NEW c \in Conns, Post(p, c) PROVE BoundInv'
    BY <1>0, <2>0, <2>5 DEF Post, BoundInv, Request, BuildPayload
  <2>6. CASE BatchDone(p)
    <3>1. conn[p] \in Conns
      BY <2>6 DEF BatchDone, ConnInv
    <3>2. \A b \in Buckets :
             Mark(mem[p], Chunk(pending[p]), snap[p]).sigs[b] =< Usage(log)[b]
      <4> TAKE b \in Buckets
      <4>1. mem[p] \in States /\ snap[p] \in [Buckets -> Nat]
        OBVIOUS
      <4> DEFINE marked == Mark(mem[p], Chunk(pending[p]), snap[p]).sigs[b]
      <4>2. marked = snap[p][b] \/ marked = mem[p].sigs[b]
        BY <2>0, <4>1, MarkSigs
      <4> HIDE DEF marked
      <4>3. marked =< Usage(log)[b]
        BY <4>2 DEF BoundInv
      <4> QED BY <4>3 DEF marked
    <3>3. \A b \in Buckets : FreeConn.items[b] =< Usage(log)[b]
      BY <1>0 DEF FreeConn, NoItems
    <3> QED BY <2>6, <3>1, <3>2, <3>3 DEF BatchDone, BoundInv
  <2>7. CASE BatchFailed(p)
    <3>1. \A b \in Buckets : FreeConn.items[b] =< Usage(log)[b]
      BY <1>0 DEF FreeConn, NoItems
    <3> QED BY <2>7, <3>1, BoundLeave DEF BatchFailed, BoundInv
  <2>8. CASE Finish(p)
    <3>1. file'.sigs = mem[p].sigs
      BY <2>8 DEF Finish, States
    <3>2. \A b \in Buckets : file'.sigs[b] =< Usage(log)[b]
      BY <3>1 DEF BoundInv
    <3> QED BY <2>8, <3>2, BoundLeave DEF Finish, BoundInv
  <2> QED BY <1>1, <2>1, <2>2, <2>3, <2>4, <2>5, <2>6, <2>7, <2>8 DEF RunStep
<1>2. ASSUME NEW p \in Procs, GiveUp(p) PROVE BoundInv'
  BY <1>2, BoundLeave DEF GiveUp, LockTimeout, BoundInv
<1>3. \A b \in Buckets : FreeConn.items[b] =< Usage(log)[b]
  BY <1>0 DEF FreeConn, NoItems
<1>4. ASSUME NEW c \in Conns, NEW resp, Answer(c, resp, Open(c)),
             UNCHANGED reporterVars
      PROVE  BoundInv'
  BY <1>3, <1>4 DEF Answer, Reply, BoundInv, reporterVars
<1>5. ASSUME NEW c \in Conns, Serve(c) PROVE BoundInv'
  BY <1>4, <1>5 DEF Serve, HandleReport
<1>6. CASE Grow
  <2>1. PICK x \in Buckets \cup {Filtered} : LogRequest(x)
    BY <1>6 DEF Grow
  <2>2. \A b \in Buckets : /\ Usage(log)[b] =< Usage(log')[b]
                           /\ Usage(log')[b] \in Nat
    <3>1. log' = Append(log, x) /\ log' \in Seq(Buckets \cup {Filtered})
      BY <2>1 DEF LogRequest
    <3> QED BY <3>1, UsageGrows, UsageType
  <2>3. \A v \in Nat, b \in Buckets :
           v =< Usage(log)[b] => v =< Usage(log')[b]
    BY <1>0, <2>2
  <2>4. /\ \A p \in Procs, b \in Buckets : /\ snap[p][b] \in Nat
                                         /\ mem[p].sigs[b] \in Nat
        /\ file # Missing => \A b \in Buckets : file.sigs[b] \in Nat
        /\ \A c \in Conns, b \in Buckets : net[c].items[b] \in Nat
    BY DEF States, Connections, Payloads
  <2> QED BY <2>1, <2>3, <2>4 DEF LogRequest, BoundInv
<1>7. CASE Disturb
  <2>1. ASSUME NEW p \in Procs, Abort(p) PROVE BoundInv'
    BY <1>3, <2>1, BoundLeave DEF Abort, BoundInv
  <2>2. ASSUME NEW p \in Procs, DryRun(p) PROVE BoundInv'
    BY <2>2, BoundLeave DEF DryRun, BoundInv
  <2>3. CASE LoseState
    BY <2>3 DEF LoseState, BoundInv
  <2> QED BY <1>4, <1>7, <2>1, <2>2, <2>3 DEF Disturb, RefuseReport
<1>8. CASE UNCHANGED vars
  BY <1>8 DEF vars, reporterVars, BoundInv
<1> QED BY <1>1, <1>2, <1>5, <1>6, <1>7, <1>8 DEF Next

LEMMA HolderStep ==
  ASSUME MarkInv, [Next]_vars
  PROVE  HolderInv'
<1> USE DEF MarkInv, TypeOK
<1>1. ASSUME NEW p \in Procs, RunStep(p) PROVE HolderInv'
  <2>0. /\ Chunk(pending[p]) \in SUBSET Buckets
        /\ mem[p] \in States
        /\ snap[p] \in [Buckets -> Nat]
    BY DEF Chunk
  <2>1. CASE NewState(p)
    BY <2>1 DEF NewState, HolderInv, Critical, HaveRead
  <2>2. CASE Acquire(p)
    BY <2>2 DEF Acquire, HolderInv, Load, LockInv, Critical, HaveRead
  <2>3. CASE Read(p)
    BY <2>3 DEF Read, HolderInv, BoundInv, Critical, HaveRead
  <2>4. CASE Login(p) \/ (\E c \in Conns : Post(p, c))
    BY <2>4 DEF Login, Post, HolderInv, Critical, HaveRead
  <2>5. CASE BatchDone(p)
    <3> DEFINE data == Mark(mem[p], Chunk(pending[p]), snap[p])
    <3>1. pc[p] \in HaveRead /\ pc[p] \in Critical /\ lock = p
      BY <2>5 DEF BatchDone, HaveRead, Critical, LockInv
    <3>2. ASSUME NEW b \in Buckets PROVE data.sigs[b] =< snap[p][b]
      <4>1. mem[p].sigs[b] =< snap[p][b] /\ snap[p][b] \in Nat
        BY <2>0, <3>1 DEF HolderInv
      <4>2. data.sigs[b] = snap[p][b] \/ data.sigs[b] = mem[p].sigs[b]
        BY <2>0, MarkSigs
      <4> QED BY <4>1, <4>2
    <3>3. \A q \in Procs : q # p => pc[q] \notin Critical
      BY <3>1 DEF LockInv
    <3>4. \A q \in Procs : q # p => /\ pc'[q] = pc[q]
                                   /\ pc'[q] \notin Critical
                                   /\ pc'[q] \notin HaveRead
      BY <2>5, <3>3 DEF BatchDone, Critical, HaveRead
    <3>5. file' = data /\ mem'[p] = data /\ snap' = snap
      BY <2>5 DEF BatchDone
    <3> QED BY <3>2, <3>4, <3>5 DEF HolderInv
  <2>6. CASE BatchFailed(p)
    BY <2>6 DEF BatchFailed, Leave, HolderInv, Critical, HaveRead
  <2>7. CASE Finish(p)
    <3>1. \A q \in Procs : q # p => pc[q] \notin Critical
      BY <2>7 DEF Finish, LockInv, Critical
    <3>2. \A q \in Procs : pc'[q] \notin Critical /\ pc'[q] \notin HaveRead
      BY <2>7, <3>1 DEF Finish, Leave, Critical, HaveRead
    <3> QED BY <3>2 DEF HolderInv
  <2> QED BY <1>1, <2>1, <2>2, <2>3, <2>4, <2>5, <2>6, <2>7 DEF RunStep
<1>2. ASSUME NEW p \in Procs, GiveUp(p) PROVE HolderInv'
  BY <1>2 DEF GiveUp, LockTimeout, Leave, HolderInv, Critical, HaveRead
<1>3. ASSUME NEW c \in Conns, Serve(c) PROVE HolderInv'
  BY <1>3 DEF Serve, reporterVars, HolderInv
<1>4. CASE Grow
  BY <1>4 DEF Grow, LogRequest, HolderInv
<1>5. CASE Disturb
  BY <1>5 DEF Disturb, Abort, DryRun, RefuseReport, LoseState, Leave,
              reporterVars, HolderInv, Critical, HaveRead
<1>6. CASE UNCHANGED vars
  BY <1>6 DEF vars, reporterVars, HolderInv
<1> QED BY <1>1, <1>2, <1>3, <1>4, <1>5, <1>6 DEF Next

LEMMA MarkInvInit == Init => MarkInv
<1> SUFFICES ASSUME Init PROVE MarkInv
  OBVIOUS
<1>1. TypeOK
  BY TypeInit
<1>2. \A b \in Buckets : Usage(log)[b] \in Nat
  BY <1>1, UsageType DEF TypeOK
<1>3. BoundInv
  BY <1>2 DEF Init, ReporterInit, NetInit, BoundInv, NoSnap, EmptyState,
              FreeConn, NoItems
<1>4. LockInv /\ ConnInv /\ HolderInv
  BY NoProcAssumption DEF Init, ReporterInit, LockInv, ConnInv, HolderInv,
                          Critical, HaveRead
<1> QED BY <1>1, <1>3, <1>4 DEF MarkInv

LEMMA MarkInvStep == MarkInv /\ [Next]_vars => MarkInv'
  BY TypeStep, ConnStep, LockStep, BoundStep, HolderStep DEF MarkInv

LEMMA MarkInvariance == Spec => []MarkInv
  BY MarkInvInit, MarkInvStep, PTL DEF Spec

(* MarksNeverRegress holds of every behaviour: no save, by any process,    *)
(* replaces a signature by an older one, even when reports land late.      *)
THEOREM MarksMonotone == Spec => MarksNeverRegress
<1> DEFINE Keeps == file # Missing /\ file' # Missing =>
                      \A b \in Buckets : file.sigs[b] =< file'.sigs[b]
<1>1. MarkInv /\ [Next]_vars => [Keeps]_vars
  <2> SUFFICES ASSUME MarkInv, Next, file # Missing, file' # Missing,
                      NEW b \in Buckets
               PROVE  file.sigs[b] =< file'.sigs[b]
    OBVIOUS
  <2>0. file.sigs[b] \in Nat
    BY DEF MarkInv, TypeOK, States
  <2>1. ASSUME NEW p \in Procs, BatchDone(p) PROVE file.sigs[b] =< file'.sigs[b]
    <3>1. /\ Chunk(pending[p]) \in SUBSET Buckets
          /\ mem[p] \in States
          /\ snap[p] \in [Buckets -> Nat]
      BY DEF Chunk, MarkInv, TypeOK
    <3>2. file'.sigs[b] = snap[p][b] \/ file'.sigs[b] = mem[p].sigs[b]
      BY <2>1, <3>1, MarkSigs DEF BatchDone
    <3>3. file.sigs[b] = mem[p].sigs[b] /\ mem[p].sigs[b] =< snap[p][b]
      BY <2>1 DEF BatchDone, MarkInv, HolderInv, Critical, HaveRead
    <3> QED BY <2>0, <3>2, <3>3
  <2>2. ASSUME NEW p \in Procs, Finish(p) PROVE file.sigs[b] =< file'.sigs[b]
    <3>1. file'.sigs = mem[p].sigs
      BY <2>2 DEF Finish, MarkInv, TypeOK, States
    <3>2. file.sigs = mem[p].sigs
      BY <2>2 DEF Finish, MarkInv, HolderInv, Critical
    <3> QED BY <2>0, <3>1, <3>2
  <2>3. CASE file' = file
    BY <2>0, <2>3
  <2>4. ASSUME NEW p \in Procs, RunStep(p), ~ BatchDone(p), ~ Finish(p)
        PROVE  file' = file
    BY <2>4 DEF RunStep, NewState, Acquire, Read, Login, Post, BatchFailed
  <2>5. ASSUME NEW p \in Procs, GiveUp(p) PROVE file' = file
    BY <2>5 DEF GiveUp, LockTimeout
  <2>6. ASSUME (\E c \in Conns : Serve(c)) \/ Grow PROVE file' = file
    BY <2>6 DEF Serve, reporterVars, Grow, LogRequest
  <2>7. ASSUME Disturb PROVE file' = file
    BY <2>7 DEF Disturb, Abort, DryRun, RefuseReport, LoseState, reporterVars
  <2> QED BY <2>1, <2>2, <2>3, <2>4, <2>5, <2>6, <2>7 DEF Next
<1> QED BY <1>1, MarkInvariance, PTL DEF Spec, MarksNeverRegress

-----------------------------------------------------------------------------
(* When every storable bucket has a row of its own, an upsert gives the    *)
(* carried buckets their reported values and leaves the other rows alone.  *)
LEMMA UpsertValue ==
  ASSUME OneItemPerRow(Storable), NEW items \in Payloads, NEW b \in Storable
  PROVE  LET up == UpsertBatch(items, ValidItems(items))[RowOf[b]] IN
         /\ b \in Carried(items) => up = items[b]
         /\ b \notin Carried(items) => up = rows[RowOf[b]]
<1> DEFINE V == ValidItems(items)
<1>1. V = Carried(items) \cap Storable /\ V \subseteq Buckets
  BY DEF ValidItems, Storable, Carried
<1>2. RowOf[b] \in Rows /\ b \in Buckets
  BY RowOfAssumption DEF Storable
<1>3. CASE b \in Carried(items)
  <2>1. b \in V
    BY <1>1, <1>3
  <2>2. (CHOOSE a \in V : RowOf[a] = RowOf[b]) = b
    BY <1>1, <2>1 DEF OneItemPerRow
  <2>3. UpsertBatch(items, V)[RowOf[b]] = items[CHOOSE a \in V : RowOf[a] = RowOf[b]]
    BY <1>2, <2>1 DEF UpsertBatch
  <2> QED BY <1>3, <2>2, <2>3
<1>4. CASE b \notin Carried(items)
  <2>1. ~ \E a \in V : RowOf[a] = RowOf[b]
    BY <1>1, <1>4 DEF OneItemPerRow
  <2> QED BY <1>2, <1>4, <2>1 DEF UpsertBatch
<1> QED BY <1>3, <1>4

(* The rows change only when the sidecar serves a report that fits. *)
LEMMA RowsChange ==
  ASSUME [Next]_vars
  PROVE  \/ rows' = rows
         \/ \E c \in Conns :
               /\ Serve(c)
               /\ ReportFits(net[c].items)
               /\ rows' = UpsertBatch(net[c].items, ValidItems(net[c].items))
  BY DEF Next, RunStep, GiveUp, Serve, HandleReport, Grow, Disturb,
         RefuseReport, vars

(* The log only grows. *)
LEMMA LogGrows ==
  ASSUME TypeOK, [Next]_vars, NEW b \in Buckets
  PROVE  Usage(log)[b] \in Nat /\ Usage(log)[b] =< Usage(log')[b]
         /\ Usage(log')[b] \in Nat
<1>1. Usage(log)[b] \in Nat
  BY UsageType DEF TypeOK
<1>2. CASE Grow
  <2>1. PICK x \in Buckets \cup {Filtered} : log' = Append(log, x)
    BY <1>2 DEF Grow, LogRequest
  <2>2. log' \in Seq(Buckets \cup {Filtered})
    BY <2>1 DEF TypeOK
  <2> QED BY <1>1, <2>1, <2>2, UsageGrows, UsageType DEF TypeOK
<1>3. CASE ~ Grow
  <2>1. log' = log
    BY <1>3 DEF Next, RunStep, NewState, Acquire, Read, Login, Post, BatchDone,
                BatchFailed, Finish, GiveUp, LockTimeout, Serve, Disturb, Abort,
                DryRun, RefuseReport, LoseState, vars, reporterVars
  <2> QED BY <1>1, <2>1
<1> QED BY <1>2, <1>3

(* No sequence of retries, crashes and late deliveries makes the table     *)
(* claim more than was logged, provided no two buckets share a row.        *)
THEOREM NeverOvercounts ==
  ASSUME OneItemPerRow(Storable)
  PROVE  Spec => []NoOvercount
<1>1. Init => NoOvercount
  <2> SUFFICES ASSUME Init, NEW b \in Storable
               PROVE  rows[RowOf[b]] =< Usage(log)[b]
    BY DEF NoOvercount
  <2>1. RowOf[b] \in Rows /\ b \in Buckets
    BY RowOfAssumption DEF Storable
  <2>2. Usage(log)[b] \in Nat
    BY <2>1, TypeInit, UsageType DEF TypeOK
  <2> QED BY <2>1, <2>2 DEF Init, SidecarInit
<1>2. NoOvercount /\ MarkInv /\ [Next]_vars => NoOvercount'
  <2> SUFFICES ASSUME NoOvercount, MarkInv, [Next]_vars, NEW b \in Storable
               PROVE  rows'[RowOf[b]] =< Usage(log')[b]
    BY DEF NoOvercount
  <2>1. RowOf[b] \in Rows /\ b \in Buckets
    BY RowOfAssumption DEF Storable
  <2>2. /\ rows[RowOf[b]] \in Nat
        /\ rows[RowOf[b]] =< Usage(log)[b]
    BY <2>1 DEF NoOvercount, MarkInv, TypeOK
  <2>3. Usage(log)[b] \in Nat /\ Usage(log')[b] \in Nat
        /\ Usage(log)[b] =< Usage(log')[b]
    BY <2>1, LogGrows DEF MarkInv
  <2>4. CASE rows' = rows
    BY <2>2, <2>3, <2>4
  <2>5. ASSUME NEW c \in Conns,
               rows' = UpsertBatch(net[c].items, ValidItems(net[c].items))
        PROVE  rows'[RowOf[b]] =< Usage(log')[b]
    <3>1. net[c].items \in Payloads /\ net[c].items[b] \in Nat
      BY <2>1 DEF MarkInv, TypeOK, Connections, Payloads
    <3>2. net[c].items[b] =< Usage(log)[b]
      BY <2>1 DEF MarkInv, BoundInv
    <3>3. rows'[RowOf[b]] \in {net[c].items[b], rows[RowOf[b]]}
      BY <2>5, <3>1, UpsertValue
    <3> QED BY <2>2, <2>3, <3>1, <3>2, <3>3
  <2> QED BY <2>4, <2>5, RowsChange
<1> QED BY <1>1, <1>2, MarkInvariance, PTL DEF Spec

-----------------------------------------------------------------------------
(***************************************************************************)
(* If a report dies with its client and no two buckets share a row, then   *)
(* the lock holder is the only writer of the table, too, and what it sends *)
(* is at least as new as what the table holds.                             *)
(***************************************************************************)
(* A bucket's value v is in the table, or something newer is. *)
Stored(b, v) == b \in Storable /\ v =< rows[RowOf[b]]

(* The report a caller has under way. *)
CurrentPayload(p) == BuildPayload(Chunk(pending[p]), snap[p])

(* The signatures a caller holds in memory are of stored values. *)
MemStored == \A p \in Procs, b \in Buckets :
                mem[p].sigs[b] # 0 => Stored(b, mem[p].sigs[b])

(* The snapshot of the lock holder is at least as new as the table. *)
SnapAhead == \A p \in Procs : pc[p] \in HaveRead =>
                \A b \in Storable : rows[RowOf[b]] =< snap[p][b]

(* A connection carries the report of the one caller that awaits it. *)
ReportsOwned ==
    /\ \A p \in Procs : pc[p] = "await" => net[conn[p]].items = CurrentPayload(p)
    /\ \A p \in Procs : pc[p] # "await" => conn[p] = NoConn
    /\ \A c \in Conns : net[c].phase # "free" =>
          \E p \in Procs : pc[p] = "await" /\ conn[p] = c

(* Only existing buckets are pending. *)
PendingExists == \A p \in Procs : \A b \in pending[p] : snap[p][b] # 0

(* An answer that reports no rejected item means every item is stored. *)
AcceptedStored ==
    \A c \in Conns :
        /\ net[c].phase = "replied"
        /\ net[c].resp.ok
        /\ net[c].resp.rejected = 0
        => \A b \in Carried(net[c].items) : Stored(b, net[c].items[b])

StoreInv == /\ MemStored
            /\ MarkedIsStored
            /\ SnapAhead
            /\ ReportsOwned
            /\ PendingExists
            /\ AcceptedStored

LEMMA PayloadValue ==
  ASSUME MarkInv, StoreInv, NEW p \in Procs, pc[p] = "await", NEW b \in Buckets
  PROVE  /\ b \in Carried(net[conn[p]].items) <=> b \in Chunk(pending[p])
         /\ b \in Chunk(pending[p]) => net[conn[p]].items[b] = snap[p][b]
<1>1. net[conn[p]].items = CurrentPayload(p)
  BY DEF StoreInv, ReportsOwned
<1>2. b \in Chunk(pending[p]) => snap[p][b] # 0
  BY DEF StoreInv, PendingExists, Chunk
<1> QED BY <1>1, <1>2 DEF CurrentPayload, BuildPayload, Carried

(* The sidecar only ever serves the lock holder's report. *)
LEMMA ServedByHolder ==
  ASSUME MarkInv, StoreInv, NEW c \in Conns, net[c].phase # "free"
  PROVE  \E p \in Procs : /\ pc[p] = "await"
                          /\ conn[p] = c
                          /\ \A q \in Procs : pc[q] \in Critical => q = p
<1>1. PICK p \in Procs : pc[p] = "await" /\ conn[p] = c
  BY DEF StoreInv, ReportsOwned
<1>2. lock = p
  BY <1>1 DEF MarkInv, LockInv, Critical
<1> QED BY <1>1, <1>2 DEF MarkInv, LockInv

(* What serving a report does to a storable bucket's row. *)
LEMMA ServedValue ==
  ASSUME OneItemPerRow(Storable), MarkInv, StoreInv, [Next]_vars,
         NEW b \in Storable, rows'[RowOf[b]] # rows[RowOf[b]]
  PROVE  \E p \in Procs : /\ pc[p] = "await"
                          /\ pc' = pc
                          /\ snap' = snap
                          /\ \A q \in Procs : pc[q] \in Critical => q = p
                          /\ rows'[RowOf[b]] = snap[p][b]
<1>1. PICK c \in Conns :
         Serve(c) /\ rows' = UpsertBatch(net[c].items, ValidItems(net[c].items))
  BY RowsChange
<1>2. net[c].phase # "free" /\ pc' = pc /\ snap' = snap
  BY <1>1 DEF Serve, HandleReport, reporterVars
<1>3. PICK p \in Procs : /\ pc[p] = "await"
                         /\ conn[p] = c
                         /\ \A q \in Procs : pc[q] \in Critical => q = p
  BY <1>2, ServedByHolder
<1>4. net[c].items \in Payloads /\ b \in Buckets
  BY DEF MarkInv, TypeOK, Connections, Storable
<1>5. b \in Carried(net[c].items) /\ rows'[RowOf[b]] = net[c].items[b]
  BY <1>1, <1>4, UpsertValue
<1>6. net[c].items[b] = snap[p][b]
  BY <1>3, <1>4, <1>5, PayloadValue
<1> QED BY <1>2, <1>3, <1>5, <1>6

(* Therefore no row ever goes back. *)
LEMMA RowsUp ==
  ASSUME OneItemPerRow(Storable), MarkInv, StoreInv, [Next]_vars,
         NEW b \in Storable
  PROVE  /\ rows[RowOf[b]] \in Nat
         /\ rows'[RowOf[b]] \in Nat
         /\ rows[RowOf[b]] =< rows'[RowOf[b]]
<1>1. RowOf[b] \in Rows /\ b \in Buckets
  BY RowOfAssumption DEF Storable
<1>2. rows[RowOf[b]] \in Nat /\ \A p \in Procs : snap[p][b] \in Nat
  BY <1>1 DEF MarkInv, TypeOK
<1>3. ASSUME NEW p \in Procs, pc[p] = "await"
      PROVE  rows[RowOf[b]] =< snap[p][b]
  BY <1>3 DEF StoreInv, SnapAhead, HaveRead
<1>4. CASE rows'[RowOf[b]] = rows[RowOf[b]]
  BY <1>2, <1>4
<1>5. CASE rows'[RowOf[b]] # rows[RowOf[b]]
  <2>1. PICK p \in Procs : pc[p] = "await" /\ rows'[RowOf[b]] = snap[p][b]
    BY <1>5, ServedValue
  <2> QED BY <1>2, <1>3, <2>1
<1> QED BY <1>4, <1>5

(* A value that is in the table stays there. *)
LEMMA StoredStays ==
  ASSUME OneItemPerRow(Storable), MarkInv, StoreInv, [Next]_vars,
         NEW b \in Buckets, NEW v \in Nat, Stored(b, v)
  PROVE  Stored(b, v)'
<1>1. b \in Storable /\ v =< rows[RowOf[b]]
  BY DEF Stored
<1>2. /\ rows[RowOf[b]] \in Nat
      /\ rows'[RowOf[b]] \in Nat
      /\ rows[RowOf[b]] =< rows'[RowOf[b]]
  BY <1>1, RowsUp
<1>3. v =< rows'[RowOf[b]]
  BY <1>1, <1>2
<1> QED BY <1>1, <1>3 DEF Stored, Storable

(* An accepted batch is stored when its buckets are marked. *)
LEMMA MarkedStored ==
  ASSUME MarkInv, StoreInv, NEW p \in Procs, BatchDone(p), NEW b \in Buckets,
         Mark(mem[p], Chunk(pending[p]), snap[p]).sigs[b] # 0
  PROVE  Stored(b, Mark(mem[p], Chunk(pending[p]), snap[p]).sigs[b])
<1> DEFINE chunk == Chunk(pending[p])
<1>1. chunk \in SUBSET Buckets /\ mem[p] \in States /\ snap[p] \in [Buckets -> Nat]
  BY DEF Chunk, MarkInv, TypeOK
<1>2. CASE b \in chunk
  <2>1. pc[p] = "await" /\ conn[p] \in Conns
    BY DEF BatchDone, MarkInv, ConnInv
  <2>2. b \in Carried(net[conn[p]].items) /\ net[conn[p]].items[b] = snap[p][b]
    BY <1>2, <2>1, PayloadValue
  <2>3. Stored(b, net[conn[p]].items[b])
    BY <2>1, <2>2 DEF BatchDone, BatchAccepted, StoreInv, AcceptedStored
  <2> QED BY <1>1, <1>2, <2>2, <2>3, MarkSigs
<1>3. CASE b \notin chunk
  <2>1. Mark(mem[p], chunk, snap[p]).sigs[b] = mem[p].sigs[b]
    BY <1>1, <1>3, MarkSigs
  <2> QED BY <2>1 DEF StoreInv, MemStored
<1> QED BY <1>2, <1>3

LEMMA MemStoredStep ==
  ASSUME OneItemPerRow(Storable), MarkInv, StoreInv, [Next]_vars
  PROVE  MemStored'
<1> SUFFICES ASSUME NEW q \in Procs, NEW b \in Buckets, mem'[q].sigs[b] # 0
             PROVE  Stored(b, mem[q].sigs[b])'
  BY DEF MemStored
<1>0. TypeOK'
  BY TypeStep DEF MarkInv
<1>1. PICK v \in Nat : v = mem'[q].sigs[b]
  BY <1>0 DEF TypeOK, States
<1>2. Stored(b, mem'[q].sigs[b])
  <2> USE DEF MarkInv, TypeOK
  <2>1. CASE mem'[q] = mem[q]
    BY <2>1 DEF StoreInv, MemStored
  <2>2. CASE mem'[q] = EmptyState
    BY <2>2 DEF EmptyState
  <2>3. CASE file # Missing /\ mem'[q] = file
    BY <2>3 DEF StoreInv, MarkedIsStored, Stored
  <2>4. ASSUME NEW p \in Procs, RunStep(p),
               mem'[q] # mem[q], mem'[q] # EmptyState,
               ~ (file # Missing /\ mem'[q] = file)
        PROVE  Stored(b, mem'[q].sigs[b])
    <3>1. BatchDone(p) /\ q = p
      BY <2>4 DEF RunStep, NewState, Acquire, Read, Login, Post, BatchDone,
                  BatchFailed, Finish, Leave, Load
    <3>2. mem'[q] = Mark(mem[p], Chunk(pending[p]), snap[p])
      BY <3>1 DEF BatchDone
    <3> QED BY <3>1, <3>2, MarkedStored
  <2>5. ASSUME ~ \E p \in Procs : RunStep(p)
        PROVE  mem'[q] = mem[q] \/ mem'[q] = EmptyState
    BY <2>5 DEF Next, GiveUp, LockTimeout, Serve, Grow, LogRequest, Disturb,
                Abort, DryRun, RefuseReport, LoseState, Leave, vars, reporterVars
  <2> QED BY <2>1, <2>2, <2>3, <2>4, <2>5
<1>3. Stored(b, v)'
  BY <1>1, <1>2, StoredStays
<1> QED BY <1>1, <1>3 DEF Stored

LEMMA FileStoredStep ==
  ASSUME OneItemPerRow(Storable), MarkInv, StoreInv, [Next]_vars
  PROVE  MarkedIsStored'
<1> SUFFICES ASSUME file' # Missing, NEW b \in Buckets, file'.sigs[b] # 0
             PROVE  Stored(b, file.sigs[b])'
  BY DEF MarkedIsStored, Stored
<1>0. TypeOK'
  BY TypeStep DEF MarkInv
<1>1. PICK v \in Nat : v = file'.sigs[b]
  BY <1>0 DEF TypeOK, States
<1>2. Stored(b, file'.sigs[b])
  <2>1. CASE file' = file
    BY <2>1 DEF StoreInv, MarkedIsStored, Stored
  <2>2. ASSUME NEW p \in Procs, BatchDone(p) PROVE Stored(b, file'.sigs[b])
    BY <2>2, MarkedStored DEF BatchDone
  <2>3. ASSUME NEW p \in Procs, Finish(p) PROVE Stored(b, file'.sigs[b])
    <3>1. file'.sigs = mem[p].sigs
      BY <2>3 DEF Finish, MarkInv, TypeOK, States
    <3> QED BY <3>1 DEF StoreInv, MemStored
  <2>4. ASSUME ~ \E p \in Procs : BatchDone(p) \/ Finish(p) PROVE file' = file
    BY <2>4 DEF Next, RunStep, NewState, Acquire, Read, Login, Post,
                BatchFailed, GiveUp, LockTimeout, Serve, Grow, LogRequest,
                Disturb, Abort, DryRun, RefuseReport, LoseState, vars,
                reporterVars
  <2> QED BY <2>1, <2>2, <2>3, <2>4
<1>3. Stored(b, v)'
  BY <1>1, <1>2, StoredStays
<1> QED BY <1>1, <1>3 DEF Stored

LEMMA SnapAheadStep ==
  ASSUME OneItemPerRow(Storable), NoOvercount, MarkInv, StoreInv, [Next]_vars
  PROVE  SnapAhead'
<1> SUFFICES ASSUME NEW q \in Procs, pc'[q] \in HaveRead, NEW b \in Storable
             PROVE  rows'[RowOf[b]] =< snap'[q][b]
  BY DEF SnapAhead, Storable
<1>1. CASE rows'[RowOf[b]] # rows[RowOf[b]]
  <2>1. PICK p \in Procs : /\ pc' = pc
                           /\ snap' = snap
                           /\ \A r \in Procs : pc[r] \in Critical => r = p
                           /\ rows'[RowOf[b]] = snap[p][b]
    BY <1>1, ServedValue
  <2>2. q = p
    BY <2>1 DEF HaveRead, Critical
  <2>3. b \in Buckets /\ snap[p][b] \in Nat
    BY DEF Storable, MarkInv, TypeOK
  <2> QED BY <2>1, <2>2, <2>3
<1>2. CASE rows'[RowOf[b]] = rows[RowOf[b]]
  <2> USE DEF MarkInv, TypeOK
  <2>1. CASE Read(q)
    <3>1. snap'[q] = Usage(log)
      BY <2>1 DEF Read
    <3> QED BY <1>2, <3>1 DEF NoOvercount
  <2>2. CASE pc[q] \in HaveRead /\ snap'[q] = snap[q]
    BY <1>2, <2>2 DEF StoreInv, SnapAhead
  <2>3. CASE ~ Read(q)
    <3>1. ASSUME NEW p \in Procs, RunStep(p)
          PROVE  pc[q] \in HaveRead /\ snap'[q] = snap[q]
      BY <2>3, <3>1 DEF RunStep, NewState, Acquire, Read, Login, Post,
                        BatchDone, BatchFailed, Finish, Leave, HaveRead
    <3>2. ASSUME ~ \E p \in Procs : RunStep(p)
          PROVE  pc[q] \in HaveRead /\ snap'[q] = snap[q]
      BY <3>2 DEF Next, GiveUp, LockTimeout, Serve, Grow, LogRequest, Disturb,
                  Abort, DryRun, RefuseReport, LoseState, Leave, HaveRead, vars,
                  reporterVars
    <3> QED BY <2>2, <3>1, <3>2
  <2> QED BY <2>1, <2>3
<1> QED BY <1>1, <1>2

LEMMA PendingStep ==
  ASSUME MarkInv, PendingExists, [Next]_vars
  PROVE  PendingExists'
<1> USE DEF MarkInv, TypeOK, PendingExists
<1>1. ASSUME NEW p \in Procs, RunStep(p) PROVE PendingExists'
  <2>1. CASE Read(p)
    BY <2>1, UsageType DEF Read, Changed
  <2>2. CASE BatchDone(p)
    BY <2>2 DEF BatchDone
  <2>3. CASE BatchFailed(p) \/ Finish(p)
    BY <2>3 DEF BatchFailed, Finish, Leave
  <2>4. CASE NewState(p) \/ Acquire(p) \/ Login(p) \/ \E c \in Conns : Post(p, c)
    BY <2>4 DEF NewState, Acquire, Login, Post
  <2> QED BY <1>1, <2>1, <2>2, <2>3, <2>4 DEF RunStep
<1>2. ASSUME ~ \E p \in Procs : RunStep(p) PROVE PendingExists'
  <2>1. \A q \in Procs : \/ pending'[q] = pending[q] /\ snap'[q] = snap[q]
                         \/ pending'[q] = {}
    <3>1. ASSUME NEW p \in Procs, Leave(p)
          PROVE  \A q \in Procs : \/ pending'[q] = pending[q] /\ snap'[q] = snap[q]
                                  \/ pending'[q] = {}
      BY <3>1 DEF Leave
    <3> QED BY <1>2, <3>1
            DEF Next, GiveUp, LockTimeout, Serve, Grow, LogRequest, Disturb,
                Abort, DryRun, LoseState, vars, reporterVars
  <2> QED BY <2>1
<1> QED BY <1>1, <1>2

LEMMA OwnedStep ==
  ASSUME ~ AbandonedMayLand, MarkInv, StoreInv, [Next]_vars
  PROVE  ReportsOwned'
<1> USE DEF MarkInv, TypeOK
<1>0. /\ \A p, q \in Procs : pc[p] \in Critical /\ pc[q] \in Critical => p = q
      /\ \A p \in Procs : pc[p] = "await" => pc[p] \in Critical /\ conn[p] \in Conns
      /\ ReportsOwned
  BY DEF LockInv, Critical, ConnInv, StoreInv
<1>1. ASSUME NEW p \in Procs, NewState(p) \/ Acquire(p) \/ Read(p) \/ Login(p)
      PROVE  ReportsOwned'
  BY <1>0, <1>1 DEF ReportsOwned, CurrentPayload, NewState, Acquire, Read, Login
<1>2. ASSUME NEW p \in Procs, NEW c \in Conns, Post(p, c) PROVE ReportsOwned'
  <2>1. \A q \in Procs : q # p => pc'[q] = pc[q] /\ pc[q] # "await" /\ conn'[q] = NoConn
    BY <1>0, <1>2 DEF Post, Critical, ReportsOwned
  <2>2. pc'[p] = "await" /\ conn'[p] = c /\ net'[c].items = CurrentPayload(p)'
    BY <1>2 DEF Post, CurrentPayload, Request
  <2>3. \A d \in Conns : d # c => net'[d] = net[d] /\ net[d].phase = "free"
    BY <1>0, <1>2 DEF Post, ReportsOwned, Critical
  <2> QED BY <2>1, <2>2, <2>3 DEF ReportsOwned
<1>3. ASSUME NEW p \in Procs, pc[p] = "await", net' = [net EXCEPT ![conn[p]] = FreeConn],
             \A q \in Procs : q # p => pc'[q] = pc[q] /\ conn'[q] = conn[q],
             pc'[p] # "await", conn'[p] = NoConn
      PROVE  ReportsOwned'
  <2>1. \A q \in Procs : pc'[q] # "await" /\ conn'[q] = NoConn
    BY <1>0, <1>3 DEF ReportsOwned
  <2>2. \A d \in Conns : net'[d].phase = "free"
    BY <1>0, <1>3 DEF ReportsOwned, FreeConn
  <2> QED BY <2>1, <2>2 DEF ReportsOwned
<1>4. ASSUME NEW p \in Procs, BatchDone(p) \/ BatchFailed(p) PROVE ReportsOwned'
  BY <1>3, <1>4 DEF BatchDone, BatchFailed, Leave
<1>5. ASSUME NEW p \in Procs, pc[p] # "await", Leave(p), net' = net
      PROVE  ReportsOwned'
  BY <1>0, <1>5 DEF ReportsOwned, CurrentPayload, Leave
<1>6. ASSUME NEW p \in Procs, Abort(p) PROVE ReportsOwned'
  <2>1. CASE pc[p] = "await"
    <3>1. conn[p] # NoConn
      BY <1>0, <2>1, NoConnAssumption
    <3>2. net' = [net EXCEPT ![conn[p]] = FreeConn]
      BY <1>6, <3>1 DEF Abort
    <3>3. /\ pc' = [pc EXCEPT ![p] = "idle"]
          /\ conn' = [conn EXCEPT ![p] = NoConn]
      BY <1>6 DEF Abort, Leave
    <3>4. /\ \A q \in Procs : q # p => pc'[q] = pc[q] /\ conn'[q] = conn[q]
          /\ pc'[p] # "await" /\ conn'[p] = NoConn
      BY <3>3
    <3> QED BY <1>3, <2>1, <3>2, <3>4
  <2>2. CASE pc[p] # "await"
    BY <1>0, <1>5, <1>6, <2>2 DEF Abort, ReportsOwned
  <2> QED BY <2>1, <2>2
<1>7. ASSUME NEW p \in Procs, Finish(p) \/ GiveUp(p) \/ DryRun(p)
      PROVE  ReportsOwned'
  BY <1>5, <1>7 DEF Finish, GiveUp, LockTimeout, DryRun
<1>8. ASSUME NEW c \in Conns, NEW resp, net[c].phase = "sent",
             Answer(c, resp, Open(c)), UNCHANGED reporterVars
      PROVE  ReportsOwned'
  <2>1. Open(c)
    BY <1>0, <1>8 DEF ReportsOwned, Open
  <2>2. /\ \A d \in Conns : net'[d].items = net[d].items
        /\ \A d \in Conns : net'[d].phase # "free" => net[d].phase # "free"
    BY <1>8, <2>1 DEF Answer, Reply
  <2> QED BY <1>0, <1>8, <2>2 DEF ReportsOwned, CurrentPayload, reporterVars
<1>9. ASSUME NEW c \in Conns, Serve(c) PROVE ReportsOwned'
  BY <1>8, <1>9 DEF Serve, HandleReport
<1>10. ASSUME NEW c \in Conns, RefuseReport(c, Open(c)), UNCHANGED reporterVars
       PROVE  ReportsOwned'
  BY <1>8, <1>10 DEF RefuseReport
<1>11. CASE Grow \/ LoseState \/ UNCHANGED vars
  BY <1>0, <1>11 DEF Grow, LogRequest, LoseState, ReportsOwned, CurrentPayload,
                     vars, reporterVars
<1> QED BY <1>1, <1>2, <1>4, <1>6, <1>7, <1>9, <1>10, <1>11
        DEF Next, RunStep, Disturb

LEMMA AcceptedStep ==
  ASSUME OneItemPerRow(Storable), MarkInv, StoreInv, [Next]_vars
  PROVE  AcceptedStored'
<1> SUFFICES ASSUME NEW c \in Conns,
                    net'[c].phase = "replied",
                    net'[c].resp.ok,
                    net'[c].resp.rejected = 0,
                    NEW b \in Carried(net'[c].items)
             PROVE  Stored(b, net[c].items[b])'
  BY DEF AcceptedStored, Carried
<1>0. TypeOK' /\ b \in Buckets
  BY TypeStep DEF MarkInv, Carried
<1>1. PICK v \in Nat : v = net'[c].items[b]
  BY <1>0 DEF TypeOK, Connections, Payloads
<1>2. CASE net'[c] = net[c]
  <2>1. Stored(b, v)
    BY <1>1, <1>2 DEF StoreInv, AcceptedStored
  <2>2. Stored(b, v)'
    BY <1>0, <2>1, StoredStays
  <2> QED BY <1>1, <2>2 DEF Stored
<1>3. CASE Serve(c)
  <2> DEFINE items == net[c].items
  <2>0. items \in Payloads /\ c \in DOMAIN net
    BY DEF MarkInv, TypeOK, Connections
  <2>1. ReportFits(items) /\ net'[c] = Reply(items, ReportResponse(items))
    BY <1>3, <2>0 DEF Serve, HandleReport, Answer, Reply, HttpError, FreeConn
  <2>2. net'[c].items = items /\ Cardinality(Carried(items) \ ValidItems(items)) = 0
    BY <2>1 DEF Reply, ReportResponse
  <2>3. Carried(items) \ ValidItems(items) = {}
    <3>1. Carried(items) \ ValidItems(items) \in SUBSET Buckets
      BY DEF Carried
    <3> QED BY <2>2, <3>1, CardinalityOfBuckets, FS_EmptySet
  <2>4. b \in Carried(items) /\ b \in Storable
    BY <1>0, <2>2, <2>3 DEF ValidItems, Storable
  <2>5. rows' = UpsertBatch(items, ValidItems(items))
    BY <1>3, <2>1 DEF Serve, HandleReport
  <2>6. rows'[RowOf[b]] = items[b]
    BY <2>0, <2>4, <2>5, UpsertValue
  <2>7. v = items[b] /\ v =< rows'[RowOf[b]]
    BY <1>1, <2>2, <2>6
  <2> QED BY <1>1, <2>4, <2>7 DEF Stored, Storable
<1>4. ASSUME net'[c] # net[c] PROVE Serve(c)
  <2> USE DEF MarkInv, TypeOK
  <2>1. ASSUME NEW p \in Procs, RunStep(p) PROVE FALSE
    BY <1>4, <2>1 DEF RunStep, NewState, Acquire, Read, Login, Post, Request,
                      BatchDone, BatchFailed, Finish, FreeConn
  <2>2. ASSUME Disturb PROVE FALSE
    BY <1>4, <2>2 DEF Disturb, Abort, DryRun, RefuseReport, LoseState, Answer,
                      Reply, FreeConn, HttpError
  <2>3. ASSUME NEW d \in Conns, Serve(d) PROVE d = c
    BY <1>4, <2>3 DEF Serve, HandleReport, Answer
  <2> QED BY <1>4, <2>1, <2>2, <2>3
          DEF Next, GiveUp, LockTimeout, Grow, LogRequest, vars
<1> QED BY <1>2, <1>3, <1>4

LEMMA StoreInvInit == Init => StoreInv
<1> SUFFICES ASSUME Init PROVE StoreInv
  OBVIOUS
<1>1. MemStored /\ MarkedIsStored
  BY DEF Init, ReporterInit, MemStored, MarkedIsStored, EmptyState
<1>2. SnapAhead /\ PendingExists
  BY DEF Init, ReporterInit, SnapAhead, PendingExists, HaveRead
<1>3. ReportsOwned /\ AcceptedStored
  BY DEF Init, ReporterInit, NetInit, ReportsOwned, AcceptedStored, FreeConn
<1> QED BY <1>1, <1>2, <1>3 DEF StoreInv

LEMMA StoreInvariance ==
  ASSUME ~ AbandonedMayLand, OneItemPerRow(Storable)
  PROVE  Spec => []StoreInv
<1>1. StoreInv /\ NoOvercount /\ MarkInv /\ [Next]_vars => StoreInv'
  BY MemStoredStep, FileStoredStep, SnapAheadStep, OwnedStep, PendingStep,
     AcceptedStep DEF StoreInv
<1>2. Spec => []NoOvercount
  BY NeverOvercounts
<1> QED BY <1>1, <1>2, StoreInvInit, MarkInvariance, PTL DEF Spec

(* A signature in the state file always stands for a value the table       *)
(* holds, so a bucket that is skipped as unchanged is not lost.  Needs     *)
(* that reports die with their client: with AbandonedMayLand the property  *)
(* is false.                                                               *)
THEOREM MarkedStaysStored ==
  ASSUME ~ AbandonedMayLand, OneItemPerRow(Storable)
  PROVE  Spec => []MarkedIsStored
<1>1. StoreInv => MarkedIsStored
  BY DEF StoreInv
<1>2. Spec => []StoreInv
  BY StoreInvariance
<1> QED BY <1>1, <1>2, PTL

(* What a run has read is either still to be sent or marked in memory. *)
SentOrPending ==
    \A p \in Procs :
        /\ pc[p] \in HaveRead => \A b \in Buckets \ pending[p] :
              snap[p][b] # 0 => mem[p].sigs[b] = snap[p][b]
        /\ pc[p] = "finish" => pending[p] = {}

(* A step that leaves what p has read, sent and marked alone. *)
SameRun(p) == UNCHANGED <<snap[p], pending[p], mem[p]>>

LEMMA SentStep ==
  ASSUME MarkInv, SentOrPending, [Next]_vars
  PROVE  SentOrPending'
<1> SUFFICES ASSUME NEW q \in Procs, pc'[q] \in HaveRead
             PROVE  /\ \A b \in Buckets \ pending'[q] :
                          snap'[q][b] # 0 => mem'[q].sigs[b] = snap'[q][b]
                    /\ pc'[q] = "finish" => pending'[q] = {}
  BY DEF SentOrPending, HaveRead
<1> USE DEF MarkInv, TypeOK
<1>1. CASE SameRun(q) /\ pc[q] \in HaveRead
           /\ (pc'[q] = "finish" => pc[q] = "finish")
  BY <1>1 DEF SentOrPending, SameRun
<1>2. CASE Read(q)
  <2>1. /\ snap'[q] = Usage(log) /\ pending'[q] = Changed(Usage(log), mem[q])
        /\ mem'[q] = mem[q] /\ (pc'[q] = "finish" => pending'[q] = {})
    BY <1>2 DEF Read
  <2> QED BY <2>1 DEF Changed
<1>3. CASE BatchDone(q)
  <2> DEFINE chunk == Chunk(pending[q])
  <2>1. /\ snap'[q] = snap[q] /\ pending'[q] = pending[q] \ chunk
        /\ mem'[q] = Mark(mem[q], chunk, snap[q])
        /\ pc'[q] = "finish" => pending'[q] = {}
    BY <1>3 DEF BatchDone
  <2>2. chunk \in SUBSET Buckets /\ mem[q] \in States
        /\ snap[q] \in [Buckets -> Nat] /\ pc[q] \in HaveRead
    BY <1>3 DEF BatchDone, HaveRead, Chunk
  <2> HIDE DEF chunk
  <2>3. ASSUME NEW b \in Buckets
        PROVE  /\ b \in chunk => mem'[q].sigs[b] = snap[q][b]
               /\ b \notin chunk => mem'[q].sigs[b] = mem[q].sigs[b]
    <3> HIDE DEF MarkInv, TypeOK
    <3> DEFINE marked == Mark(mem[q], chunk, snap[q])
    <3>1. /\ b \in chunk => marked.sigs[b] = snap[q][b]
          /\ b \notin chunk => marked.sigs[b] = mem[q].sigs[b]
      BY <2>2, MarkSigs
    <3>2. mem'[q] = marked
      BY <2>1
    <3> HIDE DEF marked
    <3> QED BY <3>1, <3>2
  <2> QED BY <2>1, <2>2, <2>3 DEF SentOrPending
<1>4. CASE ~ Read(q) /\ ~ BatchDone(q)
  <2>1. ASSUME NEW p \in Procs, RunStep(p)
        PROVE  SameRun(q) /\ pc[q] \in HaveRead
               /\ (pc'[q] = "finish" => pc[q] = "finish")
    BY <1>4, <2>1 DEF RunStep, NewState, Acquire, Read, Login, Post, BatchDone,
                      BatchFailed, Finish, Leave, HaveRead, SameRun
  <2>2. ASSUME ~ \E p \in Procs : RunStep(p)
        PROVE  SameRun(q) /\ pc[q] \in HaveRead
               /\ (pc'[q] = "finish" => pc[q] = "finish")
    BY <2>2 DEF Next, GiveUp, LockTimeout, Serve, Grow, LogRequest, Disturb,
                Abort, DryRun, RefuseReport, LoseState, Leave, HaveRead, vars,
                reporterVars, SameRun
  <2> QED BY <1>1, <2>1, <2>2
<1> QED BY <1>2, <1>3, <1>4

LEMMA SentInvariance == Spec => []SentOrPending
<1>1. Init => SentOrPending
  BY DEF Init, ReporterInit, SentOrPending, HaveRead
<1>2. MarkInv /\ SentOrPending /\ [Next]_vars => SentOrPending'
  BY SentStep
<1> QED BY <1>1, <1>2, MarkInvariance, PTL DEF Spec

(* What a run has read is in the table, unchanged, when the run ends: this *)
(* is what Converges says of one run, without fairness.                    *)
THEOREM FinishedStaysStored ==
  ASSUME ~ AbandonedMayLand, OneItemPerRow(Storable)
  PROVE  Spec => []FinishedIsStored
<1>1. ASSUME MarkInv, StoreInv, SentOrPending
      PROVE  FinishedIsStored
  <2> SUFFICES ASSUME NEW p \in Procs, pc[p] = "finish", NEW b \in Buckets
               PROVE  /\ snap[p][b] # 0 => b \in Storable
                      /\ b \in Storable => rows[RowOf[b]] = snap[p][b]
    BY DEF FinishedIsStored
  <2>1. snap[p][b] # 0 => Stored(b, snap[p][b])
    BY <1>1 DEF SentOrPending, HaveRead, StoreInv, MemStored
  <2>2. b \in Storable => /\ rows[RowOf[b]] =< snap[p][b]
                          /\ rows[RowOf[b]] \in Nat
    BY <1>1, RowOfAssumption
       DEF StoreInv, SnapAhead, HaveRead, MarkInv, TypeOK, Storable
  <2>3. snap[p][b] \in Nat
    BY <1>1 DEF MarkInv, TypeOK
  <2> QED BY <2>1, <2>2, <2>3 DEF Stored
<1> QED BY <1>1, MarkInvariance, StoreInvariance, SentInvariance, PTL

(* Under the same conditions no stored row ever goes back to an earlier    *)
(* cumulative value: the file lock orders the writes to the table.         *)
THEOREM RowsMonotone ==
  ASSUME ~ AbandonedMayLand, OneItemPerRow(Storable)
  PROVE  Spec => RowsNeverRegress
<1>1. StoreInv /\ MarkInv /\ [Next]_vars => [\A r \in Rows : rows[r] =< rows'[r]]_vars
  <2> SUFFICES ASSUME StoreInv, MarkInv, [Next]_vars, NEW r \in Rows
               PROVE  rows[r] =< rows'[r]
    OBVIOUS
  <2>1. rows[r] \in Nat
    BY DEF MarkInv, TypeOK
  <2>2. CASE \E b \in Storable : RowOf[b] = r
    BY <2>2, RowsUp
  <2>3. CASE ~ \E b \in Storable : RowOf[b] = r
    <3>1. rows'[r] = rows[r]
      BY <2>3, RowsChange DEF UpsertBatch, ValidItems, Storable, Carried
    <3> QED BY <2>1, <3>1
  <2> QED BY <2>2, <2>3
<1>2. Spec => []StoreInv
  BY StoreInvariance
<1> QED BY <1>1, <1>2, MarkInvariance, PTL DEF Spec, RowsNeverRegress

-----------------------------------------------------------------------------
(* A new request adds exactly one to the usage of its bucket.              *)
LEMMA UsageAppend ==
  ASSUME NEW l \in Seq(Buckets \cup {Filtered}),
         NEW x \in Buckets \cup {Filtered},
         NEW b \in Buckets
  PROVE  Usage(Append(l, x))[b] = IF x = b THEN Usage(l)[b] + 1 ELSE Usage(l)[b]
<1> DEFINE S == {i \in 1 .. Len(l) : l[i] = b}
           T == {i \in 1 .. Len(Append(l, x)) : Append(l, x)[i] = b}
           n == Len(l) + 1
<1>1. n \notin S /\ IsFiniteSet(S)
  <2>1. IsFiniteSet(1 .. Len(l))
    BY FS_Interval
  <2> QED BY <2>1, FS_Subset
<1>2. CASE x = b
  <2>1. T = S \cup {n}
    BY <1>2
  <2>2. Cardinality(S \cup {n}) = Cardinality(S) + 1
    BY <1>1, FS_AddElement
  <2> QED BY <1>2, <2>1, <2>2 DEF Usage
<1>3. CASE x # b
  <2>1. T = S
    BY <1>3
  <2> QED BY <1>3, <2>1 DEF Usage
<1> QED BY <1>2, <1>3

LEMMA UsageEmpty ==
  ASSUME NEW b \in Buckets
  PROVE  Usage(<<>>)[b] = 0
<1>1. {i \in 1 .. Len(<<>>) : <<>>[i] = b} = {}
  OBVIOUS
<1> QED BY <1>1, FS_EmptySet DEF Usage

(* A step that changes the table leaves the log alone, and the other way   *)
(* round; the log grows by one request.                                    *)
LEMMA LogChange ==
  ASSUME [Next]_vars
  PROVE  \/ log' = log
         \/ /\ rows' = rows
            /\ \E x \in Buckets \cup {Filtered} : log' = Append(log, x)
<1>1. CASE Grow
  BY <1>1 DEF Grow, LogRequest
<1>2. CASE ~ Grow
  BY <1>2 DEF Next, RunStep, NewState, Acquire, Read, Login, Post, BatchDone,
              BatchFailed, Finish, GiveUp, LockTimeout, Serve, Disturb, Abort,
              DryRun, RefuseReport, LoseState, vars, reporterVars
<1> QED BY <1>1, <1>2

LEMMA LedgerInit == Init => Ledger!Init
<1> SUFFICES ASSUME Init
             PROVE  Ledger!Init
  OBVIOUS
<1>1. \A b \in Storable : b \in Buckets /\ RowOf[b] \in Rows
  BY RowOfAssumption DEF Storable
<1>2. log = <<>>
  BY DEF Init, ReporterInit
<1>3. \A b \in Storable : Usage(log)[b] = 0
  BY <1>1, <1>2, UsageEmpty
<1>4. \A b \in Storable : rows[RowOf[b]] = 0
  BY <1>1 DEF Init, SidecarInit
<1> QED BY <1>3, <1>4 DEF Ledger!Init

LEMMA LedgerLog ==
  ASSUME TypeOK, rows' = rows,
         NEW x \in Buckets \cup {Filtered}, log' = Append(log, x)
  PROVE  [Ledger!Next]_(Ledger!vars)
<1>1. \A b \in Storable :
        Usage(log')[b] = IF x = b THEN Usage(log)[b] + 1 ELSE Usage(log)[b]
  BY UsageAppend DEF TypeOK, Storable
<1>2. CASE x \in Storable
  <2>1. [b \in Storable |-> Usage(log')[b]]
          = [[b \in Storable |-> Usage(log)[b]] EXCEPT ![x] = @ + 1]
    BY <1>1, <1>2
  <2>2. Ledger!Log
    BY <1>2, <2>1 DEF Ledger!Log
  <2> QED BY <2>2 DEF Ledger!Next
<1>3. CASE x \notin Storable
  <2>1. [b \in Storable |-> Usage(log')[b]] = [b \in Storable |-> Usage(log)[b]]
    BY <1>1, <1>3
  <2> QED BY <2>1 DEF Ledger!vars
<1> QED BY <1>2, <1>3

LEMMA LedgerCatchUp ==
  ASSUME OneItemPerRow(Storable), MarkInv, StoreInv, NoOvercount',
         [Next]_vars, log' = log
  PROVE  Ledger!CatchUp
<1>1. \A b \in Storable : /\ rows[RowOf[b]] =< rows'[RowOf[b]]
                          /\ rows'[RowOf[b]] \in Nat
  BY RowsUp
<1>2. \A b \in Storable : rows'[RowOf[b]] =< Usage(log)[b]
  BY DEF NoOvercount
<1> QED BY <1>1, <1>2 DEF Ledger!CatchUp

(* The detailed pipeline implements the ledger, step by step: a logged     *)
(* request is Log, an upsert is CatchUp, and everything else the reporters *)
(* and the sidecar do is invisible to it.  Late deliveries are excluded,   *)
(* and so are two buckets in one row.                                      *)
THEOREM PipelineIsLedger ==
  ASSUME ~ AbandonedMayLand, OneItemPerRow(Storable)
  PROVE  Spec => KeepsLedger
<1>1. MarkInv /\ StoreInv /\ NoOvercount' /\ [Next]_vars
        => [Ledger!Next]_(Ledger!vars)
  <2> SUFFICES ASSUME MarkInv, StoreInv, NoOvercount', [Next]_vars
               PROVE  [Ledger!Next]_(Ledger!vars)
    OBVIOUS
  <2>1. CASE log' = log
    BY <2>1, LedgerCatchUp DEF Ledger!Next
  <2>2. ASSUME rows' = rows,
               NEW x \in Buckets \cup {Filtered}, log' = Append(log, x)
        PROVE  [Ledger!Next]_(Ledger!vars)
    BY <2>2, LedgerLog DEF MarkInv
  <2> QED BY <2>1, <2>2, LogChange
<1>2. Spec => []StoreInv
  BY StoreInvariance
<1>3. Spec => []NoOvercount
  BY NeverOvercounts
<1> QED
  BY <1>1, <1>2, <1>3, LedgerInit, MarkInvariance, PTL
  DEF Spec, KeepsLedger, Ledger!Spec

-----------------------------------------------------------------------------
(***************************************************************************)
(* A rejected bucket is never marked, whatever becomes of abandoned        *)
(* reports and however buckets map to rows.  The connection of a caller    *)
(* that awaits an answer carries its own report: an abandoned one keeps    *)
(* its connection busy, so that no new report is sent on it.               *)
(***************************************************************************)
(* A connection on which a caller waits carries its report. *)
AwaitsOwn ==
    \A p \in Procs : \/ conn[p] = NoConn
                     \/ /\ pc[p] = "await"
                        /\ net[conn[p]].phase # "free"
                        /\ net[conn[p]].items = CurrentPayload(p)

(* An answer that reports no rejected item means that all can be stored. *)
AcceptedStorable ==
    \A c \in Conns :
        /\ net[c].phase = "replied"
        /\ net[c].resp.ok
        /\ net[c].resp.rejected = 0
        => Carried(net[c].items) \subseteq Storable

MemStorable ==
    \A p \in Procs, b \in Buckets : mem[p].sigs[b] # 0 => b \in Storable

RejectInv == /\ RejectedIsUnmarked
             /\ MemStorable
             /\ AwaitsOwn
             /\ AcceptedStorable
             /\ PendingExists

LEMMA AwaitsOwnStep ==
  ASSUME MarkInv, AwaitsOwn, [Next]_vars
  PROVE  AwaitsOwn'
<1> USE DEF MarkInv, TypeOK
<1>0. /\ \A p, q \in Procs : pc[p] = "await" /\ pc[q] \in Critical => p = q
      /\ \A p \in Procs : pc[p] = "await" => conn[p] \in Conns
      /\ \A p \in Procs : pc[p] # "await" => conn[p] = NoConn
  BY DEF LockInv, Critical, ConnInv, AwaitsOwn
<1>1. ASSUME NEW p \in Procs, NewState(p) \/ Acquire(p) \/ Read(p) \/ Login(p)
      PROVE  AwaitsOwn'
  BY <1>0, <1>1 DEF AwaitsOwn, CurrentPayload, NewState, Acquire, Read, Login
<1>2. ASSUME NEW p \in Procs, NEW c \in Conns, Post(p, c) PROVE AwaitsOwn'
  <2>1. \A q \in Procs : q # p => conn'[q] = NoConn
    BY <1>0, <1>2 DEF Post, Critical
  <2>2. /\ pc'[p] = "await" /\ conn'[p] = c
        /\ net'[c] = Request(CurrentPayload(p)')
    BY <1>2 DEF Post, CurrentPayload
  <2> QED BY <2>1, <2>2 DEF AwaitsOwn, Request
<1>3. ASSUME NEW p \in Procs, conn'[p] = NoConn,
             pc[p] \in Critical,
             \A q \in Procs : q # p => conn'[q] = conn[q]
      PROVE  AwaitsOwn'
  <2>1. \A q \in Procs : conn'[q] = NoConn
    BY <1>0, <1>3
  <2> QED BY <2>1 DEF AwaitsOwn
<1>4. ASSUME NEW p \in Procs, Leave(p), net' = net PROVE AwaitsOwn'
  BY <1>4 DEF AwaitsOwn, CurrentPayload, Leave
<1>5. ASSUME NEW p \in Procs, BatchDone(p) \/ BatchFailed(p) PROVE AwaitsOwn'
  BY <1>3, <1>5 DEF BatchDone, BatchFailed, Leave, Critical
<1>6. ASSUME NEW p \in Procs, Abort(p) PROVE AwaitsOwn'
  <2>1. CASE pc[p] = "await"
    BY <1>3, <1>6, <2>1 DEF Abort, Leave, Critical
  <2>2. CASE pc[p] # "await"
    BY <1>0, <1>4, <1>6, <2>2 DEF Abort
  <2> QED BY <2>1, <2>2
<1>7. ASSUME NEW p \in Procs, Finish(p) \/ GiveUp(p) \/ DryRun(p)
      PROVE  AwaitsOwn'
  BY <1>4, <1>7 DEF Finish, GiveUp, LockTimeout, DryRun
<1>8. ASSUME NEW c \in Conns, NEW resp, Answer(c, resp, Open(c)),
             UNCHANGED reporterVars
      PROVE  AwaitsOwn'
  <2>1. ASSUME NEW p \in Procs, conn[p] # NoConn
        PROVE  /\ net'[conn[p]].items = net[conn[p]].items
               /\ net[conn[p]].phase # "free" => net'[conn[p]].phase # "free"
    <3>1. conn[p] = c => Open(c)
      BY DEF Open
    <3>2. conn[p] \in Conns
      BY <2>1
    <3> QED BY <1>8, <3>1, <3>2 DEF Answer, Reply
  <2>2. /\ pc' = pc /\ conn' = conn /\ pending' = pending /\ snap' = snap
    BY <1>8 DEF reporterVars
  <2> QED BY <2>1, <2>2 DEF AwaitsOwn, CurrentPayload
<1>9. ASSUME NEW c \in Conns,
             Serve(c) \/ (RefuseReport(c, Open(c)) /\ UNCHANGED reporterVars)
      PROVE  AwaitsOwn'
  BY <1>8, <1>9 DEF Serve, HandleReport, RefuseReport
<1>10. CASE Grow \/ LoseState \/ UNCHANGED vars
  BY <1>10 DEF Grow, LogRequest, LoseState, AwaitsOwn, CurrentPayload, vars,
               reporterVars
<1> QED BY <1>1, <1>2, <1>5, <1>6, <1>7, <1>9, <1>10 DEF Next, RunStep, Disturb

LEMMA AcceptedStorableStep ==
  ASSUME MarkInv, AcceptedStorable, [Next]_vars
  PROVE  AcceptedStorable'
<1> SUFFICES ASSUME NEW c \in Conns,
                    net'[c].phase = "replied",
                    net'[c].resp.ok,
                    net'[c].resp.rejected = 0
             PROVE  Carried(net'[c].items) \subseteq Storable
  BY DEF AcceptedStorable, Storable, Carried
<1>1. CASE net'[c] = net[c]
  BY <1>1 DEF AcceptedStorable
<1>2. CASE Serve(c)
  <2> DEFINE items == net[c].items
  <2>0. c \in DOMAIN net
    BY DEF MarkInv, TypeOK
  <2>1. net'[c] = Reply(items, ReportResponse(items))
    BY <1>2, <2>0 DEF Serve, HandleReport, Answer, Reply, HttpError, FreeConn
  <2>2. net'[c].items = items /\ Cardinality(Carried(items) \ ValidItems(items)) = 0
    BY <2>1 DEF Reply, ReportResponse
  <2>3. Carried(items) \ ValidItems(items) = {}
    <3>1. Carried(items) \ ValidItems(items) \in SUBSET Buckets
      BY DEF Carried
    <3> QED BY <2>2, <3>1, CardinalityOfBuckets, FS_EmptySet
  <2> QED BY <2>2, <2>3 DEF ValidItems, Storable, Carried
<1>3. ASSUME net'[c] # net[c] PROVE Serve(c)
  <2> USE DEF MarkInv, TypeOK
  <2>1. ASSUME NEW p \in Procs, RunStep(p) PROVE FALSE
    BY <1>3, <2>1 DEF RunStep, NewState, Acquire, Read, Login, Post, Request,
                      BatchDone, BatchFailed, Finish, FreeConn
  <2>2. ASSUME Disturb PROVE FALSE
    BY <1>3, <2>2 DEF Disturb, Abort, DryRun, RefuseReport, LoseState, Answer,
                      Reply, FreeConn, HttpError
  <2>3. ASSUME NEW d \in Conns, Serve(d) PROVE d = c
    BY <1>3, <2>3 DEF Serve, HandleReport, Answer
  <2> QED BY <1>3, <2>1, <2>2, <2>3
          DEF Next, GiveUp, LockTimeout, Grow, LogRequest, vars
<1> QED BY <1>1, <1>2, <1>3

(* The buckets that BatchDone marks can be stored. *)
LEMMA MarkedStorable ==
  ASSUME MarkInv, RejectInv, NEW p \in Procs, BatchDone(p)
  PROVE  Chunk(pending[p]) \subseteq Storable
<1>1. /\ pc[p] = "await" /\ conn[p] \in Conns
      /\ net[conn[p]].items = CurrentPayload(p)
  BY NoConnAssumption DEF BatchDone, MarkInv, ConnInv, RejectInv, AwaitsOwn
<1>2. Carried(net[conn[p]].items) \subseteq Storable
  BY <1>1 DEF BatchDone, BatchAccepted, RejectInv, AcceptedStorable
<1>3. ASSUME NEW b \in Chunk(pending[p]) PROVE b \in Storable
  <2>1. b \in Buckets /\ snap[p][b] # 0
    BY <1>3 DEF Chunk, MarkInv, TypeOK, RejectInv, PendingExists
  <2> QED BY <1>1, <1>2, <1>3, <2>1 DEF CurrentPayload, BuildPayload, Carried
<1> QED BY <1>3

LEMMA UnmarkedStep ==
  ASSUME MarkInv, RejectInv, [Next]_vars
  PROVE  RejectedIsUnmarked' /\ MemStorable'
<1> USE DEF MarkInv, TypeOK, RejectInv, RejectedIsUnmarked, MemStorable
<1>0. \A b \in Buckets : EmptyState.sigs[b] = 0
  BY DEF EmptyState
<1>1. ASSUME NEW p \in Procs, NewState(p) \/ Acquire(p)
      PROVE  RejectedIsUnmarked' /\ MemStorable'
  BY <1>0, <1>1 DEF NewState, Acquire, Load, Storable
<1>2. ASSUME NEW p \in Procs, Leave(p), file' = file
      PROVE  RejectedIsUnmarked' /\ MemStorable'
  BY <1>0, <1>2 DEF Leave, Storable
<1>3. ASSUME NEW p \in Procs, BatchDone(p)
      PROVE  RejectedIsUnmarked' /\ MemStorable'
  <2> DEFINE data == Mark(mem[p], Chunk(pending[p]), snap[p])
  <2>1. Chunk(pending[p]) \in SUBSET Buckets
    BY DEF Chunk
  <2>2. ASSUME NEW b \in Buckets, data.sigs[b] # 0 PROVE b \in Storable
    <3>1. CASE b \in Chunk(pending[p])
      BY <1>3, <3>1, MarkedStorable
    <3>2. CASE b \notin Chunk(pending[p])
      <4>1. data.sigs[b] = mem[p].sigs[b]
        BY <2>1, <3>2, MarkSigs
      <4> QED BY <2>2, <4>1
    <3> QED BY <3>1, <3>2
  <2> HIDE DEF data
  <2>3. file' = data /\ mem' = [mem EXCEPT ![p] = data]
    BY <1>3 DEF BatchDone, data
  <2> QED BY <2>2, <2>3 DEF Storable
<1>4. ASSUME NEW p \in Procs, Finish(p)
      PROVE  RejectedIsUnmarked' /\ MemStorable'
  <2>1. \A b \in Buckets : file'.sigs[b] = mem[p].sigs[b]
    BY <1>4 DEF Finish, States
  <2> QED BY <1>0, <1>4, <2>1 DEF Finish, Leave, Storable
<1>5. CASE LoseState
  BY <1>5 DEF LoseState, Storable
<1>6. ASSUME file' = file, mem' = mem
      PROVE  RejectedIsUnmarked' /\ MemStorable'
  BY <1>6 DEF Storable
<1>7. ASSUME NEW p \in Procs, RunStep(p)
      PROVE  RejectedIsUnmarked' /\ MemStorable'
  BY <1>1, <1>2, <1>3, <1>4, <1>6, <1>7
     DEF RunStep, Read, Login, Post, BatchFailed
<1>8. CASE Disturb
  BY <1>2, <1>5, <1>6, <1>8 DEF Disturb, Abort, DryRun, RefuseReport, reporterVars
<1>9. ASSUME NEW p \in Procs, GiveUp(p)
      PROVE  RejectedIsUnmarked' /\ MemStorable'
  BY <1>2, <1>9 DEF GiveUp, LockTimeout
<1>10. CASE Grow \/ UNCHANGED vars \/ \E c \in Conns : Serve(c)
  BY <1>6, <1>10 DEF Grow, LogRequest, vars, Serve, reporterVars
<1> QED BY <1>7, <1>8, <1>9, <1>10 DEF Next

(* The batch of a run that is partly rejected is not marked: a bucket that *)
(* the sidecar does not take never has a signature in the state file, even *)
(* if reports of dead clients arrive later and even if buckets share rows. *)
THEOREM RejectedStaysUnmarked == Spec => []RejectedIsUnmarked
<1>1. Init => RejectInv
  <2> SUFFICES ASSUME Init PROVE RejectInv
    OBVIOUS
  <2>1. RejectedIsUnmarked /\ MemStorable /\ PendingExists
    BY DEF Init, ReporterInit, RejectedIsUnmarked, MemStorable, PendingExists,
           EmptyState
  <2>2. AwaitsOwn /\ AcceptedStorable
    BY DEF Init, ReporterInit, NetInit, AwaitsOwn, AcceptedStorable, FreeConn
  <2> QED BY <2>1, <2>2 DEF RejectInv
<1>2. RejectInv /\ MarkInv /\ [Next]_vars => RejectInv'
  BY AwaitsOwnStep, AcceptedStorableStep, UnmarkedStep, PendingStep DEF RejectInv
<1>3. RejectInv => RejectedIsUnmarked
  BY DEF RejectInv
<1> QED BY <1>1, <1>2, <1>3, MarkInvariance, PTL DEF Spec
=============================================================================
