---------------------------- MODULE IndexJob_proofs ----------------------------
(***************************************************************************)
(* Proofs about the index jobs, for any sets of paths, contents, jobs and  *)
(* handlers and any number of faults. All but type correctness assume      *)
(* ~CleanupOutlivesLease: a start that cleans up after a failed begin      *)
(* still has its lease. Without it a publication can be ended by the relay *)
(* (IndexJobCleanup).                                                      *)
(***************************************************************************)
EXTENDS IndexJob, FiniteSetTheorems, TLAPS

\* Zenon proves what a step does not ask SMT for.
USE Zenon

(* Types.                                                                  *)

\* The operators on manifests give manifests and sets of paths.
LEMMA ManifestTypes ==
  /\ NoFiles \in Manifests
  /\ \A m \in Manifests : Listed(m) \subseteq Path
  /\ \A p, m \in Manifests, u \in SUBSET Path : graftUnreadablePaths(p, m, u) \in Manifests
  /\ \A p, m \in Manifests : Pending(p, m) \subseteq Path /\ Deleted(p, m) \subseteq Path
  /\ \A r, s \in Manifests, g \in SUBSET Path, b \in BOOLEAN : Overlay(r, s, g, b) \in Manifests
BY DEF NoFiles, Manifests, Listed, graftUnreadablePaths, Pending, Deleted, Overlay

\* Sets of paths are finite.
LEMMA PathCardinality == \A S \in SUBSET Path : Cardinality(S) \in Nat
BY ManifestAssumption, FS_Subset, FS_CardinalityType

\* The blank rows, frames and records, ended rows and the plain requests have their types.
LEMMA RowTypes ==
  /\ NoRow \in Rows
  /\ Idle \in Frames
  /\ Unknown \in Records
  /\ \A r \in Rows, s \in Terminal : Ended(r, s) \in Rows
  /\ \A op \in {"begin", "begin full", "publish", "abort"}, j \in Job :
       Request(op, j) \in Requests
<1>1. NoRow \in Rows
  BY ManifestTypes DEF NoRow, Rows
<1>2. Idle \in Frames
  BY DEF Idle, Frames, Steps
<1>3. Unknown \in Records
  BY ManifestTypes DEF Unknown, Records
<1>4. ASSUME NEW r \in Rows, NEW s \in Terminal PROVE Ended(r, s) \in Rows
  BY ManifestTypes DEF Ended, Rows
<1>5. ASSUME NEW op \in {"begin", "begin full", "publish", "abort"}, NEW j \in Job
      PROVE  Request(op, j) \in Requests
  BY ManifestTypes DEF Request, Requests
<1> QED BY <1>1, <1>2, <1>3, <1>4, <1>5

\* LCE's answer to a request keeps its record's shape.
LEMMA EffectType == \A req \in Requests, r \in Records : Effect(req, r) \in Records
<1> SUFFICES ASSUME NEW req \in Requests, NEW r \in Records PROVE Effect(req, r) \in Records
  OBVIOUS
<1>1. \A full \in BOOLEAN : AfterBegin(r, full) \in Records
  BY DEF AfterBegin, Records
<1>2. AfterStage(r, req.staged, req.gone) \in Records
  BY DEF AfterStage, Records, Requests, Manifests
<1>3. AfterPublish(r) \in Records
  BY DEF AfterPublish, Records
<1>4. AfterAbort(r) \in Records
  BY RowTypes DEF AfterAbort, Records
<1> QED BY <1>1, <1>2, <1>3, <1>4 DEF Effect, Requests

\* What a handler's local state holds between its steps: a job once it works on
\* one, and nothing when it is idle.
Shape(f) ==
  /\ f.op = "none" => f = Idle
  /\ f.op \in Ops \ {"start"} => f.j \in Job
  /\ f.op = "start" =>
       \/ f.pc \in {"inspect", "insert"} /\ f.j = NoJob
       \/ f.pc \in {"begin", "begun", "begin abort", "begin failed"} /\ f.j \in Job

FrameOK == \A h \in Handler : Shape(handler[h])

\* The updates that heartbeats, the clock and the handlers make to a row.
LEMMA RowUpdates ==
  ASSUME NEW r \in Rows
  PROVE  /\ \A b \in BOOLEAN : [r EXCEPT !.stale = b] \in Rows
         /\ [r EXCEPT !.overdue = TRUE] \in Rows
         /\ \A p \in {"uploading", "publishing"} :
              [r EXCEPT !.phase = p, !.stale = FALSE] \in Rows
         /\ \A v \in Nat : [r EXCEPT !.rev = v] \in Rows
<1>1. ASSUME NEW b \in BOOLEAN PROVE [r EXCEPT !.stale = b] \in Rows
  BY DEF Rows
<1>2. [r EXCEPT !.overdue = TRUE] \in Rows
  BY DEF Rows
<1>3. ASSUME NEW p \in {"uploading", "publishing"}
      PROVE  [r EXCEPT !.phase = p, !.stale = FALSE] \in Rows
  BY DEF Rows
<1>4. ASSUME NEW v \in Nat PROVE [r EXCEPT !.rev = v] \in Rows
  BY DEF Rows
<1> QED BY <1>1, <1>2, <1>3, <1>4

\* The row a committed batch leaves.
LEMMA CommittedRow ==
  ASSUME NEW r \in Rows, NEW batch \in SUBSET Path, NEW gone
  PROVE  Committed(r, batch, gone) \in Rows
<1>1. Cardinality(batch) \in Nat
  BY PathCardinality
<1>2. (r.delsSent \/ gone # {}) \in BOOLEAN /\ r.indexed \cup batch \in SUBSET Path
      /\ r.count + Cardinality(batch) \in Nat
  BY <1>1, SMT DEF Rows
<1> QED BY <1>2 DEF Committed, Rows

\* The row beginIndexJob inserts.
LEMMA InsertedRow ==
  ASSUME TypeOK, NEW man \in Manifests
  PROVE  NewRow(man) \in Rows
<1>1. Pending(snapshot, man) \in SUBSET Path
  BY ManifestTypes DEF TypeOK
<1>2. Cardinality(Pending(snapshot, man)) \in Nat
  BY <1>1, PathCardinality
<1>3. (Deleted(snapshot, man) # {}) \in BOOLEAN /\ (~exists) \in BOOLEAN
  OBVIOUS
<1>4. NoRow \in Rows /\ "running" \in Terminal \cup {"none", "running"}
  BY RowTypes
<1> QED BY <1>1, <1>2, <1>3, <1>4, ZenonT(30) DEF Rows, NewRow

\* What a handler remembers from one step to the next.
LEMMA FrameUpdates ==
  ASSUME NEW f \in Frames, NEW pc \in Steps
  PROVE  /\ [f EXCEPT !.pc = pc] \in Frames
         /\ \A j \in Job : [f EXCEPT !.j = j, !.pc = pc] \in Frames
         /\ \A v \in Nat : [f EXCEPT !.pc = pc, !.pre = v] \in Frames
         /\ \A v \in Nat : [f EXCEPT !.pc = pc, !.rev = v] \in Frames
         /\ \A b, g \in SUBSET Path :
              [f EXCEPT !.pc = pc, !.batch = b, !.gone = g] \in Frames
<1>1. [f EXCEPT !.pc = pc] \in Frames
  BY DEF Frames
<1>2. ASSUME NEW j \in Job PROVE [f EXCEPT !.j = j, !.pc = pc] \in Frames
  BY DEF Frames
<1>3. ASSUME NEW v \in Nat PROVE [f EXCEPT !.pc = pc, !.pre = v] \in Frames
  BY DEF Frames
<1>4. ASSUME NEW v \in Nat PROVE [f EXCEPT !.pc = pc, !.rev = v] \in Frames
  BY DEF Frames
<1>5. ASSUME NEW b \in SUBSET Path, NEW g \in SUBSET Path
      PROVE  [f EXCEPT !.pc = pc, !.batch = b, !.gone = g] \in Frames
  BY DEF Frames
<1> QED BY <1>1, <1>2, <1>3, <1>4, <1>5

\* The frame of a handler that has just taken its lease.
LEMMA NewFrame ==
  ASSUME NEW op \in Ops, NEW j \in Job \cup {NoJob}, NEW pc \in Steps
  PROVE  [Idle EXCEPT !.op = op, !.j = j, !.pc = pc] \in Frames
BY DEF Idle, Frames, Ops

\* The records LCE leaves when it settles a publication itself.
LEMMA NewRecords ==
  /\ \A v \in Nat : [Unknown EXCEPT !.state = "published", !.rev = v] \in Records
  /\ [Unknown EXCEPT !.state = "failed"] \in Records
<1>1. ASSUME NEW v \in Nat
      PROVE  [Unknown EXCEPT !.state = "published", !.rev = v] \in Records
  BY RowTypes DEF Unknown, Records
<1>2. [Unknown EXCEPT !.state = "failed"] \in Records
  BY RowTypes DEF Unknown, Records
<1> QED BY <1>1, <1>2

\* The job of a handler that works on one.
LEMMA FrameJob ==
  ASSUME FrameOK, NEW h \in Handler
  PROVE  /\ handler[h].op \in {"upload", "complete", "fail", "reconcile"} =>
              handler[h].j \in Job
         /\ handler[h].op = "start" /\ handler[h].pc \notin {"inspect", "insert"} =>
              handler[h].j \in Job
BY DEF FrameOK, Shape, Ops

\* The request an upload stages.
LEMMA StageType ==
  ASSUME TypeOK, FrameOK, NEW h \in Handler, At(h, "upload", "stage")
  PROVE  StageRequest(h) \in Requests
<1>1. handler[h].j \in Job /\ handler[h].gone \in SUBSET Path
  BY FrameJob DEF At, TypeOK, Frames
<1>2. job[handler[h].j].man \in Manifests
  BY <1>1 DEF TypeOK, Rows
<1>3. [f \in Path |-> IF f \in handler[h].batch THEN job[handler[h].j].man[f] ELSE Absent]
        \in Manifests
  BY <1>2 DEF Manifests
<1> QED BY <1>1, <1>3 DEF StageRequest, Requests

\* The requests a handler leaves behind when it stops.
LEMMA OutstandingType ==
  ASSUME TypeOK, FrameOK, NEW h \in Handler
  PROVE  Outstanding(h) \subseteq Requests
<1>1. At(h, "start", "begin") => BeginRequest(handler[h].j) \in Requests
  BY FrameJob, RowTypes DEF At, BeginRequest
<1>2. At(h, "upload", "stage") => StageRequest(h) \in Requests
  BY StageType
<1>3. Completing(h, "publish") => Request("publish", handler[h].j) \in Requests
  BY FrameJob, RowTypes DEF Completing, At
<1>4. At(h, "start", "begin abort") \/ At(h, "reconcile", "abort") =>
        Request("abort", handler[h].j) \in Requests
  BY FrameJob, RowTypes DEF At
<1> QED BY <1>1, <1>2, <1>3, <1>4 DEF Outstanding

\* A handler's frame after a step.
LEMMA Moves ==
  ASSUME TypeOK, NEW h \in Handler
  PROVE  /\ handler[h] \in Frames
         /\ \A f \in Frames : handler' = [handler EXCEPT ![h] = f] =>
              handler' \in [Handler -> Frames]
         /\ Return(h) => handler' \in [Handler -> Frames]
         /\ \A pc \in Steps : Goto(h, pc) => handler' \in [Handler -> Frames]
<1>1. handler \in [Handler -> Frames] /\ handler[h] \in Frames
  BY DEF TypeOK
<1>2. \A f \in Frames : [handler EXCEPT ![h] = f] \in [Handler -> Frames]
  BY <1>1
<1>3. Idle \in Frames /\ \A pc \in Steps : [handler[h] EXCEPT !.pc = pc] \in Frames
  BY <1>1, RowTypes, FrameUpdates
<1> QED BY <1>1, <1>2, <1>3 DEF Return, Goto

\* The bounded counter of faults.
LEMMA FaultCounted ==
  ASSUME TypeOK, faults < MaxFaults, faults' = faults + 1
  PROVE  faults' \in 0..MaxFaults
<1>1. faults \in 0..MaxFaults
  BY DEF TypeOK
<1> QED BY <1>1, IndexJobAssumption, SMT

\* A job's row after a step.
LEMMA Rewrites ==
  ASSUME TypeOK, NEW j \in Job
  PROVE  /\ job[j] \in Rows
         /\ \A r \in Rows : job' = [job EXCEPT ![j] = r] => job' \in [Job -> Rows]
BY DEF TypeOK

\* LCE's records after a request.
LEMMA Executes ==
  ASSUME TypeOK, NEW req \in Requests, Execute(req)
  PROVE  lce' \in [Job -> Records]
BY EffectType DEF TypeOK, Execute, Requests

\* Taking a lease keeps the types.
LEMMA AcquireTypes ==
  ASSUME TypeOK, NEW h \in Handler, NEW op \in Ops, NEW j \in Job \cup {NoJob},
         NEW pc \in Steps, Acquire(h, op, j, pc)
  PROVE  TypeOK'
<1>1. handler' \in [Handler -> Frames]
  BY NewFrame, Moves DEF Acquire
<1> QED BY <1>1 DEF Acquire, TypeOK, relayVars, lceVars

\* The steps of a start keep the types.
LEMMA StartTypes ==
  ASSUME TypeOK, FrameOK, NEW h \in Handler, Start(h)
  PROVE  TypeOK'
<1>1. CASE StartAcquire(h)
  BY <1>1, AcquireTypes DEF StartAcquire, Ops, Steps
<1>2. CASE StartInspect(h)
  <2>1. job' \in [Job -> Rows]
    BY <1>2, Rewrites, RowTypes DEF StartInspect, TypeOK, Terminal
  <2>2. late' \subseteq Requests
    <3>1. \A S \in SUBSET Job : {Request("abort", j) : j \in S} \subseteq Requests
      BY RowTypes
    <3>2. \E S \in SUBSET Job : late' = late \/ late' = late \cup {Request("abort", j) : j \in S}
      BY <1>2 DEF StartInspect
    <3> QED BY <3>1, <3>2 DEF TypeOK
  <2>3. handler' \in [Handler -> Frames]
    BY <1>2, Moves DEF StartInspect, Steps
  <2> QED BY <1>2, <2>1, <2>2, <2>3 DEF StartInspect, TypeOK, lceVars
<1>3. CASE StartInsert(h)
  <2>1. \/ Return(h) /\ job' = job
        \/ \E man \in Manifests, j \in Job :
             /\ job' = [job EXCEPT ![j] = NewRow(man)]
             /\ handler' = [handler EXCEPT ![h] = [@ EXCEPT !.j = j, !.pc = "begin"]]
    BY <1>3, ManifestTypes DEF StartInsert, TypeOK
  <2>2. job' \in [Job -> Rows]
    BY <2>1, InsertedRow, Rewrites DEF TypeOK
  <2>3. handler' \in [Handler -> Frames]
    BY <2>1, Moves, FrameUpdates DEF Steps
  <2> QED BY <1>3, <2>2, <2>3 DEF StartInsert, TypeOK, lceVars
<1>4. CASE StartLimited(h) \/ StartReturns(h)
  BY <1>4, Moves DEF StartLimited, StartReturns, TypeOK, relayVars, lceVars
<1>5. CASE BeginReaches(h)
  <2>1. BeginRequest(handler[h].j) \in Requests
    BY <1>5, FrameJob, RowTypes DEF BeginReaches, At, BeginRequest
  <2>2. lce' \in [Job -> Records] /\ handler' \in [Handler -> Frames]
    BY <1>5, <2>1, Executes, Moves DEF BeginReaches, Steps
  <2> QED BY <1>5, <2>2 DEF BeginReaches, TypeOK, relayVars
<1>6. CASE BeginErrs(h)
  <2>1. handler[h].pc = "begin" => BeginRequest(handler[h].j) \in Requests
    BY <1>6, FrameJob, RowTypes DEF BeginErrs, At, BeginRequest
  <2>2. late' \subseteq Requests /\ handler' \in [Handler -> Frames]
    BY <1>6, <2>1, Moves DEF BeginErrs, Steps, TypeOK
  <2>3. faults' \in 0..MaxFaults
    BY <1>6, FaultCounted DEF BeginErrs
  <2> QED BY <1>6, <2>2, <2>3 DEF BeginErrs, TypeOK, relayVars, lceVars
<1>7. CASE BeginAborts(h)
  <2>1. late' \subseteq Requests /\ handler' \in [Handler -> Frames]
    BY <1>7, FrameJob, RowTypes, Moves DEF BeginAborts, At, Steps, TypeOK
  <2> QED BY <1>7, <2>1 DEF BeginAborts, TypeOK, relayVars, lceVars
<1>8. CASE BeginFailed(h)
  <2>1. handler[h].j \in Job
    BY <1>8, FrameJob DEF BeginFailed, At
  <2>2. job' \in [Job -> Rows] /\ handler' \in [Handler -> Frames]
    BY <1>8, <2>1, Rewrites, RowTypes, Moves DEF BeginFailed, Terminal
  <2> QED BY <1>8, <2>2 DEF BeginFailed, TypeOK, lceVars
<1> QED BY <1>1, <1>2, <1>3, <1>4, <1>5, <1>6, <1>7, <1>8 DEF Start

\* The steps of an upload keep the types.
LEMMA UploadTypes ==
  ASSUME TypeOK, FrameOK, NEW h \in Handler, Upload(h)
  PROVE  TypeOK'
<1>1. ASSUME NEW j \in Job, UploadAcquire(h, j) PROVE TypeOK'
  BY <1>1, AcquireTypes DEF UploadAcquire, Ops, Steps
<1>2. CASE UploadPrepare(h)
  <2>1. handler[h].j \in Job
    BY <1>2, FrameJob DEF UploadPrepare, At
  <2>2. /\ job[handler[h].j].need \in SUBSET Path
        /\ Deleted(snapshot, job[handler[h].j].man) \in SUBSET Path
    BY <2>1, ManifestTypes DEF TypeOK, Rows
  <2>3. Return(h) \/ \E batch \in SUBSET Path, gone \in SUBSET Path :
          handler' = [handler EXCEPT ![h] =
                        [@ EXCEPT !.pc = "mark", !.batch = batch, !.gone = gone]]
    BY <1>2, <2>2 DEF UploadPrepare
  <2>4. handler' \in [Handler -> Frames]
    BY <2>3, Moves, FrameUpdates DEF Steps
  <2> QED BY <1>2, <2>4 DEF UploadPrepare, TypeOK, relayVars, lceVars
<1>3. CASE UploadMark(h)
  <2>1. handler[h].j \in Job
    BY <1>3, FrameJob DEF UploadMark, At
  <2>2. job' \in [Job -> Rows] /\ handler' \in [Handler -> Frames]
    BY <1>3, <2>1, Rewrites, RowUpdates, Moves DEF UploadMark, TypeOK, Steps
  <2> QED BY <1>3, <2>2 DEF UploadMark, TypeOK, lceVars
<1>4. CASE UploadRefused(h)
  BY <1>4, Moves DEF UploadRefused, TypeOK, relayVars, lceVars
<1>5. CASE StageReaches(h)
  <2>1. StageRequest(h) \in Requests
    BY <1>5, StageType DEF StageReaches
  <2>2. lce' \in [Job -> Records] /\ handler' \in [Handler -> Frames]
    BY <1>5, <2>1, Executes, Moves DEF StageReaches, Steps
  <2> QED BY <1>5, <2>2 DEF StageReaches, TypeOK, relayVars
<1>6. CASE UploadCommit(h)
  <2>1. handler[h].j \in Job
    BY <1>6, FrameJob DEF UploadCommit, At
  <2>2. handler[h].batch \in SUBSET Path
    BY Moves DEF Frames
  <2>3. job' = job \/ job' \in [Job -> Rows]
    <3>1. Committed(job[handler[h].j], handler[h].batch, handler[h].gone) \in Rows
      BY <2>1, <2>2, Rewrites, CommittedRow
    <3>2. job' = job \/ job' = [job EXCEPT ![handler[h].j] =
                           Committed(@, handler[h].batch, handler[h].gone)]
      BY <1>6 DEF UploadCommit
    <3> QED BY <2>1, <3>1, <3>2, Rewrites
  <2>4. handler' \in [Handler -> Frames]
    BY <1>6, Moves DEF UploadCommit
  <2> QED BY <1>6, <2>3, <2>4 DEF UploadCommit, TypeOK, lceVars
<1> QED BY <1>1, <1>2, <1>3, <1>4, <1>5, <1>6 DEF Upload

\* The steps of a completion keep the types.
LEMMA CompleteTypes ==
  ASSUME TypeOK, FrameOK, NEW h \in Handler, Complete(h)
  PROVE  TypeOK'
<1>1. ASSUME NEW j \in Job, CompleteAcquire(h, j) PROVE TypeOK'
  BY <1>1, AcquireTypes DEF CompleteAcquire, Ops, Steps
<1>2. \A pc : Completing(h, pc) => handler[h].j \in Job
  BY FrameJob DEF Completing, At
<1>3. handler[h] \in Frames /\ handler[h].pre \in Nat /\ handler[h].rev \in Nat
  BY Moves DEF Frames
<1>4. CASE CompleteCheck(h)
  <2>1. job[handler[h].j].rev \in Nat
    BY <1>2, <1>4 DEF CompleteCheck, TypeOK, Rows
  <2>2. handler' \in [Handler -> Frames]
    BY <1>3, <1>4, <2>1, Moves, FrameUpdates DEF CompleteCheck, Steps
  <2> QED BY <1>4, <2>2 DEF CompleteCheck, TypeOK, relayVars, lceVars
<1>5. CASE CompleteHandoff(h)
  <2>1. job' \in [Job -> Rows]
    BY <1>2, <1>5, Rewrites, RowUpdates DEF CompleteHandoff, TypeOK
  <2>2. \/ Return(h) \/ Goto(h, "finish") \/ Goto(h, "publish")
        \/ handler' = [handler EXCEPT ![h] = [@ EXCEPT !.pc = "finish", !.rev = handler[h].pre]]
    <3>1. CASE handler[h].rev > 0
      BY <1>3, <1>5, <3>1 DEF CompleteHandoff
    <3>2. CASE handler[h].rev = 0 /\ handler[h].pre > 0
      BY <1>3, <1>5, <3>2 DEF CompleteHandoff
    <3>3. CASE handler[h].rev = 0 /\ handler[h].pre = 0
      BY <1>3, <1>5, <3>3 DEF CompleteHandoff
    <3> QED BY <1>3, <3>1, <3>2, <3>3, SMT
  <2>3. handler' \in [Handler -> Frames]
    BY <1>3, <2>2, Moves, FrameUpdates DEF Steps
  <2> QED BY <1>5, <2>1, <2>3 DEF CompleteHandoff, TypeOK, lceVars
<1>6. CASE PublishReaches(h)
  <2>1. Request("publish", handler[h].j) \in Requests
    BY <1>2, <1>6, RowTypes DEF PublishReaches
  <2>2. lce' \in [Job -> Records] /\ handler' \in [Handler -> Frames]
    BY <1>6, <2>1, Executes, Moves DEF PublishReaches, Steps
  <2> QED BY <1>6, <2>2 DEF PublishReaches, TypeOK, relayVars
<1>7. CASE PublishReplies(h)
  <2>1. lce[handler[h].j].rev \in Nat
    BY <1>2, <1>7 DEF PublishReplies, TypeOK, Records
  <2>2. handler' \in [Handler -> Frames]
    BY <1>3, <1>7, <2>1, Moves, FrameUpdates DEF PublishReplies, Steps
  <2> QED BY <1>7, <2>2 DEF PublishReplies, TypeOK, relayVars, lceVars
<1>8. CASE CompleteRecord(h)
  <2>1. job' \in [Job -> Rows]
    BY <1>2, <1>3, <1>8, Rewrites, RowUpdates DEF CompleteRecord, TypeOK
  <2>2. handler' \in [Handler -> Frames]
    BY <1>8, Moves DEF CompleteRecord, Steps
  <2>3. faults' \in 0..MaxFaults
    BY <1>8, FaultCounted DEF CompleteRecord, TypeOK
  <2> QED BY <1>8, <2>1, <2>2, <2>3 DEF CompleteRecord, TypeOK, lceVars
<1>9. CASE CompleteFinish(h)
  <2>1. handler[h].j \in Job
    BY <1>2, <1>9 DEF CompleteFinish
  <2>2. [Ended(job[handler[h].j], "completed") EXCEPT !.rev = handler[h].rev] \in Rows
    BY <1>3, <2>1, Rewrites, RowTypes, RowUpdates DEF Terminal
  <2>3. job[handler[h].j].man \in Manifests
    BY <2>1, Rewrites DEF Rows
  <2>4. handler' \in [Handler -> Frames]
    BY <1>9, Moves DEF CompleteFinish
  <2>5. job' \in [Job -> Rows] /\ snapshot' \in Manifests /\ exists' \in BOOLEAN /\ cloudRev' \in Nat
    BY <1>3, <1>9, <2>1, <2>2, <2>3, Rewrites DEF CompleteFinish, TypeOK, relayVars
  <2> QED BY <1>9, <2>4, <2>5 DEF CompleteFinish, TypeOK, lceVars
<1>10. CASE FinishFailed(h)
  <2>1. job' \in [Job -> Rows] /\ handler' \in [Handler -> Frames]
    BY <1>2, <1>10, Rewrites, RowTypes, Moves DEF FinishFailed, Terminal
  <2> QED BY <1>10, <2>1 DEF FinishFailed, TypeOK, lceVars
<1> QED BY <1>1, <1>4, <1>5, <1>6, <1>7, <1>8, <1>9, <1>10 DEF Complete

\* The steps of a failure report keep the types.
LEMMA FailTypes ==
  ASSUME TypeOK, FrameOK, NEW h \in Handler, Fail(h)
  PROVE  TypeOK'
<1>1. ASSUME NEW j \in Job, FailAcquire(h, j) PROVE TypeOK'
  BY <1>1, AcquireTypes DEF FailAcquire, Ops, Steps
<1>2. CASE FailCheck(h)
  BY <1>2, Moves DEF FailCheck, TypeOK, Steps, relayVars, lceVars
<1>3. CASE FailMark(h)
  <2>1. handler[h].j \in Job
    BY <1>3, FrameJob DEF FailMark, At
  <2>2. late' \subseteq Requests
    <3>1. Request("abort", handler[h].j) \in Requests
      BY <2>1, RowTypes
    <3>2. late' = late \/ late' = late \cup {Request("abort", handler[h].j)}
      BY <1>3 DEF FailMark
    <3> QED BY <3>1, <3>2 DEF TypeOK
  <2>3. job' \in [Job -> Rows] /\ handler' \in [Handler -> Frames]
    BY <1>3, <2>1, Rewrites, RowTypes, Moves DEF FailMark, TypeOK, Terminal
  <2> QED BY <1>3, <2>2, <2>3 DEF FailMark, TypeOK, lceVars
<1> QED BY <1>1, <1>2, <1>3 DEF Fail

\* The steps of the sweeper's reconciliation keep the types.
LEMMA ReconcileTypes ==
  ASSUME TypeOK, FrameOK, NEW h \in Handler, Reconcile(h)
  PROVE  TypeOK'
<1>1. ASSUME NEW j \in Job, ReconcileAcquire(h, j) PROVE TypeOK'
  BY <1>1, AcquireTypes DEF ReconcileAcquire, Ops, Steps
<1>2. CASE ReconcileRevalidate(h)
  BY <1>2, Moves DEF ReconcileRevalidate, TypeOK, Steps, relayVars, lceVars
<1>3. CASE ReconcileStatus(h)
  <2>1. lce[handler[h].j].rev \in Nat
    BY <1>3, FrameJob DEF ReconcileStatus, At, TypeOK, Records
  <2>2. handler' \in [Handler -> Frames]
    BY <1>3, <2>1, Moves, FrameUpdates DEF ReconcileStatus, Steps
  <2> QED BY <1>3, <2>2 DEF ReconcileStatus, TypeOK, relayVars, lceVars
<1>4. CASE ReconcileStatusErrs(h)
  <2>1. handler' \in [Handler -> Frames] /\ faults' \in 0..MaxFaults
    BY <1>4, Moves, FaultCounted DEF ReconcileStatusErrs, Steps
  <2> QED BY <1>4, <2>1 DEF ReconcileStatusErrs, TypeOK, relayVars, lceVars
<1>5. CASE ReconcileAbort(h)
  <2>1. Request("abort", handler[h].j) \in Requests
    BY <1>5, FrameJob, RowTypes DEF ReconcileAbort, At
  <2>2. lce' \in [Job -> Records] /\ handler' \in [Handler -> Frames]
    BY <1>5, <2>1, Executes, Moves DEF ReconcileAbort, Steps
  <2> QED BY <1>5, <2>2 DEF ReconcileAbort, TypeOK, relayVars
<1> QED BY <1>1, <1>2, <1>3, <1>4, <1>5 DEF Reconcile

\* Every step keeps the types.
LEMMA TypeStep == TypeOK /\ FrameOK /\ [Next]_vars => TypeOK'
<1> SUFFICES ASSUME TypeOK, FrameOK, [Next]_vars PROVE TypeOK'
  OBVIOUS
<1>1. ASSUME NEW h \in Handler, HandlerStops(h) PROVE TypeOK'
  <2>1. late' \subseteq Requests
    BY <1>1, OutstandingType DEF HandlerStops, TypeOK
  <2>2. handler' \in [Handler -> Frames] /\ faults' \in 0..MaxFaults
    BY <1>1, Moves, FaultCounted DEF HandlerStops
  <2> QED BY <1>1, <2>1, <2>2 DEF HandlerStops, TypeOK, relayVars, lceVars
<1>2. ASSUME NEW j \in Job, HeartbeatJob(j) \/ HeartbeatAges(j) \/ PublicationAges(j)
      PROVE TypeOK'
  <2>1. job' \in [Job -> Rows]
    BY <1>2, Rewrites, RowUpdates DEF HeartbeatJob, HeartbeatAges, PublicationAges
  <2> QED BY <1>2, <2>1 DEF HeartbeatJob, HeartbeatAges, PublicationAges, TypeOK, lceVars
<1>3. CASE Sweep
  <2>1. \A S \in SUBSET Job : {Request("abort", j) : j \in S} \subseteq Requests
    BY RowTypes
  <2>2. \E S \in SUBSET Job : late' = late \cup {Request("abort", j) : j \in S}
    BY <1>3 DEF Sweep
  <2>3. late' \subseteq Requests
    BY <2>1, <2>2 DEF TypeOK
  <2>4. job' \in [Job -> Rows]
    BY <1>3, Rewrites, RowTypes DEF Sweep, Terminal
  <2> QED BY <1>3, <2>3, <2>4 DEF Sweep, TypeOK, lceVars
<1>4. CASE LateArrival
  <2>1. PICK req \in late : Execute(req) /\ late' = late \ {req}
    BY <1>4 DEF LateArrival
  <2>2. req \in Requests /\ late' \subseteq Requests
    BY <2>1 DEF TypeOK
  <2>3. lce' \in [Job -> Records]
    BY <2>1, <2>2, Executes
  <2> QED BY <1>4, <2>2, <2>3 DEF LateArrival, TypeOK, relayVars
<1>5. ASSUME NEW j \in Job, CloudPublishes(j) PROVE TypeOK'
  <2>1. lce[j].staged \in Manifests /\ lce[j].gone \in SUBSET Path /\ lce[j].full \in BOOLEAN
    BY DEF TypeOK, Records
  <2>2. root' \in Manifests
    BY <1>5, <2>1, ManifestTypes DEF CloudPublishes, TypeOK
  <2>3. rootRev + 1 \in Nat
    BY SMT DEF TypeOK
  <2>4. lce' \in [Job -> Records]
    BY <1>5, <2>3, NewRecords DEF CloudPublishes, TypeOK
  <2> QED BY <1>5, <2>2, <2>3, <2>4 DEF CloudPublishes, TypeOK, relayVars
<1>6. ASSUME NEW j \in Job, CloudFails(j) PROVE TypeOK'
  BY <1>6, NewRecords DEF CloudFails, TypeOK, relayVars
<1>7. CASE UNCHANGED vars
  BY <1>7 DEF vars, TypeOK
<1> QED BY <1>1, <1>2, <1>3, <1>4, <1>5, <1>6, <1>7, StartTypes, UploadTypes,
           CompleteTypes, FailTypes, ReconcileTypes DEF Next, Clock, Cloud

\* Every step keeps the shape of the frames: which operation works on a job.
LEMMA FrameStep == TypeOK /\ FrameOK /\ [Next]_vars => FrameOK'
<1> SUFFICES ASSUME TypeOK, FrameOK, [Next]_vars PROVE FrameOK'
  OBVIOUS
<1>0. \A h \in Handler : handler[h] \in Frames
  BY DEF TypeOK
<1>i. Shape(Idle)
  BY DEF Shape, Idle, Ops
<1>1. ASSUME NEW h \in Handler, NEW f \in Frames, handler' = [handler EXCEPT ![h] = f], Shape(f)
      PROVE  FrameOK'
  BY <1>1 DEF FrameOK, TypeOK, Shape
<1>2. ASSUME NEW h \in Handler, Return(h) PROVE FrameOK'
  BY <1>1, <1>2, <1>i, RowTypes DEF Return
<1>3. ASSUME NEW h \in Handler, NEW pc \in Steps, Goto(h, pc), handler[h].op \in Ops,
             handler[h].op = "start" =>
               \/ handler[h].pc = "inspect" /\ pc = "insert"
               \/ /\ handler[h].pc \notin {"inspect", "insert"}
                  /\ pc \in {"begun", "begin abort", "begin failed"}
      PROVE  FrameOK'
  <2> DEFINE f == [handler[h] EXCEPT !.pc = pc]
  <2>1. f \in Frames /\ f.op = handler[h].op /\ f.j = handler[h].j /\ f.pc = pc
    <3>1. handler[h] \in Frames
      BY <1>0
    <3>2. f \in Frames
      BY <3>1, FrameUpdates
    <3> QED BY <3>1, <3>2 DEF Frames
  <2>2. Shape(handler[h])
    BY DEF FrameOK
  <2>3. Shape(f)
    BY <1>3, <2>1, <2>2 DEF Shape, Ops
  <2> QED BY <1>1, <1>3, <2>1, <2>3 DEF Goto
<1>4. ASSUME NEW h \in Handler, NEW op \in Ops, NEW j \in Job \cup {NoJob}, NEW pc \in Steps,
             Acquire(h, op, j, pc),
             IF op = "start" THEN pc = "inspect" /\ j = NoJob ELSE j \in Job
      PROVE  FrameOK'
  <2> DEFINE f == [Idle EXCEPT !.op = op, !.j = j, !.pc = pc]
  <2>1. f \in Frames /\ f.op = op /\ f.j = j /\ f.pc = pc
    BY NewFrame DEF Idle
  <2>2. Shape(f)
    BY <1>4, <2>1 DEF Shape, Ops
  <2> QED BY <1>1, <1>4, <2>1, <2>2 DEF Acquire
<1>5. ASSUME NEW h \in Handler, Start(h) PROVE FrameOK'
  <2>1. CASE StartAcquire(h)
    BY <1>4, <2>1 DEF StartAcquire, Ops, Steps
  <2>2. CASE StartInspect(h)
    BY <1>2, <1>3, <2>2 DEF StartInspect, At, Ops, Steps
  <2>3. CASE StartInsert(h)
    <3>1. Return(h) \/ \E j \in Job :
            handler' = [handler EXCEPT ![h] = [@ EXCEPT !.j = j, !.pc = "begin"]]
      BY <2>3 DEF StartInsert
    <3>2. ASSUME NEW j \in Job
          PROVE  /\ [handler[h] EXCEPT !.j = j, !.pc = "begin"] \in Frames
                 /\ Shape([handler[h] EXCEPT !.j = j, !.pc = "begin"])
      <4> DEFINE f == [handler[h] EXCEPT !.j = j, !.pc = "begin"]
      <4>1. handler[h] \in Frames /\ handler[h].op = "start" /\ "begin" \in Steps
        BY <1>0, <2>3 DEF StartInsert, At, Steps
      <4>2. f \in Frames
        BY <4>1, FrameUpdates
      <4>3. f.op = "start" /\ f.j = j /\ f.pc = "begin"
        BY <4>1 DEF Frames
      <4> QED BY <4>2, <4>3 DEF Shape, Ops
    <3> QED BY <1>1, <1>2, <3>1, <3>2
  <2>4. CASE StartLimited(h) \/ StartReturns(h) \/ BeginFailed(h)
    BY <1>2, <2>4 DEF StartLimited, StartReturns, BeginFailed
  <2>5. CASE BeginReaches(h) \/ BeginErrs(h) \/ BeginAborts(h)
    BY <1>3, <2>5 DEF BeginReaches, BeginErrs, BeginAborts, At, Ops, Steps
  <2> QED BY <1>5, <2>1, <2>2, <2>3, <2>4, <2>5 DEF Start
<1>6. ASSUME NEW h \in Handler, Upload(h) PROVE FrameOK'
  <2>1. ASSUME NEW j \in Job, UploadAcquire(h, j) PROVE FrameOK'
    BY <1>4, <2>1 DEF UploadAcquire, Ops, Steps
  <2>2. CASE UploadPrepare(h)
    <3>1. handler[h].j \in Job
      BY <2>2, FrameJob DEF UploadPrepare, At
    <3>2. /\ job[handler[h].j].need \in SUBSET Path
          /\ Deleted(snapshot, job[handler[h].j].man) \in SUBSET Path
      BY <3>1, ManifestTypes DEF TypeOK, Rows
    <3>3. Return(h) \/ \E b \in SUBSET Path, g \in SUBSET Path :
            handler' = [handler EXCEPT ![h] = [@ EXCEPT !.pc = "mark", !.batch = b, !.gone = g]]
      BY <2>2, <3>2 DEF UploadPrepare
    <3>4. ASSUME NEW b \in SUBSET Path, NEW g \in SUBSET Path
          PROVE  /\ [handler[h] EXCEPT !.pc = "mark", !.batch = b, !.gone = g] \in Frames
                 /\ Shape([handler[h] EXCEPT !.pc = "mark", !.batch = b, !.gone = g])
      <4> DEFINE f == [handler[h] EXCEPT !.pc = "mark", !.batch = b, !.gone = g]
      <4>1. handler[h] \in Frames /\ handler[h].op = "upload" /\ "mark" \in Steps
        BY <1>0, <2>2 DEF UploadPrepare, At, Steps
      <4>2. f \in Frames
        BY <4>1, FrameUpdates
      <4>3. f.op = "upload" /\ f.j \in Job
        BY <3>1, <4>1 DEF Frames
      <4> QED BY <4>2, <4>3 DEF Shape, Ops
    <3> QED BY <1>1, <1>2, <3>3, <3>4
  <2>3. CASE UploadMark(h) \/ StageReaches(h)
    BY <1>2, <1>3, <2>3 DEF UploadMark, StageReaches, At, Ops, Steps
  <2>4. CASE UploadRefused(h) \/ UploadCommit(h)
    BY <1>2, <2>4 DEF UploadRefused, UploadCommit
  <2> QED BY <1>6, <2>1, <2>2, <2>3, <2>4 DEF Upload
<1>7. ASSUME NEW h \in Handler, NEW pc \in Steps, NEW v \in Nat, handler[h].op \in Ops \ {"start"},
             \/ handler' = [handler EXCEPT ![h] = [@ EXCEPT !.pc = pc, !.pre = v]]
             \/ handler' = [handler EXCEPT ![h] = [@ EXCEPT !.pc = pc, !.rev = v]]
      PROVE  FrameOK'
  <2>1. handler[h].j \in Job
    BY <1>7 DEF FrameOK, Shape
  <2>2. ASSUME NEW f \in Frames, f.op = handler[h].op, f.j = handler[h].j PROVE Shape(f)
    BY <1>7, <2>1, <2>2 DEF Shape, Ops
  <2>3. /\ [handler[h] EXCEPT !.pc = pc, !.pre = v] \in Frames
        /\ [handler[h] EXCEPT !.pc = pc, !.rev = v] \in Frames
    BY <1>0, FrameUpdates
  <2>4. /\ Shape([handler[h] EXCEPT !.pc = pc, !.pre = v])
        /\ Shape([handler[h] EXCEPT !.pc = pc, !.rev = v])
    BY <1>0, <2>2, <2>3 DEF Frames
  <2> QED BY <1>1, <1>7, <2>3, <2>4
<1>8. ASSUME NEW h \in Handler, Complete(h) PROVE FrameOK'
  <2>0. \A pc : Completing(h, pc) => handler[h].op \in Ops \ {"start"} /\ handler[h].j \in Job
    BY FrameJob DEF Completing, At, Ops
  <2>r. handler[h].pre \in Nat /\ handler[h].rev \in Nat
    BY <1>0 DEF Frames
  <2>1. ASSUME NEW j \in Job, CompleteAcquire(h, j) PROVE FrameOK'
    BY <1>4, <2>1 DEF CompleteAcquire, Ops, Steps
  <2>2. CASE CompleteCheck(h)
    <3>1. job[handler[h].j].rev \in Nat
      BY <2>0, <2>2 DEF CompleteCheck, TypeOK, Rows
    <3> QED BY <1>2, <1>7, <2>0, <2>2, <3>1 DEF CompleteCheck, Steps
  <2>3. CASE CompleteHandoff(h)
    <3>1. \/ Return(h) \/ Goto(h, "finish") \/ Goto(h, "publish")
          \/ handler' = [handler EXCEPT ![h] = [@ EXCEPT !.pc = "finish", !.rev = handler[h].pre]]
      <4>1. CASE handler[h].rev > 0
        BY <2>r, <2>3, <4>1 DEF CompleteHandoff
      <4>2. CASE handler[h].rev = 0 /\ handler[h].pre > 0
        BY <2>r, <2>3, <4>2 DEF CompleteHandoff
      <4>3. CASE handler[h].rev = 0 /\ handler[h].pre = 0
        BY <2>r, <2>3, <4>3 DEF CompleteHandoff
      <4> QED BY <2>r, <4>1, <4>2, <4>3, SMT
    <3>2. handler[h].op \in Ops \ {"start"}
      BY <2>0, <2>3 DEF CompleteHandoff
    <3> QED BY <1>2, <1>3, <1>7, <2>r, <3>1, <3>2 DEF Steps
  <2>4. CASE PublishReaches(h) \/ CompleteRecord(h)
    <3>1. handler[h].op \in Ops \ {"start"}
      BY <2>0, <2>4 DEF PublishReaches, CompleteRecord
    <3> QED BY <1>3, <2>4, <3>1 DEF PublishReaches, CompleteRecord, Steps
  <2>5. CASE PublishReplies(h)
    <3>1. lce[handler[h].j].rev \in Nat /\ handler[h].op \in Ops \ {"start"}
      BY <2>0, <2>5 DEF PublishReplies, TypeOK, Records
    <3> QED BY <1>2, <1>3, <1>7, <2>5, <3>1 DEF PublishReplies, Steps
  <2>6. CASE CompleteFinish(h) \/ FinishFailed(h)
    BY <1>2, <2>6 DEF CompleteFinish, FinishFailed
  <2> QED BY <1>8, <2>1, <2>2, <2>3, <2>4, <2>5, <2>6 DEF Complete
<1>9. ASSUME NEW h \in Handler, Fail(h) PROVE FrameOK'
  <2>1. ASSUME NEW j \in Job, FailAcquire(h, j) PROVE FrameOK'
    BY <1>4, <2>1 DEF FailAcquire, Ops, Steps
  <2>2. CASE FailCheck(h) \/ FailMark(h)
    BY <1>2, <1>3, <2>2 DEF FailCheck, FailMark, At, Ops, Steps
  <2> QED BY <1>9, <2>1, <2>2 DEF Fail
<1>10. ASSUME NEW h \in Handler, Reconcile(h) PROVE FrameOK'
  <2>1. ASSUME NEW j \in Job, ReconcileAcquire(h, j) PROVE FrameOK'
    BY <1>4, <2>1 DEF ReconcileAcquire, Ops, Steps
  <2>2. CASE ReconcileRevalidate(h) \/ ReconcileStatusErrs(h) \/ ReconcileAbort(h)
    BY <1>2, <1>3, <2>2 DEF ReconcileRevalidate, ReconcileStatusErrs, ReconcileAbort, At, Ops, Steps
  <2>3. CASE ReconcileStatus(h)
    <3>1. lce[handler[h].j].rev \in Nat /\ handler[h].op \in Ops \ {"start"}
      BY <2>3, FrameJob DEF ReconcileStatus, At, TypeOK, Records, Ops
    <3> QED BY <1>2, <1>3, <1>7, <2>3, <3>1 DEF ReconcileStatus, Steps
  <2> QED BY <1>10, <2>1, <2>2, <2>3 DEF Reconcile
<1>11. ASSUME NEW h \in Handler, HandlerStops(h) PROVE FrameOK'
  BY <1>2, <1>11 DEF HandlerStops
<1>12. CASE handler' = handler
  BY <1>12 DEF FrameOK, Shape
<1>13. (Sweep \/ Cloud \/ Clock \/ UNCHANGED vars \/ \E j \in Job : HeartbeatJob(j)) =>
         handler' = handler
  BY DEF Sweep, Cloud, LateArrival, CloudPublishes, CloudFails, Clock, HeartbeatAges,
         PublicationAges, HeartbeatJob, vars
<1> QED BY <1>5, <1>6, <1>8, <1>9, <1>10, <1>11, <1>12, <1>13 DEF Next

\* The initial state has the types.
LEMMA InitTypes == Init => TypeOK /\ FrameOK
<1> SUFFICES ASSUME Init PROVE TypeOK /\ FrameOK
  OBVIOUS
<1>1. TypeOK
  <2>1. /\ job \in [Job -> Rows] /\ handler \in [Handler -> Frames]
        /\ lce \in [Job -> Records]
    BY RowTypes DEF Init
  <2>2. faults \in 0..MaxFaults
    BY IndexJobAssumption, SMT DEF Init
  <2> QED BY <2>1, <2>2, ManifestTypes DEF Init, TypeOK
<1>2. FrameOK
  BY DEF Init, FrameOK, Shape, Idle, Ops
<1> QED BY <1>1, <1>2

\* Rows, handlers, LCE's records and the requests in flight keep their types,
\* through every handler of index_jobs.go, sweep, late request and fault.
THEOREM TypeCorrect == Spec => []TypeOK
<1>1. TypeOK /\ FrameOK /\ [Next]_vars => TypeOK' /\ FrameOK'
  BY TypeStep, FrameStep
<1> QED BY <1>1, InitTypes, PTL DEF Spec
-----------------------------------------------------------------------------
(* The leases and the publications.                                        *)

Busy(h) == handler[h].op # "none"

\* A start has the tenant to itself; only uploads share a job.
LeaseExclusive ==
  \A h, k \in Handler : h # k /\ Busy(h) /\ Busy(k) =>
    /\ handler[h].op # "start"
    /\ handler[h].j = handler[k].j => handler[h].op = "upload" /\ handler[k].op = "upload"

\* What a handler established about its job still holds at its later steps.
Unpublished(f) ==
  \/ f.op = "start" /\ f.j \in Job
  \/ f.op = "upload" /\ f.pc \in {"stage", "staged"}
  \/ f.op = "fail" /\ f.pc = "mark"

HandedOver(f) ==
  \/ f.op = "complete" /\ f.pc \in {"publish", "published", "record", "finish", "failed"}
  \/ f.op = "reconcile" /\ f.pc # "revalidate"

FramePhase(f) ==
  /\ f.op = "start" /\ f.pc = "insert" => \A i \in Job : ~Running(i)
  /\ Unpublished(f) => ~Publishing(f.j)
  /\ HandedOver(f) => Publishing(f.j)

\* What a handler knows of LCE's verdict is the verdict.
FrameCloud(f) ==
  /\ f.op \in {"complete", "reconcile"} /\ f.pc = "failed" =>
       lce[f.j].state \in {"failed", "aborted"}
  /\ f.op \in {"complete", "reconcile"} /\ f.pc \in {"record", "finish"} =>
       lce[f.j].state = "published"
  /\ f.pre > 0 \/ f.rev > 0 => f.j \in Job /\ lce[f.j].state = "published"

HandlersOK == \A h \in Handler : FramePhase(handler[h]) /\ FrameCloud(handler[h])

Decided == {"published", "failed", "aborted"}

\* The cloud works only on what the relay has handed over.
CloudOK ==
  /\ \A j \in Job : /\ lce[j].state = "queued" => Publishing(j)
                    /\ job[j].rev > 0 => lce[j].state = "published"
  /\ \A req \in late : req.op = "publish" =>
       Publishing(req.j) \/ lce[req.j].state \in Decided

Inv ==
  /\ LeaseExclusive
  /\ HandlersOK
  /\ OneRunning
  /\ CloudOK
  /\ PublishedNeverLost

IInv == TypeOK /\ FrameOK /\ Inv
-----------------------------------------------------------------------------
(* What a step does to one job. Every step of the system is one of these   *)
(* for each job, which yields the invariant, the action property and the   *)
(* refinement.                                                             *)

RevKnown(j) == job'[j].rev > 0 => job[j].rev > 0 \/ lce[j].state = "published"

Stays(j) ==
  /\ job'[j].status = job[j].status
  /\ Publishing(j)' <=> Publishing(j)
  /\ RevKnown(j)

Begins(j) ==
  /\ job[j].status = "none" /\ \A i \in Job : ~Running(i)
  /\ Running(j)' /\ ~Publishing(j)'
  /\ RevKnown(j)

HandsOver(j) ==
  /\ Running(j) /\ ~Publishing(j)
  /\ Publishing(j)'
  /\ RevKnown(j)

GivesUp(j) ==
  /\ Running(j) /\ ~Publishing(j)
  /\ job'[j].status \in {"failed", "timed_out"}
  /\ RevKnown(j)

Settles(j) ==
  /\ Publishing(j)
  /\ \/ job'[j].status = "completed" /\ lce[j].state = "published"
     \/ job'[j].status = "failed" /\ lce[j].state \in {"failed", "aborted"}
  /\ RevKnown(j)

JobSteps ==
  /\ \A j \in Job : Stays(j) \/ Begins(j) \/ HandsOver(j) \/ GivesUp(j) \/ Settles(j)
  /\ \A i, j \in Job : Begins(i) /\ Begins(j) => i = j

\* A job begins, is handed over and settles only under the lease of h.
Owned(h) ==
  /\ \A j \in Job : Begins(j) => handler[h].op = "start"
  /\ \A j \in Job : HandsOver(j) \/ Settles(j) =>
       handler[h].j = j /\ handler[h].op \in {"complete", "reconcile"}

\* LCE's verdicts are final, and only a publication that was handed over
\* becomes queued or published.
CloudStep ==
  /\ \A j \in Job :
       /\ lce[j].state \in Decided => lce'[j] = lce[j]
       /\ lce'[j].state \in {"queued", "published"} => lce'[j] = lce[j] \/ Publishing(j)
  /\ \A req \in late' : req.op = "publish" => req \in late \/ Publishing(req.j)

\* Only handler h moves: on within its operation, or back to its idle state.
Moved(h) ==
  /\ \A k \in Handler \ {h} : handler'[k] = handler[k]
  /\ \/ handler'[h].op = "none"
     \/ /\ handler'[h].op = handler[h].op
        /\ handler'[h].j = handler[h].j \/ handler[h].op = "start"

FrameGood(h) == FramePhase(handler[h]) /\ FrameCloud(handler[h])

\* What the leases exclude between two busy handlers.
LEMMA Excludes ==
  ASSUME LeaseExclusive, NEW h \in Handler, NEW k \in Handler, h # k, Busy(h), Busy(k)
  PROVE  /\ handler[h].op # "start" /\ handler[k].op # "start"
         /\ handler[h].op # "upload" => handler[h].j # handler[k].j
BY DEF LeaseExclusive

\* A handler that moves within its operation keeps the leases exclusive.
LEMMA LeaseStep ==
  ASSUME LeaseExclusive, NEW h \in Handler, Moved(h)
  PROVE  LeaseExclusive'
BY SMT DEF Moved, LeaseExclusive, Busy

\* The jobs, the cloud and the requests in flight.
LEMMA StateStep ==
  ASSUME TypeOK, TypeOK', OneRunning, CloudOK, PublishedNeverLost, JobSteps, CloudStep
  PROVE  OneRunning' /\ CloudOK' /\ PublishedNeverLost'
<1>1. ASSUME NEW j \in Job
      PROVE  /\ Running(j)' => Running(j) \/ Begins(j)
             /\ Publishing(j) => Publishing(j)' \/ Settles(j)
             /\ job'[j].rev > 0 => lce[j].state = "published"
  <2>1. Stays(j) \/ Begins(j) \/ HandsOver(j) \/ GivesUp(j) \/ Settles(j)
    BY DEF JobSteps
  <2>2. job[j].rev > 0 => lce[j].state = "published"
    BY DEF CloudOK
  <2>3. job'[j].rev > 0 => lce[j].state = "published"
    BY <2>1, <2>2 DEF Stays, Begins, HandsOver, GivesUp, Settles, RevKnown
  <2>4. Running(j)' => Running(j) \/ Begins(j)
    BY <2>1 DEF Stays, HandsOver, GivesUp, Settles, Running, Publishing
  <2>5. Publishing(j) => Publishing(j)' \/ Settles(j)
    BY <2>1 DEF Stays, Begins, HandsOver, GivesUp, Running, Publishing
  <2> QED BY <2>3, <2>4, <2>5
<1>2. OneRunning'
  BY <1>1 DEF OneRunning, JobSteps, Begins
<1>3. CloudOK'
  <2>1. ASSUME NEW j \in Job, lce'[j].state = "queued" PROVE Publishing(j)'
    <3>1. Publishing(j)
      BY <2>1 DEF CloudOK, CloudStep
    <3>2. ~Settles(j)
      BY <2>1 DEF Settles, CloudStep, Decided
    <3> QED BY <1>1, <3>1, <3>2
  <2>2. ASSUME NEW j \in Job, job'[j].rev > 0 PROVE lce'[j].state = "published"
    BY <1>1, <2>2 DEF CloudStep, Decided
  <2>3. ASSUME NEW req \in late', req.op = "publish"
        PROVE  Publishing(req.j)' \/ lce'[req.j].state \in Decided
    <3>1. req.j \in Job
      BY DEF TypeOK, Requests
    <3>2. Publishing(req.j) \/ lce[req.j].state \in Decided
      BY <2>3 DEF CloudOK, CloudStep
    <3>3. Settles(req.j) => lce[req.j].state \in Decided
      BY DEF Settles, Decided
    <3> QED BY <1>1, <3>1, <3>2, <3>3 DEF CloudStep
  <2> QED BY <2>1, <2>2, <2>3 DEF CloudOK
<1>4. PublishedNeverLost'
  <2> SUFFICES ASSUME NEW j \in Job, lce'[j].state = "published"
               PROVE  job'[j].status = "completed" \/ Publishing(j)'
    BY DEF PublishedNeverLost
  <2>1. job[j].status = "completed" \/ Publishing(j)
    BY DEF PublishedNeverLost, CloudStep
  <2>2. CASE Publishing(j)
    <3>1. Settles(j) => job'[j].status = "completed"
      BY DEF Settles, CloudStep, Decided
    <3> QED BY <1>1, <2>2, <3>1
  <2>3. CASE job[j].status = "completed"
    BY <2>3 DEF JobSteps, Stays, Begins, HandsOver, GivesUp, Settles, Running, Publishing
  <2> QED BY <2>1, <2>2, <2>3
<1> QED BY <1>2, <1>3, <1>4

\* A handler that does not move keeps what it knows.
LEMMA FrameKeeps ==
  ASSUME TypeOK, FrameOK, JobSteps, CloudStep, NEW k \in Handler, FrameGood(k),
         handler'[k] = handler[k],
         \A j \in Job : Begins(j) => handler[k].op # "start",
         \A j \in Job : HandsOver(j) \/ Settles(j) => ~(Busy(k) /\ handler[k].j = j)
  PROVE  FrameGood(k)'
<1> DEFINE f == handler[k]
<1>1. f.op # "none" => f.op = "start" \/ f.j \in Job
  BY DEF FrameOK, Shape, TypeOK, Frames
<1>2. FrameCloud(handler[k])'
  BY <1>1 DEF FrameGood, FrameCloud, CloudStep, Decided
<1>3. ASSUME f.op = "start", f.pc = "insert", NEW i \in Job PROVE ~Running(i)'
  <2>1. ~Running(i) /\ ~Begins(i)
    BY <1>3 DEF FrameGood, FramePhase
  <2> QED BY <2>1 DEF JobSteps, Stays, HandsOver, GivesUp, Settles, Running, Publishing
<1>4. ASSUME Unpublished(f) PROVE ~Publishing(f.j)'
  <2>1. f.j \in Job /\ Busy(k) /\ ~Publishing(f.j)
    BY <1>1, <1>4 DEF Unpublished, Busy, FrameGood, FramePhase
  <2>2. ~HandsOver(f.j)
    BY <2>1
  <2> QED BY <2>1, <2>2 DEF JobSteps, Stays, Begins, GivesUp, Settles, Running, Publishing
<1>5. ASSUME HandedOver(f) PROVE Publishing(f.j)'
  <2>1. f.j \in Job /\ Busy(k) /\ Publishing(f.j)
    BY <1>1, <1>5 DEF HandedOver, Busy, FrameGood, FramePhase
  <2>2. ~Settles(f.j)
    BY <2>1
  <2> QED BY <2>1, <2>2 DEF JobSteps, Stays, Begins, HandsOver, GivesUp, Running, Publishing
<1> QED BY <1>2, <1>3, <1>4, <1>5 DEF FrameGood, FramePhase, Unpublished, HandedOver

\* A step of handler h.
LEMMA LocalStep ==
  ASSUME IInv, TypeOK', NEW h \in Handler, Busy(h), Moved(h), JobSteps, Owned(h), CloudStep,
         FrameGood(h)'
  PROVE  Inv'
<1>1. LeaseExclusive'
  BY LeaseStep DEF IInv, Inv
<1>2. OneRunning' /\ CloudOK' /\ PublishedNeverLost'
  BY StateStep DEF IInv, Inv
<1>3. ASSUME NEW k \in Handler, k # h PROVE FrameGood(k)'
  <2>1. handler'[k] = handler[k] /\ FrameGood(k)
    BY <1>3 DEF Moved, IInv, Inv, HandlersOK, FrameGood
  <2>2. Busy(k) => /\ handler[h].op # "start" /\ handler[k].op # "start"
                   /\ handler[h].op # "upload" => handler[h].j # handler[k].j
    BY <1>3, Excludes DEF IInv, Inv
  <2> QED BY <2>1, <2>2, FrameKeeps DEF Owned, IInv, Busy
<1>4. HandlersOK'
  BY <1>3 DEF HandlersOK, FrameGood
<1> QED BY <1>1, <1>2, <1>4 DEF Inv

\* A step of no handler.
LEMMA OuterStep ==
  ASSUME IInv, TypeOK', handler' = handler, JobSteps, CloudStep,
         \A j \in Job : ~Begins(j) /\ ~HandsOver(j) /\ ~Settles(j)
  PROVE  Inv'
<1>1. LeaseExclusive'
  BY DEF LeaseExclusive, Busy, IInv, Inv
<1>2. OneRunning' /\ CloudOK' /\ PublishedNeverLost'
  BY StateStep DEF IInv, Inv
<1>3. ASSUME NEW k \in Handler PROVE FrameGood(k)'
  BY FrameKeeps DEF IInv, Inv, HandlersOK, FrameGood
<1>4. HandlersOK'
  BY <1>3 DEF HandlersOK, FrameGood
<1> QED BY <1>1, <1>2, <1>4 DEF Inv
-----------------------------------------------------------------------------
(* The steps of the handlers.                                              *)

\* A step that leaves the rows alone.
LEMMA SameJobs == job' = job => \A j \in Job : Stays(j)
BY DEF Stays, RevKnown, Publishing, Running

\* If every job stays, none begins, is handed over or settles.
LEMMA AllStay ==
  ASSUME \A j \in Job : Stays(j)
  PROVE  /\ JobSteps
         /\ \A j \in Job : ~Begins(j) /\ ~HandsOver(j) /\ ~Settles(j)
         /\ \A h \in Handler : Owned(h)
<1>1. \A j \in Job : ~Begins(j) /\ ~HandsOver(j) /\ ~Settles(j)
  BY DEF Stays, Begins, HandsOver, Settles, Running, Publishing
<1> QED BY <1>1 DEF JobSteps, Owned

\* A step that rewrites one row leaves the other jobs.
LEMMA RowStep ==
  ASSUME TypeOK, NEW j \in Job, NEW r, job' = [job EXCEPT ![j] = r]
  PROVE  job'[j] = r /\ \A i \in Job \ {j} : Stays(i)
BY DEF TypeOK, Stays, RevKnown, Publishing, Running

\* A step that changes row j only, and how.
LEMMA OneRow ==
  ASSUME NEW j \in Job, NEW h \in Handler, \A i \in Job \ {j} : Stays(i),
         \/ Stays(j) \/ GivesUp(j)
         \/ Begins(j) /\ handler[h].op = "start"
         \/ /\ HandsOver(j) \/ Settles(j)
            /\ handler[h].j = j /\ handler[h].op \in {"complete", "reconcile"}
  PROVE  JobSteps /\ Owned(h)
<1>1. \A i \in Job : Stays(i) \/ GivesUp(i) => ~Begins(i) /\ ~HandsOver(i) /\ ~Settles(i)
  BY DEF Stays, GivesUp, Begins, HandsOver, Settles, Running, Publishing
<1>2. Begins(j) => ~HandsOver(j) /\ ~Settles(j)
  BY DEF Begins, HandsOver, Settles, Running, Publishing
<1> QED BY <1>1, <1>2 DEF JobSteps, Owned

\* A step that leaves LCE's records alone, and sends a publish for a publishing job only.
LEMMA CloudSame ==
  ASSUME lce' = lce, \A req \in late' : req.op = "publish" => req \in late \/ Publishing(req.j)
  PROVE  CloudStep
BY DEF CloudStep

\* A request executed by LCE, a publish only for a job that is publishing or decided.
LEMMA ExecuteStep ==
  ASSUME TypeOK, NEW req \in Requests, Execute(req), late' \subseteq late,
         req.op = "publish" => Publishing(req.j) \/ lce[req.j].state \in Decided
  PROVE  CloudStep
<1> DEFINE r == lce[req.j]
<1>1. req.j \in Job /\ r \in Records
  BY DEF TypeOK, Requests
<1>2. lce'[req.j] = Effect(req, r) /\ \A j \in Job \ {req.j} : lce'[j] = lce[j]
  BY <1>1 DEF Execute, TypeOK
<1>3. r.state \in Decided => Effect(req, r) = r
  BY DEF Effect, AfterBegin, AfterStage, AfterPublish, AfterAbort, Decided, Requests
<1>4. Effect(req, r).state \in {"queued", "published"} => Effect(req, r) = r \/ req.op = "publish"
  BY <1>1 DEF Effect, AfterBegin, AfterStage, AfterAbort, Unknown, Requests, Records
<1> QED BY <1>1, <1>2, <1>3, <1>4 DEF CloudStep

\* A handler that returns claims nothing.
LEMMA Returns ==
  ASSUME TypeOK, NEW h \in Handler, Return(h)
  PROVE  Moved(h) /\ FrameGood(h)'
<1>1. handler'[h] = Idle /\ \A k \in Handler \ {h} : handler'[k] = handler[k]
  BY DEF TypeOK, Return
<1> QED BY <1>1, SMT DEF Moved, FrameGood, FramePhase, FrameCloud, Unpublished, HandedOver, Idle

\* A handler that goes on keeps its operation, its job and its notes.
LEMMA Goes ==
  ASSUME TypeOK, NEW h \in Handler, NEW pc \in Steps, Goto(h, pc)
  PROVE  /\ Moved(h)
         /\ handler'[h].op = handler[h].op /\ handler'[h].j = handler[h].j
         /\ handler'[h].pc = pc
         /\ handler'[h].pre = handler[h].pre /\ handler'[h].rev = handler[h].rev
<1>1. handler[h] \in Frames
  BY DEF TypeOK
<1>2. /\ handler'[h] = [handler[h] EXCEPT !.pc = pc]
      /\ \A k \in Handler \ {h} : handler'[k] = handler[k]
  BY DEF TypeOK, Goto
<1> QED BY <1>1, <1>2 DEF Moved, Frames

\* The steps that note a revision.
LEMMA NotesRecorded ==
  ASSUME TypeOK, NEW h \in Handler, NEW pc \in Steps, NEW v \in Nat,
         handler' = [handler EXCEPT ![h] = [@ EXCEPT !.pc = pc, !.pre = v]]
  PROVE  /\ Moved(h)
         /\ handler'[h].op = handler[h].op /\ handler'[h].j = handler[h].j
         /\ handler'[h].pc = pc
         /\ handler'[h].pre = v /\ handler'[h].rev = handler[h].rev
<1>1. handler \in [Handler -> Frames] /\ handler[h] \in Frames
  BY DEF TypeOK
<1>2. /\ handler'[h] = [handler[h] EXCEPT !.pc = pc, !.pre = v]
      /\ \A k \in Handler \ {h} : handler'[k] = handler[k]
  BY <1>1
<1> QED BY <1>1, <1>2 DEF Moved, Frames

\* The step that notes the revision LCE reports.
LEMMA NotesKnown ==
  ASSUME TypeOK, NEW h \in Handler, NEW pc \in Steps, NEW v \in Nat,
         handler' = [handler EXCEPT ![h] = [@ EXCEPT !.pc = pc, !.rev = v]]
  PROVE  /\ Moved(h)
         /\ handler'[h].op = handler[h].op /\ handler'[h].j = handler[h].j
         /\ handler'[h].pc = pc
         /\ handler'[h].pre = handler[h].pre /\ handler'[h].rev = v
<1>1. handler \in [Handler -> Frames] /\ handler[h] \in Frames
  BY DEF TypeOK
<1>2. /\ handler'[h] = [handler[h] EXCEPT !.pc = pc, !.rev = v]
      /\ \A k \in Handler \ {h} : handler'[k] = handler[k]
  BY <1>1
<1> QED BY <1>1, <1>2 DEF Moved, Frames

\* An ended row keeps its revision.
LEMMA EndedRow ==
  ASSUME NEW r \in Rows, NEW s \in Terminal
  PROVE  Ended(r, s).status = s /\ Ended(r, s).rev = r.rev
BY DEF Ended, Rows

\* Taking a lease keeps the invariant.
LEMMA AcquireStep ==
  ASSUME ~CleanupOutlivesLease, IInv, TypeOK', NEW h \in Handler, NEW op \in Ops,
         NEW j \in Job \cup {NoJob}, NEW pc \in Steps, Acquire(h, op, j, pc),
         \/ op = "start" /\ pc = "inspect" /\ j = NoJob
         \/ op = "upload" /\ pc = "prepare"
         \/ op \in {"complete", "fail"} /\ pc = "check"
         \/ op = "reconcile" /\ pc = "revalidate"
  PROVE  JobSteps /\ Inv'
<1>1. JobSteps /\ \A i \in Job : ~Begins(i) /\ ~HandsOver(i) /\ ~Settles(i)
  BY SameJobs, AllStay DEF Acquire, relayVars
<1>2. CloudStep
  BY CloudSame DEF Acquire, lceVars
<1>3. /\ \A k \in Handler \ {h} : handler'[k] = handler[k]
      /\ handler'[h] = [Idle EXCEPT !.op = op, !.j = j, !.pc = pc]
  BY DEF Acquire, IInv, TypeOK
<1>4. /\ handler'[h].op = op /\ handler'[h].j = j /\ handler'[h].pc = pc
      /\ handler'[h].pre = 0 /\ handler'[h].rev = 0
  BY <1>3 DEF Idle
<1>5. \A k \in Handler : Busy(k) =>
        /\ op # "start" /\ handler[k].op # "start"
        /\ handler[k].j = j => op = "upload" /\ handler[k].op = "upload"
  BY DEF Acquire, LeaseFree, HoldsLease, Busy
<1>6. LeaseExclusive'
  <2> SUFFICES ASSUME NEW p \in Handler, NEW q \in Handler, p # q, Busy(p)', Busy(q)'
               PROVE  /\ handler'[p].op # "start"
                      /\ handler'[p].j = handler'[q].j =>
                           handler'[p].op = "upload" /\ handler'[q].op = "upload"
    BY DEF LeaseExclusive
  <2>1. CASE p = h
    BY <1>3, <1>4, <1>5, <2>1 DEF Busy
  <2>2. CASE q = h
    BY <1>3, <1>4, <1>5, <2>2, ZenonT(30) DEF Busy
  <2>3. CASE p # h /\ q # h
    BY <1>3, <2>3, SMT DEF LeaseExclusive, Busy, IInv, Inv
  <2> QED BY <2>1, <2>2, <2>3
<1>7. OneRunning' /\ CloudOK' /\ PublishedNeverLost'
  BY <1>1, <1>2, StateStep DEF IInv, Inv
<1>8. FrameGood(h)'
  BY <1>4, IndexJobAssumption, SMT DEF FrameGood, FramePhase, FrameCloud, Unpublished, HandedOver
<1>9. ASSUME NEW k \in Handler \ {h} PROVE FrameGood(k)'
  BY <1>1, <1>2, <1>3, FrameKeeps DEF IInv, Inv, HandlersOK, FrameGood
<1> QED BY <1>1, <1>6, <1>7, <1>8, <1>9 DEF Inv, HandlersOK, FrameGood

\* A handler gives up its operation and changes nothing.
LEMMA ReturnStep ==
  ASSUME IInv, TypeOK', NEW h \in Handler, Busy(h), Return(h), job' = job, lce' = lce,
         late' = late
  PROVE  JobSteps /\ Inv'
BY SameJobs, AllStay, CloudSame, Returns, LocalStep DEF IInv

\* A handler goes on to a step at which it claims nothing new.
LEMMA GotoStep ==
  ASSUME IInv, TypeOK', NEW h \in Handler, Busy(h), NEW pc \in Steps, Goto(h, pc), job' = job,
         CloudStep,
         pc = "insert" => handler[h].op # "start",
         handler[h].op = "upload" /\ pc \in {"stage", "staged"} => ~Publishing(handler[h].j),
         handler[h].op = "fail" /\ pc = "mark" => ~Publishing(handler[h].j),
         handler[h].op = "complete" /\ pc \in {"publish", "published", "record", "finish", "failed"}
           => Publishing(handler[h].j),
         handler[h].op = "reconcile" => Publishing(handler[h].j),
         handler[h].op \in {"complete", "reconcile"} /\ pc = "failed" =>
           lce'[handler[h].j].state \in {"failed", "aborted"},
         handler[h].op \in {"complete", "reconcile"} /\ pc \in {"record", "finish"} =>
           lce[handler[h].j].state = "published",
         handler[h].op = "start" => handler[h].j \in Job
  PROVE  JobSteps /\ Inv'
<1>1. JobSteps /\ Owned(h)
  BY SameJobs, AllStay
<1>2. /\ Moved(h)
      /\ handler'[h].op = handler[h].op /\ handler'[h].j = handler[h].j
      /\ handler'[h].pc = pc
      /\ handler'[h].pre = handler[h].pre /\ handler'[h].rev = handler[h].rev
  BY Goes DEF IInv
<1>3. FramePhase(handler[h]) /\ FrameCloud(handler[h])
  BY DEF IInv, Inv, HandlersOK
<1>4. FramePhase(handler[h])'
  BY <1>2, <1>3 DEF FramePhase, Unpublished, HandedOver, Publishing, Running
<1>5. handler[h].j \in Job
  BY DEF IInv, FrameOK, Shape, Busy, TypeOK, Frames
<1>6. FrameCloud(handler[h])'
  BY <1>2, <1>3, <1>5 DEF FrameCloud, CloudStep, Decided
<1> QED BY <1>1, <1>2, <1>4, <1>6, LocalStep DEF FrameGood

\* The steps of a start keep the invariant.
LEMMA StartSteps ==
  ASSUME ~CleanupOutlivesLease, IInv, TypeOK', NEW h \in Handler, Start(h)
  PROVE  JobSteps /\ Inv'
<1>0. TypeOK /\ FrameOK /\ handler[h] \in Frames /\ FrameGood(h)
  BY DEF IInv, Inv, HandlersOK, FrameGood, TypeOK
<1>1. CASE StartAcquire(h)
  BY <1>1, AcquireStep DEF StartAcquire, Ops, Steps
<1>2. CASE StartInspect(h)
  <2>0. Busy(h) /\ handler[h].op = "start"
    BY <1>2 DEF StartInspect, At, Busy
  <2> DEFINE running == {j \in Job : Running(j)}
             active == {j \in running : Publishing(j) \/ ~job[j].stale}
  <2>1. CASE active # {}
    BY <1>2, <2>0, <2>1, ReturnStep DEF StartInspect, lceVars
  <2>2. CASE active = {}
    <3>1. /\ job' = [j \in Job |-> IF j \in running THEN Ended(job[j], "timed_out") ELSE job[j]]
          /\ late' = late \cup {Request("abort", j) : j \in {i \in running : job[i].rev = 0}}
          /\ Goto(h, "insert") /\ lce' = lce
      BY <1>2, <2>2 DEF StartInspect, lceVars
    <3>2. ASSUME NEW j \in Job, Running(j) PROVE GivesUp(j) /\ ~Running(j)'
      <4>1. job'[j] = Ended(job[j], "timed_out") /\ ~Publishing(j)
        BY <2>2, <3>1, <3>2
      <4>2. job'[j].status = "timed_out" /\ job'[j].rev = job[j].rev
        BY <1>0, <4>1, EndedRow, SMT DEF TypeOK, Terminal
      <4> QED BY <3>2, <4>1, <4>2 DEF GivesUp, RevKnown, Running
    <3>3. ASSUME NEW j \in Job, ~Running(j) PROVE Stays(j) /\ ~Running(j)'
      BY <3>1, <3>3 DEF Stays, RevKnown, Running, Publishing
    <3>4. JobSteps /\ Owned(h)
      <4>1. \A i \in Job : Stays(i) \/ GivesUp(i) => ~Begins(i) /\ ~HandsOver(i) /\ ~Settles(i)
        BY DEF Stays, GivesUp, Begins, HandsOver, Settles, Running, Publishing
      <4> QED BY <3>2, <3>3, <4>1 DEF JobSteps, Owned
    <3>5. CloudStep
      BY <3>1, CloudSame, SMT DEF Request
    <3>6. /\ Moved(h) /\ handler'[h].op = "start" /\ handler'[h].j = NoJob
          /\ handler'[h].pre = handler[h].pre /\ handler'[h].rev = handler[h].rev
      <4>1. handler[h].j = NoJob
        BY <1>0, <1>2 DEF FrameOK, Shape, StartInspect, At
      <4> QED BY <1>0, <2>0, <3>1, <4>1, Goes DEF Steps
    <3>7. FramePhase(handler[h])'
      BY <3>2, <3>3, <3>6, IndexJobAssumption DEF FramePhase, Unpublished, HandedOver
    <3>8. FrameCloud(handler[h])'
      <4>1. ~(handler[h].pre > 0 \/ handler[h].rev > 0)
        BY <1>0, <1>2, IndexJobAssumption DEF FrameOK, Shape, StartInspect, At, FrameGood, FrameCloud
      <4> QED BY <3>6, <4>1 DEF FrameCloud
    <3> QED BY <2>0, <3>4, <3>5, <3>6, <3>7, <3>8, LocalStep DEF FrameGood
  <2> QED BY <2>1, <2>2
<1>3. CASE StartInsert(h)
  <2>0. Busy(h) /\ handler[h].op = "start" /\ handler[h].pc = "insert" /\ handler[h].j = NoJob
    BY <1>0, <1>3 DEF StartInsert, At, Busy, FrameOK, Shape
  <2>1. CASE Return(h) /\ job' = job
    BY <1>3, <2>0, <2>1, ReturnStep DEF StartInsert, lceVars
  <2>2. CASE \E man \in Manifests, j \in Job :
               /\ job[j].status = "none"
               /\ job' = [job EXCEPT ![j] = NewRow(man)]
               /\ handler' = [handler EXCEPT ![h] = [@ EXCEPT !.j = j, !.pc = "begin"]]
    <3>1. PICK man \in Manifests, j \in Job :
               /\ job[j].status = "none"
               /\ job' = [job EXCEPT ![j] = NewRow(man)]
               /\ handler' = [handler EXCEPT ![h] = [@ EXCEPT !.j = j, !.pc = "begin"]]
      BY <2>2
    <3>i. NewRow(man).status = "running" /\ NewRow(man).phase = "created" /\ NewRow(man).rev = 0
      BY DEF NewRow, NoRow
    <3>2. /\ job'[j].status = "running" /\ job'[j].phase = "created" /\ job'[j].rev = 0
          /\ \A i \in Job \ {j} : Stays(i)
      BY <1>0, <3>1, <3>i, RowStep
    <3>3. Begins(j)
      BY <1>0, <2>0, <3>1, <3>2, SMT DEF Begins, RevKnown, Running, Publishing, FrameGood, FramePhase
    <3>4. JobSteps /\ Owned(h)
      BY <2>0, <3>2, <3>3, OneRow
    <3>5. CloudStep
      BY <1>3, CloudSame DEF StartInsert, lceVars
    <3>6. /\ \A k \in Handler \ {h} : handler'[k] = handler[k]
          /\ handler'[h] = [handler[h] EXCEPT !.j = j, !.pc = "begin"]
      BY <1>0, <3>1 DEF TypeOK
    <3>7. /\ Moved(h) /\ handler'[h].op = "start" /\ handler'[h].j = j /\ handler'[h].pc = "begin"
          /\ handler'[h].pre = handler[h].pre /\ handler'[h].rev = handler[h].rev
      BY <1>0, <2>0, <3>6 DEF Moved, Frames
    <3>8. FramePhase(handler[h])'
      BY <3>2, <3>7 DEF FramePhase, Unpublished, HandedOver, Publishing
    <3>9. FrameCloud(handler[h])'
      <4>1. ~(handler[h].pre > 0 \/ handler[h].rev > 0)
        BY <1>0, <2>0, IndexJobAssumption DEF FrameGood, FrameCloud
      <4> QED BY <3>7, <4>1 DEF FrameCloud
    <3> QED BY <2>0, <3>4, <3>5, <3>7, <3>8, <3>9, LocalStep DEF FrameGood
  <2> QED BY <1>0, <1>3, <2>1, <2>2, ManifestTypes DEF StartInsert, TypeOK
<1>4. CASE StartLimited(h) \/ StartReturns(h)
  BY <1>4, ReturnStep DEF StartLimited, StartReturns, At, Busy, relayVars, lceVars
<1>5. ASSUME handler[h].op = "start", handler[h].pc \in {"begin", "begun", "begin abort", "begin failed"}
      PROVE  Busy(h) /\ handler[h].j \in Job /\ ~Publishing(handler[h].j)
  BY <1>0, <1>5 DEF Busy, FrameOK, Shape, FrameGood, FramePhase, Unpublished
<1>6. CASE BeginReaches(h)
  <2>1. BeginRequest(handler[h].j) \in Requests /\ BeginRequest(handler[h].j).op # "publish"
    BY <1>5, <1>6, RowTypes DEF BeginReaches, At, BeginRequest, Request
  <2>2. CloudStep
    BY <1>0, <1>6, <2>1, ExecuteStep DEF BeginReaches
  <2> QED BY <1>5, <1>6, <2>2, GotoStep DEF BeginReaches, At, Steps, relayVars
<1>7. CASE BeginErrs(h) \/ BeginAborts(h)
  <2>1. \A j : BeginRequest(j).op # "publish" /\ Request("abort", j).op # "publish"
    BY DEF BeginRequest, Request
  <2>2. lce' = lce /\ \A req \in late' : req \in late \/ req.op # "publish"
    BY <1>7, <2>1 DEF BeginErrs, BeginAborts, lceVars
  <2>3. CloudStep
    BY <2>2, CloudSame
  <2> QED BY <1>5, <1>7, <2>3, GotoStep DEF BeginErrs, BeginAborts, At, Steps, relayVars
<1>8. CASE BeginFailed(h)
  <2>0. PICK j \in Job : handler[h].j = j /\ Busy(h) /\ ~Publishing(j)
    BY <1>5, <1>8 DEF BeginFailed, At
  <2> DEFINE r == IF job[j].status = "running" THEN Ended(job[j], "failed") ELSE job[j]
  <2>r. job' = [job EXCEPT ![j] = r]
    BY <1>8, <2>0 DEF BeginFailed
  <2>1. job'[j] = r /\ \A i \in Job \ {j} : Stays(i)
    <3> HIDE DEF r
    <3> QED BY <1>0, <2>r, RowStep
  <2>2. Stays(j) \/ GivesUp(j)
    <3>1. CASE Running(j)
      <4>1. job'[j].status = "failed" /\ job'[j].rev = job[j].rev
        BY <1>0, <2>0, <2>1, <3>1, EndedRow, SMT DEF Running, TypeOK, Terminal
      <4> QED BY <2>0, <3>1, <4>1 DEF GivesUp, RevKnown
    <3>2. CASE ~Running(j)
      <4>1. job'[j] = job[j]
        BY <2>1, <3>2 DEF Running
      <4> QED BY <4>1 DEF Stays, RevKnown, Running, Publishing
    <3> QED BY <3>1, <3>2
  <2>3. JobSteps /\ Owned(h)
    BY <2>0, <2>1, <2>2, OneRow
  <2> QED BY <1>0, <1>8, <2>0, <2>3, CloudSame, Returns, LocalStep DEF BeginFailed, lceVars
<1> QED BY <1>1, <1>2, <1>3, <1>4, <1>6, <1>7, <1>8 DEF Start

\* The steps of an upload keep the invariant.
LEMMA UploadSteps ==
  ASSUME ~CleanupOutlivesLease, IInv, TypeOK', NEW h \in Handler, Upload(h)
  PROVE  JobSteps /\ Inv'
<1>0. TypeOK /\ FrameOK /\ handler[h] \in Frames /\ FrameGood(h)
  BY DEF IInv, Inv, HandlersOK, FrameGood, TypeOK
<1>1. ASSUME NEW j \in Job, UploadAcquire(h, j) PROVE JobSteps /\ Inv'
  BY <1>1, AcquireStep DEF UploadAcquire, Ops, Steps
<1>2. ASSUME handler[h].op = "upload" PROVE Busy(h) /\ handler[h].j \in Job
  BY <1>0, <1>2, FrameJob DEF Busy
<1>3. CASE UploadPrepare(h)
  <2>1. /\ handler[h].op = "upload" /\ job' = job /\ lce' = lce /\ late' = late
        /\ handler[h].pc = "prepare"
    BY <1>3 DEF UploadPrepare, At, relayVars, lceVars
  <2>2. CASE Return(h)
    BY <1>2, <2>1, <2>2, ReturnStep
  <2>3. ASSUME NEW b, NEW g,
               handler' = [handler EXCEPT ![h] = [@ EXCEPT !.pc = "mark", !.batch = b, !.gone = g]]
        PROVE  JobSteps /\ Inv'
    <3>1. /\ handler'[h] = [handler[h] EXCEPT !.pc = "mark", !.batch = b, !.gone = g]
          /\ \A k \in Handler \ {h} : handler'[k] = handler[k]
      BY <1>0, <2>3 DEF TypeOK
    <3>2. /\ Moved(h) /\ handler'[h].op = "upload" /\ handler'[h].pc = "mark"
          /\ handler'[h].j = handler[h].j
          /\ handler'[h].pre = handler[h].pre /\ handler'[h].rev = handler[h].rev
      BY <1>0, <2>1, <3>1 DEF Moved, Frames
    <3>3. FrameGood(h)'
      BY <1>0, <2>1, <3>2 DEF FrameGood, FramePhase, FrameCloud, Unpublished, HandedOver
    <3> QED BY <1>2, <2>1, <3>2, <3>3, SameJobs, AllStay, CloudSame, LocalStep
  <2> QED BY <1>3, <2>2, <2>3 DEF UploadPrepare
<1>4. ASSUME NEW j \in Job, NEW r \in Rows, handler[h].j = j, handler[h].op = "upload",
             job' = [job EXCEPT ![j] = r], lce' = lce, late' = late,
             r.status = job[j].status, r.phase # "publishing", ~Publishing(j), r.rev = job[j].rev,
             Return(h) \/ Goto(h, "stage")
      PROVE  JobSteps /\ Inv'
  <2>1. job'[j] = r /\ \A i \in Job \ {j} : Stays(i)
    BY <1>0, <1>4, RowStep
  <2>2. Stays(j)
    BY <1>4, <2>1 DEF Stays, RevKnown, Publishing
  <2>3. JobSteps /\ Owned(h) /\ CloudStep
    BY <1>4, <2>1, <2>2, OneRow, CloudSame
  <2>4. CASE Return(h)
    BY <1>0, <1>2, <1>4, <2>3, <2>4, Returns, LocalStep
  <2>5. CASE Goto(h, "stage")
    <3>1. /\ Moved(h)
          /\ handler'[h].op = "upload" /\ handler'[h].j = j /\ handler'[h].pc = "stage"
          /\ handler'[h].pre = handler[h].pre /\ handler'[h].rev = handler[h].rev
      BY <1>0, <1>4, <2>5, Goes DEF Steps
    <3>2. FrameGood(h)'
      BY <1>0, <1>4, <2>1, <3>1 DEF FrameGood, FramePhase, FrameCloud, Unpublished, HandedOver, Publishing
    <3> QED BY <1>2, <1>4, <2>3, <3>1, <3>2, LocalStep
  <2> QED BY <1>4, <2>4, <2>5
<1>5. CASE UploadMark(h)
  <2>0. PICK j \in Job : handler[h].j = j /\ handler[h].op = "upload" /\ Busy(h)
    BY <1>2, <1>5 DEF UploadMark, At
  <2>1. CASE Running(j) /\ ~Publishing(j)
    <3> DEFINE r == [job[j] EXCEPT !.phase = "uploading", !.stale = FALSE]
    <3>1. job[j] \in Rows
      BY <1>0 DEF TypeOK
    <3>2. r \in Rows /\ r.status = job[j].status /\ r.phase = "uploading" /\ r.rev = job[j].rev
      <4>1. r \in Rows
        BY <3>1, RowUpdates
      <4> QED BY <3>1, <4>1 DEF Rows
    <3>3. job' = [job EXCEPT ![j] = r] /\ Goto(h, "stage") /\ lce' = lce /\ late' = late
      BY <1>5, <2>0, <2>1 DEF UploadMark, lceVars
    <3> HIDE DEF r
    <3> QED BY <1>4, <2>0, <2>1, <3>2, <3>3
  <2>2. CASE ~(Running(j) /\ ~Publishing(j))
    <3>1. Return(h) /\ job' = job /\ lce' = lce /\ late' = late
      BY <1>5, <2>0, <2>2 DEF UploadMark, lceVars
    <3> QED BY <2>0, <3>1, ReturnStep
  <2> QED BY <2>1, <2>2
<1>6. CASE UploadRefused(h)
  BY <1>2, <1>6, ReturnStep DEF UploadRefused, At, relayVars, lceVars
<1>7. CASE StageReaches(h)
  <2>0. PICK j \in Job : handler[h].j = j /\ handler[h].op = "upload" /\ handler[h].pc = "stage" /\ Busy(h)
    BY <1>2, <1>7 DEF StageReaches, At
  <2>1. StageRequest(h) \in Requests /\ StageRequest(h).op = "stage"
    BY <1>0, <2>0, StageType DEF At, StageRequest
  <2>2. CloudStep /\ job' = job
    BY <1>0, <1>7, <2>1, ExecuteStep DEF StageReaches, relayVars
  <2>3. ~Publishing(j)
    BY <1>0, <2>0 DEF FrameGood, FramePhase, Unpublished
  <2>4. CASE Return(h)
    BY <1>0, <2>0, <2>2, <2>4, SameJobs, AllStay, Returns, LocalStep
  <2>5. CASE Goto(h, "staged")
    BY <2>0, <2>2, <2>3, <2>5, GotoStep DEF Steps
  <2> QED BY <1>7, <2>4, <2>5 DEF StageReaches
<1>8. CASE UploadCommit(h)
  <2>0. PICK j \in Job : handler[h].j = j /\ handler[h].op = "upload" /\ handler[h].pc = "staged" /\ Busy(h)
    BY <1>2, <1>8 DEF UploadCommit, At
  <2>1. ~Publishing(j)
    BY <1>0, <2>0 DEF FrameGood, FramePhase, Unpublished
  <2> DEFINE r == Committed(job[j], handler[h].batch, handler[h].gone)
  <2>2. lce' = lce /\ late' = late /\ Return(h) /\ (job' = job \/ job' = [job EXCEPT ![j] = r])
    BY <1>8, <2>0 DEF UploadCommit, lceVars
  <2>3. r \in Rows
    BY <1>0, CommittedRow DEF TypeOK, Frames
  <2>4. r.status = job[j].status /\ r.phase = "indexing" /\ r.rev = job[j].rev
    <3>1. job[j] \in Rows
      BY <1>0 DEF TypeOK
    <3> QED BY <3>1 DEF Committed, Rows
  <2> HIDE DEF r
  <2> QED BY <1>4, <2>0, <2>1, <2>2, <2>3, <2>4, ReturnStep
<1> QED BY <1>1, <1>3, <1>5, <1>6, <1>7, <1>8 DEF Upload

\* The steps of a failure report keep the invariant.
LEMMA FailSteps ==
  ASSUME ~CleanupOutlivesLease, IInv, TypeOK', NEW h \in Handler, Fail(h)
  PROVE  JobSteps /\ Inv'
<1>0. TypeOK /\ FrameOK /\ handler[h] \in Frames /\ FrameGood(h)
  BY DEF IInv, Inv, HandlersOK, FrameGood, TypeOK
<1>1. ASSUME NEW j \in Job, FailAcquire(h, j) PROVE JobSteps /\ Inv'
  BY <1>1, AcquireStep DEF FailAcquire, Ops, Steps
<1>2. CASE FailCheck(h)
  <2>1. handler[h].op = "fail" /\ Busy(h) /\ job' = job /\ lce' = lce /\ late' = late
    BY <1>2 DEF FailCheck, At, Busy, relayVars, lceVars
  <2>2. CASE Return(h)
    BY <2>1, <2>2, ReturnStep
  <2>3. CASE Goto(h, "mark") /\ job[handler[h].j].phase # "publishing"
    <3>1. ~Publishing(handler[h].j)
      BY <2>3 DEF Publishing
    <3> QED BY <2>1, <2>3, <3>1, CloudSame, GotoStep DEF Steps
  <2> QED BY <1>2, <2>2, <2>3 DEF FailCheck
<1>3. CASE FailMark(h)
  <2>0. PICK j \in Job : handler[h].j = j /\ handler[h].op = "fail" /\ handler[h].pc = "mark" /\ Busy(h)
    BY <1>0, <1>3, FrameJob DEF FailMark, At, Busy
  <2>1. ~Publishing(j) /\ Return(h) /\ lce' = lce
    BY <1>0, <1>3, <2>0 DEF FrameGood, FramePhase, Unpublished, FailMark, lceVars
  <2>2. CASE Running(j)
    <3>1. job' = [job EXCEPT ![j] = Ended(job[j], "failed")] /\ late' = late \cup {Request("abort", j)}
      BY <1>3, <2>0, <2>2 DEF FailMark
    <3>2. job'[j] = Ended(job[j], "failed") /\ \A i \in Job \ {j} : Stays(i)
      BY <1>0, <3>1, RowStep
    <3>3. job'[j].status = "failed" /\ job'[j].rev = job[j].rev
      BY <1>0, <3>2, EndedRow, SMT DEF TypeOK, Terminal
    <3>4. JobSteps /\ Owned(h)
      BY <2>1, <2>2, <3>2, <3>3, OneRow DEF GivesUp, RevKnown
    <3>5. CloudStep
      BY <2>1, <3>1, CloudSame, SMT DEF Request
    <3> QED BY <1>0, <2>0, <2>1, <3>4, <3>5, Returns, LocalStep
  <2>3. CASE ~Running(j)
    BY <1>3, <2>0, <2>1, <2>3, ReturnStep DEF FailMark
  <2> QED BY <2>2, <2>3
<1> QED BY <1>1, <1>2, <1>3 DEF Fail

\* The steps of a completion keep the invariant.
LEMMA CompleteSteps ==
  ASSUME ~CleanupOutlivesLease, IInv, TypeOK', NEW h \in Handler, Complete(h)
  PROVE  JobSteps /\ Inv'
<1>0. /\ TypeOK /\ FrameOK /\ handler[h] \in Frames /\ FrameGood(h)
      /\ handler[h].pre \in Nat /\ handler[h].rev \in Nat
  BY DEF IInv, Inv, HandlersOK, FrameGood, TypeOK, Frames
<1>1. ASSUME NEW j \in Job, CompleteAcquire(h, j) PROVE JobSteps /\ Inv'
  BY <1>1, AcquireStep DEF CompleteAcquire, Ops, Steps
<1>2. ASSUME NEW pc, Completing(h, pc)
      PROVE  /\ handler[h].op \in {"complete", "reconcile"} /\ handler[h].pc = pc
             /\ Busy(h) /\ handler[h].j \in Job
  BY <1>0, <1>2, FrameJob DEF Completing, At, Busy
<1>3. ASSUME NEW pc \in {"publish", "published", "record", "finish", "failed"}, Completing(h, pc)
      PROVE  Publishing(handler[h].j)
  BY <1>0, <1>2, <1>3 DEF FrameGood, FramePhase, HandedOver
<1>4. CASE CompleteCheck(h)
  <2>0. PICK j \in Job : /\ handler[h].j = j /\ Busy(h) /\ handler[h].pc = "check"
                         /\ handler[h].op \in {"complete", "reconcile"}
    BY <1>2, <1>4 DEF CompleteCheck
  <2>1. job' = job /\ lce' = lce /\ late' = late
    BY <1>4 DEF CompleteCheck, relayVars, lceVars
  <2>2. CASE Return(h)
    BY <2>0, <2>1, <2>2, ReturnStep
  <2>3. CASE handler' = [handler EXCEPT ![h] = [@ EXCEPT !.pc = "handoff", !.pre = job[j].rev]]
    <3>1. job[j].rev \in Nat /\ (job[j].rev > 0 => lce[j].state = "published")
      BY <1>0 DEF TypeOK, Rows, IInv, Inv, CloudOK
    <3>2. /\ Moved(h)
          /\ handler'[h].op = handler[h].op /\ handler'[h].j = j /\ handler'[h].pc = "handoff"
          /\ handler'[h].pre = job[j].rev /\ handler'[h].rev = handler[h].rev
      <4>1. PICK v \in Nat : v = job[j].rev
        BY <3>1
      <4>2. handler' = [handler EXCEPT ![h] = [@ EXCEPT !.pc = "handoff", !.pre = v]]
        BY <2>3, <4>1
      <4>3. "handoff" \in Steps
        BY DEF Steps
      <4>4. /\ Moved(h)
            /\ handler'[h].op = handler[h].op /\ handler'[h].j = handler[h].j
            /\ handler'[h].pc = "handoff"
            /\ handler'[h].pre = v /\ handler'[h].rev = handler[h].rev
        BY <1>0, <4>2, <4>3, NotesRecorded
      <4> QED BY <2>0, <4>1, <4>4
    <3>3. FramePhase(handler[h])'
      BY <1>0, <2>0, <2>1, <3>2 DEF FrameGood, FramePhase, Unpublished, HandedOver, Publishing, Running
    <3>4. FrameCloud(handler[h])'
      BY <1>0, <2>0, <2>1, <3>1, <3>2 DEF FrameGood, FrameCloud
    <3> QED BY <2>0, <2>1, <3>2, <3>3, <3>4, SameJobs, AllStay, CloudSame, LocalStep DEF FrameGood
  <2> QED BY <1>4, <2>0, <2>2, <2>3 DEF CompleteCheck
<1>5. CASE CompleteHandoff(h)
  <2>0. PICK j \in Job : /\ handler[h].j = j /\ Busy(h) /\ handler[h].pc = "handoff"
                         /\ handler[h].op \in {"complete", "reconcile"}
    BY <1>2, <1>5 DEF CompleteHandoff
  <2>1. lce' = lce /\ late' = late
    BY <1>5 DEF CompleteHandoff, lceVars
  <2>2. CASE ~Running(j)
    BY <1>5, <2>0, <2>1, <2>2, ReturnStep DEF CompleteHandoff
  <2>3. CASE Running(j)
    <3> DEFINE r == [job[j] EXCEPT !.phase = "publishing", !.stale = FALSE]
    <3>1. job' = [job EXCEPT ![j] = r]
      BY <1>5, <2>0, <2>3 DEF CompleteHandoff
    <3>2. job[j] \in Rows
      BY <1>0 DEF TypeOK
    <3>3. r.status = "running" /\ r.phase = "publishing" /\ r.rev = job[j].rev
      BY <2>3, <3>2 DEF Rows, Running
    <3> HIDE DEF r
    <3>4. job'[j] = r /\ \A i \in Job \ {j} : Stays(i)
      BY <1>0, <3>1, RowStep
    <3>5. Publishing(j)' /\ (Stays(j) \/ HandsOver(j))
      BY <2>3, <3>3, <3>4 DEF Stays, HandsOver, RevKnown, Publishing, Running
    <3>6. JobSteps /\ Owned(h) /\ CloudStep
      BY <2>0, <2>1, <3>4, <3>5, OneRow, CloudSame
    <3>7. \/ Return(h)
          \/ Goto(h, "finish") /\ handler[h].rev > 0
          \/ Goto(h, "publish")
          \/ /\ handler' = [handler EXCEPT ![h] = [@ EXCEPT !.pc = "finish", !.rev = handler[h].pre]]
             /\ handler[h].pre > 0
      <4>1. CASE handler[h].rev > 0
        BY <1>0, <1>5, <2>0, <2>3, <4>1 DEF CompleteHandoff
      <4>2. CASE handler[h].rev = 0 /\ handler[h].pre > 0
        BY <1>0, <1>5, <2>0, <2>3, <4>2 DEF CompleteHandoff
      <4>3. CASE handler[h].rev = 0 /\ handler[h].pre = 0
        BY <1>0, <1>5, <2>0, <2>3, <4>3 DEF CompleteHandoff
      <4> QED BY <1>0, <4>1, <4>2, <4>3, SMT
    <3>8. CASE Return(h)
      BY <1>0, <2>0, <3>6, <3>8, Returns, LocalStep
    <3>9. ASSUME Moved(h), handler'[h].op = handler[h].op, handler'[h].j = j,
                 \/ handler'[h].pc = "publish"
                 \/ handler'[h].pc = "finish" /\ (handler[h].pre > 0 \/ handler[h].rev > 0),
                 handler'[h].pre = handler[h].pre,
                 handler'[h].rev \in {handler[h].rev, handler[h].pre}
          PROVE  Inv'
      <4>1. FramePhase(handler[h])'
        BY <2>0, <3>5, <3>9 DEF FramePhase, Unpublished
      <4>2. FrameCloud(handler[h])'
        BY <1>0, <2>0, <2>1, <3>9 DEF FrameGood, FrameCloud
      <4> QED BY <2>0, <3>6, <3>9, <4>1, <4>2, LocalStep DEF FrameGood
    <3>10. CASE Goto(h, "publish") \/ (Goto(h, "finish") /\ handler[h].rev > 0)
      BY <1>0, <2>0, <3>6, <3>9, <3>10, Goes DEF Steps
    <3>11. CASE /\ handler' = [handler EXCEPT ![h] = [@ EXCEPT !.pc = "finish", !.rev = handler[h].pre]]
                /\ handler[h].pre > 0
      <4>1. PICK v \in Nat : v = handler[h].pre
        BY <1>0
      <4>2. handler' = [handler EXCEPT ![h] = [@ EXCEPT !.pc = "finish", !.rev = v]]
        BY <3>11, <4>1
      <4>3. "finish" \in Steps
        BY DEF Steps
      <4>4. /\ Moved(h)
            /\ handler'[h].op = handler[h].op /\ handler'[h].j = handler[h].j
            /\ handler'[h].pc = "finish"
            /\ handler'[h].pre = handler[h].pre /\ handler'[h].rev = v
        <5>1. /\ handler'[h] = [handler[h] EXCEPT !.pc = "finish", !.rev = v]
              /\ \A k \in Handler \ {h} : handler'[k] = handler[k]
          BY <1>0, <4>2 DEF TypeOK
        <5> QED BY <1>0, <4>3, <5>1 DEF Moved, Frames
      <4> QED BY <2>0, <3>6, <3>9, <3>11, <4>1, <4>4
    <3> QED BY <3>6, <3>7, <3>8, <3>10, <3>11
  <2> QED BY <2>2, <2>3
<1>6. CASE PublishReaches(h)
  <2>0. PICK j \in Job : /\ handler[h].j = j /\ Busy(h) /\ handler[h].pc = "publish"
                         /\ handler[h].op \in {"complete", "reconcile"} /\ Publishing(j)
    BY <1>2, <1>3, <1>6 DEF PublishReaches
  <2>1. Request("publish", j) \in Requests /\ Request("publish", j).j = j
    BY RowTypes DEF Request
  <2>2. CloudStep /\ job' = job /\ Goto(h, "published")
    BY <1>0, <1>6, <2>0, <2>1, ExecuteStep DEF PublishReaches, relayVars
  <2> QED BY <2>0, <2>2, GotoStep DEF Steps
<1>7. CASE PublishReplies(h)
  <2>0. PICK j \in Job : /\ handler[h].j = j /\ Busy(h) /\ handler[h].pc = "published"
                         /\ handler[h].op \in {"complete", "reconcile"} /\ Publishing(j)
    BY <1>2, <1>3, <1>7 DEF PublishReplies
  <2>1. job' = job /\ lce' = lce /\ late' = late
    BY <1>7 DEF PublishReplies, relayVars, lceVars
  <2>2. CASE lce[j].state \in {"failed", "aborted"}
    <3>1. Goto(h, "failed")
      BY <1>7, <2>0, <2>2 DEF PublishReplies
    <3> QED BY <2>0, <2>1, <2>2, <3>1, CloudSame, GotoStep DEF Steps
  <2>3. CASE lce[j].state = "published"
    <3>1. handler' = [handler EXCEPT ![h] = [@ EXCEPT !.pc = "record", !.rev = lce[j].rev]]
      BY <1>7, <2>0, <2>3 DEF PublishReplies
    <3>2. lce[j].rev \in Nat
      BY <1>0 DEF TypeOK, Records
    <3>3. /\ Moved(h)
          /\ handler'[h].op = handler[h].op /\ handler'[h].j = j /\ handler'[h].pc = "record"
      BY <1>0, <2>0, <3>1, <3>2, NotesKnown DEF Steps
    <3>4. FrameGood(h)'
      BY <2>0, <2>1, <2>3, <3>3 DEF FrameGood, FramePhase, FrameCloud, Unpublished, HandedOver, Publishing, Running
    <3> QED BY <2>0, <2>1, <3>3, <3>4, SameJobs, AllStay, CloudSame, LocalStep
  <2>4. CASE lce[j].state \notin {"failed", "aborted", "published"}
    <3>1. Return(h)
      BY <1>7, <2>0, <2>4 DEF PublishReplies
    <3> QED BY <2>0, <2>1, <3>1, ReturnStep
  <2> QED BY <2>2, <2>3, <2>4
<1>8. CASE CompleteRecord(h)
  <2>0. PICK j \in Job : /\ handler[h].j = j /\ Busy(h) /\ handler[h].pc = "record"
                         /\ handler[h].op \in {"complete", "reconcile"} /\ Publishing(j)
    BY <1>2, <1>3, <1>8 DEF CompleteRecord
  <2>1. lce' = lce /\ late' = late /\ Goto(h, "finish")
    BY <1>8 DEF CompleteRecord, lceVars
  <2>2. lce[j].state = "published"
    BY <1>0, <2>0 DEF FrameGood, FrameCloud
  <2>3. CASE job' = job
    BY <2>0, <2>1, <2>2, <2>3, CloudSame, GotoStep DEF Steps
  <2>4. CASE job' = [job EXCEPT ![j] = [job[j] EXCEPT !.rev = handler[h].rev]]
    <3> DEFINE r == [job[j] EXCEPT !.rev = handler[h].rev]
    <3>1. job[j] \in Rows
      BY <1>0 DEF TypeOK
    <3>2. r.status = job[j].status /\ r.phase = job[j].phase
      BY <3>1 DEF Rows
    <3>3. job' = [job EXCEPT ![j] = r]
      BY <2>4
    <3> HIDE DEF r
    <3>4. job'[j] = r /\ \A i \in Job \ {j} : Stays(i)
      BY <1>0, <3>3, RowStep
    <3>5. Stays(j) /\ Publishing(j)'
      BY <2>0, <2>2, <3>2, <3>4 DEF Stays, RevKnown, Publishing, Running
    <3>6. JobSteps /\ Owned(h) /\ CloudStep
      BY <2>1, <3>4, <3>5, OneRow, CloudSame
    <3>7. /\ Moved(h)
          /\ handler'[h].op = handler[h].op /\ handler'[h].j = j /\ handler'[h].pc = "finish"
      BY <1>0, <2>0, <2>1, Goes DEF Steps
    <3>8. FramePhase(handler[h])'
      BY <2>0, <3>5, <3>7 DEF FramePhase, Unpublished
    <3>9. FrameCloud(handler[h])'
      BY <2>1, <2>2, <3>7 DEF FrameCloud
    <3> QED BY <2>0, <3>6, <3>7, <3>8, <3>9, LocalStep DEF FrameGood
  <2> QED BY <1>8, <2>0, <2>3, <2>4 DEF CompleteRecord, Publishing, Running
<1>9. CASE CompleteFinish(h)
  <2>0. PICK j \in Job : /\ handler[h].j = j /\ Busy(h) /\ handler[h].pc = "finish"
                         /\ handler[h].op \in {"complete", "reconcile"} /\ Publishing(j)
    BY <1>2, <1>3, <1>9 DEF CompleteFinish
  <2>1. lce' = lce /\ late' = late /\ Return(h)
    BY <1>9 DEF CompleteFinish, lceVars
  <2>2. lce[j].state = "published"
    BY <1>0, <2>0 DEF FrameGood, FrameCloud
  <2>3. CASE job' = job
    BY <2>0, <2>1, <2>3, ReturnStep
  <2>4. CASE job' = [job EXCEPT ![j] = [Ended(job[j], "completed") EXCEPT !.rev = handler[h].rev]]
    <3> DEFINE r == [Ended(job[j], "completed") EXCEPT !.rev = handler[h].rev]
    <3>1. Ended(job[j], "completed") \in Rows /\ Ended(job[j], "completed").status = "completed"
      BY <1>0, RowTypes, EndedRow DEF TypeOK, Terminal
    <3>2. r.status = "completed"
      BY <3>1 DEF Rows
    <3>3. job' = [job EXCEPT ![j] = r]
      BY <2>4
    <3> HIDE DEF r
    <3>4. job'[j] = r /\ \A i \in Job \ {j} : Stays(i)
      BY <1>0, <3>3, RowStep
    <3>5. Settles(j)
      BY <2>0, <2>2, <3>2, <3>4 DEF Settles, RevKnown
    <3>6. JobSteps /\ Owned(h) /\ CloudStep
      BY <2>0, <2>1, <3>4, <3>5, OneRow, CloudSame
    <3> QED BY <1>0, <2>0, <2>1, <3>6, Returns, LocalStep
  <2> QED BY <1>9, <2>0, <2>3, <2>4 DEF CompleteFinish, relayVars
<1>10. CASE FinishFailed(h)
  <2>0. PICK j \in Job : /\ handler[h].j = j /\ Busy(h) /\ handler[h].pc = "failed"
                         /\ handler[h].op \in {"complete", "reconcile"} /\ Publishing(j)
    BY <1>2, <1>3, <1>10 DEF FinishFailed
  <2>1. lce' = lce /\ late' = late /\ Return(h)
    BY <1>10 DEF FinishFailed, lceVars
  <2>2. lce[j].state \in {"failed", "aborted"}
    BY <1>0, <2>0 DEF FrameGood, FrameCloud
  <2>3. job' = [job EXCEPT ![j] = Ended(job[j], "failed")]
    BY <1>10, <2>0 DEF FinishFailed, Publishing, Running
  <2>4. job'[j] = Ended(job[j], "failed") /\ \A i \in Job \ {j} : Stays(i)
    BY <1>0, <2>3, RowStep
  <2>5. job'[j].status = "failed" /\ job'[j].rev = job[j].rev
    BY <1>0, <2>4, EndedRow, SMT DEF TypeOK, Terminal
  <2>6. Settles(j)
    BY <2>0, <2>2, <2>5 DEF Settles, RevKnown
  <2>7. JobSteps /\ Owned(h) /\ CloudStep
    BY <2>0, <2>1, <2>4, <2>6, OneRow, CloudSame
  <2> QED BY <1>0, <2>0, <2>1, <2>7, Returns, LocalStep
<1> QED BY <1>1, <1>4, <1>5, <1>6, <1>7, <1>8, <1>9, <1>10 DEF Complete

\* The steps of the sweeper's reconciliation keep the invariant.
LEMMA ReconcileSteps ==
  ASSUME ~CleanupOutlivesLease, IInv, TypeOK', NEW h \in Handler, Reconcile(h)
  PROVE  JobSteps /\ Inv'
<1>0. TypeOK /\ FrameOK /\ handler[h] \in Frames /\ FrameGood(h)
  BY DEF IInv, Inv, HandlersOK, FrameGood, TypeOK
<1>1. ASSUME NEW j \in Job, ReconcileAcquire(h, j) PROVE JobSteps /\ Inv'
  BY <1>1, AcquireStep DEF ReconcileAcquire, Ops, Steps
<1>2. ASSUME handler[h].op = "reconcile"
      PROVE  /\ Busy(h) /\ handler[h].j \in Job
             /\ handler[h].pc # "revalidate" => Publishing(handler[h].j)
  BY <1>0, <1>2, FrameJob DEF Busy, FrameGood, FramePhase, HandedOver
<1>3. CASE ReconcileRevalidate(h)
  <2>1. handler[h].op = "reconcile" /\ job' = job /\ lce' = lce /\ late' = late
    BY <1>3 DEF ReconcileRevalidate, At, relayVars, lceVars
  <2>2. CASE Return(h)
    BY <1>2, <2>1, <2>2, ReturnStep
  <2>3. CASE Goto(h, "status") /\ Publishing(handler[h].j)
    BY <1>2, <2>1, <2>3, CloudSame, GotoStep DEF Steps
  <2> QED BY <1>3, <2>2, <2>3 DEF ReconcileRevalidate
<1>4. ASSUME handler[h].op = "reconcile", handler[h].pc = "status", job' = job, lce' = lce,
             late' = late, Return(h) \/ Goto(h, "abort") \/ Goto(h, "check")
      PROVE  JobSteps /\ Inv'
  BY <1>2, <1>4, CloudSame, ReturnStep, GotoStep DEF Steps
<1>5. CASE ReconcileStatus(h)
  <2>0. PICK j \in Job : /\ handler[h].j = j /\ Busy(h) /\ handler[h].pc = "status"
                         /\ handler[h].op = "reconcile" /\ Publishing(j)
    BY <1>2, <1>5 DEF ReconcileStatus, At
  <2>1. job' = job /\ lce' = lce /\ late' = late
    BY <1>5 DEF ReconcileStatus, relayVars, lceVars
  <2>2. CASE lce[j].state \in {"failed", "aborted"}
    <3>1. Goto(h, "failed")
      BY <1>5, <2>0, <2>2 DEF ReconcileStatus
    <3> QED BY <2>0, <2>1, <2>2, <3>1, CloudSame, GotoStep DEF Steps
  <2>3. CASE lce[j].state = "published"
    <3>1. handler' = [handler EXCEPT ![h] = [@ EXCEPT !.pc = "check", !.rev = lce[j].rev]]
      BY <1>5, <2>0, <2>3 DEF ReconcileStatus
    <3>2. lce[j].rev \in Nat
      BY <1>0 DEF TypeOK, Records
    <3>3. /\ Moved(h)
          /\ handler'[h].op = handler[h].op /\ handler'[h].j = j /\ handler'[h].pc = "check"
      BY <1>0, <2>0, <3>1, <3>2, NotesKnown DEF Steps
    <3>4. FrameGood(h)'
      BY <2>0, <2>1, <2>3, <3>3 DEF FrameGood, FramePhase, FrameCloud, Unpublished, HandedOver, Publishing, Running
    <3> QED BY <2>0, <2>1, <3>3, <3>4, SameJobs, AllStay, CloudSame, LocalStep
  <2>4. CASE lce[j].state \notin {"failed", "aborted", "published"}
    <3>1. Return(h) \/ Goto(h, "abort") \/ Goto(h, "check")
      <4>1. CASE job[j].overdue
        BY <1>5, <2>0, <2>4, <4>1 DEF ReconcileStatus
      <4>2. CASE ~job[j].overdue /\ lce[j].state = "staging"
        BY <1>5, <2>0, <2>4, <4>2 DEF ReconcileStatus
      <4>3. CASE ~job[j].overdue /\ lce[j].state # "staging"
        BY <1>5, <2>0, <2>4, <4>3 DEF ReconcileStatus
      <4> QED BY <4>1, <4>2, <4>3
    <3> QED BY <1>4, <2>0, <2>1, <3>1
  <2> QED BY <2>2, <2>3, <2>4
<1>6. CASE ReconcileStatusErrs(h)
  BY <1>4, <1>6 DEF ReconcileStatusErrs, At, relayVars, lceVars
<1>7. CASE ReconcileAbort(h)
  <2>0. PICK j \in Job : /\ handler[h].j = j /\ Busy(h) /\ handler[h].pc = "abort"
                         /\ handler[h].op = "reconcile" /\ Publishing(j)
    BY <1>2, <1>7 DEF ReconcileAbort, At
  <2>1. Request("abort", j) \in Requests /\ Request("abort", j).j = j /\ Request("abort", j).op = "abort"
    BY RowTypes DEF Request
  <2>2. CloudStep /\ job' = job /\ Execute(Request("abort", j))
    BY <1>0, <1>7, <2>0, <2>1, ExecuteStep DEF ReconcileAbort, relayVars
  <2>3. CASE Return(h)
    BY <1>0, <2>0, <2>2, <2>3, SameJobs, AllStay, Returns, LocalStep
  <2>4. CASE Goto(h, "failed") /\ lce[j].state \in {"staging", "queued", "aborted"}
    <3>1. lce'[j] = AfterAbort(lce[j])
      BY <1>0, <2>1, <2>2 DEF Execute, Effect, TypeOK
    <3>2. lce'[j].state = "aborted"
      BY <2>4, <3>1 DEF AfterAbort, Unknown
    <3> QED BY <2>0, <2>2, <2>4, <3>2, GotoStep DEF Steps
  <2> QED BY <1>7, <2>0, <2>3, <2>4 DEF ReconcileAbort
<1> QED BY <1>1, <1>3, <1>5, <1>6, <1>7 DEF Reconcile
-----------------------------------------------------------------------------
(* The other steps.                                                        *)

\* A handler that stops leaves at most its outstanding requests behind.
LEMMA StopStep ==
  ASSUME IInv, TypeOK', NEW h \in Handler, HandlerStops(h)
  PROVE  JobSteps /\ Inv'
<1>0. TypeOK /\ FrameOK /\ FrameGood(h)
  BY DEF IInv, Inv, HandlersOK, FrameGood
<1>1. Busy(h) /\ Return(h) /\ job' = job /\ lce' = lce
  BY <1>0 DEF HandlerStops, FrameOK, Shape, Busy, relayVars, lceVars
<1>2. ASSUME NEW req \in Outstanding(h), req.op = "publish" PROVE Publishing(req.j)
  <2>1. Completing(h, "publish") /\ req = Request("publish", handler[h].j)
    <3>1. /\ BeginRequest(handler[h].j).op # "publish"
          /\ StageRequest(h).op # "publish"
          /\ Request("abort", handler[h].j).op # "publish"
      BY DEF BeginRequest, StageRequest, Request
    <3> QED BY <1>2, <3>1 DEF Outstanding
  <2>2. Publishing(handler[h].j)
    BY <1>0, <2>1 DEF Completing, At, FrameGood, FramePhase, HandedOver
  <2> QED BY <2>1, <2>2 DEF Request
<1>3. CloudStep
  BY <1>1, <1>2, CloudSame DEF HandlerStops
<1> QED BY <1>0, <1>1, <1>3, SameJobs, AllStay, Returns, LocalStep

\* Heartbeats, the passing of time and the sweep.
LEMMA SweeperSteps ==
  ASSUME IInv, TypeOK', Sweep \/ Clock \/ \E j \in Job : HeartbeatJob(j)
  PROVE  JobSteps /\ Inv'
<1>0. TypeOK
  BY DEF IInv
<1>1. CASE Sweep
  <2>1. PICK expired \in SUBSET {j \in Job : Running(j) /\ ~Publishing(j) /\ job[j].stale} :
          /\ expired # {}
          /\ job' = [j \in Job |-> IF j \in expired THEN Ended(job[j], "timed_out")
                                   ELSE job[j]]
          /\ late' = late \cup {Request("abort", j) : j \in {i \in expired : job[i].rev = 0}}
    BY <1>1 DEF Sweep
  <2>2. handler' = handler /\ lce' = lce
    BY <1>1 DEF Sweep, lceVars
  <2>3. ASSUME NEW j \in Job PROVE Stays(j) \/ GivesUp(j)
    <3>1. CASE j \in expired
      <4>1. job'[j] = Ended(job[j], "timed_out") /\ Running(j) /\ ~Publishing(j)
        BY <2>1, <3>1
      <4>2. job'[j].status = "timed_out" /\ job'[j].rev = job[j].rev
        BY <1>0, <4>1, EndedRow, SMT DEF TypeOK, Terminal
      <4> QED BY <4>1, <4>2 DEF GivesUp, RevKnown
    <3>2. CASE j \notin expired
      <4>1. job'[j] = job[j]
        BY <2>1, <3>2
      <4> QED BY <4>1 DEF Stays, RevKnown, Running, Publishing
    <3> QED BY <3>1, <3>2
  <2>4. \A i \in Job : Stays(i) \/ GivesUp(i) => ~Begins(i) /\ ~HandsOver(i) /\ ~Settles(i)
    BY DEF Stays, GivesUp, Begins, HandsOver, Settles, Running, Publishing
  <2>5. JobSteps
    BY <2>3, <2>4 DEF JobSteps
  <2>6. CloudStep
    BY <2>1, <2>2, CloudSame, SMT DEF Request
  <2> QED BY <2>2, <2>3, <2>4, <2>5, <2>6, OuterStep
<1>2. ASSUME NEW j \in Job, NEW r, job' = [job EXCEPT ![j] = r], handler' = handler, lce' = lce,
             late' = late, r.status = job[j].status, r.phase = job[j].phase, r.rev = job[j].rev
      PROVE  JobSteps /\ Inv'
  <2>1. job'[j] = r /\ \A i \in Job \ {j} : Stays(i)
    BY <1>0, <1>2, RowStep
  <2>2. \A i \in Job : Stays(i)
    BY <1>2, <2>1 DEF Stays, RevKnown, Running, Publishing
  <2> QED BY <1>2, <2>2, AllStay, CloudSame, OuterStep
<1>3. ASSUME NEW j \in Job
      PROVE  /\ \A b \in BOOLEAN : LET r == [job[j] EXCEPT !.stale = b] IN
                  r.status = job[j].status /\ r.phase = job[j].phase /\ r.rev = job[j].rev
             /\ LET r == [job[j] EXCEPT !.overdue = TRUE] IN
                  r.status = job[j].status /\ r.phase = job[j].phase /\ r.rev = job[j].rev
  <2>1. job[j] \in Rows
    BY <1>0 DEF TypeOK
  <2> QED BY <2>1 DEF Rows
<1>4. ASSUME NEW j \in Job, HeartbeatJob(j) \/ HeartbeatAges(j) \/ PublicationAges(j)
      PROVE  JobSteps /\ Inv'
  <2>1. handler' = handler /\ lce' = lce /\ late' = late
    BY <1>4 DEF HeartbeatJob, HeartbeatAges, PublicationAges, lceVars
  <2>2. \/ \E b \in BOOLEAN : job' = [job EXCEPT ![j] = [job[j] EXCEPT !.stale = b]]
        \/ job' = [job EXCEPT ![j] = [job[j] EXCEPT !.overdue = TRUE]]
    BY <1>4 DEF HeartbeatJob, HeartbeatAges, PublicationAges
  <2> QED BY <1>2, <1>3, <2>1, <2>2
<1> QED BY <1>1, <1>4 DEF Clock

\* What LCE does by itself keeps the invariant.
LEMMA CloudSteps ==
  ASSUME IInv, TypeOK', Cloud
  PROVE  JobSteps /\ Inv'
<1>0. TypeOK /\ handler' = handler /\ job' = job
  BY DEF IInv, Cloud, LateArrival, CloudPublishes, CloudFails, relayVars
<1>1. CASE LateArrival
  <2>1. PICK req \in late : Execute(req) /\ late' = late \ {req}
    BY <1>1 DEF LateArrival
  <2>2. req \in Requests /\ (req.op = "publish" => Publishing(req.j) \/ lce[req.j].state \in Decided)
    BY <1>0 DEF TypeOK, IInv, Inv, CloudOK
  <2>3. CloudStep
    BY <1>0, <2>1, <2>2, ExecuteStep
  <2> QED BY <1>0, <2>3, SameJobs, AllStay, OuterStep
<1>2. ASSUME NEW j \in Job, CloudPublishes(j) \/ CloudFails(j) PROVE JobSteps /\ Inv'
  <2>1. /\ lce[j].state \in {"staging", "queued"} /\ late' = late
        /\ \A i \in Job \ {j} : lce'[i] = lce[i]
    BY <1>0, <1>2 DEF CloudPublishes, CloudFails, TypeOK
  <2>2. \/ lce'[j].state = "failed"
        \/ lce'[j].state = "published" /\ lce[j].state = "queued"
    BY <1>0, <1>2 DEF CloudPublishes, CloudFails, TypeOK, Unknown
  <2>3. lce[j].state = "queued" => Publishing(j)
    BY DEF IInv, Inv, CloudOK
  <2>4. CloudStep
    BY <2>1, <2>2, <2>3 DEF CloudStep, Decided
  <2> QED BY <1>0, <2>4, SameJobs, AllStay, OuterStep
<1> QED BY <1>1, <1>2 DEF Cloud

\* Every step keeps the invariant and changes the jobs as JobSteps allows.
LEMMA Inductive ==
  ASSUME ~CleanupOutlivesLease, IInv, [Next]_vars
  PROVE  IInv' /\ JobSteps
<1>1. TypeOK' /\ FrameOK'
  BY TypeStep, FrameStep DEF IInv
<1>2. CASE UNCHANGED vars
  <2>1. job' = job /\ lce' = lce /\ late' = late /\ handler' = handler
    BY <1>2 DEF vars
  <2>2. JobSteps /\ Inv'
    BY <1>1, <2>1, SameJobs, AllStay, CloudSame, OuterStep
  <2> QED BY <1>1, <2>2 DEF IInv
<1>3. CASE Next
  <2>1. JobSteps /\ Inv'
    BY <1>1, <1>3, StartSteps, UploadSteps, CompleteSteps, FailSteps, ReconcileSteps, StopStep,
       SweeperSteps, CloudSteps DEF Next
  <2> QED BY <1>1, <2>1 DEF IInv
<1> QED BY <1>2, <1>3

\* The invariant holds initially.
LEMMA Initial == Init => IInv
<1> SUFFICES ASSUME Init PROVE IInv
  OBVIOUS
<1>1. TypeOK /\ FrameOK
  BY InitTypes
<1>2. \A j \in Job : job[j].status = "none" /\ job[j].rev = 0 /\ lce[j].state = "unknown"
  BY DEF Init, NoRow, Unknown
<1>3. \A h \in Handler : handler[h].op = "none" /\ handler[h].pre = 0 /\ handler[h].rev = 0
  BY DEF Init, Idle
<1>4. LeaseExclusive
  BY <1>3 DEF LeaseExclusive, Busy
<1>5. HandlersOK
  BY <1>3, SMT DEF HandlersOK, FramePhase, FrameCloud, Unpublished, HandedOver
<1>6. OneRunning /\ CloudOK /\ PublishedNeverLost
  BY <1>2, SMT DEF Init, OneRunning, CloudOK, PublishedNeverLost, Running, Publishing
<1> QED BY <1>1, <1>4, <1>5, <1>6 DEF IInv, Inv

\* At most one job of a workspace runs, for any number of jobs, handlers and
\* faults: createIndexJob inspects and inserts under an exclusive lease.
THEOREM OnlyOneRuns ==
  ASSUME ~CleanupOutlivesLease
  PROVE  Spec => []OneRunning
<1>1. IInv /\ [Next]_vars => IInv'
  BY Inductive
<1>2. IInv => OneRunning
  BY DEF IInv, Inv
<1> QED BY <1>1, <1>2, Initial, PTL DEF Spec

\* A revision the cloud published belongs to a job that is completed or still
\* publishing: completeIndexJob commits its intent before it calls LCE.
THEOREM NoPublicationLost ==
  ASSUME ~CleanupOutlivesLease
  PROVE  Spec => []PublishedNeverLost
<1>1. IInv /\ [Next]_vars => IInv'
  BY Inductive
<1>2. IInv => PublishedNeverLost
  BY DEF IInv, Inv
<1> QED BY <1>1, <1>2, Initial, PTL DEF Spec

\* What was handed over to the cloud ends only by its verdict: no sweep, client
\* failure or failed start ends a publication.
THEOREM CloudEndsPublications ==
  ASSUME ~CleanupOutlivesLease
  PROVE  Spec => PublicationEndsByCloud
<1> DEFINE Verdict == \A j \in Job : Publishing(j) =>
              \/ job'[j].status = "running" /\ job'[j].phase = "publishing"
              \/ job'[j].status = "completed" /\ lce[j].state = "published"
              \/ job'[j].status = "failed" /\ lce[j].state \in {"failed", "aborted"}
<1>1. IInv /\ [Next]_vars => IInv'
  BY Inductive
<1>2. IInv /\ [Next]_vars => [Verdict]_vars
  <2> SUFFICES ASSUME IInv, [Next]_vars PROVE Verdict
    OBVIOUS
  <2>1. JobSteps
    BY Inductive
  <2> QED BY <2>1 DEF JobSteps, Stays, Begins, HandsOver, GivesUp, Settles, Running, Publishing
<1>3. Spec => [][Verdict]_vars
  BY <1>1, <1>2, Initial, PTL DEF Spec
<1> QED BY <1>3 DEF PublicationEndsByCloud

\* The handlers of index_jobs.go, their sweeps, late requests and faults
\* implement the job lifecycle.
THEOREM LifecycleImplemented ==
  ASSUME ~CleanupOutlivesLease
  PROVE  Spec => ImplementsLifecycle
<1>1. IInv /\ [Next]_vars => IInv'
  BY Inductive
<1>2. Init => Lifecycle!Init
  BY SMT DEF Init, Lifecycle!Init, LifecycleState, Publishing, Running, NoRow
<1>3. IInv /\ [Next]_vars => [Lifecycle!Next]_LifecycleState
  <2> SUFFICES ASSUME IInv, [Next]_vars PROVE [Lifecycle!Next]_LifecycleState
    OBVIOUS
  <2>1. JobSteps /\ OneRunning /\ OneRunning'
    BY Inductive DEF IInv, Inv
  <2>2. ASSUME NEW j \in Job
        PROVE  /\ LifecycleState[j] = IF Publishing(j) THEN "publishing" ELSE job[j].status
               /\ LifecycleState'[j] = IF Publishing(j)' THEN "publishing" ELSE job'[j].status
    BY DEF LifecycleState
  <2>3. ASSUME NEW j \in Job, Stays(j) PROVE LifecycleState'[j] = LifecycleState[j]
    BY <2>2, <2>3 DEF Stays
  <2>4. CASE \A j \in Job : Stays(j)
    <3>1. LifecycleState' = LifecycleState
      BY <2>3, <2>4 DEF LifecycleState
    <3> QED BY <3>1
  <2>5. ASSUME NEW j \in Job, ~Stays(j) PROVE Lifecycle!Next
    <3>1. \A i \in Job \ {j} : Stays(i)
      BY <2>1, <2>5 DEF JobSteps, OneRunning, Begins, HandsOver, GivesUp, Settles, Publishing
    <3>2. ASSUME NEW s, LifecycleState'[j] = s
          PROVE  LifecycleState' = [LifecycleState EXCEPT ![j] = s]
      BY <2>3, <3>1, <3>2 DEF LifecycleState
    <3>3. CASE Begins(j)
      <4>1. LifecycleState[j] = "none" /\ LifecycleState'[j] = "running"
        BY <2>2, <3>3 DEF Begins, Running, Publishing
      <4>2. \A i \in Job : LifecycleState[i] \notin {"running", "publishing"}
        <5>1. \A i \in Job : job[i].status # "publishing"
          BY DEF IInv, TypeOK, Rows, Terminal
        <5> QED BY <2>2, <3>3, <5>1 DEF Begins, Running, Publishing
      <4> QED BY <3>2, <4>1, <4>2 DEF Lifecycle!Next, Lifecycle!Begin, Lifecycle!Active
    <3>4. CASE HandsOver(j)
      <4>1. LifecycleState[j] = "running" /\ LifecycleState'[j] = "publishing"
        BY <2>2, <3>4 DEF HandsOver, Running
      <4> QED BY <3>2, <4>1 DEF Lifecycle!Next, Lifecycle!HandOver
    <3>5. CASE GivesUp(j)
      <4>1. LifecycleState[j] = "running" /\ LifecycleState'[j] \in {"failed", "timed_out"}
        BY <2>2, <3>5 DEF GivesUp, Running, Publishing
      <4> QED BY <3>2, <4>1 DEF Lifecycle!Next, Lifecycle!GiveUp
    <3>6. CASE Settles(j)
      <4>1. LifecycleState[j] = "publishing" /\ LifecycleState'[j] \in {"completed", "failed"}
        BY <2>2, <3>6 DEF Settles, Running, Publishing
      <4> QED BY <3>2, <4>1 DEF Lifecycle!Next, Lifecycle!Settle
    <3> QED BY <2>1, <2>5, <3>3, <3>4, <3>5, <3>6 DEF JobSteps
  <2> QED BY <2>4, <2>5
<1>4. Spec => Lifecycle!Spec
  BY <1>1, <1>2, <1>3, Initial, PTL DEF Spec, Lifecycle!Spec
<1> QED BY <1>4 DEF ImplementsLifecycle
=============================================================================
