-------------------------- MODULE IndexContent_proofs --------------------------
(***************************************************************************)
(* What the index jobs upload and what the cloud then serves, for any sets *)
(* of paths, contents, jobs and handlers and any number of faults: the     *)
(* counters of a job, and the relay's snapshot against the cloud's root.   *)
(***************************************************************************)
EXTENDS IndexJob_proofs, TLAPS

\* Zenon proves what a step does not ask SMT for.
USE Zenon
-----------------------------------------------------------------------------
(* What a step does to the files of a row.                                 *)

SameFiles(r, s) ==
  /\ s.man = r.man /\ s.need = r.need /\ s.indexed = r.indexed
  /\ s.count = r.count /\ s.total = r.total
  /\ s.dels = r.dels /\ s.delsSent = r.delsSent /\ s.full = r.full

\* A row r becomes s: it does not begin, and as long as it runs its files stay.
KeptRow(r, s) == s.status = "running" => r.status = "running" /\ SameFiles(r, s)

\* Nor is it handed over, completed or given a revision.
QuietRow(r, s) ==
  /\ KeptRow(r, s)
  /\ s.rev = r.rev
  /\ s.status = "completed" => r.status = "completed"
  /\ s.status = "running" /\ s.phase = "publishing" => r.phase = "publishing"

\* The rewrites of a row that are none of these.
LEMMA QuietRows ==
  ASSUME NEW r \in Rows
  PROVE  /\ QuietRow(r, r)
         /\ \A s \in {"failed", "timed_out"} : QuietRow(r, Ended(r, s))
         /\ \A b \in BOOLEAN : QuietRow(r, [r EXCEPT !.stale = b])
         /\ QuietRow(r, [r EXCEPT !.overdue = TRUE])
         /\ QuietRow(r, [r EXCEPT !.phase = "uploading", !.stale = FALSE])
<1>1. QuietRow(r, r)
  BY DEF QuietRow, KeptRow, SameFiles
<1>2. ASSUME NEW s \in {"failed", "timed_out"} PROVE QuietRow(r, Ended(r, s))
  BY SMT DEF QuietRow, KeptRow, Ended, Rows
<1>3. ASSUME NEW b \in BOOLEAN PROVE QuietRow(r, [r EXCEPT !.stale = b])
  BY SMT DEF QuietRow, KeptRow, SameFiles, Rows
<1>4. QuietRow(r, [r EXCEPT !.overdue = TRUE])
  BY SMT DEF QuietRow, KeptRow, SameFiles, Rows
<1>5. QuietRow(r, [r EXCEPT !.phase = "uploading", !.stale = FALSE])
  BY SMT DEF QuietRow, KeptRow, SameFiles, Rows
<1> QED BY <1>1, <1>2, <1>3, <1>4, <1>5

\* One row rewritten quietly, the others left alone.
LEMMA QuietUpdate ==
  ASSUME TypeOK, NEW j \in Job, NEW r, job' = [job EXCEPT ![j] = r], QuietRow(job[j], r)
  PROVE  \A i \in Job : QuietRow(job[i], job'[i])
<1>1. job'[j] = r /\ \A i \in Job \ {j} : job'[i] = job[i]
  BY DEF TypeOK
<1> QED BY <1>1, QuietRows DEF TypeOK

QuietRelay == /\ \A j \in Job : QuietRow(job[j], job'[j])
              /\ exists' = exists /\ snapshot' = snapshot /\ cloudRev' = cloudRev

\* The steps of a handler, those excepted that do more than that to a row.
QuietStep(h) ==
  \/ Start(h) /\ ~StartInsert(h)
  \/ Upload(h) /\ ~UploadCommit(h)
  \/ Complete(h) /\ ~CompleteHandoff(h) /\ ~CompleteRecord(h) /\ ~CompleteFinish(h)
  \/ Fail(h) \/ Reconcile(h) \/ HandlerStops(h)

\* A step that leaves the relay's rows alone.
LEMMA QuietUnchanged == ASSUME TypeOK, UNCHANGED relayVars PROVE QuietRelay
BY QuietRows DEF TypeOK, QuietRelay, relayVars

\* Jobs given up together.
LEMMA QuietTimeouts ==
  ASSUME TypeOK, NEW S \in SUBSET Job,
         job' = [j \in Job |-> IF j \in S THEN Ended(job[j], "timed_out") ELSE job[j]]
  PROVE  \A j \in Job : QuietRow(job[j], job'[j])
<1> SUFFICES ASSUME NEW j \in Job PROVE QuietRow(job[j], job'[j])
  OBVIOUS
<1>1. job[j] \in Rows
  BY DEF TypeOK
<1>2. CASE j \in S
  BY <1>1, <1>2, QuietRows
<1>3. CASE j \notin S
  BY <1>1, <1>3, QuietRows
<1> QED BY <1>2, <1>3

\* A job ended as failed if it still runs, as the handlers' last statements do.
LEMMA QuietFailure ==
  ASSUME TypeOK, NEW j \in Job,
         job' = [job EXCEPT ![j] = IF @.status = "running" THEN Ended(@, "failed") ELSE @]
  PROVE  \A i \in Job : QuietRow(job[i], job'[i])
<1> DEFINE r == IF job[j].status = "running" THEN Ended(job[j], "failed") ELSE job[j]
<1>1. job' = [job EXCEPT ![j] = r]
  OBVIOUS
<1>2. QuietRow(job[j], r)
  BY QuietRows DEF TypeOK
<1> HIDE DEF r
<1> QED BY <1>1, <1>2, QuietUpdate

\* They are quiet.
LEMMA QuietHandlers ==
  ASSUME TypeOK, FrameOK, NEW h \in Handler, QuietStep(h)
  PROVE  QuietRelay
<1>1. ASSUME NEW op, NEW j, NEW pc, Acquire(h, op, j, pc) PROVE QuietRelay
  BY <1>1, QuietUnchanged DEF Acquire
<1>2. CASE Start(h) /\ ~StartInsert(h)
  <2>1. CASE StartInspect(h)
    <3>1. exists' = exists /\ snapshot' = snapshot /\ cloudRev' = cloudRev
      BY <2>1 DEF StartInspect
    <3>2. \/ job' = job
          \/ job' = [j \in Job |-> IF j \in {i \in Job : Running(i)}
                                   THEN Ended(job[j], "timed_out") ELSE job[j]]
      BY <2>1 DEF StartInspect
    <3>3. CASE job' = job
      BY <3>1, <3>3, QuietUnchanged DEF relayVars
    <3>4. {i \in Job : Running(i)} \in SUBSET Job
      OBVIOUS
    <3> QED BY <3>1, <3>2, <3>3, <3>4, QuietTimeouts DEF QuietRelay
  <2>2. CASE BeginFailed(h)
    <3>1. handler[h].j \in Job
      BY <2>2 DEF BeginFailed, At, FrameOK, Shape
    <3> QED BY <2>2, <3>1, QuietFailure DEF BeginFailed, QuietRelay
  <2> QED BY <1>1, <1>2, <2>1, <2>2, QuietUnchanged
          DEF Start, StartAcquire, StartLimited, BeginReaches, StartReturns, BeginErrs,
              BeginAborts
<1>3. CASE Upload(h) /\ ~UploadCommit(h)
  <2>1. CASE UploadMark(h)
    <3>1. handler[h].j \in Job
      BY <2>1, FrameJob DEF UploadMark, At
    <3>2. exists' = exists /\ snapshot' = snapshot /\ cloudRev' = cloudRev
      BY <2>1 DEF UploadMark
    <3>3. CASE job' = job
      BY <3>2, <3>3, QuietUnchanged DEF relayVars
    <3>4. CASE job' = [job EXCEPT ![handler[h].j] = [@ EXCEPT !.phase = "uploading", !.stale = FALSE]]
      BY <3>1, <3>2, <3>4, QuietUpdate, QuietRows DEF QuietRelay, TypeOK
    <3> QED BY <2>1, <3>3, <3>4 DEF UploadMark
  <2> QED BY <1>1, <1>3, <2>1, QuietUnchanged
          DEF Upload, UploadAcquire, UploadPrepare, UploadRefused, StageReaches
<1>4. CASE Complete(h) /\ ~CompleteHandoff(h) /\ ~CompleteRecord(h) /\ ~CompleteFinish(h)
  <2>1. CASE FinishFailed(h)
    <3>1. handler[h].j \in Job
      BY <2>1, FrameJob DEF FinishFailed, Completing, At
    <3> QED BY <2>1, <3>1, QuietFailure DEF FinishFailed, QuietRelay
  <2> QED BY <1>1, <1>4, <2>1, QuietUnchanged
          DEF Complete, CompleteAcquire, CompleteCheck, PublishReaches, PublishReplies
<1>5. CASE Fail(h)
  <2>1. CASE FailMark(h)
    <3>1. handler[h].j \in Job
      BY <2>1, FrameJob DEF FailMark, At
    <3>2. exists' = exists /\ snapshot' = snapshot /\ cloudRev' = cloudRev
      BY <2>1 DEF FailMark
    <3>3. CASE job' = job
      BY <3>2, <3>3, QuietUnchanged DEF relayVars
    <3>4. CASE job' = [job EXCEPT ![handler[h].j] = Ended(@, "failed")]
      BY <3>1, <3>2, <3>4, QuietUpdate, QuietRows DEF QuietRelay, TypeOK
    <3> QED BY <2>1, <3>3, <3>4 DEF FailMark
  <2> QED BY <1>1, <1>5, <2>1, QuietUnchanged DEF Fail, FailAcquire, FailCheck
<1>6. CASE Reconcile(h) \/ HandlerStops(h)
  BY <1>1, <1>6, QuietUnchanged
     DEF Reconcile, ReconcileAcquire, ReconcileRevalidate, ReconcileStatus, ReconcileStatusErrs,
         ReconcileAbort, HandlerStops
<1> QED BY <1>2, <1>3, <1>4, <1>5, <1>6 DEF QuietStep

\* So are heartbeats, sweeps, the clock and the cloud.
LEMMA QuietOthers ==
  ASSUME TypeOK, Sweep \/ Cloud \/ Clock \/ \E j \in Job : HeartbeatJob(j)
  PROVE  QuietRelay /\ handler' = handler
<1>1. CASE Sweep
  <2>1. PICK S \in SUBSET {j \in Job : Running(j) /\ ~Publishing(j) /\ job[j].stale} :
          job' = [j \in Job |-> IF j \in S THEN Ended(job[j], "timed_out") ELSE job[j]]
    BY <1>1 DEF Sweep
  <2>2. S \in SUBSET Job
    OBVIOUS
  <2> QED BY <1>1, <2>1, <2>2, QuietTimeouts DEF QuietRelay, Sweep
<1>2. CASE Cloud
  BY <1>2, QuietUnchanged DEF Cloud, LateArrival, CloudPublishes, CloudFails
<1>3. ASSUME NEW j \in Job, HeartbeatJob(j) \/ HeartbeatAges(j) \/ PublicationAges(j)
      PROVE  QuietRelay /\ handler' = handler
  <2>1. \/ \E b \in BOOLEAN : job' = [job EXCEPT ![j] = [job[j] EXCEPT !.stale = b]]
        \/ job' = [job EXCEPT ![j] = [job[j] EXCEPT !.overdue = TRUE]]
    BY <1>3 DEF HeartbeatJob, HeartbeatAges, PublicationAges
  <2>2. \A i \in Job : QuietRow(job[i], job'[i])
    BY <2>1, QuietUpdate, QuietRows DEF TypeOK
  <2> QED BY <1>3, <2>2 DEF HeartbeatJob, HeartbeatAges, PublicationAges, QuietRelay
<1> QED BY <1>1, <1>2, <1>3 DEF Clock
-----------------------------------------------------------------------------
(* The steps that do more to a row.                                        *)

\* Row s is row r and a batch: its files counted once, the rest as it was.
Adds(r, s, batch, gone) ==
  /\ s.status = r.status /\ s.man = r.man /\ s.need = r.need /\ s.total = r.total
  /\ s.dels = r.dels /\ s.full = r.full /\ s.rev = r.rev /\ s.phase = "indexing"
  /\ s.indexed = r.indexed \cup batch /\ s.count = r.count + Cardinality(batch)
  /\ s.delsSent = IF gone = {} THEN r.delsSent ELSE TRUE

\* commitIndexBatch adds its batch.
LEMMA CommittedFields ==
  ASSUME NEW r \in Rows, NEW batch, NEW gone
  PROVE  Adds(r, Committed(r, batch, gone), batch, gone)
<1> DEFINE sent == r.delsSent \/ gone # {}
           s == Committed(r, batch, gone)
<1>1. sent = IF gone = {} THEN r.delsSent ELSE TRUE
  <2>1. r.delsSent \in {TRUE, FALSE}
    BY DEF Rows
  <2> QED BY <2>1
<1>2. s = [r EXCEPT !.phase = "indexing", !.stale = FALSE, !.indexed = r.indexed \cup batch,
                    !.count = r.count + Cardinality(batch), !.delsSent = sent]
  BY DEF Committed
<1> HIDE DEF sent, s
<1>3. /\ s.status = r.status /\ s.man = r.man /\ s.need = r.need /\ s.total = r.total
      /\ s.dels = r.dels /\ s.full = r.full /\ s.rev = r.rev /\ s.phase = "indexing"
      /\ s.indexed = r.indexed \cup batch /\ s.count = r.count + Cardinality(batch)
      /\ s.delsSent = sent
  BY <1>2 DEF Rows
<1> QED BY <1>1, <1>3 DEF Adds, s

\* The row a start inserts: nothing indexed yet.
LEMMA NewFields ==
  ASSUME NEW man \in Manifests, NEW s, s = NewRow(man)
  PROVE  /\ s.status = "running" /\ s.phase = "created" /\ s.man = man
         /\ s.need = Pending(snapshot, man) /\ s.total = Cardinality(Pending(snapshot, man))
         /\ s.dels = (Deleted(snapshot, man) # {}) /\ s.full = ~exists
         /\ s.indexed = {} /\ s.count = 0 /\ ~s.delsSent /\ s.rev = 0
BY DEF NewRow, NoRow

\* A start that inserts a row, or returns.
LEMMA Inserts ==
  ASSUME TypeOK, FrameOK, NEW h \in Handler, StartInsert(h)
  PROVE  /\ UNCHANGED <<exists, snapshot, cloudRev, lce, root, rootRev, late>>
         /\ \/ job' = job /\ Return(h)
            \/ \E man \in Manifests, j \in Job :
                 /\ job[j].status = "none"
                 /\ job'[j] = NewRow(man) /\ \A i \in Job \ {j} : job'[i] = job[i]
                 /\ handler'[h] = [handler[h] EXCEPT !.j = j, !.pc = "begin"]
                 /\ \A k \in Handler \ {h} : handler'[k] = handler[k]
<1>1. UNCHANGED <<exists, snapshot, cloudRev, lce, root, rootRev, late>>
  BY DEF StartInsert, lceVars
<1>2. PICK files \in Manifests, unreadable \in SUBSET Path :
        LET man == graftUnreadablePaths(snapshot, files, unreadable) IN
        \/ job' = job /\ Return(h)
        \/ \E j \in Job :
             /\ job[j].status = "none"
             /\ job' = [job EXCEPT ![j] = NewRow(man)]
             /\ handler' = [handler EXCEPT ![h] = [@ EXCEPT !.j = j, !.pc = "begin"]]
  BY DEF StartInsert
<1>3. graftUnreadablePaths(snapshot, files, unreadable) \in Manifests
  BY ManifestTypes DEF TypeOK
<1>4. ASSUME NEW j \in Job, NEW r, job' = [job EXCEPT ![j] = r]
      PROVE  job'[j] = r /\ \A i \in Job \ {j} : job'[i] = job[i]
  BY <1>4 DEF TypeOK
<1>5. ASSUME NEW f, handler' = [handler EXCEPT ![h] = f]
      PROVE  handler'[h] = f /\ \A k \in Handler \ {h} : handler'[k] = handler[k]
  BY <1>5 DEF TypeOK
<1>6. CASE job' = job /\ Return(h)
  BY <1>1, <1>6
<1>7. ASSUME NEW j \in Job, job[j].status = "none",
             job' = [job EXCEPT ![j] = NewRow(graftUnreadablePaths(snapshot, files, unreadable))],
             handler' = [handler EXCEPT ![h] = [handler[h] EXCEPT !.j = j, !.pc = "begin"]]
      PROVE  \E man \in Manifests, i \in Job :
               /\ job[i].status = "none"
               /\ job'[i] = NewRow(man) /\ \A k \in Job \ {i} : job'[k] = job[k]
               /\ handler'[h] = [handler[h] EXCEPT !.j = i, !.pc = "begin"]
               /\ \A k \in Handler \ {h} : handler'[k] = handler[k]
  <2> DEFINE m == graftUnreadablePaths(snapshot, files, unreadable)
  <2>1. m \in Manifests /\ job'[j] = NewRow(m) /\ \A i \in Job \ {j} : job'[i] = job[i]
    BY <1>3, <1>4, <1>7
  <2>2. /\ handler'[h] = [handler[h] EXCEPT !.j = j, !.pc = "begin"]
        /\ \A k \in Handler \ {h} : handler'[k] = handler[k]
    BY <1>5, <1>7
  <2> HIDE DEF m
  <2> QED BY <1>7, <2>1, <2>2
<1> QED BY <1>1, <1>2, <1>6, <1>7

\* An upload that commits its batch, or finds its job ended or a file indexed.
LEMMA Commits ==
  ASSUME TypeOK, FrameOK, NEW h \in Handler, UploadCommit(h)
  PROVE  /\ UNCHANGED <<exists, snapshot, cloudRev, lce, root, rootRev, late>> /\ Return(h)
         /\ handler[h].op = "upload" /\ handler[h].pc = "staged" /\ handler[h].j \in Job
         /\ \/ job' = job
            \/ LET j == handler[h].j
                   batch == handler[h].batch
               IN /\ Running(j) /\ batch \subseteq job[j].need \ job[j].indexed
                  /\ job'[j] = Committed(job[j], batch, handler[h].gone)
                  /\ \A i \in Job \ {j} : job'[i] = job[i]
<1>1. handler[h].j \in Job
  BY FrameJob DEF UploadCommit, At
<1> QED BY <1>1 DEF UploadCommit, At, lceVars, TypeOK

\* A completion that hands its job over, records a revision or finishes.
LEMMA CompletionRows ==
  ASSUME TypeOK, FrameOK, NEW h \in Handler,
         CompleteHandoff(h) \/ CompleteRecord(h) \/ CompleteFinish(h)
  PROVE  /\ handler[h].j \in Job
         /\ \A i \in Job \ {handler[h].j} : job'[i] = job[i]
         /\ KeptRow(job[handler[h].j], job'[handler[h].j])
<1>1. handler[h].j \in Job
  BY FrameJob DEF CompleteHandoff, CompleteRecord, CompleteFinish, Completing, At
<1> DEFINE j == handler[h].j
           r == job[j]
<1>2. r \in Rows /\ KeptRow(r, r)
  BY <1>1, QuietRows DEF TypeOK, QuietRow
<1>3. KeptRow(r, [r EXCEPT !.phase = "publishing", !.stale = FALSE])
  BY <1>2, SMT DEF KeptRow, SameFiles, Rows
<1>4. \A v : KeptRow(r, [r EXCEPT !.rev = v]) /\ KeptRow(r, [Ended(r, "completed") EXCEPT !.rev = v])
  <2>1. ASSUME NEW v PROVE KeptRow(r, [r EXCEPT !.rev = v])
    BY <1>2, SMT DEF KeptRow, SameFiles, Rows
  <2>2. ASSUME NEW v PROVE KeptRow(r, [Ended(r, "completed") EXCEPT !.rev = v])
    BY <1>2, SMT DEF KeptRow, Ended, Rows
  <2> QED BY <2>1, <2>2
<1>5. CASE job' = job
  BY <1>1, <1>2, <1>5
<1>6. ASSUME NEW s, job' = [job EXCEPT ![j] = s], KeptRow(r, s)
      PROVE  (\A i \in Job \ {j} : job'[i] = job[i]) /\ KeptRow(r, job'[j])
  BY <1>1, <1>6 DEF TypeOK
<1>7. CASE CompleteHandoff(h)
  BY <1>1, <1>3, <1>5, <1>6, <1>7 DEF CompleteHandoff
<1>8. CASE CompleteRecord(h)
  BY <1>1, <1>2, <1>4, <1>5, <1>6, <1>8 DEF CompleteRecord
<1>9. CASE CompleteFinish(h)
  BY <1>1, <1>4, <1>5, <1>6, <1>9 DEF CompleteFinish, relayVars
<1> QED BY <1>7, <1>8, <1>9
-----------------------------------------------------------------------------
(* The counters of a job.                                                  *)

Counted(r) ==
  r.status = "running" => /\ r.indexed \subseteq r.need
                          /\ r.count = Cardinality(r.indexed)
                          /\ r.total = Cardinality(r.need)

CountsOK == \A j \in Job : Counted(job[j])

\* A batch of files not yet indexed adds its size.
LEMMA CommitCounts ==
  ASSUME NEW r \in Rows, Counted(r), NEW batch \in SUBSET Path, NEW gone,
         batch \subseteq r.need \ r.indexed
  PROVE  Counted(Committed(r, batch, gone))
<1>1. r.indexed \in SUBSET Path
  BY DEF Rows
<1>2. IsFiniteSet(r.indexed) /\ IsFiniteSet(batch) /\ r.indexed \cap batch = {}
  BY <1>1, ManifestAssumption, FS_Subset
<1>3. Cardinality(r.indexed \cup batch) =
        Cardinality(r.indexed) + Cardinality(batch) - Cardinality(r.indexed \cap batch)
  BY <1>2, FS_Union
<1>4. /\ Cardinality(r.indexed \cap batch) = 0
      /\ Cardinality(r.indexed) \in Nat /\ Cardinality(batch) \in Nat
  BY <1>2, FS_EmptySet, FS_CardinalityType
<1>5. Cardinality(r.indexed \cup batch) = Cardinality(r.indexed) + Cardinality(batch)
  BY <1>3, <1>4, SMT
<1>6. batch \subseteq r.need
  OBVIOUS
<1>7. Adds(r, Committed(r, batch, gone), batch, gone)
  BY CommittedFields
<1> QED BY <1>5, <1>6, <1>7 DEF Counted, Adds

\* Every step keeps the counters.
LEMMA CountsStep ==
  ASSUME TypeOK, FrameOK, CountsOK, [Next]_vars
  PROVE  CountsOK'
<1>1. ASSUME NEW r, NEW s, KeptRow(r, s), Counted(r) PROVE Counted(s)
  BY <1>1 DEF KeptRow, SameFiles, Counted
<1>2. CASE QuietRelay
  BY <1>1, <1>2 DEF QuietRelay, QuietRow, CountsOK
<1>3. ASSUME NEW h \in Handler, StartInsert(h) PROVE CountsOK'
  <2>1. ASSUME NEW man \in Manifests PROVE Counted(NewRow(man))
    BY NewFields, FS_EmptySet, SMT DEF Counted
  <2>2. CASE job' = job
    BY <2>2 DEF CountsOK
  <2>3. ASSUME NEW man \in Manifests, NEW j \in Job, job'[j] = NewRow(man),
               \A i \in Job \ {j} : job'[i] = job[i]
        PROVE  CountsOK'
    BY <2>1, <2>3 DEF CountsOK
  <2> QED BY <1>3, <2>2, <2>3, Inserts
<1>4. ASSUME NEW h \in Handler, UploadCommit(h) PROVE CountsOK'
  <2>1. handler[h].batch \in SUBSET Path
    BY DEF TypeOK, Frames
  <2>2. \A j \in Job : job[j] \in Rows
    BY DEF TypeOK
  <2>3. CASE job' = job
    BY <2>3 DEF CountsOK
  <2>4. ASSUME NEW j \in Job, Running(j), handler[h].batch \subseteq job[j].need \ job[j].indexed,
               job'[j] = Committed(job[j], handler[h].batch, handler[h].gone),
               \A i \in Job \ {j} : job'[i] = job[i]
        PROVE  CountsOK'
    <3>1. Counted(job[j])
      BY DEF CountsOK
    <3>2. Counted(job'[j])
      BY <2>1, <2>2, <2>4, <3>1, CommitCounts
    <3> QED BY <2>4, <3>2 DEF CountsOK
  <2> QED BY <1>4, <2>3, <2>4, Commits
<1>5. ASSUME NEW h \in Handler, CompleteHandoff(h) \/ CompleteRecord(h) \/ CompleteFinish(h)
      PROVE  CountsOK'
  BY <1>1, <1>5, CompletionRows DEF CountsOK
<1>6. CASE UNCHANGED vars
  BY <1>2, <1>6, QuietUnchanged DEF vars, relayVars
<1>7. CASE Next
  BY <1>2, <1>3, <1>4, <1>5, <1>7, QuietHandlers, QuietOthers DEF Next, QuietStep
<1> QED BY <1>6, <1>7

\* indexed_files counts the indexed rows and total_files the files to upload,
\* for any batches and any number of jobs, handlers and faults, whether or not
\* a cleanup outlives its lease: commitIndexBatch commits a batch only if each
\* of its files is still unindexed.
THEOREM CountsFollowRows == Spec => []CountsIndexedRows
<1>1. Init => TypeOK /\ FrameOK /\ CountsOK
  <2>1. NoRow.status = "none"
    BY DEF NoRow
  <2> QED BY <2>1, InitTypes DEF Init, CountsOK, Counted
<1>2. TypeOK /\ FrameOK /\ CountsOK /\ [Next]_vars => (TypeOK /\ FrameOK /\ CountsOK)'
  BY TypeStep, FrameStep, CountsStep
<1>3. CountsOK => CountsIndexedRows
  BY DEF CountsOK, Counted, CountsIndexedRows, Running
<1> QED BY <1>1, <1>2, <1>3, PTL DEF Spec
-----------------------------------------------------------------------------
(* The content of a job. A row r is the diff of its manifest with the      *)
(* snapshot; what is staged at LCE is part of that diff, and all that the  *)
(* relay counted is staged.                                                *)

Dropped(r) == Deleted(snapshot, r.man)

Diffed(r) ==
  r.need = Pending(snapshot, r.man) /\ r.dels = (Dropped(r) # {}) /\ r.full = ~exists

\* What a request or a staging area carries is part of the diff.
Carries(r, staged, gone) ==
  /\ \A f \in Path : staged[f] # Absent => f \in r.need /\ staged[f] = r.man[f]
  /\ gone \subseteq Dropped(r)

\* LCE's record c holds these files and deletions.
Holds(c, r, batch, gone) ==
  (\A f \in batch : c.staged[f] = r.man[f]) /\ gone \subseteq c.gone

SentDeletions(r) == IF r.delsSent THEN Dropped(r) ELSE {}

StagedFor(r, c) ==
  /\ Carries(r, c.staged, c.gone)
  /\ Holds(c, r, r.indexed, SentDeletions(r))
  /\ c.state # "unknown" => c.full = r.full

Fits(req, r) ==
  /\ req.op = "stage" => Carries(r, req.staged, req.gone)
  /\ req.op = "begin" => ~r.full
  /\ req.op = "begin full" => r.full

JobOK(j) ==
  /\ Running(j) => /\ Diffed(job[j])
                   /\ lce[j].state \notin Decided => StagedFor(job[j], lce[j])
                   /\ lce[j].state = "published" => root = job[j].man /\ rootRev = lce[j].rev
  /\ Publishing(j) => AllSent(job[j])
  /\ job[j].rev > 0 => job[j].rev = lce[j].rev
  /\ job[j].status = "none" => lce[j] = Unknown

RequestOK(req) ==
  job[req.j].status # "none" /\ (Running(req.j) => Fits(req, job[req.j]))

\* What a handler remembers of its job: the batch it took from the diff, that LCE
\* staged it, that all was sent, and the revision LCE reported.
Uploaded(f, r, c) ==
  /\ f.batch \subseteq r.need
  /\ f.gone = {} \/ f.gone = Dropped(r)
  /\ f.pc = "staged" /\ c.state \notin Decided => Holds(c, r, f.batch, f.gone)

FrameFacts(f) ==
  /\ f.j \in Job => job[f.j].status # "none"
  /\ f.op = "upload" /\ f.pc \in {"mark", "stage", "staged"} /\ Running(f.j) =>
       Uploaded(f, job[f.j], lce[f.j])
  /\ f.op \in {"complete", "reconcile"} =>
       /\ f.pc = "handoff" /\ Running(f.j) => AllSent(job[f.j])
       /\ f.rev > 0 \/ f.pc \in {"record", "finish"} => f.rev = lce[f.j].rev
       /\ f.pre > 0 => f.pre = lce[f.j].rev

Content ==
  /\ \A j \in Job : JobOK(j)
  /\ \A req \in late : RequestOK(req)
  /\ \A h \in Handler : FrameFacts(handler[h])
  /\ ~exists => snapshot = NoFiles
  /\ SnapshotMatchesCloud

\* A request that fits the job extends what LCE holds for it.
LEMMA StagingExtends ==
  ASSUME NEW r \in Rows, NEW c \in Records, NEW req \in Requests, Fits(req, r), StagedFor(r, c),
         Effect(req, c).state \notin Decided
  PROVE  /\ StagedFor(r, Effect(req, c))
         /\ \A batch \in SUBSET Path, gone \in SUBSET Path :
              Holds(c, r, batch, gone) => Holds(Effect(req, c), r, batch, gone)
<1> DEFINE d == Effect(req, c)
<1>1. ASSUME d.staged = c.staged, d.gone = c.gone, d.state # "unknown" => d.full = r.full
      PROVE  /\ StagedFor(r, d)
             /\ \A batch \in SUBSET Path, gone \in SUBSET Path :
                  Holds(c, r, batch, gone) => Holds(d, r, batch, gone)
  <2> HIDE DEF d
  <2> QED BY <1>1 DEF StagedFor, Holds
<1>2. CASE req.op \in {"begin", "begin full"}
  <2>1. d = AfterBegin(c, req.op = "begin full")
    BY <1>2 DEF Effect
  <2>2. CASE c.state = "unknown"
    <3>1. d = [c EXCEPT !.state = "staging", !.full = (req.op = "begin full")]
      BY <2>1, <2>2 DEF AfterBegin
    <3>2. d.staged = c.staged /\ d.gone = c.gone /\ d.full = (req.op = "begin full")
      BY <3>1, SMT DEF Records
    <3>3. r.full \in BOOLEAN
      BY DEF Rows
    <3>4. d.full = r.full
      BY <1>2, <3>2, <3>3 DEF Fits
    <3> QED BY <1>1, <3>2, <3>4
  <2>3. CASE c.state # "unknown"
    BY <1>1, <2>1, <2>3 DEF AfterBegin, StagedFor
  <2> QED BY <2>2, <2>3
<1>3. CASE req.op = "publish"
  <2>1. d.staged = c.staged /\ d.gone = c.gone /\ d.full = c.full
        /\ (d.state # "unknown" => c.state # "unknown")
    BY <1>3, SMT DEF Effect, AfterPublish, Records
  <2> QED BY <1>1, <2>1 DEF StagedFor
<1>4. CASE req.op = "abort"
  <2>1. d = c
    BY <1>4, SMT DEF Effect, AfterAbort, Decided, Unknown
  <2> QED BY <1>1, <2>1 DEF StagedFor
<1>5. CASE req.op = "stage" /\ c.state = "staging"
  <2>1. /\ d.staged = [f \in Path |-> IF req.staged[f] # Absent THEN req.staged[f] ELSE c.staged[f]]
        /\ d.gone = c.gone \cup req.gone /\ d.full = c.full
    <3>1. d = [c EXCEPT !.staged = [f \in Path |-> IF req.staged[f] # Absent
                                                 THEN req.staged[f] ELSE c.staged[f]],
                        !.gone = c.gone \cup req.gone]
      BY <1>5 DEF Effect, AfterStage
    <3> QED BY <3>1 DEF Records
  <2>2. Carries(r, req.staged, req.gone)
    BY <1>5 DEF Fits
  <2> HIDE DEF d
  <2>3. Carries(r, d.staged, d.gone)
    BY <2>1, <2>2 DEF StagedFor, Carries
  <2>4. ASSUME NEW batch \in SUBSET Path, NEW gone \in SUBSET Path, Holds(c, r, batch, gone)
        PROVE  Holds(d, r, batch, gone)
    BY <2>1, <2>2, <2>4 DEF Carries, Holds
  <2>5. r.indexed \in SUBSET Path /\ SentDeletions(r) \in SUBSET Path
    BY DEF Rows, SentDeletions, Dropped, Deleted, Listed
  <2>6. Holds(d, r, r.indexed, SentDeletions(r))
    BY <2>4, <2>5 DEF StagedFor
  <2>7. d.full = r.full
    BY <1>5, <2>1 DEF StagedFor
  <2>8. StagedFor(r, d)
    BY <2>3, <2>6, <2>7 DEF StagedFor
  <2> QED BY <2>4, <2>8 DEF d
<1>6. CASE req.op = "stage" /\ c.state # "staging"
  <2>1. d = c
    BY <1>6 DEF Effect, AfterStage
  <2> QED BY <1>1, <2>1 DEF StagedFor
<1> QED BY <1>2, <1>3, <1>4, <1>5, <1>6 DEF Requests

\* Once all is sent, publishing what LCE holds turns the root into the manifest.
LEMMA PublishesManifest ==
  ASSUME TypeOK, NEW r \in Rows, NEW c \in Records, Diffed(r), Counted(r), r.status = "running",
         AllSent(r), StagedFor(r, c), c.full = r.full,
         ~exists => snapshot = NoFiles, exists => root = snapshot
  PROVE  Overlay(root, c.staged, c.gone, c.full) = r.man
<1>1. r.indexed = r.need
  <2>1. r.need \in SUBSET Path /\ r.indexed \in SUBSET r.need
    BY DEF Rows, Counted
  <2>2. IsFiniteSet(r.need)
    BY <2>1, ManifestAssumption, FS_Subset
  <2>3. Cardinality(r.need) = Cardinality(r.indexed)
    BY DEF Counted, AllSent
  <2> QED BY <2>1, <2>2, <2>3, FS_Subset
<1>2. ASSUME NEW f \in Path
      PROVE  c.staged[f] = IF f \in r.need THEN r.man[f] ELSE Absent
  BY <1>1 DEF StagedFor, Carries, Holds
<1>3. c.gone = Dropped(r)
  <2>1. CASE Dropped(r) = {}
    BY <2>1 DEF StagedFor, Carries
  <2>2. CASE Dropped(r) # {}
    BY <2>2 DEF Diffed, AllSent, StagedFor, Carries, Holds, SentDeletions
  <2> QED BY <2>1, <2>2
<1>4. r.man \in Manifests /\ c.staged \in Manifests /\ snapshot \in Manifests
  BY DEF Rows, Records, TypeOK
<1>5. ASSUME NEW f \in Path
      PROVE  /\ f \in r.need <=> r.man[f] # Absent /\ r.man[f] # snapshot[f]
             /\ f \in c.gone <=> snapshot[f] # Absent /\ r.man[f] = Absent
  BY <1>3 DEF Diffed, Pending, Dropped, Deleted, Listed
<1>6. CASE exists
  <2>1. c.full = FALSE
    BY <1>6 DEF Diffed
  <2>2. Overlay(root, c.staged, c.gone, c.full) =
          [f \in Path |-> IF c.staged[f] # Absent THEN c.staged[f]
                          ELSE IF f \in c.gone THEN Absent ELSE snapshot[f]]
    BY <1>6, <2>1 DEF Overlay
  <2>3. ASSUME NEW f \in Path
        PROVE  r.man[f] = IF c.staged[f] # Absent THEN c.staged[f]
                          ELSE IF f \in c.gone THEN Absent ELSE snapshot[f]
    BY <1>2, <1>5
  <2> QED BY <1>4, <2>2, <2>3, SMT DEF Manifests
<1>7. CASE ~exists
  <2>1. Overlay(root, c.staged, c.gone, c.full) = c.staged
    BY <1>7 DEF Overlay, Diffed
  <2>2. ASSUME NEW f \in Path PROVE c.staged[f] = r.man[f]
    BY <1>2, <1>5, <1>7 DEF NoFiles
  <2> QED BY <1>4, <2>1, <2>2, SMT DEF Manifests
<1> QED BY <1>6, <1>7
-----------------------------------------------------------------------------
(* Steps that publish, insert and finish nothing.                          *)

\* A row grows: files are only added that LCE holds, and once all is sent it
\* stays so.
GrownRow(j) ==
  Running(j)' =>
    LET r == job[j]
        s == job'[j]
    IN /\ Running(j)
       /\ s.man = r.man /\ s.need = r.need /\ s.dels = r.dels /\ s.full = r.full
       /\ AllSent(r) => AllSent(s)
       /\ lce[j].state \notin Decided => Holds(lce[j], s, s.indexed, SentDeletions(s))

SteadyRow(j) ==
  /\ GrownRow(j)
  /\ Publishing(j)' => Publishing(j) \/ AllSent(job[j])
  /\ job'[j].rev > 0 => job'[j].rev = lce[j].rev
  /\ job'[j].status = "completed" => job[j].status = "completed"

SteadyRelay == /\ \A j \in Job : SteadyRow(j)
               /\ exists' = exists /\ snapshot' = snapshot /\ cloudRev' = cloudRev

\* LCE fails or aborts a job, or takes in a request that fits it.
SteadyRecord(j) ==
  /\ lce[j].state \in Decided \/ job[j].status = "none" => lce'[j] = lce[j]
  /\ lce'[j].state = "published" => lce'[j] = lce[j]
  /\ lce'[j].state \notin Decided =>
       \/ lce'[j] = lce[j]
       \/ \E req \in Requests :
            req.j = j /\ RequestOK(req) /\ lce'[j] = Effect(req, lce[j])

SteadyCloud == /\ \A j \in Job : SteadyRecord(j)
               /\ root' = root /\ rootRev' = rootRev
               /\ \A req \in late' : req \in late \/ (req \in Requests /\ RequestOK(req))

\* In such a step LCE keeps what it holds for a job that goes on.
LEMMA HoldingKept ==
  ASSUME TypeOK, TypeOK', SteadyRelay, SteadyCloud, NEW j \in Job, JobOK(j),
         Running(j)', lce'[j].state \notin Decided
  PROVE  /\ Running(j) /\ lce[j].state \notin Decided
         /\ StagedFor(job[j], lce'[j])
         /\ \A batch \in SUBSET Path, gone \in SUBSET Path :
              Holds(lce[j], job[j], batch, gone) => Holds(lce'[j], job[j], batch, gone)
<1>1. Running(j)
  BY DEF SteadyRelay, SteadyRow, GrownRow
<1>2. lce[j].state \notin Decided
  BY DEF SteadyCloud, SteadyRecord
<1>3. StagedFor(job[j], lce[j])
  BY <1>1, <1>2 DEF JobOK
<1>4. CASE lce'[j] = lce[j]
  BY <1>1, <1>2, <1>3, <1>4
<1>5. ASSUME NEW req \in Requests, req.j = j, RequestOK(req), lce'[j] = Effect(req, lce[j])
      PROVE  /\ StagedFor(job[j], lce'[j])
             /\ \A batch \in SUBSET Path, gone \in SUBSET Path :
                  Holds(lce[j], job[j], batch, gone) => Holds(lce'[j], job[j], batch, gone)
  <2>1. job[j] \in Rows /\ lce[j] \in Records /\ Fits(req, job[j])
    BY <1>1, <1>5 DEF TypeOK, RequestOK
  <2> QED BY <1>3, <1>5, <2>1, StagingExtends
<1> QED BY <1>1, <1>2, <1>4, <1>5 DEF SteadyCloud, SteadyRecord

\* A job that has a row keeps one.
LEMMA RowsRemain == ASSUME JobSteps, NEW j \in Job, job'[j].status = "none" PROVE job[j].status = "none"
BY DEF JobSteps, Stays, Begins, HandsOver, GivesUp, Settles, Running, Publishing

\* The content of a job after such a step.
LEMMA JobSteady ==
  ASSUME IInv, IInv', JobSteps, SteadyRelay, SteadyCloud, NEW j \in Job, JobOK(j)
  PROVE  JobOK(j)'
<1>0. TypeOK /\ TypeOK' /\ SteadyRow(j) /\ SteadyRecord(j) /\ snapshot' = snapshot /\ exists' = exists
      /\ root' = root /\ rootRev' = rootRev
  BY DEF IInv, SteadyRelay, SteadyCloud
<1>1. ASSUME Running(j)' PROVE Diffed(job[j])'
  <2>1. Diffed(job[j]) /\ Running(j)
    BY <1>0, <1>1 DEF SteadyRow, GrownRow, JobOK
  <2> QED BY <1>0, <1>1, <2>1 DEF SteadyRow, GrownRow, Diffed, Dropped
<1>2. ASSUME Running(j)', lce'[j].state \notin Decided PROVE StagedFor(job[j], lce[j])'
  <2> DEFINE r == job[j]
             s == job'[j]
             c == lce'[j]
  <2>1. /\ StagedFor(r, c) /\ lce[j].state \notin Decided
        /\ \A batch \in SUBSET Path, gone \in SUBSET Path :
             Holds(lce[j], r, batch, gone) => Holds(c, r, batch, gone)
    BY <1>0, <1>2, HoldingKept
  <2>2. /\ s.man = r.man /\ s.need = r.need /\ s.full = r.full
        /\ Holds(lce[j], s, s.indexed, SentDeletions(s))
    BY <1>0, <1>2, <2>1 DEF SteadyRow, GrownRow
  <2>3. s.indexed \in SUBSET Path /\ SentDeletions(s) \in SUBSET Path
    BY <1>0 DEF TypeOK, Rows, SentDeletions, Dropped, Deleted, Listed
  <2>h. \A d, batch, gone : Holds(d, s, batch, gone) <=> Holds(d, r, batch, gone)
    BY <2>2 DEF Holds
  <2>4. Holds(c, s, s.indexed, SentDeletions(s))
    BY <2>1, <2>2, <2>3, <2>h
  <2>5. StagedFor(s, c)
    BY <2>1, <2>2, <2>4 DEF StagedFor, Carries, Dropped
  <2> QED BY <1>0, <2>5 DEF StagedFor, Carries, SentDeletions, Dropped
<1>3. ASSUME Running(j)', lce'[j].state = "published"
      PROVE  root' = job'[j].man /\ rootRev' = lce'[j].rev
  BY <1>0, <1>3 DEF SteadyRow, GrownRow, SteadyRecord, JobOK
<1>4. ASSUME Publishing(j)' PROVE AllSent(job[j])'
  <2>1. Running(j)' /\ AllSent(job[j])
    BY <1>0, <1>4 DEF SteadyRow, JobOK, Publishing
  <2> QED BY <1>0, <2>1 DEF SteadyRow, GrownRow, AllSent
<1>5. ASSUME job'[j].rev > 0 PROVE job'[j].rev = lce'[j].rev
  <2>1. lce'[j].state = "published"
    BY <1>5 DEF IInv, Inv, CloudOK
  <2> QED BY <1>0, <1>5, <2>1 DEF SteadyRow, SteadyRecord
<1>6. ASSUME job'[j].status = "none" PROVE lce'[j] = Unknown
  BY <1>0, <1>6, RowsRemain DEF SteadyRecord, JobOK
<1> QED BY <1>1, <1>2, <1>3, <1>4, <1>5, <1>6 DEF JobOK

\* A request on its way still fits its job.
LEMMA RequestSteady ==
  ASSUME TypeOK, JobSteps, SteadyRelay, NEW req \in Requests, RequestOK(req)
  PROVE  RequestOK(req)'
<1>1. req.j \in Job
  BY DEF Requests
<1>2. job'[req.j].status # "none"
  BY <1>1, RowsRemain DEF RequestOK
<1>3. ASSUME Running(req.j)' PROVE Fits(req, job[req.j])'
  <2>1. Fits(req, job[req.j])
    BY <1>1, <1>3 DEF RequestOK, SteadyRelay, SteadyRow, GrownRow
  <2> QED BY <1>1, <1>3, <2>1 DEF SteadyRelay, SteadyRow, GrownRow, Fits, Carries, Dropped
<1> QED BY <1>2, <1>3 DEF RequestOK

\* What a handler remembers still holds.
LEMMA FrameSteady ==
  ASSUME TypeOK, TypeOK', JobSteps, SteadyRelay, SteadyCloud, NEW f \in Frames, Shape(f),
         FrameCloud(f)', FrameFacts(f), \A j \in Job : JobOK(j)
  PROVE  FrameFacts(f)'
<1>1. f.op # "none" /\ f.op # "start" => f.j \in Job
  BY DEF Shape, Frames
<1>2. f.j \in Job => job'[f.j].status # "none"
  BY RowsRemain DEF FrameFacts
<1>3. ASSUME f.op = "upload", f.pc \in {"mark", "stage", "staged"}, Running(f.j)'
      PROVE  Uploaded(f, job[f.j], lce[f.j])'
  <2> DEFINE r == job[f.j]
             s == job'[f.j]
  <2>1. f.j \in Job /\ f.batch \in SUBSET Path /\ f.gone \in SUBSET Path
    BY <1>1, <1>3 DEF Frames
  <2>2. Running(f.j) /\ s.man = r.man /\ s.need = r.need /\ snapshot' = snapshot
    BY <1>3, <2>1 DEF SteadyRelay, SteadyRow, GrownRow
  <2>3. Uploaded(f, r, lce[f.j])
    BY <1>3, <2>2 DEF FrameFacts
  <2>4. ASSUME f.pc = "staged", lce'[f.j].state \notin Decided
        PROVE  Holds(lce'[f.j], s, f.batch, f.gone)
    <3>1. /\ lce[f.j].state \notin Decided
          /\ Holds(lce[f.j], r, f.batch, f.gone) => Holds(lce'[f.j], r, f.batch, f.gone)
      BY <1>3, <2>1, <2>4, HoldingKept
    <3> QED BY <2>2, <2>3, <2>4, <3>1 DEF Uploaded, Holds
  <2> QED BY <2>2, <2>3, <2>4 DEF Uploaded, Dropped
<1>4. ASSUME f.op \in {"complete", "reconcile"}
      PROVE  /\ f.pc = "handoff" /\ Running(f.j)' => AllSent(job[f.j])'
             /\ f.rev > 0 \/ f.pc \in {"record", "finish"} => f.rev = lce'[f.j].rev
             /\ f.pre > 0 => f.pre = lce'[f.j].rev
  <2>1. f.j \in Job
    BY <1>1, <1>4
  <2>2. ASSUME f.pc = "handoff", Running(f.j)' PROVE AllSent(job[f.j])'
    <3>1. SteadyRow(f.j)
      BY <2>1 DEF SteadyRelay
    <3> QED BY <1>4, <2>2, <3>1 DEF FrameFacts, SteadyRow, GrownRow, AllSent
  <2>3. lce'[f.j].state = "published" => lce'[f.j] = lce[f.j]
    BY <2>1 DEF SteadyCloud, SteadyRecord
  <2>4. f.rev > 0 \/ f.pre > 0 \/ f.pc \in {"record", "finish"} => lce'[f.j].state = "published"
    BY <1>4 DEF FrameCloud
  <2> QED BY <1>4, <2>2, <2>3, <2>4 DEF FrameFacts
<1> QED BY <1>2, <1>3, <1>4 DEF FrameFacts

\* The snapshot and the root are both left alone.
LEMMA CloudSteady ==
  ASSUME IInv', SteadyRelay, SteadyCloud, SnapshotMatchesCloud
  PROVE  SnapshotMatchesCloud'
<1>1. UNCHANGED <<exists, snapshot, cloudRev, root, rootRev>>
  BY DEF SteadyRelay, SteadyCloud
<1>2. ASSUME NEW j \in Job, Publishing(j), lce[j].state = "published"
      PROVE  Publishing(j)' /\ lce'[j].state = "published"
  <2>1. lce'[j] = lce[j]
    BY <1>2 DEF SteadyCloud, SteadyRecord, Decided
  <2>2. job'[j].status = "completed" \/ Publishing(j)'
    BY <1>2, <2>1 DEF IInv, Inv, PublishedNeverLost
  <2>3. job'[j].status # "completed"
    BY <1>2 DEF SteadyRelay, SteadyRow, Publishing, Running
  <2> QED BY <1>2, <2>1, <2>2, <2>3
<1> QED BY <1>1, <1>2 DEF SnapshotMatchesCloud

\* Such a step keeps the content.
LEMMA SteadyStep ==
  ASSUME IInv, IInv', JobSteps, Content, SteadyRelay, SteadyCloud,
         \A h \in Handler : FrameFacts(handler'[h]) \/ FrameFacts(handler[h])'
  PROVE  Content'
<1>0. TypeOK /\ TypeOK' /\ FrameOK'
  BY DEF IInv
<1>1. \A j \in Job : JobOK(j) /\ JobOK(j)'
  BY JobSteady DEF Content
<1>2. ASSUME NEW req \in late' PROVE RequestOK(req)'
  <2>1. req \in Requests /\ RequestOK(req)
    BY <1>0 DEF TypeOK, SteadyCloud, Content
  <2> QED BY <1>0, <2>1, RequestSteady
<1>3. ASSUME NEW h \in Handler PROVE FrameFacts(handler[h])'
  <2> DEFINE f == handler'[h]
  <2>1. f \in Frames /\ Shape(f) /\ FrameCloud(handler[h])'
    BY <1>0 DEF TypeOK, FrameOK, IInv, Inv, HandlersOK
  <2> QED BY <1>0, <1>1, <2>1, FrameSteady
<1>4. ~exists' => snapshot' = NoFiles
  BY DEF SteadyRelay, Content
<1> QED BY <1>1, <1>2, <1>3, <1>4, CloudSteady DEF Content

\* The quiet steps are such steps for the relay.
LEMMA QuietSteady ==
  ASSUME QuietRelay, \A j \in Job : JobOK(j)
  PROVE  SteadyRelay
<1> SUFFICES ASSUME NEW j \in Job PROVE SteadyRow(j)
  BY DEF QuietRelay, SteadyRelay
<1> DEFINE r == job[j]
           s == job'[j]
<1>1. QuietRow(r, s) /\ JobOK(j)
  BY DEF QuietRelay
<1>2. ASSUME Running(j)' PROVE Running(j) /\ SameFiles(r, s)
  BY <1>1, <1>2 DEF QuietRow, KeptRow, Running
<1>3. ASSUME Running(j)', lce[j].state \notin Decided
      PROVE  Holds(lce[j], s, s.indexed, SentDeletions(s))
  <2>1. Holds(lce[j], r, r.indexed, SentDeletions(r))
    BY <1>1, <1>2, <1>3 DEF JobOK, StagedFor
  <2> QED BY <1>2, <1>3, <2>1 DEF SameFiles, Holds, SentDeletions, Dropped
<1>4. GrownRow(j)
  BY <1>2, <1>3 DEF GrownRow, SameFiles, AllSent
<1>5. Publishing(j)' => Publishing(j)
  BY <1>1, <1>2 DEF QuietRow, Publishing, Running
<1> QED BY <1>1, <1>4, <1>5 DEF SteadyRow, QuietRow, JobOK

\* A step that leaves LCE alone and sends only requests that fit.
LEMMA SteadySent ==
  ASSUME lce' = lce, root' = root, rootRev' = rootRev,
         \A req \in late' : req \in late \/ (req \in Requests /\ RequestOK(req))
  PROVE  SteadyCloud
BY DEF SteadyCloud, SteadyRecord

\* LCE executes a request that fits.
LEMMA SteadyExecuted ==
  ASSUME TypeOK, NEW req \in Requests, RequestOK(req), Execute(req),
         root' = root, rootRev' = rootRev, late' \subseteq late
  PROVE  SteadyCloud
<1>1. req.j \in Job /\ lce[req.j] \in Records
  BY DEF Requests, TypeOK
<1>2. lce'[req.j] = Effect(req, lce[req.j]) /\ \A j \in Job \ {req.j} : lce'[j] = lce[j]
  BY <1>1 DEF Execute, TypeOK
<1>3. lce[req.j].state \in Decided => Effect(req, lce[req.j]) = lce[req.j]
  BY DEF Effect, AfterBegin, AfterStage, AfterPublish, AfterAbort, Decided, Requests
<1>4. Effect(req, lce[req.j]).state = "published" => Effect(req, lce[req.j]) = lce[req.j]
  BY <1>1 DEF Effect, AfterBegin, AfterStage, AfterPublish, AfterAbort, Unknown, Requests, Records
<1>5. SteadyRecord(req.j)
  BY <1>1, <1>2, <1>3, <1>4 DEF SteadyRecord, RequestOK
<1>6. ASSUME NEW j \in Job, j # req.j PROVE SteadyRecord(j)
  BY <1>2, <1>6 DEF SteadyRecord
<1> QED BY <1>5, <1>6 DEF SteadyCloud

Facts == \A h \in Handler : FrameFacts(handler'[h]) \/ FrameFacts(handler[h])'

\* A handler whose new frame is right moves; the others stay.
LEMMA FactsMoved ==
  ASSUME TypeOK, Content, NEW h \in Handler, NEW f, handler' = [handler EXCEPT ![h] = f], FrameFacts(f)
  PROVE  Facts
<1>1. handler'[h] = f /\ \A k \in Handler \ {h} : handler'[k] = handler[k]
  BY DEF TypeOK
<1> QED BY <1>1 DEF Facts, Content

\* A handler that returns, or that stays.
LEMMA FactsReturned ==
  ASSUME TypeOK, Content, NEW h \in Handler, Return(h) \/ handler' = handler
  PROVE  Facts
<1>0. Idle.op = "none" /\ Idle.j = NoJob
  BY DEF Idle
<1>1. FrameFacts(Idle)
  BY <1>0, IndexJobAssumption DEF FrameFacts
<1> QED BY <1>1, FactsMoved DEF Return, Facts, Content

\* A handler that goes on to a step with no more claims than the last.
LEMMA FactsGone ==
  ASSUME TypeOK, Content, NEW h \in Handler, NEW pc \in Steps, Goto(h, pc),
         \/ pc \notin {"mark", "stage", "staged", "handoff", "record", "finish"}
         \/ handler[h].op \in {"start", "fail"}
         \/ handler[h].op = "upload" /\ handler[h].pc = "mark" /\ pc = "stage"
         \/ handler[h].op \in {"complete", "reconcile"} /\ handler[h].pc = "record" /\ pc = "finish"
         \/ handler[h].op \in {"complete", "reconcile"} /\ handler[h].rev > 0 /\ pc = "finish"
  PROVE  Facts
<1> DEFINE g == handler[h]
           f == [g EXCEPT !.pc = pc]
<1>1. g \in Frames /\ FrameFacts(g)
  BY DEF TypeOK, Content
<1>2. /\ f.pc = pc /\ f.op = g.op /\ f.j = g.j /\ f.batch = g.batch /\ f.gone = g.gone
      /\ f.pre = g.pre /\ f.rev = g.rev
  BY <1>1 DEF Frames
<1>3. handler' = [handler EXCEPT ![h] = f]
  BY DEF Goto
<1>4. FrameFacts(f)
  <2> HIDE DEF f
  <2>1. f.op = "upload" /\ pc \in {"mark", "stage", "staged"} /\ Running(f.j) =>
          Uploaded(f, job[f.j], lce[f.j])
    BY <1>1, <1>2 DEF FrameFacts, Uploaded
  <2>2. f.op \in {"complete", "reconcile"} =>
          /\ pc # "handoff"
          /\ f.rev > 0 \/ pc \in {"record", "finish"} => f.rev = lce[f.j].rev
          /\ f.pre > 0 => f.pre = lce[f.j].rev
    BY <1>1, <1>2 DEF FrameFacts
  <2> QED BY <1>1, <1>2, <2>1, <2>2 DEF FrameFacts
<1> HIDE DEF f
<1> QED BY <1>3, <1>4, FactsMoved

\* A handler that has just taken its lease for a running job, or for none.
LEMMA FactsAcquired ==
  ASSUME TypeOK, Content, NEW h \in Handler, NEW op \in Ops, NEW j \in Job \cup {NoJob},
         NEW pc \in {"inspect", "prepare", "check", "revalidate"},
         Acquire(h, op, j, pc), j \in Job => Running(j)
  PROVE  Facts
<1> DEFINE f == [Idle EXCEPT !.op = op, !.j = j, !.pc = pc]
<1>1. f.op = op /\ f.j = j /\ f.pc = pc /\ f.rev = 0 /\ f.pre = 0
  BY DEF Idle
<1>2. handler' = [handler EXCEPT ![h] = f]
  BY DEF Acquire
<1> HIDE DEF f
<1>3. FrameFacts(f)
  BY <1>1, SMT DEF FrameFacts, Running
<1> QED BY <1>2, <1>3, FactsMoved
-----------------------------------------------------------------------------
(* The steps of the system, one operation at a time.                       *)

\* What is known before and after a step.
Before == IInv /\ IInv' /\ JobSteps /\ CountsOK /\ Content

\* A step that leaves LCE alone and sends nothing, or requests that fit.
LEMMA SilentStep ==
  ASSUME Before, QuietRelay, Facts, lce' = lce, root' = root, rootRev' = rootRev,
         \A req \in late' : req \in late \/ (req \in Requests /\ RequestOK(req))
  PROVE  Content'
BY QuietSteady, SteadySent, SteadyStep DEF Before, Content, Facts

\* A request whose job has a row: an abort and a publish fit any job.
LEMMA PlainRequests ==
  ASSUME NEW j \in Job, job[j].status # "none", NEW op \in {"publish", "abort"}
  PROVE  Request(op, j) \in Requests /\ RequestOK(Request(op, j))
<1>1. Request(op, j) \in Requests
  BY RowTypes
<1>2. Request(op, j).op = op /\ Request(op, j).j = j
  BY DEF Request
<1> QED BY <1>1, <1>2 DEF RequestOK, Fits

\* The begin request of a start fits its job.
LEMMA BeginFits ==
  ASSUME TypeOK, NEW j \in Job, job[j].status # "none"
  PROVE  BeginRequest(j) \in Requests /\ RequestOK(BeginRequest(j))
<1>1. BeginRequest(j) \in Requests
  BY RowTypes DEF BeginRequest
<1>2. /\ BeginRequest(j).op = IF job[j].full THEN "begin full" ELSE "begin"
      /\ BeginRequest(j).j = j
  BY DEF BeginRequest, Request
<1>3. Fits(BeginRequest(j), job[j])
  <2>1. CASE job[j].full
    <3>1. BeginRequest(j).op = "begin full"
      BY <1>2, <2>1
    <3> QED BY <2>1, <3>1 DEF Fits
  <2>2. CASE ~job[j].full
    <3>1. BeginRequest(j).op = "begin"
      BY <1>2, <2>2
    <3> QED BY <2>2, <3>1 DEF Fits
  <2> QED BY <2>1, <2>2
<1>4. job[BeginRequest(j).j] = job[j]
  BY <1>2
<1> QED BY <1>1, <1>3, <1>4 DEF RequestOK

\* The batch of an upload fits its job.
LEMMA StageFits ==
  ASSUME TypeOK, FrameOK, Content, NEW h \in Handler, At(h, "upload", "stage")
  PROVE  StageRequest(h) \in Requests /\ RequestOK(StageRequest(h))
<1> DEFINE j == handler[h].j
           req == StageRequest(h)
<1>1. req \in Requests
  BY StageType
<1>2. /\ req.op = "stage" /\ req.j = j /\ req.gone = handler[h].gone
      /\ req.staged = [f \in Path |-> IF f \in handler[h].batch THEN job[j].man[f] ELSE Absent]
  BY DEF StageRequest
<1>3. j \in Job /\ job[j].status # "none" /\ FrameFacts(handler[h])
  BY FrameJob DEF At, Content, FrameFacts
<1>4. ASSUME Running(j) PROVE Carries(job[j], req.staged, req.gone)
  <2>1. Uploaded(handler[h], job[j], lce[j])
    BY <1>3, <1>4 DEF FrameFacts, At
  <2> QED BY <1>2, <2>1 DEF Uploaded, Carries
<1> HIDE DEF req
<1> QED BY <1>1, <1>2, <1>3, <1>4 DEF RequestOK, Fits, req

\* The job of a busy handler has a row.
LEMMA FrameRow ==
  ASSUME FrameOK, Content, NEW h \in Handler, handler[h].op \in Ops,
         handler[h].op = "start" => handler[h].pc \notin {"inspect", "insert"}
  PROVE  handler[h].j \in Job /\ job[handler[h].j].status # "none"
<1>1. handler[h].j \in Job
  BY FrameJob DEF Ops
<1> QED BY <1>1 DEF Content, FrameFacts

\* The steps of a start, its insertion excepted.
LEMMA StartContent ==
  ASSUME Before, NEW h \in Handler, Start(h), ~StartInsert(h)
  PROVE  Content'
<1>0. TypeOK /\ FrameOK /\ Content
  BY DEF Before, IInv
<1>q. QuietRelay
  BY <1>0, QuietHandlers DEF QuietStep
<1>1. CASE StartAcquire(h)
  <2>1. Facts
    BY <1>0, <1>1, FactsAcquired, IndexJobAssumption DEF StartAcquire, Ops
  <2> QED BY <1>1, <1>q, <2>1, SilentStep DEF StartAcquire, Acquire, lceVars
<1>2. CASE StartInspect(h)
  <2>1. Facts
    <3>1. Return(h) \/ Goto(h, "insert")
      BY <1>2 DEF StartInspect
    <3> QED BY <1>0, <3>1, FactsReturned, FactsGone DEF Steps
  <2>2. ASSUME NEW req \in late', req \notin late PROVE req \in Requests /\ RequestOK(req)
    <3>1. PICK j \in Job : Running(j) /\ req = Request("abort", j)
      BY <1>2, <2>2 DEF StartInspect
    <3>2. job[j].status # "none"
      BY <3>1 DEF Running
    <3> QED BY <3>1, <3>2, PlainRequests
  <2> QED BY <1>2, <1>q, <2>1, <2>2, SilentStep DEF StartInspect, lceVars
<1>3. CASE StartLimited(h) \/ StartReturns(h) \/ BeginFailed(h)
  BY <1>0, <1>3, <1>q, FactsReturned, SilentStep
     DEF StartLimited, StartReturns, BeginFailed, lceVars
<1>4. ASSUME handler[h].op = "start", handler[h].pc \in {"begin", "begun", "begin abort"}
      PROVE  handler[h].j \in Job /\ job[handler[h].j].status # "none"
  BY <1>0, <1>4, FrameRow DEF Ops
<1>5. CASE BeginErrs(h) \/ BeginAborts(h)
  <2>1. Facts
    BY <1>0, <1>5, FactsGone DEF BeginErrs, BeginAborts, Steps
  <2>2. handler[h].j \in Job /\ job[handler[h].j].status # "none"
    BY <1>4, <1>5 DEF BeginErrs, BeginAborts, At
  <2>3. \A req \in late' : req \in late \/ (req \in Requests /\ RequestOK(req))
    <3>1. \/ late' = late \/ late' = late \cup {BeginRequest(handler[h].j)}
          \/ late' = late \cup {Request("abort", handler[h].j)}
      BY <1>5 DEF BeginErrs, BeginAborts
    <3>2. BeginRequest(handler[h].j) \in Requests /\ RequestOK(BeginRequest(handler[h].j))
      BY <1>0, <2>2, BeginFits
    <3>3. Request("abort", handler[h].j) \in Requests /\ RequestOK(Request("abort", handler[h].j))
      BY <2>2, PlainRequests
    <3> QED BY <3>1, <3>2, <3>3
  <2> QED BY <1>5, <1>q, <2>1, <2>3, SilentStep DEF BeginErrs, BeginAborts, lceVars
<1>6. CASE BeginReaches(h)
  <2>1. Facts
    BY <1>0, <1>6, FactsGone DEF BeginReaches, Steps
  <2>2. BeginRequest(handler[h].j) \in Requests /\ RequestOK(BeginRequest(handler[h].j))
    BY <1>0, <1>4, <1>6, BeginFits DEF BeginReaches, At
  <2>3. SteadyCloud
    BY <1>0, <1>6, <2>2, SteadyExecuted DEF BeginReaches
  <2> QED BY <1>q, <2>1, <2>3, QuietSteady, SteadyStep DEF Before, Content, Facts
<1> QED BY <1>1, <1>2, <1>3, <1>5, <1>6 DEF Start

\* A start inserts the diff of its manifest; nothing of the job is at LCE yet.
LEMMA InsertContent ==
  ASSUME Before, NEW h \in Handler, StartInsert(h)
  PROVE  Content'
<1>0. TypeOK /\ FrameOK /\ Content
  BY DEF Before, IInv
<1>1. UNCHANGED <<exists, snapshot, cloudRev, lce, root, rootRev, late>>
  BY <1>0, Inserts
<1>2. CASE job' = job /\ Return(h)
  <2>1. QuietRelay
    BY <1>0, <1>1, <1>2, QuietUnchanged DEF relayVars
  <2> QED BY <1>0, <1>1, <1>2, <2>1, FactsReturned, SilentStep
<1>3. ASSUME NEW man \in Manifests, NEW j \in Job, job[j].status = "none",
             job'[j] = NewRow(man), \A i \in Job \ {j} : job'[i] = job[i],
             handler'[h] = [handler[h] EXCEPT !.j = j, !.pc = "begin"],
             \A k \in Handler \ {h} : handler'[k] = handler[k]
      PROVE  Content'
  <2>1. /\ job'[j].status = "running" /\ job'[j].phase = "created" /\ job'[j].man = man
        /\ job'[j].need = Pending(snapshot, man) /\ job'[j].dels = (Deleted(snapshot, man) # {})
        /\ job'[j].full = ~exists /\ job'[j].indexed = {} /\ ~job'[j].delsSent /\ job'[j].rev = 0
    BY <1>3, NewFields, SMT
  <2>2. lce[j] = Unknown
    BY <1>0, <1>3 DEF Content, JobOK
  <2>3. StagedFor(job'[j], Unknown)
    <3>1. Unknown.staged = NoFiles /\ Unknown.gone = {} /\ Unknown.state = "unknown"
      BY DEF Unknown
    <3>2. \A f \in Path : NoFiles[f] = Absent
      BY DEF NoFiles
    <3>3. Carries(job'[j], Unknown.staged, Unknown.gone)
      BY <3>1, <3>2 DEF Carries
    <3>4. Holds(Unknown, job'[j], job'[j].indexed, SentDeletions(job'[j]))
      BY <2>1 DEF Holds, SentDeletions
    <3> QED BY <3>1, <3>3, <3>4 DEF StagedFor
  <2>4. JobOK(j)'
    <3>1. Diffed(job[j])'
      BY <1>1, <2>1 DEF Diffed, Dropped
    <3>2. StagedFor(job[j], lce[j])'
      BY <1>1, <2>2, <2>3 DEF StagedFor, Carries, SentDeletions, Dropped
    <3>3. lce'[j].state = "unknown" /\ ~Publishing(j)' /\ ~(job'[j].rev > 0)
          /\ job'[j].status # "none"
      BY <1>1, <2>1, <2>2, SMT DEF Unknown, Publishing
    <3> QED BY <3>1, <3>2, <3>3 DEF JobOK
  <2>5. ASSUME NEW i \in Job, i # j PROVE JobOK(i)'
    <3>1. JobOK(i) /\ job'[i] = job[i]
      BY <1>0, <1>3, <2>5 DEF Content
    <3> QED BY <1>1, <3>1
            DEF JobOK, Running, Publishing, AllSent, Diffed, Dropped, StagedFor, Carries, SentDeletions
  <2>6. ASSUME NEW req \in late' PROVE RequestOK(req)'
    <3>1. RequestOK(req) /\ req.j \in Job
      BY <1>0, <1>1 DEF Content, TypeOK, Requests
    <3>2. job'[req.j] = job[req.j]
      BY <1>3, <3>1 DEF RequestOK
    <3> QED BY <1>1, <3>1, <3>2 DEF RequestOK, Running, Fits, Carries, Dropped
  <2>7. ASSUME NEW k \in Handler, k # h PROVE FrameFacts(handler[k])'
    <3> DEFINE f == handler[k]
    <3>1. FrameFacts(f) /\ handler'[k] = f /\ (f.j \in Job => job'[f.j] = job[f.j])
      BY <1>0, <1>3, <2>7 DEF Content, FrameFacts
    <3>2. f.op \in {"upload", "complete", "reconcile"} => f.j \in Job
      BY <1>0, FrameJob
    <3> QED BY <1>1, <3>1, <3>2 DEF FrameFacts, Running, Uploaded, Dropped, AllSent
  <2>8. FrameFacts(handler[h])'
    <3>1. handler[h] \in Frames /\ handler[h].op = "start"
      BY <1>0 DEF TypeOK, StartInsert, At
    <3>2. handler'[h].op = "start" /\ handler'[h].j = j
      BY <1>3, <3>1 DEF Frames
    <3> QED BY <2>1, <3>2 DEF FrameFacts
  <2>9. SnapshotMatchesCloud'
    <3>1. ASSUME NEW i \in Job, Publishing(i) PROVE Publishing(i)'
      BY <1>3, <3>1 DEF Publishing, Running
    <3> QED BY <1>0, <1>1, <3>1 DEF SnapshotMatchesCloud, Content
  <2> QED BY <1>0, <1>1, <2>4, <2>5, <2>6, <2>7, <2>8, <2>9 DEF Content
<1>4. CASE ~(job' = job /\ Return(h))
  <2>1. PICK man \in Manifests, j \in Job :
          /\ job[j].status = "none"
          /\ job'[j] = NewRow(man) /\ \A i \in Job \ {j} : job'[i] = job[i]
          /\ handler'[h] = [handler[h] EXCEPT !.j = j, !.pc = "begin"]
          /\ \A k \in Handler \ {h} : handler'[k] = handler[k]
    BY <1>0, <1>4, Inserts
  <2> QED BY <1>3, <2>1
<1> QED BY <1>2, <1>4

\* A committed batch: LCE staged it before.
LEMMA CommitContent ==
  ASSUME Before, NEW h \in Handler, UploadCommit(h)
  PROVE  Content'
<1>0. TypeOK /\ FrameOK /\ Content /\ CountsOK
  BY DEF Before, IInv
<1>j. PICK j \in Job : handler[h].j = j
  BY <1>0, Commits
<1> DEFINE batch == handler[h].batch
           gone == handler[h].gone
           r == job[j]
           s == job'[j]
<1>1. /\ UNCHANGED <<exists, snapshot, cloudRev, lce, root, rootRev, late>> /\ Return(h)
      /\ handler[h].op = "upload" /\ handler[h].pc = "staged"
  BY <1>0, Commits
<1>2. CASE job' = job
  <2>1. QuietRelay
    BY <1>0, <1>1, <1>2, QuietUnchanged DEF relayVars
  <2> QED BY <1>0, <1>1, <2>1, FactsReturned, SilentStep
<1>3. CASE /\ Running(j) /\ batch \subseteq r.need \ r.indexed
           /\ s = Committed(r, batch, gone)
           /\ \A i \in Job \ {j} : job'[i] = job[i]
  <2>1. r \in Rows /\ batch \in SUBSET Path
    BY <1>0, <1>1 DEF TypeOK, Frames
  <2>2. Adds(r, s, batch, gone)
    BY <1>3, <2>1, CommittedFields
  <2>3. Uploaded(handler[h], r, lce[j]) /\ JobOK(j)
    BY <1>0, <1>1, <1>3, <1>j DEF Content, FrameFacts
  <2>4. AllSent(r) => AllSent(s)
    <3> SUFFICES ASSUME AllSent(r) PROVE AllSent(s)
      OBVIOUS
    <3>1. Counted(r) /\ r.status = "running" /\ r.need \in SUBSET Path /\ r.count \in Nat
      BY <1>0, <1>1, <1>3, <2>1 DEF CountsOK, Running, Rows
    <3>2. IsFiniteSet(r.need) /\ r.indexed \in SUBSET r.need
      BY <3>1, ManifestAssumption, FS_Subset DEF Counted
    <3>3. Cardinality(r.need) = Cardinality(r.indexed)
      BY <3>1 DEF AllSent, Counted
    <3>4. batch = {}
      BY <1>3, <3>2, <3>3, FS_Subset
    <3>5. s.count = r.count
      BY <2>2, <3>1, <3>4, FS_EmptySet, SMT DEF Adds
    <3> QED BY <2>2, <3>5 DEF AllSent, Adds
  <2>5. ASSUME lce[j].state \notin Decided PROVE Holds(lce[j], s, s.indexed, SentDeletions(s))
    <3>1. Holds(lce[j], r, batch, gone) /\ Holds(lce[j], r, r.indexed, SentDeletions(r))
      BY <1>1, <1>3, <2>3, <2>5 DEF Uploaded, JobOK, StagedFor
    <3>2. SentDeletions(s) \subseteq SentDeletions(r) \cup gone
      BY <2>2, <2>3 DEF SentDeletions, Dropped, Uploaded, Adds
    <3> QED BY <2>2, <3>1, <3>2 DEF Holds, Adds
  <2>6. SteadyRow(j)
    <3>1. Running(j)' /\ ~Publishing(j)'
      BY <1>3, <2>2 DEF Running, Publishing, Adds
    <3> QED BY <1>3, <2>2, <2>3, <2>4, <2>5, <3>1 DEF SteadyRow, GrownRow, JobOK, Running, Adds
  <2>7. ASSUME NEW i \in Job, i # j PROVE SteadyRow(i)
    <3>1. job'[i] = job[i] /\ JobOK(i)
      BY <1>0, <1>3, <2>7 DEF Content
    <3> QED BY <3>1 DEF SteadyRow, GrownRow, JobOK, StagedFor, Running, Publishing
  <2>8. SteadyRelay
    BY <1>1, <2>6, <2>7 DEF SteadyRelay
  <2> QED BY <1>0, <1>1, <2>8, FactsReturned, SteadySent, SteadyStep DEF Before, Facts
<1> QED BY <1>0, <1>2, <1>3, <1>j, Commits

\* The other steps of an upload.
LEMMA UploadContent ==
  ASSUME Before, NEW h \in Handler, Upload(h), ~UploadCommit(h)
  PROVE  Content'
<1>0. TypeOK /\ FrameOK /\ Content /\ FrameOK'
  BY DEF Before, IInv
<1>q. QuietRelay
  BY <1>0, QuietHandlers DEF QuietStep
<1>1. ASSUME NEW j \in Job, UploadAcquire(h, j) PROVE Content'
  <2>1. Facts
    BY <1>0, <1>1, FactsAcquired DEF UploadAcquire, Ops
  <2> QED BY <1>1, <1>q, <2>1, SilentStep DEF UploadAcquire, Acquire, lceVars
<1>2. CASE UploadRefused(h)
  BY <1>0, <1>2, <1>q, FactsReturned, SilentStep DEF UploadRefused, lceVars
<1>3. CASE UploadMark(h)
  <2>1. Return(h) \/ (Goto(h, "stage") /\ handler[h].op = "upload" /\ handler[h].pc = "mark")
    BY <1>3 DEF UploadMark, At
  <2>2. Facts
    BY <1>0, <2>1, FactsReturned, FactsGone DEF Steps
  <2> QED BY <1>3, <1>q, <2>2, SilentStep DEF UploadMark, lceVars
<1>4. CASE UploadPrepare(h)
  <2>0. PICK j \in Job : handler[h].j = j
    BY <1>0, <1>4, FrameJob DEF UploadPrepare, At
  <2>1. CASE Return(h)
    BY <1>0, <1>4, <1>q, <2>1, FactsReturned, SilentStep DEF UploadPrepare, lceVars
  <2>2. ASSUME NEW batch \in SUBSET (job[j].need \ job[j].indexed), NEW gone, Running(j),
               gone = {} \/ gone = Dropped(job[j]),
               handler' = [handler EXCEPT ![h] = [handler[h] EXCEPT
                             !.pc = "mark", !.batch = batch, !.gone = gone]]
        PROVE  Content'
    <3> DEFINE f == [handler[h] EXCEPT !.pc = "mark", !.batch = batch, !.gone = gone]
    <3>1. handler[h] \in Frames /\ FrameFacts(handler[h]) /\ handler[h].op = "upload"
      BY <1>0, <1>4 DEF TypeOK, Content, UploadPrepare, At
    <3>2. /\ f.op = "upload" /\ f.pc = "mark" /\ f.j = j /\ f.batch = batch /\ f.gone = gone
      BY <2>0, <3>1 DEF Frames
    <3>3. handler' = [handler EXCEPT ![h] = f]
      BY <2>2
    <3> HIDE DEF f
    <3>4. Uploaded(f, job[f.j], lce[f.j])
      BY <2>2, <3>2 DEF Uploaded
    <3>5. FrameFacts(f)
      BY <2>0, <2>2, <3>1, <3>2, <3>4 DEF FrameFacts
    <3>6. Facts
      BY <1>0, <3>3, <3>5, FactsMoved
    <3> QED BY <1>4, <1>q, <3>6, SilentStep DEF UploadPrepare, lceVars
  <2> QED BY <1>4, <2>0, <2>1, <2>2 DEF UploadPrepare, Dropped
<1>5. CASE StageReaches(h)
  <2>1. At(h, "upload", "stage")
    BY <1>5 DEF StageReaches
  <2>2. StageRequest(h) \in Requests /\ RequestOK(StageRequest(h))
    BY <1>0, <2>1, StageFits
  <2>3. SteadyCloud
    BY <1>0, <1>5, <2>2, SteadyExecuted DEF StageReaches
  <2>4. PICK j \in Job : handler[h].j = j
    BY <1>0, <2>1, FrameJob DEF At
  <2>5. CASE Return(h)
    BY <1>0, <1>q, <2>3, <2>5, FactsReturned, QuietSteady, SteadyStep DEF Before, Content, Facts
  <2>6. CASE lce[j].state = "staging" /\ Goto(h, "staged")
    <3> DEFINE g == handler[h]
               f == [g EXCEPT !.pc = "staged"]
    <3>1. g \in Frames /\ FrameFacts(g) /\ g.op = "upload" /\ g.pc = "stage"
      BY <1>0, <2>1 DEF TypeOK, Content, At
    <3>2. f.op = "upload" /\ f.pc = "staged" /\ f.j = j /\ f.batch = g.batch /\ f.gone = g.gone
      BY <2>4, <3>1 DEF Frames
    <3>3. handler'[h] = f /\ \A k \in Handler \ {h} : handler'[k] = handler[k]
      BY <1>0, <2>6 DEF Goto, TypeOK
    <3> HIDE DEF f
    <3>4. ASSUME Running(j) PROVE Holds(lce'[j], job[j], g.batch, g.gone)
      <4>1. /\ lce[j] \in Records /\ g.batch \in SUBSET Path
            /\ lce'[j] = AfterStage(lce[j], StageRequest(h).staged, StageRequest(h).gone)
        BY <1>0, <1>5, <2>4, <3>1 DEF TypeOK, Frames, StageReaches, Execute, StageRequest, Effect
      <4>2. /\ StageRequest(h).gone = g.gone
            /\ StageRequest(h).staged =
                 [x \in Path |-> IF x \in g.batch THEN job[j].man[x] ELSE Absent]
        BY <2>4 DEF StageRequest
      <4>3. /\ lce'[j].gone = lce[j].gone \cup g.gone
            /\ lce'[j].staged = [x \in Path |-> IF StageRequest(h).staged[x] # Absent
                                                THEN StageRequest(h).staged[x] ELSE lce[j].staged[x]]
        BY <2>6, <4>1, <4>2 DEF AfterStage, Records
      <4>4. \A x \in g.batch : job[j].man[x] # Absent
        <5>1. Uploaded(g, job[j], lce[j]) /\ Diffed(job[j])
          BY <1>0, <2>4, <3>1, <3>4 DEF FrameFacts, Content, JobOK
        <5> QED BY <5>1 DEF Uploaded, Diffed, Pending, Listed
      <4> QED BY <4>1, <4>2, <4>3, <4>4 DEF Holds
    <3>5. FrameFacts(handler[h])'
      <4>1. ASSUME Running(j)'
            PROVE  /\ Running(j) /\ job'[j].man = job[j].man /\ job'[j].need = job[j].need
                   /\ snapshot' = snapshot
        BY <1>q, <4>1 DEF QuietRelay, QuietRow, KeptRow, SameFiles, Running
      <4>2. ASSUME Running(j)' PROVE Uploaded(f, job'[j], lce'[j])
        <5>1. Uploaded(g, job[j], lce[j]) /\ Holds(lce'[j], job[j], g.batch, g.gone)
          BY <2>4, <3>1, <3>4, <4>1, <4>2 DEF FrameFacts
        <5> QED BY <3>2, <4>1, <4>2, <5>1 DEF Uploaded, Holds, Dropped
      <4>3. job'[j].status # "none"
        BY <2>4, <3>1, RowsRemain DEF Before, FrameFacts
      <4>4. ASSUME Running(j)' PROVE Uploaded(handler[h], job[j], lce[j])'
        BY <3>3, <4>1, <4>2, <4>4 DEF Uploaded, Dropped
      <4> QED BY <3>2, <3>3, <4>3, <4>4 DEF FrameFacts
    <3>6. Facts
      BY <1>0, <3>3, <3>5 DEF Facts, Content
    <3> QED BY <1>q, <2>3, <3>6, QuietSteady, SteadyStep DEF Before, Content, Facts
  <2> QED BY <1>5, <2>4, <2>5, <2>6 DEF StageReaches
<1> QED BY <1>1, <1>2, <1>3, <1>4, <1>5 DEF Upload

\* A completion step that changes the row of its job, but ends no job.
LEMMA OneRowSteady ==
  ASSUME Content, NEW j \in Job, \A i \in Job \ {j} : job'[i] = job[i],
         KeptRow(job[j], job'[j]), Publishing(j)' => Publishing(j) \/ AllSent(job[j]),
         job'[j].rev > 0 => job'[j].rev = lce[j].rev,
         job'[j].status = "completed" => job[j].status = "completed",
         UNCHANGED <<exists, snapshot, cloudRev>>
  PROVE  SteadyRelay
<1> SUFFICES ASSUME NEW i \in Job PROVE SteadyRow(i)
  BY DEF SteadyRelay
<1>1. JobOK(i) /\ KeptRow(job[i], job'[i])
  BY DEF Content, KeptRow, SameFiles
<1>2. ASSUME Running(i)' PROVE Running(i) /\ SameFiles(job[i], job'[i])
  BY <1>1, <1>2 DEF KeptRow, Running
<1>3. ASSUME Running(i)', lce[i].state \notin Decided
      PROVE  Holds(lce[i], job'[i], job'[i].indexed, SentDeletions(job'[i]))
  <2>1. Holds(lce[i], job[i], job[i].indexed, SentDeletions(job[i]))
    BY <1>1, <1>2, <1>3 DEF JobOK, StagedFor
  <2> QED BY <1>2, <1>3, <2>1 DEF SameFiles, Holds, SentDeletions, Dropped
<1>4. GrownRow(i)
  BY <1>2, <1>3 DEF GrownRow, SameFiles, AllSent
<1>5. CASE i = j
  BY <1>4, <1>5 DEF SteadyRow
<1>6. CASE i # j
  BY <1>1, <1>4, <1>6 DEF SteadyRow, JobOK, Publishing, Running
<1> QED BY <1>5, <1>6

\* The intent to publish: all was sent when the completion checked, and still is.
LEMMA HandoffContent ==
  ASSUME Before, NEW h \in Handler, CompleteHandoff(h)
  PROVE  Content'
<1>0. TypeOK /\ FrameOK /\ Content
  BY DEF Before, IInv
<1>1. /\ handler[h].op \in {"complete", "reconcile"} /\ handler[h].pc = "handoff"
      /\ UNCHANGED <<exists, snapshot, cloudRev, lce, root, rootRev, late>>
  BY DEF CompleteHandoff, Completing, At, lceVars
<1>2. PICK j \in Job : handler[h].j = j
  BY <1>0, CompletionRows
<1>3. (\A i \in Job \ {j} : job'[i] = job[i]) /\ KeptRow(job[j], job'[j])
  BY <1>0, <1>2, CompletionRows
<1>4. job'[j].rev = job[j].rev /\ job'[j].status = job[j].status
  <2>1. job[j] \in Rows
    BY <1>0 DEF TypeOK
  <2>2. job'[j] = job[j] \/ job'[j] = [job[j] EXCEPT !.phase = "publishing", !.stale = FALSE]
    BY <1>0, <1>2 DEF CompleteHandoff, TypeOK
  <2> QED BY <2>1, <2>2 DEF Rows
<1>5. Publishing(j)' => AllSent(job[j])
  <2>1. Publishing(j)' => Running(j)
    BY <1>4 DEF Publishing, Running
  <2> QED BY <1>0, <1>1, <1>2, <2>1 DEF Content, FrameFacts
<1>6. SteadyRelay
  <2>1. JobOK(j)
    BY <1>0 DEF Content
  <2> QED BY <1>0, <1>1, <1>3, <1>4, <1>5, <2>1, OneRowSteady DEF JobOK
<1>7. Facts
  <2>1. handler[h].pre \in Nat /\ handler[h].rev \in Nat /\ FrameFacts(handler[h])
    BY <1>0 DEF TypeOK, Frames, Content
  <2>2. \/ Return(h) \/ Goto(h, "publish")
        \/ Goto(h, "finish") /\ handler[h].rev > 0
        \/ /\ handler[h].pre > 0
           /\ handler' = [handler EXCEPT ![h] = [@ EXCEPT !.pc = "finish", !.rev = handler[h].pre]]
    <3>1. CASE ~Running(handler[h].j)
      BY <3>1 DEF CompleteHandoff
    <3>2. CASE Running(handler[h].j)
      <4>1. CASE handler[h].rev > 0
        BY <3>2, <4>1 DEF CompleteHandoff
      <4>2. CASE handler[h].rev = 0 /\ handler[h].pre > 0
        BY <3>2, <4>2 DEF CompleteHandoff
      <4>3. CASE handler[h].rev = 0 /\ handler[h].pre = 0
        BY <3>2, <4>3 DEF CompleteHandoff
      <4> QED BY <2>1, <4>1, <4>2, <4>3, SMT
    <3> QED BY <3>1, <3>2
  <2>3. ASSUME handler[h].pre > 0,
               handler' = [handler EXCEPT ![h] = [@ EXCEPT !.pc = "finish", !.rev = handler[h].pre]]
        PROVE  Facts
    <3> DEFINE g == handler[h]
               f == [g EXCEPT !.pc = "finish", !.rev = g.pre]
    <3>1. f.op = g.op /\ f.j = g.j /\ f.pc = "finish" /\ f.rev = g.pre /\ f.pre = g.pre
      <4>1. g \in Frames
        BY <1>0 DEF TypeOK
      <4> QED BY <4>1 DEF Frames
    <3>2. handler' = [handler EXCEPT ![h] = f]
      BY <2>3
    <3> HIDE DEF f
    <3>3. FrameFacts(f)
      BY <1>1, <2>1, <2>3, <3>1 DEF FrameFacts
    <3> QED BY <1>0, <3>2, <3>3, FactsMoved
  <2> QED BY <1>0, <1>1, <2>2, <2>3, FactsReturned, FactsGone DEF Steps
<1> QED BY <1>1, <1>6, <1>7, SteadySent, SteadyStep DEF Before, Facts

\* The revision that is recorded is the one LCE reported.
LEMMA RecordContent ==
  ASSUME Before, NEW h \in Handler, CompleteRecord(h)
  PROVE  Content'
<1>0. TypeOK /\ FrameOK /\ Content
  BY DEF Before, IInv
<1>1. /\ handler[h].op \in {"complete", "reconcile"} /\ handler[h].pc = "record" /\ Goto(h, "finish")
      /\ UNCHANGED <<exists, snapshot, cloudRev, lce, root, rootRev, late>>
  BY DEF CompleteRecord, Completing, At, lceVars
<1>2. PICK j \in Job : handler[h].j = j
  BY <1>0, CompletionRows
<1>3. (\A i \in Job \ {j} : job'[i] = job[i]) /\ KeptRow(job[j], job'[j])
  BY <1>0, <1>2, CompletionRows
<1>4. /\ job'[j].rev = job[j].rev \/ job'[j].rev = handler[h].rev
      /\ job'[j].status = job[j].status /\ job'[j].phase = job[j].phase
  <2>1. job[j] \in Rows
    BY <1>0 DEF TypeOK
  <2>2. job'[j] = job[j] \/ job'[j] = [job[j] EXCEPT !.rev = handler[h].rev]
    BY <1>0, <1>2 DEF CompleteRecord, TypeOK
  <2> QED BY <2>1, <2>2 DEF Rows
<1>5. handler[h].rev = lce[j].rev
  BY <1>0, <1>1, <1>2 DEF Content, FrameFacts
<1>6. SteadyRelay
  <2>1. JobOK(j)
    BY <1>0 DEF Content
  <2> QED BY <1>0, <1>1, <1>3, <1>4, <1>5, <2>1, OneRowSteady DEF JobOK, Publishing, Running
<1>7. Facts
  BY <1>0, <1>1, FactsGone DEF Steps
<1> QED BY <1>1, <1>6, <1>7, SteadySent, SteadyStep DEF Before, Facts

\* The last transaction: the manifest becomes the snapshot, and the cloud's root
\* is that manifest under that revision.
LEMMA FinishContent ==
  ASSUME Before, NEW h \in Handler, CompleteFinish(h)
  PROVE  Content'
<1>0. TypeOK /\ FrameOK /\ FrameOK' /\ Content /\ JobSteps /\ OneRunning /\ FrameCloud(handler[h])
  BY DEF Before, IInv, Inv, HandlersOK
<1>1. /\ handler[h].op \in {"complete", "reconcile"} /\ handler[h].pc = "finish" /\ Return(h)
      /\ UNCHANGED <<lce, root, rootRev, late>>
  BY DEF CompleteFinish, Completing, At, lceVars
<1>2. PICK j \in Job : handler[h].j = j
  BY <1>0, CompletionRows
<1>3. \A i \in Job \ {j} : job'[i] = job[i]
  BY <1>0, <1>2, CompletionRows
<1>4. CASE UNCHANGED relayVars
  <2>1. QuietRelay
    BY <1>0, <1>4, QuietUnchanged
  <2> QED BY <1>0, <1>1, <2>1, FactsReturned, SilentStep
<1>5. ASSUME Running(j), snapshot' = job[j].man, exists' = TRUE, cloudRev' = handler[h].rev,
             job' = [job EXCEPT ![j] = [Ended(job[j], "completed") EXCEPT !.rev = handler[h].rev]]
      PROVE  Content'
  <2>1. job'[j].status = "completed" /\ job'[j].rev = handler[h].rev
    <3>1. job[j] \in Rows /\ job'[j] = [Ended(job[j], "completed") EXCEPT !.rev = handler[h].rev]
      BY <1>0, <1>5 DEF TypeOK
    <3> QED BY <3>1 DEF Rows, Ended
  <2>2. /\ lce[j].state = "published" /\ handler[h].rev = lce[j].rev
        /\ root = job[j].man /\ rootRev = lce[j].rev
    BY <1>0, <1>1, <1>2, <1>5 DEF FrameCloud, Content, FrameFacts, JobOK
  <2>3. \A i \in Job : ~Running(i)'
    <3>1. \A i \in Job \ {j} : ~Running(i)
      BY <1>0, <1>5 DEF OneRunning
    <3> QED BY <1>3, <2>1, <3>1 DEF Running
  <2>4. ASSUME NEW i \in Job PROVE JobOK(i)'
    <3>1. JobOK(i)
      BY <1>0 DEF Content
    <3>2. job'[i].rev > 0 => job'[i].rev = lce'[i].rev
      BY <1>1, <1>3, <2>1, <2>2, <3>1 DEF JobOK
    <3>3. job'[i].status = "none" => lce'[i] = Unknown
      BY <1>1, <1>3, <2>1, <3>1 DEF JobOK
    <3> QED BY <2>3, <3>2, <3>3 DEF JobOK, Publishing
  <2>5. ASSUME NEW req \in late' PROVE RequestOK(req)'
    <3>1. req.j \in Job /\ job[req.j].status # "none"
      BY <1>0, <1>1 DEF TypeOK, Requests, Content, RequestOK
    <3>2. job'[req.j].status # "none"
      BY <1>0, <3>1, RowsRemain
    <3> QED BY <2>3, <3>1, <3>2 DEF RequestOK
  <2>6. ASSUME NEW k \in Handler PROVE FrameFacts(handler[k])'
    <3> DEFINE f == handler'[k]
    <3>1. FrameFacts(f)
      <4>2. f = Idle \/ f = handler[k]
        BY <1>0, <1>1 DEF Return, TypeOK
      <4>3. Idle.op = "none" /\ Idle.j = NoJob
        BY DEF Idle
      <4>4. FrameFacts(Idle)
        BY <4>3, IndexJobAssumption DEF FrameFacts
      <4> QED BY <1>0, <4>2, <4>4 DEF Content
    <3>2. f.j \in Job => job'[f.j].status # "none"
      BY <1>0, <3>1, RowsRemain DEF FrameFacts
    <3>3. f.op = "upload" => f.j \in Job
      BY <1>0 DEF FrameOK, Shape, Ops
    <3>5. f.op \in {"complete", "reconcile"} => f.j \in Job
      BY <1>0 DEF FrameOK, Shape, Ops
    <3>6. f.op \in {"complete", "reconcile"} => ~(job'[f.j].status = "running")
      BY <2>3, <3>5 DEF Running
    <3>7. f.op = "upload" => ~(job'[f.j].status = "running")
      BY <2>3, <3>3 DEF Running
    <3> QED BY <1>1, <3>1, <3>2, <3>6, <3>7 DEF FrameFacts, Running
  <2>7. SnapshotMatchesCloud'
    BY <1>1, <1>5, <2>2 DEF SnapshotMatchesCloud
  <2> QED BY <1>5, <2>4, <2>5, <2>6, <2>7 DEF Content
<1> QED BY <1>2, <1>4, <1>5 DEF CompleteFinish

\* A handler that learns the revision from LCE.
LEMMA FactsLearned ==
  ASSUME TypeOK, FrameOK, Content, NEW h \in Handler, handler[h].op \in {"complete", "reconcile"},
         NEW pc \in {"check", "record"},
         handler' = [handler EXCEPT ![h] = [@ EXCEPT !.pc = pc, !.rev = lce[handler[h].j].rev]]
  PROVE  Facts
<1> DEFINE g == handler[h]
           f == [g EXCEPT !.pc = pc, !.rev = lce[g.j].rev]
<1>1. g \in Frames /\ FrameFacts(g)
  BY DEF TypeOK, Content
<1>2. f.op = g.op /\ f.j = g.j /\ f.pc = pc /\ f.pre = g.pre /\ f.rev = lce[g.j].rev
  BY <1>1 DEF Frames
<1>3. handler' = [handler EXCEPT ![h] = f]
  OBVIOUS
<1> HIDE DEF f
<1>4. FrameFacts(f)
  BY <1>1, <1>2 DEF FrameFacts
<1> QED BY <1>3, <1>4, FactsMoved

\* The other steps of a completion.
LEMMA CompleteContent ==
  ASSUME Before, NEW h \in Handler, Complete(h), ~CompleteHandoff(h), ~CompleteRecord(h),
         ~CompleteFinish(h)
  PROVE  Content'
<1>0. TypeOK /\ FrameOK /\ Content
  BY DEF Before, IInv
<1>q. QuietRelay
  BY <1>0, QuietHandlers DEF QuietStep
<1>1. ASSUME NEW j \in Job, CompleteAcquire(h, j) PROVE Content'
  <2>1. Facts
    BY <1>0, <1>1, FactsAcquired DEF CompleteAcquire, Ops
  <2> QED BY <1>1, <1>q, <2>1, SilentStep DEF CompleteAcquire, Acquire, lceVars
<1>2. CASE CompleteCheck(h)
  <2>1. CASE Return(h)
    BY <1>0, <1>2, <1>q, <2>1, FactsReturned, SilentStep DEF CompleteCheck, lceVars
  <2>2. PICK j \in Job : handler[h].j = j
    BY <1>0, <1>2, FrameJob DEF CompleteCheck, Completing, At
  <2>3. CASE /\ AllSent(job[j])
             /\ handler' = [handler EXCEPT ![h] = [@ EXCEPT !.pc = "handoff", !.pre = job[j].rev]]
    <3> DEFINE g == handler[h]
               f == [g EXCEPT !.pc = "handoff", !.pre = job[j].rev]
    <3>1. g \in Frames /\ FrameFacts(g) /\ g.op \in {"complete", "reconcile"} /\ g.j = j /\ JobOK(j)
      BY <1>0, <1>2, <2>2 DEF TypeOK, Content, CompleteCheck, Completing, At
    <3>2. f.op = g.op /\ f.j = j /\ f.pc = "handoff" /\ f.rev = g.rev /\ f.pre = job[j].rev
      BY <3>1 DEF Frames
    <3>3. handler' = [handler EXCEPT ![h] = f]
      BY <2>3
    <3> HIDE DEF f
    <3>4. FrameFacts(f)
      BY <2>3, <3>1, <3>2 DEF FrameFacts, JobOK
    <3>5. Facts
      BY <1>0, <3>3, <3>4, FactsMoved
    <3> QED BY <1>2, <1>q, <3>5, SilentStep DEF CompleteCheck, lceVars
  <2> QED BY <1>2, <2>1, <2>2, <2>3 DEF CompleteCheck
<1>3. CASE PublishReaches(h)
  <2>1. Facts
    BY <1>0, <1>3, FactsGone DEF PublishReaches, Steps
  <2>2. handler[h].j \in Job /\ job[handler[h].j].status # "none"
    BY <1>0, <1>3, FrameRow DEF PublishReaches, Completing, At, Ops
  <2>3. Request("publish", handler[h].j) \in Requests /\ RequestOK(Request("publish", handler[h].j))
    BY <2>2, PlainRequests
  <2>4. SteadyCloud
    BY <1>0, <1>3, <2>3, SteadyExecuted DEF PublishReaches
  <2> QED BY <1>q, <2>1, <2>4, QuietSteady, SteadyStep DEF Before, Content, Facts
<1>4. CASE PublishReplies(h)
  <2>1. \/ Return(h) \/ Goto(h, "failed")
        \/ handler' = [handler EXCEPT ![h] = [@ EXCEPT !.pc = "record", !.rev = lce[handler[h].j].rev]]
    BY <1>4 DEF PublishReplies
  <2>2. handler[h].op \in {"complete", "reconcile"}
    BY <1>4 DEF PublishReplies, Completing, At
  <2>3. Facts
    BY <1>0, <2>1, <2>2, FactsReturned, FactsGone, FactsLearned DEF Steps
  <2> QED BY <1>4, <1>q, <2>3, SilentStep DEF PublishReplies, lceVars
<1>5. CASE FinishFailed(h)
  BY <1>0, <1>5, <1>q, FactsReturned, SilentStep DEF FinishFailed, lceVars
<1> QED BY <1>1, <1>2, <1>3, <1>4, <1>5 DEF Complete

\* The steps of a fail and of a reconciliation.
LEMMA ReconcileContent ==
  ASSUME Before, NEW h \in Handler, Fail(h) \/ Reconcile(h)
  PROVE  Content'
<1>0. TypeOK /\ FrameOK /\ Content
  BY DEF Before, IInv
<1>q. QuietRelay
  BY <1>0, QuietHandlers DEF QuietStep
<1>1. ASSUME NEW j \in Job, FailAcquire(h, j) \/ ReconcileAcquire(h, j) PROVE Content'
  <2>1. Facts
    BY <1>0, <1>1, FactsAcquired DEF FailAcquire, ReconcileAcquire, Ops
  <2> QED BY <1>1, <1>q, <2>1, SilentStep DEF FailAcquire, ReconcileAcquire, Acquire, lceVars
<1>2. CASE FailCheck(h)
  <2>1. Return(h) \/ (Goto(h, "mark") /\ handler[h].op = "fail")
    BY <1>2 DEF FailCheck, At
  <2>2. Facts
    BY <1>0, <2>1, FactsReturned, FactsGone DEF Steps
  <2> QED BY <1>2, <1>q, <2>2, SilentStep DEF FailCheck, lceVars
<1>3. CASE FailMark(h)
  <2>1. handler[h].j \in Job /\ job[handler[h].j].status # "none"
    BY <1>0, <1>3, FrameRow DEF FailMark, At, Ops
  <2>2. Request("abort", handler[h].j) \in Requests /\ RequestOK(Request("abort", handler[h].j))
    BY <2>1, PlainRequests
  <2>3. \A req \in late' : req \in late \/ (req \in Requests /\ RequestOK(req))
    BY <1>3, <2>2 DEF FailMark
  <2>4. Facts
    BY <1>0, <1>3, FactsReturned DEF FailMark
  <2> QED BY <1>3, <1>q, <2>3, <2>4, SilentStep DEF FailMark, lceVars
<1>4. CASE ReconcileRevalidate(h) \/ ReconcileStatusErrs(h)
  <2>1. Return(h) \/ Goto(h, "status") \/ Goto(h, "abort")
    BY <1>4 DEF ReconcileRevalidate, ReconcileStatusErrs
  <2>2. Facts
    BY <1>0, <2>1, FactsReturned, FactsGone DEF Steps
  <2> QED BY <1>4, <1>q, <2>2, SilentStep DEF ReconcileRevalidate, ReconcileStatusErrs, lceVars
<1>5. CASE ReconcileStatus(h)
  <2>1. \/ Return(h) \/ Goto(h, "failed") \/ Goto(h, "abort") \/ Goto(h, "check")
        \/ handler' = [handler EXCEPT ![h] = [@ EXCEPT !.pc = "check", !.rev = lce[handler[h].j].rev]]
    BY <1>5 DEF ReconcileStatus
  <2>2. handler[h].op \in {"complete", "reconcile"}
    BY <1>5 DEF ReconcileStatus, At
  <2>3. Facts
    BY <1>0, <2>1, <2>2, FactsReturned, FactsGone, FactsLearned DEF Steps
  <2> QED BY <1>5, <1>q, <2>3, SilentStep DEF ReconcileStatus, lceVars
<1>6. CASE ReconcileAbort(h)
  <2>1. Return(h) \/ Goto(h, "failed")
    BY <1>6 DEF ReconcileAbort
  <2>2. Facts
    BY <1>0, <2>1, FactsReturned, FactsGone DEF Steps
  <2>3. handler[h].j \in Job /\ job[handler[h].j].status # "none"
    BY <1>0, <1>6, FrameRow DEF ReconcileAbort, At, Ops
  <2>4. Request("abort", handler[h].j) \in Requests /\ RequestOK(Request("abort", handler[h].j))
    BY <2>3, PlainRequests
  <2>5. SteadyCloud
    BY <1>0, <1>6, <2>4, SteadyExecuted DEF ReconcileAbort
  <2> QED BY <1>q, <2>2, <2>5, QuietSteady, SteadyStep DEF Before, Content, Facts
<1> QED BY <1>1, <1>2, <1>3, <1>4, <1>5, <1>6 DEF Fail, Reconcile

\* A handler stops; the request it was waiting for may still arrive.
LEMMA StopContent ==
  ASSUME Before, NEW h \in Handler, HandlerStops(h)
  PROVE  Content'
<1>0. TypeOK /\ FrameOK /\ Content
  BY DEF Before, IInv
<1>1. QuietRelay
  BY <1>0, QuietHandlers DEF QuietStep
<1>2. Facts
  BY <1>0, FactsReturned DEF HandlerStops
<1>3. ASSUME NEW req \in Outstanding(h) PROVE req \in Requests /\ RequestOK(req)
  <2> DEFINE j == handler[h].j
  <2>1. CASE At(h, "start", "begin")
    <3>1. j \in Job /\ job[j].status # "none"
      BY <1>0, <2>1, FrameRow DEF At, Ops
    <3>2. req = BeginRequest(j)
      BY <1>3, <2>1 DEF Outstanding, At, Completing
    <3> QED BY <1>0, <3>1, <3>2, BeginFits
  <2>2. CASE At(h, "upload", "stage")
    <3>1. req = StageRequest(h)
      BY <1>3, <2>2 DEF Outstanding, At, Completing
    <3> QED BY <1>0, <2>2, <3>1, StageFits
  <2>3. CASE \/ Completing(h, "publish") \/ At(h, "start", "begin abort")
             \/ At(h, "reconcile", "abort")
    <3>1. j \in Job /\ job[j].status # "none"
      BY <1>0, <2>3, FrameRow DEF Completing, At, Ops
    <3>2. \E op \in {"publish", "abort"} : req = Request(op, j)
      BY <1>3, <2>3 DEF Outstanding, At, Completing
    <3> QED BY <3>1, <3>2, PlainRequests
  <2> QED BY <1>3, <2>1, <2>2, <2>3 DEF Outstanding
<1>4. \A req \in late' : req \in late \/ (req \in Requests /\ RequestOK(req))
  BY <1>3 DEF HandlerStops
<1> QED BY <1>1, <1>2, <1>4, SilentStep DEF HandlerStops, lceVars

\* Heartbeats, sweeps and the clock.
LEMMA OtherContent ==
  ASSUME Before, Sweep \/ Clock \/ \E j \in Job : HeartbeatJob(j)
  PROVE  Content'
<1>0. TypeOK /\ FrameOK /\ Content
  BY DEF Before, IInv
<1>1. QuietRelay /\ handler' = handler
  BY <1>0, QuietOthers
<1>2. Facts
  BY <1>0, <1>1 DEF Facts, Content
<1>3. ASSUME NEW req \in late', req \notin late PROVE req \in Requests /\ RequestOK(req)
  <2>1. PICK j \in Job : Running(j) /\ req = Request("abort", j)
    BY <1>3 DEF Sweep, Clock, HeartbeatAges, PublicationAges, HeartbeatJob
  <2>2. job[j].status # "none"
    BY <2>1 DEF Running
  <2> QED BY <2>1, <2>2, PlainRequests
<1>4. lce' = lce /\ root' = root /\ rootRev' = rootRev
  BY DEF Sweep, Clock, HeartbeatAges, PublicationAges, HeartbeatJob, lceVars
<1> QED BY <1>1, <1>2, <1>3, <1>4, SilentStep

\* LCE publishes: all was sent before the handoff, so the root becomes the job's
\* manifest, and the job waits for its last transaction.
LEMMA PublishContent ==
  ASSUME Before, NEW j \in Job, CloudPublishes(j)
  PROVE  Content'
<1>0. /\ TypeOK /\ FrameOK /\ CountsOK /\ Content
      /\ OneRunning /\ CloudOK /\ HandlersOK
  BY DEF Before, IInv, Inv
<1>1. /\ lce[j].state = "queued" /\ UNCHANGED <<job, exists, snapshot, cloudRev, handler, late>>
      /\ root' = Overlay(root, lce[j].staged, lce[j].gone, lce[j].full) /\ rootRev' = rootRev + 1
  BY DEF CloudPublishes, relayVars
<1>2. /\ lce'[j].state = "published" /\ lce'[j].rev = rootRev'
      /\ \A i \in Job \ {j} : lce'[i] = lce[i]
  BY <1>0, <1>1 DEF CloudPublishes, TypeOK, Unknown
<1>3. Publishing(j) /\ Running(j) /\ JobOK(j) /\ Counted(job[j])
  BY <1>0, <1>1 DEF CloudOK, Publishing, Content, CountsOK
<1>4. \A i \in Job \ {j} : ~Running(i)
  BY <1>0, <1>3 DEF OneRunning
<1>5. root' = job[j].man
  <2>1. job[j] \in Rows /\ lce[j] \in Records
    BY <1>0 DEF TypeOK
  <2>2. /\ Diffed(job[j]) /\ AllSent(job[j]) /\ job[j].status = "running"
        /\ StagedFor(job[j], lce[j]) /\ lce[j].full = job[j].full
    BY <1>1, <1>3 DEF JobOK, Decided, StagedFor, Running
  <2>3. exists => root = snapshot
    BY <1>0, <1>1, <1>4 DEF Content, SnapshotMatchesCloud, Publishing
  <2>4. ~exists => snapshot = NoFiles
    BY <1>0 DEF Content
  <2> QED BY <1>0, <1>1, <1>3, <2>1, <2>2, <2>3, <2>4, PublishesManifest
<1>6. ASSUME NEW i \in Job PROVE JobOK(i)'
  <2>1. CASE i = j
    <3>1. ~(job[j].rev > 0)
      BY <1>0, <1>1 DEF CloudOK
    <3>2. Diffed(job[j])'
      BY <1>1, <1>3 DEF JobOK, Diffed, Dropped
    <3>3. AllSent(job[j])'
      BY <1>1, <1>3 DEF JobOK, AllSent
    <3>4. job'[j].status # "none"
      BY <1>1, <1>3 DEF Running
    <3> QED BY <1>1, <1>2, <1>5, <2>1, <3>1, <3>2, <3>3, <3>4 DEF JobOK, Decided
  <2>2. CASE i # j
    <3>1. JobOK(i) /\ ~Running(i) /\ lce'[i] = lce[i]
      BY <1>0, <1>2, <1>4, <2>2 DEF Content
    <3> QED BY <1>1, <3>1 DEF JobOK, Publishing, Running
  <2> QED BY <2>1, <2>2
<1>7. ASSUME NEW req \in late' PROVE RequestOK(req)'
  <2>1. RequestOK(req)
    BY <1>0, <1>1 DEF Content
  <2> QED BY <1>1, <2>1 DEF RequestOK, Running, Fits, Carries, Dropped
<1>8. ASSUME NEW h \in Handler PROVE FrameFacts(handler[h])'
  <2> DEFINE f == handler[h]
  <2>1. FrameFacts(f) /\ FrameCloud(f) /\ Shape(f)
    BY <1>0 DEF Content, HandlersOK, FrameOK
  <2>2. ASSUME f.op = "upload", f.pc \in {"mark", "stage", "staged"}, Running(f.j)
        PROVE  Uploaded(f, job[f.j], lce[f.j])'
    <3>1. f.j \in Job /\ Uploaded(f, job[f.j], lce[f.j])
      BY <2>1, <2>2 DEF FrameFacts, Shape, Ops
    <3>2. lce'[f.j].state \notin Decided => lce'[f.j] = lce[f.j]
      BY <1>2, <3>1 DEF Decided
    <3> QED BY <1>1, <3>1, <3>2 DEF Uploaded, Holds, Dropped
  <2>3. ASSUME f.op \in {"complete", "reconcile"}
        PROVE  /\ f.rev > 0 \/ f.pc \in {"record", "finish"} => f.rev = lce'[f.j].rev
               /\ f.pre > 0 => f.pre = lce'[f.j].rev
    <3>1. f.j \in Job
      BY <2>1, <2>3 DEF Shape, Ops
    <3>2. f.rev > 0 \/ f.pre > 0 \/ f.pc \in {"record", "finish"} => lce'[f.j] = lce[f.j]
      BY <1>1, <1>2, <2>1, <2>3, <3>1 DEF FrameCloud
    <3> QED BY <2>1, <2>3, <3>2 DEF FrameFacts
  <2> QED BY <1>1, <2>1, <2>2, <2>3 DEF FrameFacts, Running, AllSent
<1>9. SnapshotMatchesCloud'
  BY <1>1, <1>2, <1>3 DEF SnapshotMatchesCloud, Publishing, Running
<1> QED BY <1>0, <1>1, <1>6, <1>7, <1>8, <1>9 DEF Content

\* LCE's other steps.
LEMMA CloudContent ==
  ASSUME Before, Cloud
  PROVE  Content'
<1>0. TypeOK /\ FrameOK /\ Content
  BY DEF Before, IInv
<1>1. QuietRelay /\ handler' = handler
  BY <1>0, QuietOthers
<1>2. Facts
  BY <1>0, <1>1 DEF Facts, Content
<1>3. ASSUME SteadyCloud PROVE Content'
  BY <1>1, <1>2, <1>3, QuietSteady, SteadyStep DEF Before, Content, Facts
<1>4. CASE LateArrival
  <2>1. PICK req \in late : Execute(req) /\ late' = late \ {req} /\ root' = root /\ rootRev' = rootRev
    BY <1>4 DEF LateArrival
  <2>2. req \in Requests /\ RequestOK(req) /\ late' \subseteq late
    BY <1>0, <2>1 DEF TypeOK, Content
  <2> QED BY <1>0, <1>3, <2>1, <2>2, SteadyExecuted
<1>5. ASSUME NEW j \in Job, CloudFails(j) PROVE Content'
  <2>1. /\ lce[j].state \in {"staging", "queued"} /\ lce'[j].state = "failed"
        /\ \A i \in Job \ {j} : lce'[i] = lce[i]
        /\ root' = root /\ rootRev' = rootRev /\ late' = late
    BY <1>0, <1>5 DEF CloudFails, TypeOK, Unknown
  <2>2. job[j].status # "none"
    <3>1. JobOK(j) /\ Unknown.state = "unknown"
      BY <1>0 DEF Content, Unknown
    <3> QED BY <2>1, <3>1 DEF JobOK
  <2>3. SteadyRecord(j)
    BY <2>1, <2>2 DEF SteadyRecord, Decided
  <2>4. ASSUME NEW i \in Job, i # j PROVE SteadyRecord(i)
    BY <2>1, <2>4 DEF SteadyRecord
  <2>5. SteadyCloud
    BY <2>1, <2>3, <2>4 DEF SteadyCloud
  <2> QED BY <1>3, <2>5
<1> QED BY <1>4, <1>5, PublishContent DEF Cloud

\* Every step keeps the content.
LEMMA ContentStep ==
  ASSUME ~CleanupOutlivesLease, IInv, CountsOK, Content, [Next]_vars
  PROVE  Content'
<1>1. Before
  BY Inductive DEF Before
<1>2. CASE UNCHANGED vars
  <2>0. TypeOK /\ UNCHANGED relayVars /\ handler' = handler
        /\ UNCHANGED <<lce, root, rootRev, late>>
    BY <1>2 DEF IInv, vars, relayVars
  <2> QED BY <1>1, <2>0, QuietUnchanged, FactsReturned, SilentStep DEF Facts, Content
<1>3. ASSUME NEW h \in Handler,
             Start(h) \/ Upload(h) \/ Complete(h) \/ Fail(h) \/ Reconcile(h) \/ HandlerStops(h)
      PROVE  Content'
  BY <1>1, <1>3, StartContent, InsertContent, CommitContent, UploadContent, HandoffContent,
     RecordContent, FinishContent, CompleteContent, ReconcileContent, StopContent
<1> QED BY <1>1, <1>2, <1>3, OtherContent, CloudContent DEF Next

\* The relay's snapshot is what the cloud serves, path by path and with its
\* revision, except while a published job waits for completeIndexJob's last
\* transaction: however batches overlap, replies are lost, requests arrive late
\* and handlers crash, what is published is the manifest of the start, because a
\* batch is counted only after LCE staged it and a publication is handed over
\* only when all is counted. No handler may clean up after losing its lease.
THEOREM SnapshotFollowsCloud ==
  ASSUME ~CleanupOutlivesLease
  PROVE  Spec => []SnapshotMatchesCloud
<1>1. Init => IInv /\ CountsOK /\ Content
  <2> SUFFICES ASSUME Init PROVE IInv /\ CountsOK /\ Content
    OBVIOUS
  <2>0. /\ NoRow.status = "none" /\ ~(NoRow.rev > 0) /\ Idle.op = "none" /\ Idle.j = NoJob
    BY SMT DEF NoRow, Idle
  <2>1. IInv
    BY Initial
  <2>2. CountsOK
    BY <2>0 DEF Init, CountsOK, Counted
  <2>3. \A j \in Job : JobOK(j)
    BY <2>0 DEF Init, JobOK, Running, Publishing
  <2>4. \A h \in Handler : FrameFacts(handler[h])
    BY <2>0, IndexJobAssumption DEF Init, FrameFacts
  <2> QED BY <2>1, <2>2, <2>3, <2>4 DEF Init, Content, SnapshotMatchesCloud
<1>2. IInv /\ CountsOK /\ Content /\ [Next]_vars => (IInv /\ CountsOK /\ Content)'
  BY Inductive, CountsStep, ContentStep DEF IInv
<1>3. Content => SnapshotMatchesCloud
  BY DEF Content
<1> QED BY <1>1, <1>2, <1>3, PTL DEF Spec
=============================================================================
