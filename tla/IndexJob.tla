------------------------------- MODULE IndexJob -------------------------------
(***************************************************************************)
(* The life of the index jobs of one workspace (index_jobs.go): start,     *)
(* upload batches, heartbeat, complete, fail, the timeout sweep and the    *)
(* reconciliation of publications, against the upstream LCE service.       *)
(*                                                                         *)
(* A handler runs under an operation lease (IndexLeases) from its first to *)
(* its last step; each of its transactions, statements and upstream calls  *)
(* is one step, so handlers interleave as they do in the relay. A request  *)
(* whose caller stopped waiting may still reach LCE later.                 *)
(***************************************************************************)
EXTENDS Manifest

CONSTANTS
  Job,          \* job ids
  NoJob,
  Handler,      \* concurrent request handlers and reconciliation passes
  MaxFaults,    \* bound on failed calls, cancelled requests and crashes
  CleanupOutlivesLease
                \* may the lease lapse while createIndexJob still cleans up?

ASSUME IndexJobAssumption ==
  /\ NoJob \notin Job /\ MaxFaults \in Nat /\ CleanupOutlivesLease \in BOOLEAN

VARIABLES
  job,          \* rows of index_jobs with their index_job_files
  exists,       \* does the index_workspaces row exist?
  snapshot,     \* indexed_files
  cloudRev,     \* index_workspaces.cloud_revision
  handler,      \* the running handlers
  lce,          \* LCE: its job records
  root,         \* LCE: the published content of the root
  rootRev,      \* LCE: the published revision of the root
  late,         \* requests still on their way after their caller left
  faults

relayVars == <<job, exists, snapshot, cloudRev>>
lceVars == <<lce, root, rootRev>>
vars == <<job, exists, snapshot, cloudRev, handler, lce, root, rootRev, late,
          faults>>

Terminal == {"completed", "failed", "timed_out"}
Ops == {"start", "upload", "complete", "fail", "reconcile"}

NoRow == [status |-> "none", phase |-> "created", man |-> NoFiles, need |-> {},
          indexed |-> {}, count |-> 0, total |-> 0, dels |-> FALSE,
          delsSent |-> FALSE, full |-> FALSE, rev |-> 0,
          stale |-> FALSE, overdue |-> FALSE]

Idle == [op |-> "none", pc |-> "idle", j |-> NoJob, batch |-> {}, gone |-> {},
         pre |-> 0, rev |-> 0]

Unknown == [state |-> "unknown", staged |-> NoFiles, gone |-> {}, rev |-> 0,
            full |-> FALSE]

Running(j) == job[j].status = "running"
Publishing(j) == Running(j) /\ job[j].phase = "publishing"

\* A handler that cleans up after a failed begin does so with a background
\* context; its renewer has stopped with the request's context.
Cleanup(h) == handler[h].pc \in {"begin abort", "begin failed"}

HoldsLease(h) ==
  handler[h].op # "none" /\ ~(CleanupOutlivesLease /\ Cleanup(h))

\* Variant: starts share the tenant like any other operation.
LeaseFreeShared(op, j) ==
  \A h \in Handler : HoldsLease(h) /\ op # "start" /\ handler[h].j = j =>
    op = "upload" /\ handler[h].op = "upload"

\* The conflict predicate of the leases: a start is exclusive, the others
\* share the tenant and serialize one job, uploads with uploads excepted.
LeaseFree(op, j) ==
  \A h \in Handler : HoldsLease(h) =>
    /\ op # "start" /\ handler[h].op # "start"
    /\ handler[h].j = j => op = "upload" /\ handler[h].op = "upload"

\* A call for a job that has ended changes nothing and is left out: each
\* operation below is called for a running job, which may end under it.
Acquire(h, op, j, pc) ==
  /\ handler[h] = Idle
  /\ LeaseFree(op, j)
  /\ handler' = [handler EXCEPT ![h] = [Idle EXCEPT !.op = op, !.j = j, !.pc = pc]]
  /\ UNCHANGED <<relayVars, lceVars, late, faults>>

Goto(h, pc) == handler' = [handler EXCEPT ![h] = [@ EXCEPT !.pc = pc]]
Return(h) == handler' = [handler EXCEPT ![h] = Idle]
At(h, op, pc) == handler[h].op = op /\ handler[h].pc = pc

\* The row after its job ended: phase done and index_job_files deleted.
Ended(r, status) ==
  [r EXCEPT !.status = status, !.phase = "done", !.man = NoFiles, !.need = {},
            !.indexed = {}, !.stale = FALSE, !.overdue = FALSE]

Request(op, j) == [op |-> op, j |-> j, staged |-> NoFiles, gone |-> {}]

Rows == [status : Terminal \cup {"none", "running"},
         phase : {"created", "uploading", "indexing", "publishing", "done"},
         man : Manifests, need : SUBSET Path, indexed : SUBSET Path,
         count : Nat, total : Nat, dels : BOOLEAN, delsSent : BOOLEAN,
         full : BOOLEAN, rev : Nat, stale : BOOLEAN, overdue : BOOLEAN]

Steps == {"idle", "inspect", "insert", "begin", "begun", "begin abort", "begin failed",
          "prepare", "mark", "stage", "staged", "check", "handoff", "publish",
          "published", "record", "finish", "failed", "revalidate", "status", "abort"}

Frames == [op : Ops \cup {"none"}, pc : Steps, j : Job \cup {NoJob},
           batch : SUBSET Path, gone : SUBSET Path, pre : Nat, rev : Nat]

Records == [state : {"unknown", "staging", "queued", "published", "failed", "aborted"},
            staged : Manifests, gone : SUBSET Path, rev : Nat, full : BOOLEAN]

Requests == [op : {"begin", "begin full", "stage", "publish", "abort"},
             j : Job, staged : Manifests, gone : SUBSET Path]

\* Rows, handler frames, LCE records and requests keep their shape; a row never has
\* a phase that no statement of index_jobs.go writes.
TypeOK ==
  /\ job \in [Job -> Rows]
  /\ exists \in BOOLEAN
  /\ snapshot \in Manifests
  /\ cloudRev \in Nat
  /\ handler \in [Handler -> Frames]
  /\ lce \in [Job -> Records]
  /\ root \in Manifests
  /\ rootRev \in Nat
  /\ late \subseteq Requests
  /\ faults \in 0..MaxFaults

\* A tenant new to the relay; the cloud may hold content of its own.
Init ==
  /\ job = [j \in Job |-> NoRow]
  /\ exists = FALSE
  /\ snapshot = NoFiles
  /\ cloudRev = 0
  /\ handler = [h \in Handler |-> Idle]
  /\ lce = [j \in Job |-> Unknown]
  /\ root \in Manifests
  /\ rootRev = 0
  /\ late = {}
  /\ faults = 0
-----------------------------------------------------------------------------
(* LCE, an external service: what a request does to the record of its job. *)

\* begin returns an existing job as it is; the relay relies on it to retry.
AfterBegin(r, full) ==
  IF r.state = "unknown" THEN [r EXCEPT !.state = "staging", !.full = full] ELSE r

AfterStage(r, staged, gone) ==
  IF r.state = "staging"
  THEN [r EXCEPT !.staged = [f \in Path |-> IF staged[f] # Absent
                                            THEN staged[f] ELSE @[f]],
                 !.gone = @ \cup gone]
  ELSE r

AfterPublish(r) == IF r.state = "staging" THEN [r EXCEPT !.state = "queued"] ELSE r

AfterAbort(r) ==
  IF r.state \in {"staging", "queued"}
  THEN [Unknown EXCEPT !.state = "aborted"] ELSE r

Effect(req, r) ==
  CASE req.op = "begin" -> AfterBegin(r, FALSE)
    [] req.op = "begin full" -> AfterBegin(r, TRUE)
    [] req.op = "stage" -> AfterStage(r, req.staged, req.gone)
    [] req.op = "publish" -> AfterPublish(r)
    [] req.op = "abort" -> AfterAbort(r)

Execute(req) == lce' = [lce EXCEPT ![req.j] = Effect(req, @)]

\* A request that outlived its caller arrives.
LateArrival ==
  \E req \in late :
    /\ Execute(req)
    /\ late' = late \ {req}
    /\ UNCHANGED <<relayVars, handler, root, rootRev, faults>>

\* LCE's publication worker: the staged content becomes visible atomically.
CloudPublishes(j) ==
  /\ lce[j].state = "queued"
  /\ root' = Overlay(root, lce[j].staged, lce[j].gone, lce[j].full)
  /\ rootRev' = rootRev + 1
  /\ lce' = [lce EXCEPT ![j] = [Unknown EXCEPT !.state = "published", !.rev = rootRev + 1]]
  /\ UNCHANGED <<relayVars, handler, late, faults>>

\* The publication fails, or a staging area nobody renewed is given up.
CloudFails(j) ==
  /\ lce[j].state \in {"staging", "queued"}
  /\ lce' = [lce EXCEPT ![j] = [Unknown EXCEPT !.state = "failed"]]
  /\ UNCHANGED <<relayVars, handler, root, rootRev, late, faults>>
-----------------------------------------------------------------------------
(* start: createIndexJob, under the tenant's exclusive lease.              *)

StartAcquire(h) == Acquire(h, "start", NoJob, "inspect")

\* inspectActiveIndexJob: a healthy running job makes the start busy; expired
\* ones are timed out and aborted upstream, an abort's error being logged.
StartInspect(h) ==
  /\ At(h, "start", "inspect")
  /\ LET running == {j \in Job : Running(j)}
         active == {j \in running : Publishing(j) \/ ~job[j].stale}
     IN IF active # {}
        THEN /\ Return(h)
             /\ UNCHANGED <<job, late>>
        ELSE /\ job' = [j \in Job |-> IF j \in running THEN Ended(job[j], "timed_out")
                                      ELSE job[j]]
             /\ late' = late \cup {Request("abort", j) : j \in {i \in running : job[i].rev = 0}}
             /\ Goto(h, "insert")
  /\ UNCHANGED <<exists, snapshot, cloudRev, lceVars, faults>>

\* The row of a new job, diffed with the snapshot.
NewRow(man) ==
  [NoRow EXCEPT !.status = "running", !.man = man, !.need = Pending(snapshot, man),
                !.total = Cardinality(Pending(snapshot, man)),
                !.dels = Deleted(snapshot, man) # {}, !.full = ~exists]

\* The inserting transaction: diff the manifest with the snapshot, and create
\* the job unless nothing changed.
StartInsert(h) ==
  /\ At(h, "start", "insert")
  /\ \E files \in Manifests, unreadable \in SUBSET Path :
       LET man == graftUnreadablePaths(snapshot, files, unreadable) IN
       IF exists /\ Pending(snapshot, man) = {} /\ Deleted(snapshot, man) = {}
       THEN /\ Return(h)
            /\ UNCHANGED job
       ELSE \E j \in Job :
              /\ job[j].status = "none"
              /\ job' = [job EXCEPT ![j] = NewRow(man)]
              /\ handler' = [handler EXCEPT ![h] = [@ EXCEPT !.j = j, !.pc = "begin"]]
  /\ UNCHANGED <<exists, snapshot, cloudRev, lceVars, late, faults>>

\* checkIndexStartRateLimit: too soon after the previous start.
StartLimited(h) ==
  /\ At(h, "start", "insert")
  /\ Return(h)
  /\ UNCHANGED <<relayVars, lceVars, late, faults>>

BeginRequest(j) == Request(IF job[j].full THEN "begin full" ELSE "begin", j)

BeginReaches(h) ==
  /\ At(h, "start", "begin")
  /\ Execute(BeginRequest(handler[h].j))
  /\ Goto(h, "begun")
  /\ UNCHANGED <<relayVars, root, rootRev, late, faults>>

StartReturns(h) ==
  /\ At(h, "start", "begun")
  /\ Return(h)
  /\ UNCHANGED <<relayVars, lceVars, late, faults>>

\* beginLCEIndexJob errs, its request executed, lost or still on its way.
BeginErrs(h) ==
  /\ At(h, "start", "begin") \/ At(h, "start", "begun")
  /\ faults < MaxFaults /\ faults' = faults + 1
  /\ late' = IF handler[h].pc = "begin" THEN late \cup {BeginRequest(handler[h].j)}
             ELSE late
  /\ Goto(h, "begin abort")
  /\ UNCHANGED <<relayVars, lceVars>>

\* abortLCEIndexJob with a background context, its outcome only logged.
BeginAborts(h) ==
  /\ At(h, "start", "begin abort")
  /\ late' = late \cup {Request("abort", handler[h].j)}
  /\ Goto(h, "begin failed")
  /\ UNCHANGED <<relayVars, lceVars, faults>>

\* Variant: a job that has ended meanwhile is marked failed all the same.
BeginFailedAlways(h) ==
  /\ At(h, "start", "begin failed")
  /\ job' = [job EXCEPT ![handler[h].j] = Ended(@, "failed")]
  /\ Return(h)
  /\ UNCHANGED <<exists, snapshot, cloudRev, lceVars, late, faults>>

BeginFailed(h) ==
  /\ At(h, "start", "begin failed")
  /\ job' = [job EXCEPT ![handler[h].j] =
       IF @.status = "running" THEN Ended(@, "failed") ELSE @]
  /\ Return(h)
  /\ UNCHANGED <<exists, snapshot, cloudRev, lceVars, late, faults>>
-----------------------------------------------------------------------------
(* upload: uploadIndexBatch, under a shared lease that admits other uploads *)
(* of the same job.                                                         *)

UploadAcquire(h, j) ==
  Running(j) /\ Acquire(h, "upload", j, "prepare")

\* prepareIndexBatch: unindexed files of the job, and the deletions unless a
\* committed batch already sent them. An invalid batch is refused.
UploadPrepare(h) ==
  /\ At(h, "upload", "prepare")
  /\ LET j == handler[h].j IN
     \/ /\ Running(j)
        /\ \E batch \in SUBSET (job[j].need \ job[j].indexed) :
             /\ batch # {} \/ job[j].dels
             /\ handler' = [handler EXCEPT ![h] = [@ EXCEPT
                  !.pc = "mark", !.batch = batch,
                  !.gone = IF job[j].dels /\ ~job[j].delsSent
                           THEN Deleted(snapshot, job[j].man) ELSE {}]]
     \/ Return(h)
  /\ UNCHANGED <<relayVars, lceVars, late, faults>>

\* The heartbeat before the upstream call.
UploadMark(h) ==
  /\ At(h, "upload", "mark")
  /\ LET j == handler[h].j IN
     IF Running(j) /\ ~Publishing(j)
     THEN /\ job' = [job EXCEPT ![j] = [@ EXCEPT !.phase = "uploading", !.stale = FALSE]]
          /\ Goto(h, "stage")
     ELSE /\ Return(h)
          /\ UNCHANGED job
  /\ UNCHANGED <<exists, snapshot, cloudRev, lceVars, late, faults>>

\* The byte quota refuses the batch, or cannot be consulted.
UploadRefused(h) ==
  /\ At(h, "upload", "stage")
  /\ Return(h)
  /\ UNCHANGED <<relayVars, lceVars, late, faults>>

\* The batch carries the content whose hash and size the manifest lists.
StageRequest(h) ==
  LET man == job[handler[h].j].man IN
  [op |-> "stage", j |-> handler[h].j, gone |-> handler[h].gone,
   staged |-> [f \in Path |-> IF f \in handler[h].batch THEN man[f] ELSE Absent]]

StageReaches(h) ==
  /\ At(h, "upload", "stage")
  /\ Execute(StageRequest(h))
  /\ IF lce[handler[h].j].state = "staging" THEN Goto(h, "staged") ELSE Return(h)
  /\ UNCHANGED <<relayVars, root, rootRev, late, faults>>

\* The row after a batch: its files indexed and counted, and whether some batch
\* has sent the deletions.
Committed(r, batch, gone) ==
  [r EXCEPT !.phase = "indexing", !.stale = FALSE, !.indexed = @ \cup batch,
            !.count = @ + Cardinality(batch), !.delsSent = @ \/ gone # {}]

\* Variant: a file another batch committed meanwhile does not stop the commit.
UploadCommitUnchecked(h) ==
  /\ At(h, "upload", "staged")
  /\ LET j == handler[h].j
         batch == handler[h].batch
     IN job' = IF Running(j)
               THEN [job EXCEPT ![j] = Committed(@, batch, handler[h].gone)]
               ELSE job
  /\ Return(h)
  /\ UNCHANGED <<exists, snapshot, cloudRev, lceVars, late, faults>>

\* commitIndexBatch: the job must still run and every file of the batch must
\* still be unindexed, or nothing is committed. The phase is not consulted.
UploadCommit(h) ==
  /\ At(h, "upload", "staged")
  /\ LET j == handler[h].j
         batch == handler[h].batch
     IN job' = IF Running(j) /\ batch \subseteq job[j].need \ job[j].indexed
               THEN [job EXCEPT ![j] = Committed(@, batch, handler[h].gone)]
               ELSE job
  /\ Return(h)
  /\ UNCHANGED <<exists, snapshot, cloudRev, lceVars, late, faults>>

\* The heartbeat operation takes no lease; it leaves a publication alone.
HeartbeatJob(j) ==
  /\ Running(j) /\ ~Publishing(j)
  /\ job' = [job EXCEPT ![j] = [@ EXCEPT !.stale = FALSE]]
  /\ UNCHANGED <<exists, snapshot, cloudRev, handler, lceVars, late, faults>>
-----------------------------------------------------------------------------
(* complete: completeIndexJob and completeIndexJobUnderLease.              *)

CompleteAcquire(h, j) ==
  Running(j) /\ Acquire(h, "complete", j, "check")

AllSent(r) == r.count = r.total /\ (r.dels => r.delsSent)

Completing(h, pc) == At(h, "complete", pc) \/ At(h, "reconcile", pc)

\* The first read, before any write. handler.rev is knownRevision, 0 for nil.
CompleteCheck(h) ==
  /\ Completing(h, "check")
  /\ LET r == job[handler[h].j] IN
     IF r.status = "running" /\ AllSent(r)
     THEN handler' = [handler EXCEPT ![h] = [@ EXCEPT !.pc = "handoff", !.pre = r.rev]]
     ELSE Return(h)
  /\ UNCHANGED <<relayVars, lceVars, late, faults>>

\* Variant: the network call goes out before the intent is committed.
CompleteHandoffUnmarked(h) ==
  /\ Completing(h, "handoff")
  /\ Goto(h, IF handler[h].rev > 0 THEN "finish" ELSE "publish")
  /\ UNCHANGED <<relayVars, lceVars, late, faults>>

\* The intent to publish is committed before the network call.
CompleteHandoff(h) ==
  /\ Completing(h, "handoff")
  /\ LET j == handler[h].j
         pre == handler[h].pre
         known == handler[h].rev
     IN IF Running(j)
        THEN /\ job' = [job EXCEPT ![j] = [@ EXCEPT !.phase = "publishing", !.stale = FALSE]]
             /\ CASE known > 0 /\ pre > 0 /\ pre # known -> Return(h)
                  [] known > 0 /\ ~(pre > 0 /\ pre # known) -> Goto(h, "finish")
                  [] known = 0 /\ pre > 0 ->
                       handler' = [handler EXCEPT ![h] = [@ EXCEPT !.pc = "finish", !.rev = pre]]
                  [] known = 0 /\ pre = 0 -> Goto(h, "publish")
        ELSE /\ Return(h)
             /\ UNCHANGED job
  /\ UNCHANGED <<exists, snapshot, cloudRev, lceVars, late, faults>>

PublishReaches(h) ==
  /\ Completing(h, "publish")
  /\ Execute(Request("publish", handler[h].j))
  /\ Goto(h, "published")
  /\ UNCHANGED <<relayVars, root, rootRev, late, faults>>

\* Variant: an accepted publication counts as published.
PublishRepliesAccepted(h) ==
  /\ Completing(h, "published")
  /\ LET j == handler[h].j IN
     IF lce[j].state \in {"failed", "aborted"}
     THEN Goto(h, "failed")
     ELSE handler' = [handler EXCEPT ![h] = [@ EXCEPT !.pc = "record", !.rev = lce[j].rev]]
  /\ UNCHANGED <<relayVars, lceVars, late, faults>>

\* The reply: a terminal failure, an accepted publication that LCE still works
\* on, or the revision.
PublishReplies(h) ==
  /\ Completing(h, "published")
  /\ LET j == handler[h].j
         state == lce[j].state
     IN CASE state \in {"failed", "aborted"} -> Goto(h, "failed")
          [] state = "published" ->
               handler' = [handler EXCEPT ![h] = [@ EXCEPT !.pc = "record", !.rev = lce[j].rev]]
          [] OTHER -> Return(h)
  /\ UNCHANGED <<relayVars, lceVars, late, faults>>

\* cloud_revision is recorded against a second publish; an error is logged.
CompleteRecord(h) ==
  /\ Completing(h, "record")
  /\ Goto(h, "finish")
  /\ \/ /\ job' = [job EXCEPT ![handler[h].j] =
                IF @.status = "running" THEN [@ EXCEPT !.rev = handler[h].rev] ELSE @]
        /\ UNCHANGED faults
     \/ /\ faults < MaxFaults /\ faults' = faults + 1
        /\ UNCHANGED job
  /\ UNCHANGED <<exists, snapshot, cloudRev, lceVars, late>>

\* The last transaction revalidates, replaces the snapshot and ends the job.
CompleteFinish(h) ==
  /\ Completing(h, "finish")
  /\ LET j == handler[h].j IN
     IF Running(j) /\ AllSent(job[j])
     THEN /\ snapshot' = job[j].man
          /\ exists' = TRUE
          /\ cloudRev' = handler[h].rev
          /\ job' = [job EXCEPT ![j] = [Ended(@, "completed") EXCEPT !.rev = handler[h].rev]]
     ELSE UNCHANGED relayVars
  /\ Return(h)
  /\ UNCHANGED <<lceVars, late, faults>>

\* finishFailedPublication.
FinishFailed(h) ==
  /\ Completing(h, "failed")
  /\ job' = [job EXCEPT ![handler[h].j] =
       IF @.status = "running" THEN Ended(@, "failed") ELSE @]
  /\ Return(h)
  /\ UNCHANGED <<exists, snapshot, cloudRev, lceVars, late, faults>>
-----------------------------------------------------------------------------
(* fail: failIndexJob leaves a publication and a completed job alone.      *)

FailAcquire(h, j) == Running(j) /\ Acquire(h, "fail", j, "check")

FailCheck(h) ==
  /\ At(h, "fail", "check")
  /\ IF job[handler[h].j].phase = "publishing" \/ job[handler[h].j].status = "completed"
     THEN Return(h) ELSE Goto(h, "mark")
  /\ UNCHANGED <<relayVars, lceVars, late, faults>>

FailMark(h) ==
  /\ At(h, "fail", "mark")
  /\ LET j == handler[h].j IN
     IF Running(j)
     THEN /\ job' = [job EXCEPT ![j] = Ended(@, "failed")]
          /\ late' = late \cup {Request("abort", j)}
     ELSE UNCHANGED <<job, late>>
  /\ Return(h)
  /\ UNCHANGED <<exists, snapshot, cloudRev, lceVars, faults>>
-----------------------------------------------------------------------------
(* The sweeper: sweepExpiredIndexJobs, without a lease, then the           *)
(* reconciliation of publications, one job at a time under its lease.      *)

\* Rows locked by another transaction are skipped.
Sweep ==
  /\ \E expired \in SUBSET {j \in Job : Running(j) /\ ~Publishing(j) /\ job[j].stale} :
       /\ expired # {}
       /\ job' = [j \in Job |-> IF j \in expired THEN Ended(job[j], "timed_out")
                                ELSE job[j]]
       /\ late' = late \cup {Request("abort", j) : j \in {i \in expired : job[i].rev = 0}}
  /\ UNCHANGED <<exists, snapshot, cloudRev, handler, lceVars, faults>>

\* The candidate was selected before the lease was tried, so it may no longer
\* be publishing.
ReconcileAcquire(h, j) ==
  Running(j) /\ Acquire(h, "reconcile", j, "revalidate")

\* Variant: only overdue publications are looked at.
ReconcileOverdue(h) ==
  /\ At(h, "reconcile", "revalidate")
  /\ IF Publishing(handler[h].j) /\ job[handler[h].j].overdue
     THEN Goto(h, "status") ELSE Return(h)
  /\ UNCHANGED <<relayVars, lceVars, late, faults>>

ReconcileRevalidate(h) ==
  /\ At(h, "reconcile", "revalidate")
  /\ IF Publishing(handler[h].j) THEN Goto(h, "status") ELSE Return(h)
  /\ UNCHANGED <<relayVars, lceVars, late, faults>>

\* LCE's status: a durable result is consumed, an overdue publication is
\* aborted, an intent that never arrived is submitted again.
ReconcileStatus(h) ==
  /\ At(h, "reconcile", "status")
  /\ LET j == handler[h].j
         state == lce[j].state
     IN CASE state \in {"failed", "aborted"} -> Goto(h, "failed")
          [] state = "published" ->
               handler' = [handler EXCEPT ![h] = [@ EXCEPT !.pc = "check", !.rev = lce[j].rev]]
          [] state \notin {"failed", "aborted", "published"} /\ job[j].overdue ->
               Goto(h, "abort")
          [] state = "staging" /\ ~job[j].overdue -> Goto(h, "check")
          [] OTHER -> Return(h)
  /\ UNCHANGED <<relayVars, lceVars, late, faults>>

\* No status: an overdue publication is aborted all the same.
ReconcileStatusErrs(h) ==
  /\ At(h, "reconcile", "status")
  /\ faults < MaxFaults /\ faults' = faults + 1
  /\ IF job[handler[h].j].overdue THEN Goto(h, "abort") ELSE Return(h)
  /\ UNCHANGED <<relayVars, lceVars, late>>

\* Variant: any answer to the abort counts as a cancellation.
ReconcileAbortUnconfirmed(h) ==
  /\ At(h, "reconcile", "abort")
  /\ Execute(Request("abort", handler[h].j))
  /\ Goto(h, "failed")
  /\ UNCHANGED <<relayVars, root, rootRev, late, faults>>

\* Only a confirmed cancellation fails the job.
ReconcileAbort(h) ==
  /\ At(h, "reconcile", "abort")
  /\ Execute(Request("abort", handler[h].j))
  /\ IF lce[handler[h].j].state \in {"staging", "queued", "aborted"}
     THEN Goto(h, "failed") ELSE Return(h)
  /\ UNCHANGED <<relayVars, root, rootRev, late, faults>>
-----------------------------------------------------------------------------
(* Time and faults.                                                        *)

\* A heartbeat grows older than the timeout of its job's phase.
HeartbeatAges(j) ==
  /\ Running(j) /\ ~Publishing(j) /\ ~job[j].stale
  /\ job' = [job EXCEPT ![j] = [@ EXCEPT !.stale = TRUE]]
  /\ UNCHANGED <<exists, snapshot, cloudRev, handler, lceVars, late, faults>>

\* publishing_since grows older than indexPublicationMaxAge.
PublicationAges(j) ==
  /\ Publishing(j) /\ ~job[j].overdue
  /\ job' = [job EXCEPT ![j] = [@ EXCEPT !.overdue = TRUE]]
  /\ UNCHANGED <<exists, snapshot, cloudRev, handler, lceVars, late, faults>>

\* The request a handler is waiting for, not yet executed by LCE.
Outstanding(h) ==
  CASE At(h, "start", "begin") -> {BeginRequest(handler[h].j)}
    [] At(h, "upload", "stage") -> {StageRequest(h)}
    [] Completing(h, "publish") -> {Request("publish", handler[h].j)}
    [] At(h, "start", "begin abort") \/ At(h, "reconcile", "abort") ->
         {Request("abort", handler[h].j)}
    [] OTHER -> {}

\* A handler returns an error: a failed call or statement, a cancelled request,
\* a lost lease; or the process dies.
HandlerStops(h) ==
  /\ handler[h] # Idle
  /\ faults < MaxFaults /\ faults' = faults + 1
  /\ late' \in {late, late \cup Outstanding(h)}
  /\ Return(h)
  /\ UNCHANGED <<relayVars, lceVars>>
-----------------------------------------------------------------------------
Start(h) == \/ StartAcquire(h) \/ StartInspect(h) \/ StartInsert(h) \/ StartLimited(h)
            \/ BeginReaches(h) \/ StartReturns(h) \/ BeginErrs(h) \/ BeginAborts(h)
            \/ BeginFailed(h)

Upload(h) == \/ \E j \in Job : UploadAcquire(h, j)
             \/ UploadPrepare(h) \/ UploadMark(h) \/ UploadRefused(h)
             \/ StageReaches(h) \/ UploadCommit(h)

Complete(h) == \/ \E j \in Job : CompleteAcquire(h, j)
               \/ CompleteCheck(h) \/ CompleteHandoff(h) \/ PublishReaches(h)
               \/ PublishReplies(h) \/ CompleteRecord(h) \/ CompleteFinish(h)
               \/ FinishFailed(h)

Fail(h) == \/ \E j \in Job : FailAcquire(h, j)
           \/ FailCheck(h) \/ FailMark(h)

Reconcile(h) == \/ \E j \in Job : ReconcileAcquire(h, j)
                \/ ReconcileRevalidate(h) \/ ReconcileStatus(h)
                \/ ReconcileStatusErrs(h) \/ ReconcileAbort(h)

Cloud == LateArrival \/ \E j \in Job : CloudPublishes(j) \/ CloudFails(j)

Clock == \E j \in Job : HeartbeatAges(j) \/ PublicationAges(j)

Next ==
  \/ \E h \in Handler : \/ Start(h) \/ Upload(h) \/ Complete(h) \/ Fail(h)
                        \/ Reconcile(h) \/ HandlerStops(h)
  \/ \E j \in Job : HeartbeatJob(j)
  \/ Sweep \/ Cloud \/ Clock

Spec == Init /\ [][Next]_vars

\* Steps a handler takes on its own once it has its lease.
Proceed(h) ==
  \/ StartInspect(h) \/ StartInsert(h) \/ StartLimited(h) \/ BeginReaches(h)
  \/ StartReturns(h) \/ BeginAborts(h) \/ BeginFailed(h)
  \/ UploadPrepare(h) \/ UploadMark(h) \/ UploadRefused(h) \/ StageReaches(h)
  \/ UploadCommit(h)
  \/ CompleteCheck(h) \/ CompleteHandoff(h) \/ PublishReaches(h)
  \/ PublishReplies(h) \/ CompleteRecord(h) \/ CompleteFinish(h) \/ FinishFailed(h)
  \/ FailCheck(h) \/ FailMark(h)
  \/ ReconcileRevalidate(h) \/ ReconcileStatus(h) \/ ReconcileAbort(h)

\* LCE decides every publication it accepted.
CloudDecides(j) ==
  lce[j].state = "queued" /\ (CloudPublishes(j) \/ CloudFails(j))

\* Handlers run to their end, the sweeper retries its reconciliation every
\* minute for as long as the job is publishing, and the cloud decides.
Fairness ==
  /\ \A h \in Handler : WF_vars(Proceed(h))
  /\ \A j \in Job : SF_vars(\E h \in Handler : ReconcileAcquire(h, j))
  /\ \A j \in Job : WF_vars(CloudDecides(j))

FairSpec == Spec /\ Fairness
-----------------------------------------------------------------------------
(* Properties.                                                             *)

\* At most one job of a workspace runs, whatever starts, sweeps and crashes
\* interleave: inspectActiveIndexJob's promise that a repeated start never
\* creates another provider-consuming job.
OneRunning == \A i, j \in Job : Running(i) /\ Running(j) => i = j

\* A revision the cloud published is never booked as failed or timed out: its
\* job is completed, or still publishing and so open to reconciliation.
PublishedNeverLost ==
  \A j \in Job : lce[j].state = "published" =>
    job[j].status = "completed" \/ Publishing(j)

\* The relay's snapshot is what the cloud serves, path by path and with its
\* revision, except while a published job waits for its last transaction.
SnapshotMatchesCloud ==
  exists => \/ root = snapshot /\ rootRev = cloudRev
            \/ \E j \in Job : Publishing(j) /\ lce[j].state = "published"

\* indexed_files counts the indexed rows, so total_files is reached exactly
\* when every file is, however batches overlap or are replayed.
CountsIndexedRows ==
  \A j \in Job : Running(j) => /\ job[j].count = Cardinality(job[j].indexed)
                               /\ job[j].total = Cardinality(job[j].need)

\* A publication that was handed over is only ended by the cloud's own verdict:
\* it completes published, or fails after LCE failed or aborted it.
PublicationEndsByCloud ==
  [][\A j \in Job : Publishing(j) =>
       \/ job'[j].status = "running" /\ job'[j].phase = "publishing"
       \/ job'[j].status = "completed" /\ lce[j].state = "published"
       \/ job'[j].status = "failed" /\ lce[j].state \in {"failed", "aborted"}]_vars

\* A publication LCE has a job for does not stay open: after lost replies,
\* crashes between the handoff and the call, and deadlines, the job completes
\* or fails, and the workspace can be indexed again.
PublicationSettles ==
  \A j \in Job : Publishing(j) /\ lce[j].state # "unknown" ~> ~Running(j)

LifecycleState ==
  [j \in Job |-> IF Publishing(j) THEN "publishing" ELSE job[j].status]

Lifecycle == INSTANCE JobLifecycle WITH state <- LifecycleState

\* The handlers, sweeps, late requests and faults together implement the job
\* lifecycle: one active job, no timeout or client failure of a publication,
\* and terminal states that stay terminal.
ImplementsLifecycle == Lifecycle!Spec
=============================================================================
