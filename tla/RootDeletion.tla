----------------------------- MODULE RootDeletion -----------------------------
(***************************************************************************)
(* Durable deletion of an index root (root_deletion_jobs.go): a request    *)
(* inserts a job, workers claim it for an attempt, clear the root in the   *)
(* cloud under the tenant's exclusive lease, and commit the relay's own    *)
(* cleanup together with the job's success. One tenant.                    *)
(*                                                                         *)
(* Contents are numbered by the index job that published them, 0 for none. *)
(***************************************************************************)
EXTENDS Naturals, FiniteSets

CONSTANTS
  Deletion,     \* ids of deletion jobs
  Root,
  Worker,       \* workers of all relay processes
  Attempt,      \* attempt ids
  None,
  MaxAttempts,  \* rootDeletionMaxAttempts
  MaxContent,   \* bound on the contents published
  MaxRetries,   \* bound on the recoveries of one deletion
  MaxFaults     \* bound on crashes, failed steps and overrun claims

ASSUME RootDeletionAssumption ==
  /\ None \notin Deletion \cup Root \cup Attempt
  /\ Worker \cap {"free", "lost"} = {} /\ IsFiniteSet(Worker)
  /\ MaxAttempts \in Nat \ {0}
  /\ MaxContent \in Nat /\ MaxRetries \in Nat /\ MaxFaults \in Nat

VARIABLES
  row,          \* root_deletion_jobs
  worker,       \* the frame of processRootDeletion in each worker
  lease,        \* who holds the tenant's exclusive lease ("lost": a dead process)
  relay,        \* the relay's snapshot of each root
  cloud,        \* LCE: the content of each root
  executed,     \* LCE: the operations it holds a receipt for
  late,         \* calls still on their way after their caller left
  index,        \* the tenant's index job
  contents,     \* contents published so far
  calls,        \* history: cloud calls made for each deletion
  retries,      \* history: recoveries of each deletion
  faults

cloudVars == <<cloud, executed, late>>
indexVars == <<index, contents>>
history == <<calls, retries>>
vars == <<row, worker, lease, relay, cloudVars, indexVars, history, faults>>

\* claimed: claim_until > NOW(); due: next_attempt_at <= NOW(); asked: the
\* content of the root when its deletion was asked for (history).
NoRow == [status |-> "none", root |-> None, attempt |-> None, count |-> 0,
          recovery |-> FALSE, claimed |-> FALSE, due |-> FALSE, asked |-> 0]

Idle == [pc |-> "idle", d |-> None, attempt |-> None, count |-> 0, deferOnly |-> FALSE]

NoIndex == [root |-> None, stage |-> "none"]

\* The rows, the worker frames and the external stores keep their shape; no
\* attempt is counted beyond rootDeletionMaxAttempts (claimRootDeletion).
TypeOK ==
  /\ row \in [Deletion ->
       [status : {"none", "queued", "running", "succeeded", "pruned"},
        root : Root \cup {None}, attempt : Attempt \cup {None}, count : 0..MaxAttempts,
        recovery : BOOLEAN, claimed : BOOLEAN, due : BOOLEAN, asked : 0..MaxContent]]
  /\ worker \in [Worker ->
       [pc : {"idle", "claimed", "leased", "call", "called", "finish", "record", "release"},
        d : Deletion \cup {None}, attempt : Attempt \cup {None}, count : 0..MaxAttempts,
        deferOnly : BOOLEAN]]
  /\ lease \in Worker \cup {"free", "lost"}
  /\ relay \in [Root -> 0..MaxContent]
  /\ cloud \in [Root -> 0..MaxContent]
  /\ executed \subseteq Deletion
  /\ late \subseteq Deletion
  /\ index \in [root : Root \cup {None}, stage : {"none", "running", "published"}]
  /\ contents \in 0..MaxContent
  /\ calls \in [Deletion -> Nat]
  /\ retries \in [Deletion -> 0..MaxRetries]
  /\ faults \in 0..MaxFaults

Init ==
  /\ row = [d \in Deletion |-> NoRow]
  /\ worker = [w \in Worker |-> Idle]
  /\ lease = "free"
  /\ relay = [r \in Root |-> 0]
  /\ cloud = [r \in Root |-> 0]
  /\ executed = {} /\ late = {}
  /\ index = NoIndex /\ contents = 0
  /\ calls = [d \in Deletion |-> 0]
  /\ retries = [d \in Deletion |-> 0]
  /\ faults = 0

Active(d) == row[d].status \in {"queued", "running"}

Fault == faults < MaxFaults /\ faults' = faults + 1
NoFault == UNCHANGED faults

-----------------------------------------------------------------------------
(* submitRootDeletion, under the tenant lock. *)

\* The insertion of the queued row.
Queue(d, r) ==
  row' = [row EXCEPT ![d] = [NoRow EXCEPT !.status = "queued", !.root = r, !.due = TRUE,
                                          !.asked = cloud[r]]]

\* A request without retry_job_id: with another deletion active it returns that
\* job or "busy"; leases and running index jobs make it busy.
Submit(d, r) ==
  /\ row[d].status = "none"
  /\ \A e \in Deletion : ~Active(e)
  /\ lease = "free"
  /\ index.stage = "none"
  /\ Queue(d, r)
  /\ UNCHANGED <<worker, lease, relay, cloudVars, indexVars, history>> /\ NoFault

\* Variant of Retry: a retry of a finished job becomes a new deletion.
RetryAnew(d) ==
  /\ \/ Active(d) /\ row[d].recovery /\ retries[d] < MaxRetries
        /\ row' = [row EXCEPT ![d].recovery = FALSE, ![d].count = 0, ![d].due = TRUE]
        /\ retries' = [retries EXCEPT ![d] = @ + 1]
     \/ \E e \in Deletion :
          /\ row[d].status = "succeeded" /\ row[e].status = "none"
          /\ lease = "free" /\ index.stage = "none"
          /\ row' = [row EXCEPT ![e] = [NoRow EXCEPT !.status = "queued", !.due = TRUE,
                                    !.root = row[d].root, !.asked = row[d].asked]]
          /\ UNCHANGED retries
  /\ UNCHANGED <<worker, lease, relay, cloudVars, indexVars, calls>> /\ NoFault

\* A request with retry_job_id: only an active job that needs recovery changes;
\* for a finished one the old result is returned.
Retry(d) ==
  /\ Active(d) /\ row[d].recovery
  /\ retries[d] < MaxRetries
  /\ row' = [row EXCEPT ![d].recovery = FALSE, ![d].count = 0, ![d].due = TRUE]
  /\ retries' = [retries EXCEPT ![d] = @ + 1]
  /\ UNCHANGED <<worker, lease, relay, cloudVars, indexVars, calls>> /\ NoFault

\* pruneRootDeletionHistory
Prune(d) ==
  /\ row[d].status = "succeeded"
  /\ row' = [row EXCEPT ![d].status = "pruned", ![d].attempt = None]
  /\ UNCHANGED <<worker, lease, relay, cloudVars, indexVars, history>> /\ NoFault

-----------------------------------------------------------------------------
(* claimRootDeletion: one statement that pauses exhausted jobs and claims a *)
(* candidate under a fresh attempt id.                                      *)

Exhausted(d) ==
  /\ row[d].status = "running" /\ ~row[d].claimed
  /\ row[d].count >= MaxAttempts /\ ~row[d].recovery

Candidate(d) ==
  /\ row[d].status = "queued" \/ (row[d].status = "running" /\ ~row[d].claimed)
  /\ row[d].due /\ ~row[d].recovery /\ row[d].count < MaxAttempts

Paused(d) == IF Exhausted(d) THEN [row[d] EXCEPT !.recovery = TRUE] ELSE row[d]

InUse == {row[d].attempt : d \in Deletion} \cup {worker[w].attempt : w \in Worker}

\* A new uuid. The ids are interchangeable, so one of those not in use stands for all.
Fresh(a) == a \notin InUse /\ a = CHOOSE b \in Attempt : b \notin InUse

Claim(w, d, a) ==
  /\ worker[w].pc = "idle"
  /\ Candidate(d)
  /\ Fresh(a)
  /\ row' = [e \in Deletion |->
               IF e = d THEN [row[d] EXCEPT !.status = "running", !.attempt = a,
                                            !.claimed = TRUE, !.count = @ + 1]
               ELSE Paused(e)]
  /\ worker' = [worker EXCEPT ![w] = [Idle EXCEPT !.pc = "claimed", !.d = d, !.attempt = a,
                                                  !.count = row[d].count + 1]]
  /\ UNCHANGED <<lease, relay, cloudVars, indexVars, history>> /\ NoFault

\* The same statement when there is no candidate.
Pause(w) ==
  /\ worker[w].pc = "idle"
  /\ \A d \in Deletion : ~Candidate(d)
  /\ \E d \in Deletion : Exhausted(d)
  /\ row' = [d \in Deletion |-> Paused(d)]
  /\ UNCHANGED <<worker, lease, relay, cloudVars, indexVars, history>> /\ NoFault

-----------------------------------------------------------------------------
(* processRootDeletion *)

Goto(w, pc) == worker' = [worker EXCEPT ![w].pc = pc]

ToRecord(w, deferOnly) ==
  worker' = [worker EXCEPT ![w].pc = "record", ![w].deferOnly = deferOnly]

\* Variant of Current: the attempt id is not compared.
CurrentAnyAttempt(w) ==
  LET r == row[worker[w].d] IN r.status = "running" /\ r.claimed

\* The guard of rootDeletionAttemptCurrent and of both updates.
Current(w) ==
  LET r == row[worker[w].d]
  IN  r.attempt = worker[w].attempt /\ r.status = "running" /\ r.claimed

\* platformModelConfigBarrier.TryRLock fails.
BarrierRefuses(w) ==
  /\ worker[w].pc = "claimed"
  /\ ToRecord(w, TRUE)
  /\ UNCHANGED <<row, lease, relay, cloudVars, indexVars, history>> /\ Fault

AcquireLease(w) ==
  /\ worker[w].pc = "claimed"
  /\ IF lease = "free" THEN lease' = w /\ Goto(w, "leased")
     ELSE ToRecord(w, TRUE) /\ UNCHANGED lease
  /\ UNCHANGED <<row, relay, cloudVars, indexVars, history>> /\ NoFault

CheckCurrent(w) ==
  /\ worker[w].pc = "leased"
  /\ IF Current(w) THEN Goto(w, "call") ELSE Goto(w, "release")
  /\ UNCHANGED <<row, lease, relay, cloudVars, indexVars, history>> /\ NoFault

Call(w) ==
  /\ worker[w].pc = "call"
  /\ late' = late \cup {worker[w].d}
  /\ calls' = [calls EXCEPT ![worker[w].d] = @ + 1]
  /\ Goto(w, "called")
  /\ UNCHANGED <<row, lease, relay, cloud, executed, indexVars, retries>> /\ NoFault

\* LCE executes an operation once, under its id, and keeps the receipt.
Execute(d) ==
  /\ d \in late
  /\ late' = late \ {d}
  /\ executed' = executed \cup {d}
  /\ cloud' = IF d \in executed THEN cloud ELSE [cloud EXCEPT ![row[d].root] = 0]
  /\ UNCHANGED <<row, worker, lease, relay, indexVars, history>> /\ NoFault

\* rootDeletionReceipt accepts the receipt of this operation.
Reply(w) ==
  /\ worker[w].pc = "called"
  /\ worker[w].d \in executed
  /\ Goto(w, "finish")
  /\ UNCHANGED <<row, lease, relay, cloudVars, indexVars, history>> /\ NoFault

\* An error, a timeout or an unusable receipt; the request may still arrive.
CallFails(w) ==
  /\ worker[w].pc = "called"
  /\ \/ UNCHANGED late
     \/ /\ \A v \in Worker \ {w} : worker[v].d = worker[w].d => worker[v].pc # "called"
        /\ late' = late \ {worker[w].d}
  /\ ToRecord(w, FALSE)
  /\ UNCHANGED <<row, lease, relay, cloud, executed, indexVars, history>> /\ Fault

\* Variant of Finish: the relay's rows of the root are left behind.
FinishKeepsSnapshot(w) ==
  /\ worker[w].pc = "finish"
  /\ IF Current(w)
     THEN /\ row' = [row EXCEPT ![worker[w].d].status = "succeeded",
                                ![worker[w].d].claimed = FALSE]
          /\ Goto(w, "release")
     ELSE ToRecord(w, FALSE) /\ UNCHANGED row
  /\ UNCHANGED <<lease, relay, cloudVars, indexVars, history>> /\ NoFault

\* finishRootDeletion: the relay's rows of the root and the job's success commit
\* together, if the attempt is still current; the commit's reply may be lost.
Finish(w) ==
  /\ worker[w].pc = "finish"
  /\ IF Current(w)
     THEN /\ relay' = [relay EXCEPT ![row[worker[w].d].root] = 0]
          /\ row' = [row EXCEPT ![worker[w].d].status = "succeeded",
                                ![worker[w].d].claimed = FALSE]
          /\ \/ Goto(w, "release")
             \/ ToRecord(w, FALSE)
     ELSE ToRecord(w, FALSE) /\ UNCHANGED <<row, relay>>
  /\ UNCHANGED <<lease, cloudVars, indexVars, history>> /\ NoFault

\* The transaction of finishRootDeletion rolls back.
FinishFails(w) ==
  /\ worker[w].pc = "finish"
  /\ ToRecord(w, FALSE)
  /\ UNCHANGED <<row, lease, relay, cloudVars, indexVars, history>> /\ Fault

\* The attempts recordRootDeletionError writes back, from the worker's copy.
Attempts(w) ==
  IF worker[w].deferOnly /\ worker[w].count > 0 THEN worker[w].count - 1
  ELSE worker[w].count

\* Variant of RecordError: the job goes back to the queue and is never paused.
RecordErrorForgetful(w) ==
  /\ worker[w].pc = "record"
  /\ row' = IF ~Current(w) THEN row
            ELSE [row EXCEPT ![worker[w].d].count = Attempts(w),
                   ![worker[w].d].status = "queued", ![worker[w].d].claimed = FALSE,
                   ![worker[w].d].due = FALSE]
  /\ Goto(w, "release")
  /\ UNCHANGED <<lease, relay, cloudVars, indexVars, history>> /\ NoFault

\* recordRootDeletionError
RecordError(w) ==
  /\ worker[w].pc = "record"
  /\ row' = IF ~Current(w) THEN row
            ELSE [row EXCEPT ![worker[w].d].count = Attempts(w),
                             ![worker[w].d].recovery = Attempts(w) >= MaxAttempts,
                             ![worker[w].d].claimed = FALSE, ![worker[w].d].due = FALSE]
  /\ Goto(w, "release")
  /\ UNCHANGED <<lease, relay, cloudVars, indexVars, history>> /\ NoFault

\* A failed currency check or a failed record of the error leaves the claim to lapse.
LeaveClaim(w) ==
  /\ worker[w].pc \in {"leased", "record"}
  /\ Goto(w, "release")
  /\ UNCHANGED <<row, lease, relay, cloudVars, indexVars, history>> /\ Fault

\* The deferred lease.Release, whose DELETE may fail.
Release(w) ==
  /\ worker[w].pc = "release"
  /\ IF lease = w THEN lease' \in {"free", "lost"} ELSE UNCHANGED lease
  /\ worker' = [worker EXCEPT ![w] = Idle]
  /\ UNCHANGED <<row, relay, cloudVars, indexVars, history>> /\ NoFault

\* The process dies, or its context ends before the first step (shutdown).
Crash(w) ==
  /\ worker[w].pc # "idle"
  /\ lease' = IF lease = w THEN "lost" ELSE lease
  /\ worker' = [worker EXCEPT ![w] = Idle]
  /\ UNCHANGED <<row, relay, cloudVars, indexVars, history>> /\ Fault

-----------------------------------------------------------------------------
(* The clock *)

LeaseLapses ==
  /\ lease = "lost"
  /\ lease' = "free"
  /\ UNCHANGED <<row, worker, relay, cloudVars, indexVars, history>> /\ NoFault

\* Some worker still runs the attempt that holds the claim.
Attended(d) == \E w \in Worker : worker[w].d = d /\ worker[w].attempt = row[d].attempt

\* A claim lasts longer than an attempt may run; one that lapses under a running
\* attempt (a suspended process) is a fault.
ClaimLapses(d) ==
  /\ row[d].claimed
  /\ row' = [row EXCEPT ![d].claimed = FALSE]
  /\ UNCHANGED <<worker, lease, relay, cloudVars, indexVars, history>>
  /\ IF Attended(d) THEN Fault ELSE NoFault

BackoffEnds(d) ==
  /\ Active(d) /\ ~row[d].due
  /\ row' = [row EXCEPT ![d].due = TRUE]
  /\ UNCHANGED <<worker, lease, relay, cloudVars, indexVars, history>> /\ NoFault

-----------------------------------------------------------------------------
(* Index jobs, as far as a deletion meets them: one starts under the lease and *)
(* the deletion fence, publishes in the cloud, then records the snapshot.      *)

StartIndex(r) ==
  /\ index = NoIndex
  /\ lease = "free"
  /\ \A d \in Deletion : ~Active(d)
  /\ index' = [root |-> r, stage |-> "running"]
  /\ UNCHANGED <<row, worker, lease, relay, cloudVars, contents, history>> /\ NoFault

PublishIndex ==
  /\ index.stage = "running"
  /\ contents < MaxContent
  /\ contents' = contents + 1
  /\ cloud' = [cloud EXCEPT ![index.root] = contents + 1]
  /\ index' = [index EXCEPT !.stage = "published"]
  /\ UNCHANGED <<row, worker, lease, relay, executed, late, history>> /\ NoFault

RecordIndex ==
  /\ index.stage = "published"
  /\ relay' = [relay EXCEPT ![index.root] = cloud[index.root]]
  /\ index' = NoIndex
  /\ UNCHANGED <<row, worker, lease, cloudVars, contents, history>> /\ NoFault

EndIndex ==
  /\ index.stage = "running"
  /\ index' = NoIndex
  /\ UNCHANGED <<row, worker, lease, relay, cloudVars, contents, history>> /\ NoFault

-----------------------------------------------------------------------------
WorkerStep(w) ==
  \/ AcquireLease(w) \/ CheckCurrent(w) \/ Call(w) \/ Reply(w) \/ Finish(w)
  \/ RecordError(w) \/ Release(w)

WorkerFault(w) ==
  \/ BarrierRefuses(w) \/ CallFails(w) \/ FinishFails(w) \/ LeaveClaim(w) \/ Crash(w)

Polls(w) == Pause(w) \/ \E d \in Deletion, a \in Attempt : Claim(w, d, a)

Next ==
  \/ \E d \in Deletion, r \in Root : Submit(d, r)
  \/ \E d \in Deletion : Retry(d) \/ Prune(d) \/ Execute(d) \/ ClaimLapses(d) \/ BackoffEnds(d)
  \/ \E w \in Worker : Polls(w) \/ WorkerStep(w) \/ WorkerFault(w)
  \/ LeaseLapses
  \/ \E r \in Root : StartIndex(r)
  \/ PublishIndex \/ RecordIndex \/ EndIndex

Spec == Init /\ [][Next]_vars

\* Workers poll on a ticker and run to their deadlines, clocks advance, and a
\* request in flight reaches LCE.
Fairness ==
  /\ \A w \in Worker : WF_vars(Polls(w)) /\ WF_vars(WorkerStep(w))
  /\ \A d \in Deletion : WF_vars(Execute(d)) /\ WF_vars(BackoffEnds(d))
                         /\ WF_vars(~Attended(d) /\ ClaimLapses(d))
  /\ WF_vars(LeaseLapses)

FairSpec == Spec /\ Fairness

-----------------------------------------------------------------------------
(* Properties *)

\* submitRootDeletion: "it must never become a new deletion against a recreated
\* root". The cloud loses the content of a root only under an active deletion that
\* was asked for when that content, or a later one, was there: no retry, replayed
\* attempt or late call removes what was indexed again since.
OnlyAskedContentDeleted ==
  [][\A r \in Root : cloud[r] # 0 /\ cloud'[r] = 0 =>
       \E d \in Deletion : Active(d) /\ row[d].root = r /\ row[d].asked >= cloud[r]]_vars

\* The relay's snapshot of a root, which the next index job diffs against, is the
\* cloud's content unless a deletion of that root is active or an index job has
\* published and not recorded it: no uncertain outcome lifts the durable fence.
SnapshotAgrees ==
  \A r \in Root :
    \/ relay[r] = cloud[r]
    \/ index = [root |-> r, stage |-> "published"]
    \/ \E d \in Deletion : Active(d) /\ row[d].root = r

\* Between two recoveries a deletion calls the cloud at most MaxAttempts times,
\* whatever the deferred attempts given back, lapsed claims and stale workers
\* (claimRootDeletion's attempt_count and recordRootDeletionError's fence).
CallsBounded ==
  \A d \in Deletion : calls[d] <= MaxAttempts * (1 + retries[d])

\* An accepted deletion ends: the root is deleted, or the job asks for recovery
\* (startRootDeletionWorkers); crashes leave no job that nobody claims again.
DeletionSettles ==
  \A d \in Deletion : Active(d) ~> row[d].status = "succeeded" \/ row[d].recovery
=============================================================================
