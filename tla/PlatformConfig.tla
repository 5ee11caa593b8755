---------------------------- MODULE PlatformConfig ----------------------------
(***************************************************************************)
(* Changes of the platform's model configuration (platform_config_jobs.go, *)
(* platform_model_config.go): the console's save validates and prepares an *)
(* operation in LCE and enqueues a durable job; the worker of some relay   *)
(* process claims it, drains its own requests when the embedding model     *)
(* changes, commits the operation in LCE and clears the relay's index      *)
(* state together with the job's success.                                  *)
(***************************************************************************)
EXTENDS Naturals, FiniteSets

CONSTANTS
  Op,           \* operation ids
  Proc,         \* relay processes: one worker and one admin mutex each
  Attempt,      \* attempt ids
  None,
  MaxAttempts,  \* platformConfigJobMaxAttempts
  MaxRecoveries,\* bound on the recoveries of one operation
  MaxFaults     \* bound on crashes, failed steps and overrun claims

ASSUME PlatformConfigAssumption ==
  /\ None \notin Op \cup Attempt /\ IsFiniteSet(Proc)
  /\ MaxAttempts \in Nat \ {0} /\ MaxRecoveries \in Nat /\ MaxFaults \in Nat

VARIABLES
  job,       \* platform_config_jobs
  operation, \* LCE: the operations prepared there
  version,   \* LCE: changes committed so far
  model,     \* LCE: the change that chose the embedding model, 0 at first
  relay,     \* the models the relay's index snapshots were embedded with
  leases,    \* processes with a live index lease
  lost,      \* leases of dead processes, until they lapse
  admin,     \* handleSavePlatformModelConfig in each process
  worker,    \* processPlatformConfigJob in each process
  request,   \* an index request in each process
  late,      \* commit requests on their way
  calls,     \* history: commit requests sent for each operation
  recoveries,\* history: recoveries of each operation
  faults

lceVars == <<operation, version, model>>
history == <<calls, recoveries>>
indexVars == <<relay, leases, lost, request>>
vars == <<job, lceVars, indexVars, admin, worker, late, history, faults>>

NoJob == [status |-> "none", emb |-> FALSE, attempt |-> None, count |-> 0,
          recovery |-> FALSE, claimed |-> FALSE, due |-> FALSE]

NoOperation == [state |-> "none", emb |-> FALSE, base |-> 0]

Idle == [pc |-> "idle", o |-> None, emb |-> FALSE, attempt |-> None, count |-> 0]

AdminIdle == [pc |-> "idle", o |-> None, emb |-> FALSE]

RequestIdle == [pc |-> "idle", model |-> 0]

\* Jobs, frames and the external operations keep their shape; no attempt is
\* counted beyond platformConfigJobMaxAttempts (claimPlatformConfigJob).
TypeOK ==
  /\ job \in [Op -> [status : {"none", "pending", "running", "succeeded", "rejected"},
                     emb : BOOLEAN, attempt : Attempt \cup {None}, count : 0..MaxAttempts,
                     recovery : BOOLEAN, claimed : BOOLEAN, due : BOOLEAN]]
  /\ operation \in [Op -> [state : {"none", "prepared", "completed", "rejected"},
                           emb : BOOLEAN, base : Nat]]
  /\ version \in Nat /\ model \in 0..version
  /\ relay \subseteq 0..version
  /\ leases \subseteq Proc /\ lost \subseteq Proc
  /\ admin \in [Proc -> [pc : {"idle", "validated", "prepared"}, o : Op \cup {None},
                         emb : BOOLEAN]]
  /\ worker \in [Proc -> [pc : {"idle", "drain", "call", "called", "finish", "defer"},
                          o : Op \cup {None}, emb : BOOLEAN,
                          attempt : Attempt \cup {None}, count : 0..MaxAttempts]]
  /\ request \in [Proc -> [pc : {"idle", "admitted", "leased", "published"}, model : Nat]]
  /\ late \subseteq Op
  /\ calls \in [Op -> Nat] /\ recoveries \in [Op -> 0..MaxRecoveries]
  /\ faults \in 0..MaxFaults


Init ==
  /\ job = [o \in Op |-> NoJob]
  /\ operation = [o \in Op |-> NoOperation]
  /\ version = 0 /\ model = 0
  /\ relay = {} /\ leases = {} /\ lost = {}
  /\ admin = [p \in Proc |-> AdminIdle]
  /\ worker = [p \in Proc |-> Idle]
  /\ request = [p \in Proc |-> RequestIdle]
  /\ late = {}
  /\ calls = [o \in Op |-> 0] /\ recoveries = [o \in Op |-> 0]
  /\ faults = 0

Active(o) == job[o].status \in {"pending", "running"}
Resetting == \E o \in Op : Active(o) /\ job[o].emb

Fault == faults < MaxFaults /\ faults' = faults + 1
NoFault == UNCHANGED faults

-----------------------------------------------------------------------------
(* platformModelConfigBarrier of one process *)

\* The writer: a prepared save, or a worker past the drain, of an embedding change.
WriterIn(p) == \/ admin[p].pc = "prepared" /\ admin[p].emb
               \/ worker[p].pc \in {"call", "called", "finish", "defer"} /\ worker[p].emb

ReaderIn(p) == request[p].pc # "idle"

CanLock(p) == ~WriterIn(p) /\ ~ReaderIn(p)

-----------------------------------------------------------------------------
(* handleSavePlatformModelConfig, under platformModelConfigAdminMu *)

\* The operation is not known yet and LCE validates the change; whether it
\* changes the embedding model is LCE's answer.
Validate(p, o, emb) ==
  /\ admin[p].pc = "idle"
  /\ job[o].status = "none"
  /\ admin' = [admin EXCEPT ![p] = [pc |-> "validated", o |-> o, emb |-> emb]]
  /\ UNCHANGED <<job, lceVars, indexVars, worker, late, history>> /\ NoFault

\* LCE's prepare: a new operation is bound to the configuration it was prepared
\* against; a known one is returned as it is.
PrepareOperation(o, emb) ==
  IF operation[o].state = "none"
  THEN [state |-> "prepared", emb |-> emb, base |-> version]
  ELSE operation[o]

\* TryLock of the barrier for an embedding change, then the prepare call; only a
\* matching prepared operation is accepted.
Prepare(p) ==
  LET o == admin[p].o
      reply == PrepareOperation(o, admin[p].emb)
  IN  /\ admin[p].pc = "validated"
      /\ admin[p].emb => CanLock(p)
      /\ operation' = [operation EXCEPT ![o] = reply]
      /\ admin' = [admin EXCEPT ![p] =
                     IF reply.state = "prepared" /\ reply.emb = admin[p].emb
                     THEN [@ EXCEPT !.pc = "prepared"] ELSE AdminIdle]
      /\ UNCHANGED <<job, version, model, indexVars, worker, late, history>> /\ NoFault

\* Variant of ConfigBusy: live index leases do not refuse an embedding change.
ConfigBusyIgnoringLeases(emb) == \E o \in Op : Active(o)

\* The busy query of enqueuePlatformConfigJob.
ConfigBusy(emb) == (\E o \in Op : Active(o)) \/ (emb /\ leases \cup lost # {})

\* enqueuePlatformConfigJob, under the platform-config lock: a known operation is
\* returned, a busy platform refuses, otherwise the job is inserted.
Enqueue(p) ==
  LET o == admin[p].o
  IN  /\ admin[p].pc = "prepared"
      /\ job' = IF job[o].status = "none" /\ ~ConfigBusy(admin[p].emb)
                THEN [job EXCEPT ![o] = [NoJob EXCEPT !.status = "pending",
                                           !.emb = admin[p].emb, !.due = TRUE]]
                ELSE job
      /\ admin' = [admin EXCEPT ![p] = AdminIdle]
      /\ UNCHANGED <<lceVars, indexVars, worker, late, history>> /\ NoFault

\* The save ends before its job is enqueued: barrier taken, an active root
\* deletion, an error of LCE or of the database, a timeout.
AbandonSave(p) ==
  /\ admin[p].pc # "idle"
  /\ admin' = [admin EXCEPT ![p] = AdminIdle]
  /\ UNCHANGED <<job, lceVars, indexVars, worker, late, history>> /\ NoFault

\* recoverPlatformConfigJob
Recover(o) ==
  /\ job[o].status = "running" /\ job[o].recovery
  /\ recoveries[o] < MaxRecoveries
  /\ job' = [job EXCEPT ![o].recovery = FALSE, ![o].count = 0, ![o].due = TRUE]
  /\ recoveries' = [recoveries EXCEPT ![o] = @ + 1]
  /\ UNCHANGED <<lceVars, indexVars, admin, worker, late, calls>> /\ NoFault

-----------------------------------------------------------------------------
(* claimPlatformConfigJob *)

Exhausted(o) ==
  /\ job[o].status = "running" /\ ~job[o].claimed
  /\ job[o].count >= MaxAttempts /\ ~job[o].recovery

Candidate(o) ==
  /\ job[o].status = "pending" \/ (job[o].status = "running" /\ ~job[o].claimed)
  /\ job[o].due /\ ~job[o].recovery /\ job[o].count < MaxAttempts

Paused(o) == IF Exhausted(o) THEN [job[o] EXCEPT !.recovery = TRUE] ELSE job[o]

InUse == {job[o].attempt : o \in Op} \cup {worker[p].attempt : p \in Proc}

\* A new uuid. The ids are interchangeable, so one of those not in use stands for all.
Fresh(a) == a \notin InUse /\ a = CHOOSE b \in Attempt : b \notin InUse

\* Variant of Claim: the attempt is not counted.
ClaimUncounted(p, o, a) ==
  /\ worker[p].pc = "idle"
  /\ Candidate(o)
  /\ Fresh(a)
  /\ job' = [job EXCEPT ![o].status = "running", ![o].attempt = a, ![o].claimed = TRUE]
  /\ worker' = [worker EXCEPT ![p] =
                  [pc |-> IF job[o].emb THEN "drain" ELSE "call", o |-> o,
                   emb |-> job[o].emb, attempt |-> a, count |-> job[o].count]]
  /\ UNCHANGED <<lceVars, indexVars, admin, late, history>> /\ NoFault

Claim(p, o, a) ==
  /\ worker[p].pc = "idle"
  /\ Candidate(o)
  /\ Fresh(a)
  /\ job' = [x \in Op |->
               IF x = o THEN [job[o] EXCEPT !.status = "running", !.attempt = a,
                                            !.claimed = TRUE, !.count = @ + 1]
               ELSE Paused(x)]
  /\ worker' = [worker EXCEPT ![p] =
                  [pc |-> IF job[o].emb THEN "drain" ELSE "call", o |-> o,
                   emb |-> job[o].emb, attempt |-> a, count |-> job[o].count + 1]]
  /\ UNCHANGED <<lceVars, indexVars, admin, late, history>> /\ NoFault

\* Variant of Pause: a running job whose last attempt died is never paused.
PauseNothing(p) == FALSE /\ UNCHANGED vars

\* The same statement when there is no candidate.
Pause(p) ==
  /\ worker[p].pc = "idle"
  /\ \A o \in Op : ~Candidate(o)
  /\ \E o \in Op : Exhausted(o)
  /\ job' = [o \in Op |-> Paused(o)]
  /\ UNCHANGED <<lceVars, indexVars, admin, worker, late, history>> /\ NoFault

-----------------------------------------------------------------------------
(* processPlatformConfigJob *)

Goto(p, pc) == worker' = [worker EXCEPT ![p].pc = pc]

\* The fence of finishPlatformConfigJob and deferPlatformConfigJob.
Current(p) ==
  LET j == job[worker[p].o]
  IN  j.attempt = worker[p].attempt /\ j.status = "running" /\ j.claimed

\* The barrier is free: no request of this process is in flight any more.
Drained(p) ==
  /\ worker[p].pc = "drain"
  /\ CanLock(p)
  /\ Goto(p, "call")
  /\ UNCHANGED <<job, lceVars, indexVars, admin, late, history>> /\ NoFault

\* Variant of Deferred: the last unconfirmed attempt rejects the job.
DeferredRejects(p) ==
  IF Current(p)
  THEN [job EXCEPT ![worker[p].o].claimed = FALSE, ![worker[p].o].due = FALSE,
         ![worker[p].o].status = IF worker[p].count >= MaxAttempts THEN "rejected" ELSE @]
  ELSE job

\* deferPlatformConfigJob: the jobs after it.
Deferred(p) ==
  IF Current(p)
  THEN [job EXCEPT ![worker[p].o].claimed = FALSE, ![worker[p].o].due = FALSE,
                   ![worker[p].o].recovery = worker[p].count >= MaxAttempts]
  ELSE job

\* The attempt's deadline ends the drain.
DrainTimesOut(p) ==
  /\ worker[p].pc = "drain"
  /\ job' = Deferred(p)
  /\ worker' = [worker EXCEPT ![p] = Idle]
  /\ UNCHANGED <<lceVars, indexVars, admin, late, history>> /\ NoFault

Call(p) ==
  /\ worker[p].pc = "call"
  /\ late' = late \cup {worker[p].o}
  /\ calls' = [calls EXCEPT ![worker[p].o] = @ + 1]
  /\ Goto(p, "called")
  /\ UNCHANGED <<job, lceVars, indexVars, admin, recoveries>> /\ NoFault

\* LCE's commit: a prepared operation completes if the configuration is still the
\* one it was prepared against, and is rejected if not or if it has expired; a
\* decided one is returned as it is.
Execute(o) ==
  /\ o \in late
  /\ late' = late \ {o}
  /\ \/ /\ operation[o].state = "prepared" /\ operation[o].base = version
        /\ operation' = [operation EXCEPT ![o].state = "completed"]
        /\ version' = version + 1
        /\ model' = IF operation[o].emb THEN version + 1 ELSE model
     \/ /\ operation[o].state = "prepared"
        /\ operation' = [operation EXCEPT ![o].state = "rejected"]
        /\ UNCHANGED <<version, model>>
     \/ operation[o].state # "prepared" /\ UNCHANGED lceVars
  /\ UNCHANGED <<job, indexVars, admin, worker, history>> /\ NoFault

Reply(p) ==
  /\ worker[p].pc = "called"
  /\ operation[worker[p].o].state \in {"completed", "rejected"}
  /\ Goto(p, "finish")
  /\ UNCHANGED <<job, lceVars, indexVars, admin, late, history>> /\ NoFault

\* An error, a timeout or an unusable response; the request may still arrive.
CallFails(p) ==
  /\ worker[p].pc = "called"
  /\ \/ UNCHANGED late
     \/ /\ \A q \in Proc \ {p} : worker[q].o = worker[p].o => worker[q].pc # "called"
        /\ late' = late \ {worker[p].o}
  /\ Goto(p, "defer")
  /\ UNCHANGED <<job, lceVars, indexVars, admin, history>> /\ Fault

\* finishPlatformConfigJob: the outcome and, for a completed embedding change, the
\* removal of all index state and leases commit together if the attempt is
\* current; the commit's reply may be lost.
Finish(p) ==
  LET o == worker[p].o
      completed == operation[o].state = "completed"
  IN  /\ worker[p].pc = "finish"
      /\ IF Current(p)
         THEN /\ job' = [job EXCEPT ![o].status = IF completed THEN "succeeded" ELSE "rejected",
                                    ![o].claimed = FALSE, ![o].recovery = FALSE]
              /\ IF completed /\ job[o].emb
                 THEN relay' = {} /\ leases' = {} /\ lost' = {}
                 ELSE UNCHANGED <<relay, leases, lost>>
              /\ \/ worker' = [worker EXCEPT ![p] = Idle]
                 \/ Goto(p, "defer")
         ELSE Goto(p, "defer") /\ UNCHANGED <<job, relay, leases, lost>>
      /\ UNCHANGED <<lceVars, request, admin, late, history>> /\ NoFault

FinishFails(p) ==
  /\ worker[p].pc = "finish"
  /\ Goto(p, "defer")
  /\ UNCHANGED <<job, lceVars, indexVars, admin, late, history>> /\ Fault

Defer(p) ==
  /\ worker[p].pc = "defer"
  /\ job' = Deferred(p)
  /\ worker' = [worker EXCEPT ![p] = Idle]
  /\ UNCHANGED <<lceVars, indexVars, admin, late, history>> /\ NoFault

\* The update of deferPlatformConfigJob fails and leaves the claim to lapse.
LeaveClaim(p) ==
  /\ worker[p].pc = "defer"
  /\ worker' = [worker EXCEPT ![p] = Idle]
  /\ UNCHANGED <<job, lceVars, indexVars, admin, late, history>> /\ Fault

-----------------------------------------------------------------------------
(* Index requests, as far as a configuration change meets them *)

\* platformModelConfigReadBarrier
Admit(p) ==
  /\ request[p].pc = "idle"
  /\ ~WriterIn(p)
  /\ request' = [request EXCEPT ![p].pc = "admitted"]
  /\ UNCHANGED <<job, lceVars, relay, leases, lost, admin, worker, late, history>> /\ NoFault

\* tryAcquireIndexOperation, fenced by an active embedding change.
AcquireLease(p) ==
  /\ request[p].pc = "admitted"
  /\ ~Resetting
  /\ leases' = leases \cup {p}
  /\ request' = [request EXCEPT ![p].pc = "leased"]
  /\ UNCHANGED <<job, lceVars, relay, lost, admin, worker, late, history>> /\ NoFault

\* LCE embeds the files with its present model.
Publish(p) ==
  /\ request[p].pc = "leased"
  /\ request' = [request EXCEPT ![p] = [pc |-> "published", model |-> model]]
  /\ UNCHANGED <<job, lceVars, relay, leases, lost, admin, worker, late, history>> /\ NoFault

\* The snapshot is recorded under the lease.
Record(p) ==
  /\ request[p].pc = "published"
  /\ relay' = relay \cup {request[p].model}
  /\ leases' = leases \ {p}
  /\ request' = [request EXCEPT ![p] = RequestIdle]
  /\ UNCHANGED <<job, lceVars, lost, admin, worker, late, history>> /\ NoFault

Refuse(p) ==
  /\ request[p].pc = "admitted"
  /\ request' = [request EXCEPT ![p] = RequestIdle]
  /\ UNCHANGED <<job, lceVars, relay, leases, lost, admin, worker, late, history>> /\ NoFault

-----------------------------------------------------------------------------
(* Crashes and the clock *)

Crash(p) ==
  /\ admin[p].pc # "idle" \/ worker[p].pc # "idle" \/ request[p].pc # "idle"
  /\ admin' = [admin EXCEPT ![p] = AdminIdle]
  /\ worker' = [worker EXCEPT ![p] = Idle]
  /\ request' = [request EXCEPT ![p] = RequestIdle]
  /\ leases' = leases \ {p}
  /\ lost' = lost \cup (leases \cap {p})
  /\ UNCHANGED <<job, lceVars, relay, late, history>> /\ Fault

LeaseLapses(p) ==
  /\ p \in lost
  /\ lost' = lost \ {p}
  /\ UNCHANGED <<job, lceVars, relay, leases, request, admin, worker, late, history>>
  /\ NoFault

Attended(o) == \E p \in Proc : worker[p].o = o /\ worker[p].attempt = job[o].attempt

\* A claim outlasts an attempt's deadline; lapsing under a running one is a fault.
ClaimLapses(o) ==
  /\ job[o].claimed
  /\ job' = [job EXCEPT ![o].claimed = FALSE]
  /\ UNCHANGED <<lceVars, indexVars, admin, worker, late, history>>
  /\ IF Attended(o) THEN Fault ELSE NoFault

BackoffEnds(o) ==
  /\ Active(o) /\ ~job[o].due
  /\ job' = [job EXCEPT ![o].due = TRUE]
  /\ UNCHANGED <<lceVars, indexVars, admin, worker, late, history>> /\ NoFault

-----------------------------------------------------------------------------
Saves(p) == \/ \E o \in Op, emb \in BOOLEAN : Validate(p, o, emb)
            \/ Prepare(p) \/ Enqueue(p) \/ AbandonSave(p)

Polls(p) == Pause(p) \/ \E o \in Op, a \in Attempt : Claim(p, o, a)

WorkerStep(p) == \/ Drained(p) \/ DrainTimesOut(p) \/ Call(p) \/ Reply(p) \/ Finish(p)
                 \/ Defer(p)

WorkerFault(p) == CallFails(p) \/ FinishFails(p) \/ LeaveClaim(p)

Requests(p) == Admit(p) \/ AcquireLease(p) \/ Publish(p) \/ Record(p) \/ Refuse(p)

Next ==
  \/ \E p \in Proc : \/ Saves(p) \/ Polls(p) \/ WorkerStep(p) \/ WorkerFault(p)
                     \/ Requests(p) \/ Crash(p) \/ LeaseLapses(p)
  \/ \E o \in Op : Recover(o) \/ Execute(o) \/ ClaimLapses(o) \/ BackoffEnds(o)

Spec == Init /\ [][Next]_vars

\* The worker polls on a ticker and its steps end by their deadline, clocks
\* advance, and a request in flight reaches LCE. Index requests and saves owe
\* nothing.
Fairness ==
  /\ \A p \in Proc : WF_vars(Polls(p)) /\ WF_vars(WorkerStep(p))
  /\ \A o \in Op : WF_vars(Execute(o)) /\ WF_vars(BackoffEnds(o))
                   /\ WF_vars(~Attended(o) /\ ClaimLapses(o))

FairSpec == Spec /\ Fairness

-----------------------------------------------------------------------------
(* Properties *)

\* Every snapshot the relay would diff the next upload against was embedded with
\* the model LCE uses, unless an embedding change is still active and fences index
\* operations (finishPlatformConfigJob clears all index state with the success;
\* enqueuePlatformConfigJob refuses while an index lease of any process is live).
SnapshotsUseModel == Resetting \/ relay \subseteq {model}

\* A job's outcome is LCE's: it succeeds or is rejected only if LCE decided so, and
\* LCE never completes an operation whose job has been rejected or was never
\* enqueued, not even by a commit request that arrives late.
OutcomeIsCloud ==
  \A o \in Op :
    /\ job[o].status = "succeeded" => operation[o].state = "completed"
    /\ job[o].status = "rejected" => operation[o].state = "rejected"
    /\ operation[o].state = "completed" => job[o].status \in {"running", "succeeded"}

\* Between two recoveries an operation is committed in LCE at most MaxAttempts times
\* (claimPlatformConfigJob's attempt_count).
CommitsBounded ==
  \A o \in Op : calls[o] <= MaxAttempts * (1 + recoveries[o])

\* An enqueued change ends: it succeeds, is rejected, or asks for recovery
\* (claimPlatformConfigJob's "exhausted" update for attempts that died).
ConfigSettles ==
  \A o \in Op : Active(o) ~> job[o].status \in {"succeeded", "rejected"} \/ job[o].recovery
=============================================================================
