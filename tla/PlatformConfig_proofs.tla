------------------------- MODULE PlatformConfig_proofs -------------------------
(***************************************************************************)
(* Theorems about PlatformConfig, for any number of operations, processes, *)
(* attempts and faults.                                                    *)
(***************************************************************************)
EXTENDS PlatformConfig, FiniteSetTheorems, TLAPS

\* Zenon proves what a step does not ask SMT for.
USE Zenon

JobType ==
  [status : {"none", "pending", "running", "succeeded", "rejected"}, emb : BOOLEAN,
   attempt : Attempt \cup {None}, count : 0..MaxAttempts, recovery : BOOLEAN,
   claimed : BOOLEAN, due : BOOLEAN]

OperationType ==
  [state : {"none", "prepared", "completed", "rejected"}, emb : BOOLEAN, base : Nat]

AdminType == [pc : {"idle", "validated", "prepared"}, o : Op \cup {None}, emb : BOOLEAN]

FrameType ==
  [pc : {"idle", "drain", "call", "called", "finish", "defer"}, o : Op \cup {None},
   emb : BOOLEAN, attempt : Attempt \cup {None}, count : 0..MaxAttempts]

RequestType == [pc : {"idle", "admitted", "leased", "published"}, model : Nat]

\* TypeOK in parts.
JobsOK == job \in [Op -> JobType]
FramesOK == worker \in [Proc -> FrameType]
CloudOK == operation \in [Op -> OperationType] /\ version \in Nat /\ model \in 0..version
SavesOK == admin \in [Proc -> AdminType]
RequestsOK == request \in [Proc -> RequestType] /\ leases \subseteq Proc /\ lost \subseteq Proc
RestOK ==
  /\ relay \subseteq 0..version /\ late \subseteq Op
  /\ calls \in [Op -> Nat] /\ recoveries \in [Op -> 0..MaxRecoveries]
  /\ faults \in 0..MaxFaults

\* The type invariant is the conjunction of its parts.
LEMMA TypeParts ==
  TypeOK <=> JobsOK /\ FramesOK /\ CloudOK /\ SavesOK /\ RequestsOK /\ RestOK
BY DEF TypeOK, JobsOK, FramesOK, CloudOK, SavesOK, RequestsOK, RestOK, JobType, OperationType,
       AdminType, FrameType, RequestType

\* The same in the next state.
LEMMA TypePartsNext ==
  TypeOK' <=> JobsOK' /\ FramesOK' /\ CloudOK' /\ SavesOK' /\ RequestsOK' /\ RestOK'
BY DEF TypeOK, JobsOK, FramesOK, CloudOK, SavesOK, RequestsOK, RestOK, JobType, OperationType,
       AdminType, FrameType, RequestType

\* The constants that rows and frames start from.
LEMMA Blank ==
  /\ NoJob \in JobType /\ NoOperation \in OperationType /\ Idle \in FrameType
  /\ AdminIdle \in AdminType /\ RequestIdle \in RequestType
BY PlatformConfigAssumption, SMT DEF NoJob, JobType, NoOperation, OperationType, Idle, FrameType,
   AdminIdle, AdminType, RequestIdle, RequestType

\* The bounded counter of faults.
LEMMA FaultCounts == ASSUME TypeOK, Fault \/ NoFault PROVE faults' \in 0..MaxFaults
BY TypeParts, PlatformConfigAssumption, SMT DEF RestOK, Fault, NoFault

-----------------------------------------------------------------------------
(* What each step makes of the jobs *)

\* A job keeps its kind; at most it starts running.
Kept(o) ==
  /\ job'[o].emb = job[o].emb
  /\ \/ job'[o].status = job[o].status
     \/ job[o].status = "pending" /\ job'[o].status = "running"

AllKept == JobsOK' /\ \A o \in Op : Kept(o)

\* No attempt is counted or forgotten.
SameCounts == \A o \in Op : job'[o].count = job[o].count

\* The rows of a step that leaves them alone.
LEMMA JobsUnchanged == ASSUME TypeOK, UNCHANGED job PROVE AllKept /\ SameCounts
BY TypeParts DEF AllKept, SameCounts, Kept, JobsOK

\* One job becomes x, of its kind and status.
LEMMA JobBecomes ==
  ASSUME TypeOK, NEW o \in Op, NEW x \in JobType, x.emb = job[o].emb, x.status = job[o].status,
         job'[o] = x, job' = [e \in Op |-> job'[e]], \A e \in Op \ {o} : job'[e] = job[e]
  PROVE  AllKept
<1>1. JobsOK BY TypeParts
<1>2. JobsOK' BY <1>1 DEF JobsOK
<1> QED BY <1>2 DEF AllKept, Kept

\* The rows after a recovery.
LEMMA RecoverJobs ==
  ASSUME TypeOK, NEW o \in Op, Recover(o)
  PROVE  AllKept /\ job'[o].count = 0 /\ \A e \in Op \ {o} : job'[e] = job[e]
<1> DEFINE j == job[o]
           x == [status |-> j.status, emb |-> j.emb, attempt |-> j.attempt, count |-> 0,
                 recovery |-> FALSE, claimed |-> j.claimed, due |-> TRUE]
<1>1. JobsOK /\ j \in JobType BY TypeParts DEF JobsOK
<1>2. x \in JobType BY <1>1, PlatformConfigAssumption, SMT DEF JobType
<1>3. job'[o] = x BY <1>1 DEF Recover, JobType, JobsOK
<1>4. job' = [e \in Op |-> job'[e]] /\ \A e \in Op \ {o} : job'[e] = job[e]
      BY <1>1 DEF Recover, JobsOK
<1>5. x.emb = j.emb /\ x.status = j.status /\ x.count = 0 OBVIOUS
<1> HIDE DEF x
<1> QED BY <1>2, <1>3, <1>4, <1>5, JobBecomes

\* The rows after a claim lapses.
LEMMA LapseJobs == ASSUME TypeOK, NEW o \in Op, ClaimLapses(o) PROVE AllKept /\ SameCounts
BY TypeParts, ZenonT(30) DEF AllKept, SameCounts, Kept, JobsOK, JobType, ClaimLapses

\* The rows after a backoff ends.
LEMMA BackoffJobs == ASSUME TypeOK, NEW o \in Op, BackoffEnds(o) PROVE AllKept /\ SameCounts
BY TypeParts, ZenonT(30) DEF AllKept, SameCounts, Kept, JobsOK, JobType, BackoffEnds

\* What another claim makes of an exhausted job.
LEMMA PausedJob ==
  ASSUME TypeOK, NEW o \in Op
  PROVE  /\ Paused(o) \in JobType /\ Paused(o).emb = job[o].emb
         /\ Paused(o).status = job[o].status /\ Paused(o).count = job[o].count
BY TypeParts DEF JobsOK, JobType, Paused

\* The rows after a poll that only pauses.
LEMMA PauseJobs == ASSUME TypeOK, NEW p \in Proc, Pause(p) PROVE AllKept /\ SameCounts
BY PausedJob DEF AllKept, SameCounts, Kept, JobsOK, Pause

\* The rows after a claim, which counts one attempt of one job.
LEMMA ClaimJobs ==
  ASSUME TypeOK, NEW p \in Proc, NEW o \in Op, NEW a \in Attempt, Claim(p, o, a)
  PROVE  /\ AllKept /\ job'[o].status = "running" /\ job'[o].count = job[o].count + 1
         /\ \A e \in Op \ {o} : job'[e].count = job[e].count
<1> DEFINE j == job[o]
           x == [status |-> "running", emb |-> j.emb, attempt |-> a, count |-> j.count + 1,
                 recovery |-> j.recovery, claimed |-> TRUE, due |-> j.due]
<1>1. j \in JobType BY TypeParts DEF JobsOK
<1>2. j.count + 1 \in 0..MaxAttempts
      BY <1>1, PlatformConfigAssumption, SMT DEF JobType, Claim, Candidate
<1>3. x \in JobType BY <1>1, <1>2 DEF JobType
<1>4. job'[o] = x BY <1>1 DEF Claim, JobType
<1>5. \A e \in Op \ {o} : job'[e] = Paused(e) BY DEF Claim
<1>6. x.status = "running" /\ x.emb = j.emb /\ x.count = j.count + 1 OBVIOUS
<1> HIDE DEF x
<1>7. job' \in [Op -> JobType]
  <2>1. job' = [e \in Op |-> job'[e]] BY DEF Claim
  <2> QED BY <1>3, <1>4, <1>5, <2>1, PausedJob
<1>8. Kept(o) BY <1>4, <1>6 DEF Kept, Claim, Candidate
<1>9. ASSUME NEW e \in Op \ {o} PROVE Kept(e) BY <1>5, PausedJob DEF Kept
<1>10. \A e \in Op \ {o} : job'[e].count = job[e].count BY <1>5, PausedJob
<1> QED BY <1>4, <1>6, <1>7, <1>8, <1>9, <1>10 DEF AllKept, JobsOK

\* The rows after a deferral.
LEMMA DeferJobs ==
  ASSUME TypeOK, NEW p \in Proc, job' = Deferred(p) PROVE AllKept /\ SameCounts
<1>1. CASE ~Current(p) BY <1>1, JobsUnchanged DEF Deferred
<1>2. CASE Current(p)
  <2> DEFINE o == worker[p].o
             j == job[o]
             x == [status |-> j.status, emb |-> j.emb, attempt |-> j.attempt, count |-> j.count,
                   recovery |-> worker[p].count >= MaxAttempts, claimed |-> FALSE, due |-> FALSE]
  <2>1. JobsOK BY TypeParts
  <2>2. CASE o \notin Op BY <1>2, <2>1, <2>2, JobsUnchanged DEF Deferred, JobsOK
  <2>3. CASE o \in Op
    <3>1. j \in JobType BY <2>1, <2>3 DEF JobsOK
    <3>2. x \in JobType BY <3>1, SMT DEF JobType
    <3>3. job'[o] = x BY <1>2, <2>1, <2>3, <3>1 DEF Deferred, JobType, JobsOK
    <3>4. job' = [e \in Op |-> job'[e]] /\ \A e \in Op \ {o} : job'[e] = job[e]
          BY <1>2, <2>1, <2>3 DEF Deferred, JobsOK
    <3>5. x.emb = j.emb /\ x.status = j.status /\ x.count = j.count OBVIOUS
    <3> HIDE DEF x
    <3> QED BY <2>3, <3>2, <3>3, <3>4, <3>5, JobBecomes DEF SameCounts
  <2> QED BY <2>2, <2>3
<1> QED BY <1>1, <1>2

-----------------------------------------------------------------------------
(* What each step makes of a worker's frame *)

\* One worker's frame changes; the others stay.
Moved(p) == FramesOK' /\ \A q \in Proc \ {p} : worker'[q] = worker[q]

\* A worker that goes on keeps its operation.
LEMMA GotoFrame ==
  ASSUME TypeOK, NEW p \in Proc, NEW pc \in {"call", "called", "finish", "defer"}, Goto(p, pc)
  PROVE  Moved(p) /\ worker'[p].pc = pc /\ worker'[p].o = worker[p].o
BY TypeParts, SMT DEF Goto, Moved, FramesOK, FrameType

\* A worker that ends its attempt.
LEMMA IdleFrame ==
  ASSUME TypeOK, NEW p \in Proc, worker' = [worker EXCEPT ![p] = Idle]
  PROVE  Moved(p) /\ worker'[p].pc = "idle"
BY TypeParts, Blank DEF Moved, FramesOK, Idle

\* The frame of a new attempt.
LEMMA ClaimFrame ==
  ASSUME TypeOK, NEW p \in Proc, NEW o \in Op, NEW a \in Attempt, Claim(p, o, a)
  PROVE  Moved(p) /\ worker'[p].pc \in {"drain", "call"} /\ worker'[p].o = o
<1> DEFINE pc == IF job[o].emb THEN "drain" ELSE "call"
           x == [pc |-> pc, o |-> o, emb |-> job[o].emb, attempt |-> a, count |-> job[o].count + 1]
<1>1. job[o].count + 1 \in 0..MaxAttempts /\ job[o].emb \in BOOLEAN
      BY TypeParts, PlatformConfigAssumption, SMT DEF JobsOK, JobType, Claim, Candidate
<1>2. pc \in {"drain", "call"} OBVIOUS
<1>3. FramesOK /\ worker' = [worker EXCEPT ![p] = x] BY TypeParts DEF Claim
<1> HIDE DEF pc
<1>4. x \in FrameType BY <1>1, <1>2 DEF FrameType
<1>5. x.pc = pc /\ x.o = o OBVIOUS
<1> HIDE DEF x
<1> QED BY <1>2, <1>3, <1>4, <1>5 DEF Moved, FramesOK

-----------------------------------------------------------------------------
(* The inductive invariant *)

\* A job's operation was prepared for a change of its kind; LCE decides it only after a
\* worker claimed the job, and the job follows LCE; no index lease lives beside an
\* active change of the embedding model.
JobInv(o) ==
  /\ job[o].status # "none" => operation[o].state # "none" /\ operation[o].emb = job[o].emb
  /\ job[o].status \in {"none", "pending"} =>
       o \notin late /\ operation[o].state \in {"none", "prepared"}
  /\ job[o].status = "succeeded" => operation[o].state = "completed"
  /\ job[o].status = "rejected" => operation[o].state = "rejected"
  /\ Active(o) /\ job[o].emb => leases = {}

AdminInv(p) ==
  /\ admin[p].pc # "idle" => admin[p].o \in Op
  /\ admin[p].pc = "prepared" =>
       operation[admin[p].o].state # "none" /\ operation[admin[p].o].emb = admin[p].emb

FrameInv(p) ==
  /\ worker[p].pc # "idle" =>
       worker[p].o \in Op /\ job[worker[p].o].status \notin {"none", "pending"}
  /\ worker[p].pc = "finish" => operation[worker[p].o].state \in {"completed", "rejected"}

\* A request that writes has its lease, and has published with the present model.
RequestInv(p) ==
  /\ request[p].pc \in {"leased", "published"} => p \in leases
  /\ request[p].pc = "published" => request[p].model = model

\* The change that outdates the snapshots is the one whose job clears them.
Clean ==
  \/ relay \subseteq {model}
  \/ \E o \in Op : Active(o) /\ job[o].emb /\ operation[o].state = "completed"

Inv ==
  /\ TypeOK /\ Clean
  /\ \A o \in Op : JobInv(o)
  /\ \A p \in Proc : AdminInv(p) /\ FrameInv(p) /\ RequestInv(p)

\* A step that leaves LCE and the snapshots alone, and at most starts jobs.
LEMMA JobsMove ==
  ASSUME Inv, AllKept, FramesOK', SavesOK', RequestsOK', RestOK',
         UNCHANGED <<operation, version, model, relay>>, late' \subseteq late,
         leases' \subseteq leases,
         \A p \in Proc : AdminInv(p)' /\ FrameInv(p)' /\ RequestInv(p)'
  PROVE  Inv'
<1>1. CloudOK' BY TypeParts DEF Inv, CloudOK
<1>2. TypeOK' BY <1>1, TypePartsNext DEF AllKept
<1>3. ASSUME NEW o \in Op PROVE (Active(o)' <=> Active(o)) /\ job'[o].emb = job[o].emb
      BY DEF AllKept, Kept, Active
<1>4. ASSUME NEW o \in Op PROVE JobInv(o)' BY <1>3 DEF Inv, JobInv, AllKept, Kept
<1>5. Clean' BY <1>3 DEF Inv, Clean
<1> QED BY <1>2, <1>4, <1>5 DEF Inv

\* A worker's frame after a step that keeps the jobs and LCE.
LEMMA FramesFollow ==
  ASSUME Inv, AllKept, NEW p \in Proc, Moved(p), UNCHANGED operation,
         \/ worker'[p].pc = "idle"
         \/ /\ worker[p].pc # "idle" /\ worker'[p].o = worker[p].o
            /\ worker'[p].pc = "finish" =>
                 operation[worker[p].o].state \in {"completed", "rejected"}
  PROVE  \A q \in Proc : FrameInv(q)'
<1>1. \A o \in Op : job[o].status \notin {"none", "pending"} =>
                     job'[o].status \notin {"none", "pending"}
      BY DEF AllKept, Kept
<1> QED BY <1>1 DEF Inv, FrameInv, Moved

\* Saves and requests that nothing touches.
LEMMA OthersStay ==
  ASSUME Inv, UNCHANGED <<operation, model, admin, request, leases, lost>>
  PROVE  SavesOK' /\ RequestsOK' /\ \A p \in Proc : AdminInv(p)' /\ RequestInv(p)'
BY TypeParts DEF Inv, SavesOK, RequestsOK, AdminInv, RequestInv

\* The workers' steps that leave LCE alone.
LEMMA WorkerSteps ==
  ASSUME Inv, NEW p \in Proc,
         \/ Polls(p) \/ Drained(p) \/ DrainTimesOut(p) \/ Reply(p) \/ Defer(p) \/ WorkerFault(p)
  PROVE  Inv'
<1>1. TypeOK /\ RestOK /\ FramesOK BY TypeParts DEF Inv
<1>2. /\ UNCHANGED <<operation, version, model, relay, leases, lost, request, admin, calls,
                     recoveries>>
      /\ late' \subseteq late
      /\ Fault \/ NoFault
      BY DEF Polls, Pause, Claim, Drained, DrainTimesOut, Reply, Defer, WorkerFault, CallFails,
             FinishFails, LeaveClaim, lceVars, indexVars, history
<1>3. RestOK' BY <1>1, <1>2, FaultCounts DEF RestOK
<1>4. SUFFICES AllKept /\ FramesOK' /\ \A q \in Proc : FrameInv(q)'
      BY <1>2, <1>3, OthersStay, JobsMove
<1>5. CASE Pause(p)
  <2>1. AllKept /\ UNCHANGED worker BY <1>1, <1>5, PauseJobs DEF Pause
  <2>2. \A q \in Proc : FrameInv(q)'
        BY <1>2, <2>1 DEF Inv, FrameInv, AllKept, Kept
  <2> QED BY <1>1, <2>1, <2>2 DEF FramesOK
<1>6. CASE \E o \in Op, a \in Attempt : Claim(p, o, a)
  <2>1. PICK o \in Op, a \in Attempt : Claim(p, o, a) BY <1>6
  <2>2. AllKept /\ job'[o].status = "running" BY <1>1, <2>1, ClaimJobs
  <2>3. Moved(p) /\ worker'[p].pc \in {"drain", "call"} /\ worker'[p].o = o
        BY <1>1, <2>1, ClaimFrame
  <2>4. \A e \in Op : job[e].status \notin {"none", "pending"} =>
                      job'[e].status \notin {"none", "pending"}
        BY <2>2 DEF AllKept, Kept
  <2>5. \A q \in Proc : FrameInv(q)' BY <1>2, <2>2, <2>3, <2>4 DEF Inv, FrameInv, Moved
  <2> QED BY <2>2, <2>3, <2>5 DEF Moved
<1>7. CASE Drained(p) \/ Reply(p) \/ CallFails(p) \/ FinishFails(p)
  <2>1. PICK pc \in {"call", "finish", "defer"} :
          /\ Goto(p, pc) /\ worker[p].pc # "idle"
          /\ pc = "finish" => operation[worker[p].o].state \in {"completed", "rejected"}
        BY <1>7 DEF Drained, Reply, CallFails, FinishFails
  <2>2. AllKept BY <1>1, <1>7, JobsUnchanged DEF Drained, Reply, CallFails, FinishFails
  <2>3. Moved(p) /\ worker'[p].pc = pc /\ worker'[p].o = worker[p].o BY <1>1, <2>1, GotoFrame
  <2> QED BY <1>2, <2>1, <2>2, <2>3, FramesFollow DEF Moved
<1>8. CASE DrainTimesOut(p) \/ Defer(p) \/ LeaveClaim(p)
  <2>1. job' = Deferred(p) \/ UNCHANGED job BY <1>8 DEF DrainTimesOut, Defer, LeaveClaim
  <2>2. AllKept BY <1>1, <2>1, DeferJobs, JobsUnchanged
  <2>3. worker' = [worker EXCEPT ![p] = Idle] BY <1>8 DEF DrainTimesOut, Defer, LeaveClaim
  <2>4. Moved(p) /\ worker'[p].pc = "idle" BY <1>1, <2>3, IdleFrame
  <2> QED BY <1>2, <2>2, <2>4, FramesFollow DEF Moved
<1> QED BY <1>5, <1>6, <1>7, <1>8 DEF Polls, WorkerFault

\* Recoveries, the clock, crashes, and the steps of saves and requests that write
\* neither the jobs nor LCE nor the snapshots.
LEMMA OtherSteps ==
  ASSUME Inv,
         \/ \E o \in Op : Recover(o) \/ ClaimLapses(o) \/ BackoffEnds(o)
         \/ \E p \in Proc : \/ (\E o \in Op, emb \in BOOLEAN : Validate(p, o, emb))
                            \/ AbandonSave(p) \/ Admit(p) \/ Refuse(p) \/ Crash(p) \/ LeaseLapses(p)
  PROVE  Inv'
<1>1. TypeOK /\ RestOK /\ FramesOK /\ SavesOK /\ RequestsOK BY TypeParts DEF Inv
<1>2. CASE \E o \in Op : Recover(o) \/ ClaimLapses(o) \/ BackoffEnds(o)
  <2>1. PICK o \in Op : Recover(o) \/ ClaimLapses(o) \/ BackoffEnds(o) BY <1>2
  <2>2. AllKept BY <1>1, <2>1, RecoverJobs, LapseJobs, BackoffJobs
  <2>3. /\ UNCHANGED <<operation, version, model, relay, leases, lost, request, admin, worker,
                       late, calls>>
        /\ Fault \/ NoFault
        BY <2>1 DEF Recover, ClaimLapses, BackoffEnds, lceVars, indexVars, history
  <2>4. recoveries' \in [Op -> 0..MaxRecoveries]
    <3>1. CASE Recover(o)
      <4>1. /\ recoveries \in [Op -> 0..MaxRecoveries] /\ recoveries[o] < MaxRecoveries
            /\ recoveries' = [recoveries EXCEPT ![o] = recoveries[o] + 1]
            BY <1>1, <3>1 DEF Recover, RestOK
      <4>2. recoveries[o] + 1 \in 0..MaxRecoveries BY <4>1, PlatformConfigAssumption, SMT
      <4> QED BY <4>1, <4>2
    <3>2. CASE ClaimLapses(o) \/ BackoffEnds(o)
          BY <1>1, <3>2 DEF ClaimLapses, BackoffEnds, history, RestOK
    <3> QED BY <2>1, <3>1, <3>2
  <2>5. RestOK' /\ FramesOK' BY <1>1, <2>3, <2>4, FaultCounts DEF RestOK, FramesOK
  <2>6. \A q \in Proc : FrameInv(q)' BY <2>2, <2>3 DEF Inv, FrameInv, AllKept, Kept
  <2> QED BY <2>2, <2>3, <2>5, <2>6, OthersStay, JobsMove
<1>3. ASSUME NEW p \in Proc,
             \/ (\E o \in Op, emb \in BOOLEAN : Validate(p, o, emb))
             \/ AbandonSave(p) \/ Admit(p) \/ Refuse(p) \/ Crash(p) \/ LeaseLapses(p)
      PROVE  Inv'
  <2>1. /\ UNCHANGED <<job, operation, version, model, relay, late, calls, recoveries>>
        /\ Fault \/ NoFault
        BY <1>3 DEF Validate, AbandonSave, Admit, Refuse, Crash, LeaseLapses, lceVars, indexVars,
                    history
  <2>2. AllKept /\ RestOK' BY <1>1, <2>1, JobsUnchanged, FaultCounts DEF RestOK
  <2>3. UNCHANGED worker \/ worker' = [worker EXCEPT ![p] = Idle]
        BY <1>3 DEF Validate, AbandonSave, Admit, Refuse, Crash, LeaseLapses
  <2>4. FramesOK' /\ \A q \in Proc : FrameInv(q)'
    <3>1. CASE UNCHANGED worker BY <1>1, <2>1, <3>1 DEF Inv, FrameInv, FramesOK
    <3>2. CASE worker' = [worker EXCEPT ![p] = Idle]
      <4>1. Moved(p) /\ worker'[p].pc = "idle" BY <1>1, <3>2, IdleFrame
      <4> QED BY <2>1, <2>2, <4>1, FramesFollow DEF Moved
    <3> QED BY <2>3, <3>1, <3>2
  <2>5. SavesOK' /\ \A q \in Proc : AdminInv(q)'
    <3>1. \/ UNCHANGED admin
          \/ \E x \in AdminType : /\ admin' = [admin EXCEPT ![p] = x] /\ x.pc # "prepared"
                                  /\ x.pc # "idle" => x.o \in Op
      <4>1. CASE \E o \in Op, emb \in BOOLEAN : Validate(p, o, emb)
        <5>1. PICK o \in Op, emb \in BOOLEAN : Validate(p, o, emb) BY <4>1
        <5>2. [pc |-> "validated", o |-> o, emb |-> emb] \in AdminType BY DEF AdminType
        <5> QED BY <5>1, <5>2 DEF Validate
      <4>2. CASE AbandonSave(p) \/ Crash(p) BY <4>2, Blank DEF AbandonSave, Crash, AdminIdle
      <4>3. CASE Admit(p) \/ Refuse(p) \/ LeaseLapses(p) BY <4>3 DEF Admit, Refuse, LeaseLapses
      <4> QED BY <1>3, <4>1, <4>2, <4>3
    <3>2. CASE UNCHANGED admin BY <1>1, <2>1, <3>2 DEF Inv, AdminInv, SavesOK
    <3>3. ASSUME NEW x \in AdminType, admin' = [admin EXCEPT ![p] = x], x.pc # "prepared",
                 x.pc # "idle" => x.o \in Op
          PROVE  SavesOK' /\ \A q \in Proc : AdminInv(q)'
          BY <1>1, <2>1, <3>3 DEF Inv, AdminInv, SavesOK
    <3> QED BY <3>1, <3>2, <3>3
  <2>6. /\ RequestsOK' /\ leases' \subseteq leases /\ \A q \in Proc : RequestInv(q)'
    <3>1. CASE Crash(p)
      <4>1. /\ request' = [request EXCEPT ![p] = RequestIdle] /\ leases' = leases \ {p}
            /\ lost' = lost \cup (leases \cap {p})
            BY <3>1 DEF Crash
      <4> QED BY <1>1, <2>1, <4>1, Blank DEF Inv, RequestInv, RequestsOK, RequestIdle
    <3>2. CASE Refuse(p)
      <4>1. request' = [request EXCEPT ![p] = RequestIdle] /\ UNCHANGED <<leases, lost>>
            BY <3>2 DEF Refuse
      <4> QED BY <1>1, <2>1, <4>1, Blank DEF Inv, RequestInv, RequestsOK, RequestIdle
    <3>3. CASE Admit(p)
      <4>1. request' = [request EXCEPT ![p].pc = "admitted"] /\ UNCHANGED <<leases, lost>>
            BY <3>3 DEF Admit
      <4>2. RequestsOK' /\ request'[p].pc = "admitted"
            /\ \A q \in Proc \ {p} : request'[q] = request[q]
            BY <1>1, <4>1 DEF RequestsOK, RequestType
      <4> QED BY <2>1, <4>1, <4>2 DEF Inv, RequestInv
    <3>4. CASE UNCHANGED <<request, leases>> /\ lost' \subseteq lost
          BY <1>1, <2>1, <3>4 DEF Inv, RequestInv, RequestsOK
    <3>5. Crash(p) \/ Refuse(p) \/ Admit(p) \/ (UNCHANGED <<request, leases>> /\ lost' \subseteq lost)
          BY <1>3 DEF Validate, AbandonSave, LeaseLapses, indexVars
    <3> QED BY <3>1, <3>2, <3>3, <3>4, <3>5
  <2> QED BY <2>1, <2>2, <2>4, <2>5, <2>6, JobsMove
<1> QED BY <1>2, <1>3

\* LCE prepares an operation no job has, or returns the one it knows.
LEMMA PrepareStep ==
  ASSUME Inv, NEW p \in Proc, Prepare(p)
  PROVE  Inv'
<1>1. TypeOK /\ RestOK /\ FramesOK /\ SavesOK /\ RequestsOK /\ CloudOK /\ JobsOK
      BY TypeParts DEF Inv
<1>2. PICK o \in Op : o = admin[p].o BY DEF Prepare, Inv, AdminInv
<1> DEFINE emb == admin[p].emb
           y == PrepareOperation(o, emb)
           a == IF y.state = "prepared" /\ y.emb = emb
                THEN [pc |-> "prepared", o |-> o, emb |-> emb] ELSE AdminIdle
<1>3. admin[p] \in AdminType /\ emb \in BOOLEAN BY <1>1 DEF SavesOK, AdminType
<1>4. y \in OperationType BY <1>1, <1>3 DEF PrepareOperation, CloudOK, OperationType
<1>5. /\ y.state # "none" /\ (operation[o].state # "none" => y = operation[o])
      /\ operation[o].state = "none" => y.state = "prepared"
      BY <1>1 DEF PrepareOperation
<1>6. operation' = [operation EXCEPT ![o] = y]
      /\ UNCHANGED <<job, version, model, relay, leases, lost, request, worker, late, calls,
                     recoveries, faults>>
      BY <1>2 DEF Prepare, indexVars, history, NoFault
<1>7. admin' = [admin EXCEPT ![p] = a]
  <2>1. [admin[p] EXCEPT !.pc = "prepared"] = [pc |-> "prepared", o |-> o, emb |-> emb]
        BY <1>2, <1>3, SMT DEF AdminType
  <2> QED BY <1>2, <2>1 DEF Prepare
<1> HIDE DEF y, emb
<1>8. a \in AdminType BY <1>3, Blank DEF AdminType
<1>9. /\ a.pc # "idle" => a.o = o
      /\ a.pc = "prepared" => a.o = o /\ y.emb = a.emb
      BY DEF AdminIdle
<1> HIDE DEF a
<1>10. operation'[o] = y /\ \A e \in Op \ {o} : operation'[e] = operation[e]
       BY <1>1, <1>6 DEF CloudOK
<1>11. TypeOK'
  <2>1. CloudOK' BY <1>1, <1>4, <1>6 DEF CloudOK
  <2>2. SavesOK' BY <1>1, <1>7, <1>8 DEF SavesOK
  <2>3. JobsOK' /\ FramesOK' /\ RequestsOK' /\ RestOK'
        BY <1>1, <1>6 DEF JobsOK, FramesOK, RequestsOK, RestOK
  <2> QED BY <2>1, <2>2, <2>3, TypePartsNext
<1>12. ASSUME NEW e \in Op PROVE JobInv(e)'
  <2>1. JobInv(e) BY DEF Inv
  <2>2. CASE e = o BY <1>5, <1>6, <1>10, <2>1, <2>2 DEF JobInv, Active
  <2>3. CASE e # o BY <1>6, <1>10, <2>1, <2>3 DEF JobInv, Active
  <2> QED BY <2>2, <2>3
<1>13. \A e \in Op : operation[e].state # "none" => operation'[e] = operation[e]
       BY <1>5, <1>10
<1>14. ASSUME NEW q \in Proc PROVE FrameInv(q)' /\ RequestInv(q)'
       BY <1>6, <1>13, SMT DEF Inv, FrameInv, RequestInv
<1>15. ASSUME NEW q \in Proc PROVE AdminInv(q)'
  <2>1. CASE q = p
    <3>1. admin'[p] = a BY <1>1, <1>7 DEF SavesOK
    <3> QED BY <1>2, <1>5, <1>9, <1>10, <2>1, <3>1 DEF AdminInv
  <2>2. CASE q # p
    <3>1. admin'[q] = admin[q] BY <1>1, <1>7, <2>2 DEF SavesOK
    <3> QED BY <1>13, <3>1, SMT DEF Inv, AdminInv
  <2> QED BY <2>1, <2>2
<1>16. Clean' BY <1>6, <1>13 DEF Inv, Clean, Active
<1> QED BY <1>11, <1>12, <1>14, <1>15, <1>16 DEF Inv

\* What is inserted for a change.
LEMMA PendingJob ==
  ASSUME NEW b \in BOOLEAN
  PROVE  LET x == [NoJob EXCEPT !.status = "pending", !.emb = b, !.due = TRUE]
         IN  x \in JobType /\ x.status = "pending" /\ x.emb = b
<1> DEFINE y == [NoJob EXCEPT !.status = "pending"]
           z == [y EXCEPT !.emb = b]
           x == [z EXCEPT !.due = TRUE]
<1>1. y \in JobType /\ y.status = "pending" BY Blank DEF JobType
<1> HIDE DEF y
<1>2. z \in JobType /\ z.status = "pending" /\ z.emb = b BY <1>1 DEF JobType
<1> HIDE DEF z
<1>3. x \in JobType /\ x.status = "pending" /\ x.emb = z.emb BY <1>2 DEF JobType
<1>4. [NoJob EXCEPT !.status = "pending", !.emb = b, !.due = TRUE] = x BY DEF y, z
<1> HIDE DEF x
<1> QED BY <1>2, <1>3, <1>4

\* A job is enqueued for an operation LCE has prepared and nobody has committed; for an
\* embedding change there is no lease.
LEMMA EnqueueStep ==
  ASSUME Inv, NEW p \in Proc, Enqueue(p)
  PROVE  Inv'
<1>1. TypeOK /\ RestOK /\ FramesOK /\ SavesOK /\ RequestsOK /\ CloudOK /\ JobsOK
      BY TypeParts DEF Inv
<1>2. PICK o \in Op : /\ o = admin[p].o /\ operation[o].state # "none"
                      /\ operation[o].emb = admin[p].emb
      BY DEF Enqueue, Inv, AdminInv
<1>3. /\ UNCHANGED <<operation, version, model, relay, leases, lost, request, worker, late, calls,
                     recoveries, faults>>
      /\ admin' = [admin EXCEPT ![p] = AdminIdle]
      BY DEF Enqueue, lceVars, indexVars, history, NoFault
<1>4. SavesOK' /\ \A q \in Proc : AdminInv(q)'
      BY <1>1, <1>3, Blank DEF Inv, AdminInv, SavesOK, AdminIdle
<1>5. RestOK' /\ FramesOK' /\ RequestsOK' /\ CloudOK' /\ \A q \in Proc : RequestInv(q)'
      BY <1>1, <1>3 DEF RestOK, FramesOK, RequestsOK, CloudOK, Inv, RequestInv
<1>6. CASE UNCHANGED job
  <2>1. AllKept /\ \A q \in Proc : FrameInv(q)'
        BY <1>1, <1>3, <1>6, JobsUnchanged DEF Inv, FrameInv
  <2> QED BY <1>3, <1>4, <1>5, <2>1, JobsMove
<1>7. CASE job[o].status = "none" /\ ~ConfigBusy(admin[p].emb)
  <2> DEFINE x == [NoJob EXCEPT !.status = "pending", !.emb = admin[p].emb, !.due = TRUE]
  <2>1. admin[p].emb \in BOOLEAN BY <1>1 DEF SavesOK, AdminType
  <2>2. x \in JobType /\ x.status = "pending" /\ x.emb = admin[p].emb BY <2>1, PendingJob
  <2>3. job' = [job EXCEPT ![o] = x] BY <1>2, <1>7 DEF Enqueue
  <2> HIDE DEF x
  <2>5. JobsOK' /\ job'[o] = x /\ \A e \in Op \ {o} : job'[e] = job[e]
        BY <1>1, <2>2, <2>3 DEF JobsOK
  <2>6. TypeOK' BY <1>4, <1>5, <2>5, TypePartsNext
  <2>7. admin[p].emb => leases = {} BY <1>7 DEF ConfigBusy
  <2>8. ASSUME NEW e \in Op PROVE JobInv(e)'
    <3>1. CASE e = o
          BY <1>2, <1>3, <1>7, <2>2, <2>5, <2>7, <3>1 DEF Inv, JobInv, Active
    <3>2. CASE e # o BY <1>3, <2>5, <3>2 DEF Inv, JobInv, Active
    <3> QED BY <3>1, <3>2
  <2>9. ASSUME NEW q \in Proc PROVE FrameInv(q)'
        BY <1>3, <1>7, <2>5 DEF Inv, FrameInv
  <2>10. \A e \in Op : Active(e) => Active(e)' /\ job'[e].emb = job[e].emb
         BY <1>7, <2>5 DEF Active
  <2>11. Clean' BY <1>3, <2>10 DEF Inv, Clean
  <2> QED BY <1>4, <1>5, <2>6, <2>8, <2>9, <2>11 DEF Inv
<1> QED BY <1>2, <1>6, <1>7 DEF Enqueue

\* LCE is asked to commit for a job that has been claimed.
LEMMA CallStep ==
  ASSUME Inv, NEW p \in Proc, Call(p)
  PROVE  Inv'
<1>1. TypeOK /\ RestOK /\ CloudOK /\ JobsOK BY TypeParts DEF Inv
<1>2. PICK o \in Op : o = worker[p].o /\ job[o].status \notin {"none", "pending"}
      BY DEF Call, Inv, FrameInv
<1>3. Moved(p) /\ worker'[p].pc = "called" /\ worker'[p].o = worker[p].o
      BY <1>1, GotoFrame DEF Call
<1>4. /\ UNCHANGED <<job, operation, version, model, relay, leases, lost, request, admin,
                     recoveries, faults>>
      /\ late' = late \cup {o} /\ calls' = [calls EXCEPT ![o] = @ + 1]
      BY <1>2 DEF Call, lceVars, indexVars, NoFault
<1>5. RestOK' BY <1>1, <1>2, <1>4, SMT DEF RestOK
<1>6. SavesOK' /\ RequestsOK' /\ \A q \in Proc : AdminInv(q)' /\ RequestInv(q)'
      BY <1>4, OthersStay
<1>7. TypeOK' BY <1>1, <1>3, <1>4, <1>5, <1>6, TypePartsNext DEF Moved, JobsOK, CloudOK
<1>8. ASSUME NEW e \in Op PROVE JobInv(e)' BY <1>2, <1>4 DEF Inv, JobInv, Active
<1>9. AllKept BY <1>1, <1>4, JobsUnchanged
<1>10. \A q \in Proc : FrameInv(q)' BY <1>3, <1>4, <1>9, FramesFollow DEF Call
<1>11. Clean' BY <1>4 DEF Inv, Clean, Active
<1> QED BY <1>6, <1>7, <1>8, <1>10, <1>11 DEF Inv

\* LCE decides an operation only while its job runs; when it changes the embedding
\* model, no request holds a lease.
LEMMA ExecuteStep ==
  ASSUME Inv, NEW o \in Op, Execute(o)
  PROVE  Inv'
<1>1. TypeOK /\ RestOK /\ FramesOK /\ SavesOK /\ RequestsOK /\ CloudOK /\ JobsOK
      BY TypeParts DEF Inv
<1>2. /\ UNCHANGED <<job, relay, leases, lost, request, admin, worker, calls, recoveries, faults>>
      /\ late' = late \ {o}
      BY DEF Execute, indexVars, history, NoFault
<1>3. job[o].status \notin {"none", "pending"} BY DEF Execute, Inv, JobInv
<1>4. operation[o].state = "prepared" => job[o].status = "running" /\ job[o].emb = operation[o].emb
      BY <1>1, <1>3 DEF Inv, JobInv, JobsOK, JobType
<1>5. CASE UNCHANGED lceVars
  <2>1. AllKept /\ RestOK' /\ FramesOK' /\ \A q \in Proc : FrameInv(q)'
        BY <1>1, <1>2, <1>5, JobsUnchanged DEF RestOK, FramesOK, Inv, FrameInv, lceVars
  <2> QED BY <1>2, <1>5, <2>1, OthersStay, JobsMove DEF lceVars
<1>6. CASE operation[o].state = "prepared" /\ ~UNCHANGED lceVars
  <2>1. PICK s \in {"completed", "rejected"} :
          /\ operation' = [operation EXCEPT ![o].state = s]
          /\ s = "completed" => /\ version' = version + 1
                                /\ model' = IF operation[o].emb THEN version + 1 ELSE model
          /\ s = "rejected" => UNCHANGED <<version, model>>
        BY <1>6 DEF Execute
  <2>2. /\ operation' \in [Op -> OperationType] /\ operation'[o].state = s
        /\ operation'[o].emb = operation[o].emb
        /\ \A e \in Op \ {o} : operation'[e] = operation[e]
        BY <1>1, <2>1 DEF CloudOK, OperationType
  <2>3. version' \in Nat /\ model' \in 0..version' /\ version <= version'
        BY <1>1, <2>1, SMT DEF CloudOK
  <2>4. CloudOK' BY <2>2, <2>3 DEF CloudOK
  <2>5. relay' \subseteq 0..version' BY <1>1, <1>2, <2>3, SMT DEF RestOK, CloudOK
  <2>6. JobsOK' /\ FramesOK' /\ SavesOK' /\ RequestsOK' /\ RestOK'
        BY <1>1, <1>2, <2>5 DEF JobsOK, FramesOK, SavesOK, RequestsOK, RestOK
  <2>7. TypeOK' BY <2>4, <2>6, TypePartsNext
  <2>8. ASSUME NEW e \in Op PROVE JobInv(e)'
    <3>1. CASE e = o BY <1>2, <1>3, <1>4, <1>6, <2>2, <3>1 DEF Inv, JobInv, Active
    <3>2. CASE e # o BY <1>2, <2>2, <3>2 DEF Inv, JobInv, Active
    <3> QED BY <3>1, <3>2
  <2>9. ASSUME NEW e \in Op
        PROVE  /\ operation[e].state # "none" => operation'[e].state # "none"
               /\ operation[e].state = "completed" => operation'[e].state = "completed"
    <3>1. CASE e = o BY <1>6, <2>2, <3>1
    <3>2. CASE e # o BY <2>2, <3>2
    <3> QED BY <3>1, <3>2
  <2>10. ASSUME NEW q \in Proc PROVE AdminInv(q)'
    <3>1. AdminInv(q) /\ admin'[q] = admin[q] BY <1>2 DEF Inv
    <3>2. CASE admin[q].pc = "prepared"
      <4>1. PICK e \in Op : e = admin[q].o BY <3>1, <3>2 DEF AdminInv
      <4>2. operation'[e].emb = operation[e].emb /\ operation'[e].state # "none"
        <5>1. operation'[e].state # "none" BY <2>9, <3>1, <3>2, <4>1 DEF AdminInv
        <5>2. CASE e = o BY <2>2, <5>1, <5>2
        <5>3. CASE e # o BY <2>2, <5>1, <5>3
        <5> QED BY <5>2, <5>3
      <4> QED BY <3>1, <3>2, <4>1, <4>2 DEF AdminInv
    <3>3. CASE admin[q].pc # "prepared" BY <3>1, <3>3 DEF AdminInv
    <3> QED BY <3>2, <3>3
  <2>11. ASSUME NEW q \in Proc PROVE FrameInv(q)'
    <3>1. \A e \in Op : operation[e].state \in {"completed", "rejected"} =>
                        operation'[e].state \in {"completed", "rejected"}
          BY <2>2
    <3> QED BY <1>2, <3>1 DEF Inv, FrameInv
  <2>12. CASE model' = model
    <3>1. ASSUME NEW q \in Proc PROVE RequestInv(q)' BY <1>2, <2>12 DEF Inv, RequestInv
    <3>2. Clean'
      <4>1. CASE relay \subseteq {model} BY <1>2, <2>12, <4>1 DEF Clean
      <4>2. ASSUME NEW e \in Op, Active(e), job[e].emb, operation[e].state = "completed"
            PROVE  Active(e)' /\ job'[e].emb /\ operation'[e].state = "completed"
            BY <1>2, <2>9, <4>2 DEF Active
      <4> QED BY <4>1, <4>2 DEF Inv, Clean
    <3> QED BY <2>7, <2>8, <2>10, <2>11, <3>1, <3>2 DEF Inv
  <2>13. CASE model' # model
    <3>1. s = "completed" /\ operation[o].emb BY <2>1, <2>13
    <3>2. Active(o) /\ job[o].emb BY <1>4, <1>6, <3>1 DEF Active
    <3>3. leases = {} BY <3>2 DEF Inv, JobInv
    <3>4. ASSUME NEW q \in Proc PROVE RequestInv(q)' BY <1>2, <3>3 DEF Inv, RequestInv
    <3>5. Clean' BY <1>2, <2>2, <3>1, <3>2 DEF Clean, Active
    <3> QED BY <2>7, <2>8, <2>10, <2>11, <3>4, <3>5 DEF Inv
  <2> QED BY <2>12, <2>13
<1> QED BY <1>5, <1>6 DEF Execute

\* The job takes LCE's outcome; with a completed embedding change the snapshots go.
LEMMA FinishStep ==
  ASSUME Inv, NEW p \in Proc, Finish(p)
  PROVE  Inv'
<1>1. TypeOK /\ RestOK /\ SavesOK /\ RequestsOK /\ CloudOK /\ JobsOK BY TypeParts DEF Inv
<1>2. PICK o \in Op : o = worker[p].o /\ operation[o].state \in {"completed", "rejected"}
      BY DEF Finish, Inv, FrameInv
<1>3. UNCHANGED <<operation, version, model, request, admin, late, calls, recoveries, faults>>
      BY DEF Finish, lceVars, history, NoFault
<1>4. worker' = [worker EXCEPT ![p] = Idle] \/ Goto(p, "defer") BY DEF Finish
<1>5. /\ Moved(p)
      /\ \/ worker'[p].pc = "idle"
         \/ worker'[p].pc = "defer" /\ worker'[p].o = worker[p].o
  <2>1. CASE worker' = [worker EXCEPT ![p] = Idle] BY <1>1, <2>1, IdleFrame
  <2>2. CASE Goto(p, "defer") BY <1>1, <2>2, GotoFrame
  <2> QED BY <1>4, <2>1, <2>2
<1>6. worker[p].pc # "idle" BY DEF Finish
<1>7. CASE ~Current(p)
  <2>1. UNCHANGED <<job, relay, leases, lost>> BY <1>7 DEF Finish
  <2>2. AllKept /\ RestOK' BY <1>1, <1>3, <2>1, JobsUnchanged DEF RestOK
  <2>3. \A q \in Proc : FrameInv(q)' BY <1>3, <1>5, <1>6, <2>2, FramesFollow
  <2> QED BY <1>3, <1>5, <2>1, <2>2, <2>3, OthersStay, JobsMove DEF Moved
<1>8. CASE Current(p)
  <2> DEFINE j == job[o]
             s == IF operation[o].state = "completed" THEN "succeeded" ELSE "rejected"
             x == [status |-> s, emb |-> j.emb, attempt |-> j.attempt, count |-> j.count,
                   recovery |-> FALSE, claimed |-> FALSE, due |-> j.due]
  <2>1. j \in JobType BY <1>1 DEF JobsOK
  <2>2. s \in {"succeeded", "rejected"} OBVIOUS
  <2>3. job'[o] = x
    <3>1. job' = [job EXCEPT ![o].status = s, ![o].claimed = FALSE, ![o].recovery = FALSE]
          BY <1>2, <1>8 DEF Finish
    <3> HIDE DEF s
    <3> QED BY <1>1, <2>1, <3>1 DEF JobsOK, JobType
  <2>4. job' = [e \in Op |-> job'[e]] /\ \A e \in Op \ {o} : job'[e] = job[e]
        BY <1>1, <1>2, <1>8 DEF Finish, JobsOK
  <2>5. \/ operation[o].state = "completed" /\ j.emb /\ relay' = {} /\ leases' = {} /\ lost' = {}
        \/ ~(operation[o].state = "completed" /\ j.emb) /\ UNCHANGED <<relay, leases, lost>>
        BY <1>2, <1>8 DEF Finish
  <2>6. Active(o) BY <1>2, <1>8 DEF Current, Active
  <2>7. leases' = leases BY <2>5, <2>6 DEF Inv, JobInv
  <2>8. s = "succeeded" => operation[o].state = "completed" OBVIOUS
  <2>9. s = "rejected" => operation[o].state = "rejected" BY <1>2
  <2> HIDE DEF s
  <2>10. x \in JobType BY <2>1, <2>2 DEF JobType
  <2>11. x.status = s /\ x.emb = j.emb OBVIOUS
  <2> HIDE DEF x
  <2>12. JobsOK' BY <2>3, <2>4, <2>10, <1>1 DEF JobsOK
  <2>13. CloudOK' /\ SavesOK' BY <1>1, <1>3 DEF CloudOK, SavesOK
  <2>14. RequestsOK' BY <1>1, <1>3, <2>5 DEF RequestsOK
  <2>15. RestOK' BY <1>1, <1>3, <2>5 DEF RestOK
  <2>16. TypeOK' BY <1>5, <2>12, <2>13, <2>14, <2>15, TypePartsNext DEF Moved
  <2>17. ~Active(o)' /\ \A e \in Op \ {o} : Active(e)' <=> Active(e)
         BY <2>2, <2>3, <2>4, <2>11 DEF Active
  <2>18. ASSUME NEW e \in Op PROVE JobInv(e)'
    <3>1. CASE e = o
          BY <1>2, <1>3, <2>2, <2>3, <2>8, <2>9, <2>11, <2>6, <2>17, <3>1 DEF Inv, JobInv, Active
    <3>2. CASE e # o BY <1>3, <2>4, <2>7, <2>17, <3>2 DEF Inv, JobInv
    <3> QED BY <3>1, <3>2
  <2>19. ASSUME NEW q \in Proc PROVE AdminInv(q)' /\ RequestInv(q)'
         BY <1>3, <2>7 DEF Inv, AdminInv, RequestInv
  <2>20. ASSUME NEW q \in Proc PROVE FrameInv(q)'
    <3>1. \A e \in Op : job[e].status \notin {"none", "pending"} =>
                        job'[e].status \notin {"none", "pending"}
          BY <2>2, <2>3, <2>4, <2>11
    <3> QED BY <1>3, <1>5, <1>6, <3>1 DEF Inv, FrameInv, Moved
  <2>21. Clean'
    <3>1. CASE relay' = {} BY <3>1 DEF Clean
    <3>2. CASE ~(operation[o].state = "completed" /\ j.emb) /\ UNCHANGED <<relay, leases, lost>>
          BY <1>3, <2>4, <2>17, <3>2 DEF Inv, Clean
    <3> QED BY <2>5, <3>1, <3>2
  <2> QED BY <2>16, <2>18, <2>19, <2>20, <2>21 DEF Inv
<1> QED BY <1>7, <1>8

\* A lease is given while no embedding change is active, and what is published under it
\* is recorded before the model changes.
LEMMA RequestSteps ==
  ASSUME Inv, NEW p \in Proc, AcquireLease(p) \/ Publish(p) \/ Record(p)
  PROVE  Inv'
<1>1. TypeOK /\ RestOK /\ SavesOK /\ FramesOK /\ RequestsOK /\ CloudOK /\ JobsOK
      BY TypeParts DEF Inv
<1>2. UNCHANGED <<job, operation, version, model, lost, admin, worker, late, calls, recoveries,
                  faults>>
      BY DEF AcquireLease, Publish, Record, lceVars, history, NoFault
<1>3. JobsOK' /\ FramesOK' /\ SavesOK' /\ CloudOK'
      /\ \A q \in Proc : AdminInv(q)' /\ FrameInv(q)'
      BY <1>1, <1>2 DEF JobsOK, FramesOK, SavesOK, CloudOK, Inv, AdminInv, FrameInv
<1>4. model \in Nat /\ model \in 0..version BY <1>1, SMT DEF CloudOK
<1>5. CASE AcquireLease(p)
  <2>1. /\ leases' = leases \cup {p} /\ request' = [request EXCEPT ![p].pc = "leased"]
        /\ UNCHANGED relay /\ \A o \in Op : ~(Active(o) /\ job[o].emb)
        BY <1>5 DEF AcquireLease, Resetting
  <2>2. RequestsOK' /\ request'[p].pc = "leased"
        /\ \A q \in Proc \ {p} : request'[q] = request[q]
        BY <1>1, <1>2, <2>1 DEF RequestsOK, RequestType
  <2>3. RestOK' BY <1>1, <1>2, <2>1 DEF RestOK
  <2>4. ASSUME NEW o \in Op PROVE JobInv(o)' BY <1>2, <2>1 DEF Inv, JobInv, Active
  <2>5. ASSUME NEW q \in Proc PROVE RequestInv(q)' BY <1>2, <2>1, <2>2 DEF Inv, RequestInv
  <2>6. Clean' BY <1>2, <2>1 DEF Inv, Clean, Active
  <2> QED BY <1>3, <2>2, <2>3, <2>4, <2>5, <2>6, TypePartsNext DEF Inv
<1>6. CASE Publish(p)
  <2> DEFINE x == [pc |-> "published", model |-> model]
  <2>1. request' = [request EXCEPT ![p] = x] /\ request[p].pc = "leased"
        /\ UNCHANGED <<relay, leases>>
        BY <1>6 DEF Publish
  <2>2. x \in RequestType BY <1>4 DEF RequestType
  <2>3. x.pc = "published" /\ x.model = model OBVIOUS
  <2> HIDE DEF x
  <2>4. RequestsOK' /\ request'[p] = x /\ \A q \in Proc \ {p} : request'[q] = request[q]
        BY <1>1, <1>2, <2>1, <2>2 DEF RequestsOK
  <2>5. RestOK' BY <1>1, <1>2, <2>1 DEF RestOK
  <2>6. ASSUME NEW o \in Op PROVE JobInv(o)' BY <1>2, <2>1 DEF Inv, JobInv, Active
  <2>7. ASSUME NEW q \in Proc PROVE RequestInv(q)' BY <1>2, <2>1, <2>3, <2>4 DEF Inv, RequestInv
  <2>8. Clean' BY <1>2, <2>1 DEF Inv, Clean, Active
  <2> QED BY <1>3, <2>4, <2>5, <2>6, <2>7, <2>8, TypePartsNext DEF Inv
<1>7. CASE Record(p)
  <2>1. /\ relay' = relay \cup {model} /\ leases' = leases \ {p}
        /\ request' = [request EXCEPT ![p] = RequestIdle]
        BY <1>7 DEF Record, Inv, RequestInv
  <2>2. RequestsOK' /\ request'[p] = RequestIdle
        /\ \A q \in Proc \ {p} : request'[q] = request[q]
        BY <1>1, <1>2, <2>1, Blank DEF RequestsOK
  <2>3. RestOK' BY <1>1, <1>2, <1>4, <2>1 DEF RestOK
  <2>4. ASSUME NEW o \in Op PROVE JobInv(o)' BY <1>2, <2>1 DEF Inv, JobInv, Active
  <2>5. ASSUME NEW q \in Proc PROVE RequestInv(q)'
        BY <1>2, <2>1, <2>2, SMT DEF Inv, RequestInv, RequestIdle
  <2>6. Clean' BY <1>2, <2>1 DEF Inv, Clean, Active
  <2> QED BY <1>3, <2>2, <2>3, <2>4, <2>5, <2>6, TypePartsNext DEF Inv
<1> QED BY <1>5, <1>6, <1>7

-----------------------------------------------------------------------------
(* The theorems *)

\* The invariant holds initially.
LEMMA InitInv == Init => Inv
<1> SUFFICES ASSUME Init PROVE Inv OBVIOUS
<1>1. JobsOK /\ FramesOK /\ SavesOK /\ RequestsOK
      BY Blank DEF Init, JobsOK, FramesOK, SavesOK, RequestsOK
<1>2. CloudOK BY Blank, SMT DEF Init, CloudOK
<1>3. RestOK
  <2>1. 0 \in 0..MaxRecoveries /\ 0 \in 0..MaxFaults BY PlatformConfigAssumption, SMT
  <2>2. calls \in [Op -> Nat] /\ recoveries \in [Op -> 0..MaxRecoveries] BY <2>1 DEF Init
  <2> QED BY <2>1, <2>2 DEF Init, RestOK
<1>4. Clean BY DEF Init, Clean
<1>5. ASSUME NEW o \in Op PROVE JobInv(o)
  <2>1. job[o].status = "none" /\ operation[o].state = "none" /\ late = {}
        BY DEF Init, NoJob, NoOperation
  <2> QED BY <2>1 DEF JobInv, Active
<1>6. ASSUME NEW p \in Proc PROVE AdminInv(p) /\ FrameInv(p) /\ RequestInv(p)
  <2>1. admin[p].pc = "idle" /\ worker[p].pc = "idle" /\ request[p].pc = "idle"
        BY DEF Init, AdminIdle, Idle, RequestIdle
  <2> QED BY <2>1 DEF AdminInv, FrameInv, RequestInv
<1> QED BY <1>1, <1>2, <1>3, <1>4, <1>5, <1>6, TypeParts DEF Inv

\* A stuttering step keeps the invariant.
LEMMA StutterInv == Inv /\ UNCHANGED vars => Inv'
<1> SUFFICES ASSUME Inv, UNCHANGED vars PROVE Inv' OBVIOUS
<1>1. TypeOK /\ RestOK /\ FramesOK BY TypeParts DEF Inv
<1>2. UNCHANGED <<job, operation, version, model, relay, leases, lost, request, admin, worker, late,
                  calls, recoveries, faults>>
      BY DEF vars, lceVars, indexVars, history
<1>3. RestOK' /\ FramesOK' /\ AllKept BY <1>1, <1>2, JobsUnchanged DEF RestOK, FramesOK
<1>4. \A q \in Proc : FrameInv(q)' BY <1>2 DEF Inv, FrameInv
<1> QED BY <1>2, <1>3, <1>4, OthersStay, JobsMove

\* The invariant is inductive; TypeOK is one of its conjuncts.
THEOREM ConfigInvariant == Spec => []Inv
<1>1. Inv /\ [Next]_vars => Inv'
      BY StutterInv, WorkerSteps, OtherSteps, PrepareStep, EnqueueStep, CallStep, ExecuteStep,
         FinishStep, RequestSteps
      DEF Next, Saves, WorkerStep, Requests
<1> QED BY <1>1, InitInv, PTL DEF Spec

\* A job's outcome is LCE's, whichever commit request arrives when
\* (finishPlatformConfigJob, deferPlatformConfigJob).
THEOREM OutcomesAreClouds == Spec => []OutcomeIsCloud
<1>1. ASSUME Inv, NEW o \in Op
      PROVE  /\ job[o].status = "succeeded" => operation[o].state = "completed"
             /\ job[o].status = "rejected" => operation[o].state = "rejected"
             /\ operation[o].state = "completed" => job[o].status \in {"running", "succeeded"}
  <2>1. job[o].status \in {"none", "pending", "running", "succeeded", "rejected"}
        BY <1>1, TypeParts DEF Inv, JobsOK, JobType
  <2> QED BY <1>1, <2>1 DEF Inv, JobInv
<1>2. Inv => OutcomeIsCloud BY <1>1 DEF OutcomeIsCloud
<1> QED BY <1>2, ConfigInvariant, PTL

\* No snapshot outlives the embedding model it was made with, except behind the fence of
\* the change that will clear it.
THEOREM SnapshotsFollowModel == Spec => []SnapshotsUseModel
<1>1. Inv => SnapshotsUseModel BY DEF Inv, Clean, SnapshotsUseModel, Resetting
<1> QED BY <1>1, ConfigInvariant, PTL

-----------------------------------------------------------------------------
(* The attempts that are counted *)

\* The workers that may yet send a commit request for an operation.
Pending(o) == {p \in Proc : worker[p].o = o /\ worker[p].pc \in {"drain", "call"}}

\* Each request sent, or yet to be sent, was counted, in this recovery or an earlier one.
Budget(o) ==
  /\ calls[o] + Cardinality(Pending(o)) <= MaxAttempts * recoveries[o] + job[o].count
  /\ job[o].status = "none" => job[o].count = 0

BudgetInv == \A o \in Op : Budget(o)

\* The pending workers of an operation are finitely many.
LEMMA PendingFinite ==
  ASSUME NEW o \in Op
  PROVE  IsFiniteSet(Pending(o)) /\ Cardinality(Pending(o)) \in Nat
<1>1. Pending(o) \in SUBSET Proc BY DEF Pending
<1>2. IsFiniteSet(Pending(o)) BY <1>1, FS_Subset, PlatformConfigAssumption
<1> QED BY <1>2, FS_CardinalityType

\* What Budget counts with.
LEMMA Numbers ==
  ASSUME TypeOK, NEW o \in Op
  PROVE  /\ calls[o] \in Nat /\ recoveries[o] \in Nat /\ job[o].count \in Nat
         /\ MaxAttempts * recoveries[o] \in Nat /\ job[o].count <= MaxAttempts
<1>1. /\ calls[o] \in Nat /\ recoveries[o] \in Nat /\ job[o].count \in Nat
      /\ job[o].count <= MaxAttempts
      BY TypeParts, PlatformConfigAssumption, SMT DEF RestOK, JobsOK, JobType
<1> QED BY <1>1, PlatformConfigAssumption, SMT

\* A step that sends nothing and counts nothing.
LEMMA BudgetStays ==
  ASSUME Inv, BudgetInv, NEW o \in Op, UNCHANGED <<calls, recoveries>>,
         Pending(o)' \subseteq Pending(o), job'[o].count = job[o].count,
         job'[o].status = "none" => job[o].status = "none"
  PROVE  Budget(o)'
<1> DEFINE P == Pending(o)
           Q == Pending(o)'
<1>1. IsFiniteSet(P) /\ Cardinality(P) \in Nat BY PendingFinite
<1>2. Q \in SUBSET P OBVIOUS
<1>3. IsFiniteSet(Q) /\ Cardinality(Q) <= Cardinality(P) BY <1>1, <1>2, FS_Subset
<1>4. Cardinality(Q) \in Nat BY <1>3, FS_CardinalityType
<1>5. calls[o] + Cardinality(P) <= MaxAttempts * recoveries[o] + job[o].count
      BY DEF BudgetInv, Budget
<1> HIDE DEF P, Q
<1>6. calls[o] + Cardinality(Q) <= MaxAttempts * recoveries[o] + job[o].count
      BY <1>1, <1>3, <1>4, <1>5, Numbers, SMT DEF Inv
<1> QED BY <1>6 DEF BudgetInv, Budget, Q

\* A claim counts the attempt of the worker that may now send.
LEMMA BudgetClaim ==
  ASSUME Inv, BudgetInv, NEW p \in Proc, NEW c \in Op, NEW a \in Attempt, Claim(p, c, a)
  PROVE  BudgetInv'
<1>1. TypeOK BY DEF Inv
<1>2. /\ AllKept /\ job'[c].status = "running" /\ job'[c].count = job[c].count + 1
      /\ \A e \in Op \ {c} : job'[e].count = job[e].count
      BY <1>1, ClaimJobs
<1>3. Moved(p) /\ worker'[p].pc \in {"drain", "call"} /\ worker'[p].o = c
      BY <1>1, ClaimFrame
<1>4. UNCHANGED <<calls, recoveries>> /\ worker[p].pc = "idle" BY DEF Claim, history
<1>5. \A e \in Op : job'[e].status = "none" => job[e].status = "none" BY <1>2 DEF AllKept, Kept
<1>6. ASSUME NEW o \in Op, o # c PROVE Budget(o)'
  <2>1. Pending(o)' \subseteq Pending(o) BY <1>3, <1>6 DEF Pending, Moved
  <2> QED BY <1>2, <1>4, <1>5, <1>6, <2>1, BudgetStays
<1>7. Budget(c)'
  <2> DEFINE P == Pending(c)
             Q == Pending(c)'
  <2>1. Q = P \cup {p} /\ p \notin P BY <1>3, <1>4 DEF Pending, Moved
  <2>2. IsFiniteSet(P) /\ Cardinality(P) \in Nat BY PendingFinite
  <2>3. Cardinality(Q) = Cardinality(P) + 1 BY <2>1, <2>2, FS_AddElement
  <2>4. calls[c] + Cardinality(P) <= MaxAttempts * recoveries[c] + job[c].count
        BY DEF BudgetInv, Budget
  <2> HIDE DEF P, Q
  <2>5. calls'[c] + Cardinality(Q) <= MaxAttempts * recoveries'[c] + job'[c].count
        BY <1>1, <1>2, <1>4, <2>2, <2>3, <2>4, Numbers, SMT
  <2> QED BY <1>2, <2>5 DEF Budget, Q
<1> QED BY <1>6, <1>7 DEF BudgetInv

\* A worker sends once.
LEMMA BudgetCall ==
  ASSUME Inv, BudgetInv, NEW p \in Proc, Call(p)
  PROVE  BudgetInv'
<1>1. TypeOK /\ calls \in [Op -> Nat] BY TypeParts DEF Inv, RestOK
<1>2. PICK c \in Op : c = worker[p].o BY DEF Call, Inv, FrameInv
<1>3. Moved(p) /\ worker'[p].pc = "called" /\ worker'[p].o = worker[p].o
      BY <1>1, GotoFrame DEF Call
<1>4. UNCHANGED <<job, recoveries>> /\ calls' = [calls EXCEPT ![c] = @ + 1]
      BY <1>2 DEF Call
<1>5. ASSUME NEW o \in Op, o # c PROVE Budget(o)'
  <2>1. Pending(o)' = Pending(o) BY <1>2, <1>3, <1>5 DEF Pending, Moved
  <2>2. calls'[o] = calls[o] BY <1>1, <1>4, <1>5
  <2> QED BY <1>4, <2>1, <2>2 DEF BudgetInv, Budget
<1>6. Budget(c)'
  <2> DEFINE P == Pending(c)
             Q == Pending(c)'
  <2>1. Q = P \ {p} /\ p \in P BY <1>2, <1>3 DEF Pending, Moved, Call
  <2>2. IsFiniteSet(P) /\ Cardinality(P) \in Nat BY PendingFinite
  <2>3. Cardinality(Q) = Cardinality(P) - 1 BY <2>1, <2>2, FS_RemoveElement
  <2>4. calls[c] + Cardinality(P) <= MaxAttempts * recoveries[c] + job[c].count
        BY DEF BudgetInv, Budget
  <2>5. calls'[c] = calls[c] + 1 BY <1>1, <1>4
  <2> HIDE DEF P, Q
  <2>6. calls'[c] + Cardinality(Q) <= MaxAttempts * recoveries[c] + job[c].count
        BY <1>1, <2>2, <2>3, <2>4, <2>5, Numbers, SMT
  <2> QED BY <1>4, <2>6 DEF BudgetInv, Budget, Q
<1> QED BY <1>5, <1>6 DEF BudgetInv

\* A recovery starts counting again, having used at most MaxAttempts.
LEMMA BudgetRecover ==
  ASSUME Inv, BudgetInv, NEW c \in Op, Recover(c)
  PROVE  BudgetInv'
<1>1. TypeOK /\ recoveries \in [Op -> 0..MaxRecoveries] BY TypeParts DEF Inv, RestOK
<1>2. AllKept /\ job'[c].count = 0 /\ \A e \in Op \ {c} : job'[e] = job[e] BY <1>1, RecoverJobs
<1>3. UNCHANGED <<worker, calls>> /\ recoveries' = [recoveries EXCEPT ![c] = @ + 1]
      BY DEF Recover
<1>4. \A o \in Op : Pending(o)' = Pending(o) BY <1>3 DEF Pending
<1>5. ASSUME NEW o \in Op, o # c PROVE Budget(o)'
      BY <1>1, <1>2, <1>3, <1>4, <1>5 DEF BudgetInv, Budget
<1>6. Budget(c)'
  <2> DEFINE n == Cardinality(Pending(c))
  <2>1. n \in Nat BY PendingFinite
  <2>2. calls[c] + n <= MaxAttempts * recoveries[c] + job[c].count BY DEF BudgetInv, Budget
  <2>3. recoveries'[c] = recoveries[c] + 1 BY <1>1, <1>3
  <2> HIDE DEF n
  <2>4. MaxAttempts * (recoveries[c] + 1) = MaxAttempts * recoveries[c] + MaxAttempts
        BY <1>1, Numbers, PlatformConfigAssumption, SMT
  <2>5. calls[c] + n <= MaxAttempts * (recoveries[c] + 1) + 0
        BY <1>1, <2>1, <2>2, <2>4, Numbers, PlatformConfigAssumption, SMT
  <2> QED BY <1>2, <1>3, <1>4, <2>3, <2>5 DEF Budget, n
<1> QED BY <1>5, <1>6 DEF BudgetInv

\* No attempt is counted or forgotten, no job taken back.
CountsKept ==
  \A e \in Op : /\ job'[e].count = job[e].count
                /\ job'[e].status = "none" => job[e].status = "none"

\* The steps that change what Budget compares.
Claiming == \E p \in Proc, o \in Op, a \in Attempt : Claim(p, o, a)
Calling == \E p \in Proc : Call(p)
Recovering == \E o \in Op : Recover(o)

\* The jobs' counts under the other steps.
LEMMA OtherCounts ==
  ASSUME Inv, BudgetInv, NEW p \in Proc, Enqueue(p) \/ Finish(p)
  PROVE  CountsKept
<1> USE DEF CountsKept
<1>1. TypeOK /\ JobsOK BY TypeParts DEF Inv
<1>2. CASE Enqueue(p)
  <2>1. PICK o \in Op : o = admin[p].o BY <1>2 DEF Enqueue, Inv, AdminInv
  <2>2. CASE UNCHANGED job BY <2>2
  <2>3. CASE ~UNCHANGED job
    <3>1. job[o].count = 0 BY <1>2, <2>1, <2>3 DEF Enqueue, BudgetInv, Budget
    <3>2. job' = [job EXCEPT ![o] = [NoJob EXCEPT !.status = "pending", !.emb = admin[p].emb,
                                                  !.due = TRUE]]
          BY <1>2, <2>1, <2>3 DEF Enqueue
    <3>3. job'[o].count = 0 /\ job'[o].status = "pending"
      <4>1. job'[o] = [NoJob EXCEPT !.status = "pending", !.emb = admin[p].emb, !.due = TRUE]
            BY <1>1, <3>2 DEF JobsOK
      <4> QED BY <4>1 DEF NoJob
    <3>4. \A e \in Op \ {o} : job'[e] = job[e] BY <1>1, <3>2 DEF JobsOK
    <3> QED BY <3>1, <3>3, <3>4
  <2> QED BY <2>2, <2>3
<1>3. CASE Finish(p)
  <2>1. PICK o \in Op : o = worker[p].o BY <1>3 DEF Finish, Inv, FrameInv
  <2>2. CASE UNCHANGED job BY <2>2
  <2>3. CASE ~UNCHANGED job
    <3>1. PICK s \in {"succeeded", "rejected"} :
            job' = [job EXCEPT ![o].status = s, ![o].claimed = FALSE, ![o].recovery = FALSE]
          BY <1>3, <2>1, <2>3 DEF Finish
    <3>2. job'[o].count = job[o].count /\ job'[o].status = s
          BY <1>1, <3>1, SMT DEF JobsOK, JobType
    <3>3. \A e \in Op \ {o} : job'[e] = job[e] BY <1>1, <3>1 DEF JobsOK
    <3> QED BY <3>2, <3>3
  <2> QED BY <2>2, <2>3
<1> QED BY <1>2, <1>3

\* No other step lets a worker send.
LEMMA PendingShrinks ==
  ASSUME Inv, [Next]_vars, ~Claiming
  PROVE  \A o \in Op : Pending(o)' \subseteq Pending(o)
<1>1. TypeOK BY DEF Inv
<1>2. CASE UNCHANGED worker BY <1>2 DEF Pending
<1>3. ASSUME NEW p \in Proc, Moved(p),
             \/ worker'[p].pc \notin {"drain", "call"}
             \/ worker'[p].o = worker[p].o /\ worker[p].pc = "drain"
      PROVE  \A o \in Op : Pending(o)' \subseteq Pending(o)
      BY <1>3 DEF Pending, Moved
<1>4. ASSUME NEW p \in Proc, worker' = [worker EXCEPT ![p] = Idle]
      PROVE  \A o \in Op : Pending(o)' \subseteq Pending(o)
  <2>1. Moved(p) /\ worker'[p].pc = "idle" BY <1>1, <1>4, IdleFrame
  <2> QED BY <1>3, <2>1
<1>5. ASSUME NEW p \in Proc, NEW pc \in {"called", "finish", "defer"}, Goto(p, pc)
      PROVE  \A o \in Op : Pending(o)' \subseteq Pending(o)
  <2>1. Moved(p) /\ worker'[p].pc = pc BY <1>1, <1>5, GotoFrame
  <2> QED BY <1>3, <2>1
<1>6. ASSUME NEW p \in Proc, Drained(p)
      PROVE  \A o \in Op : Pending(o)' \subseteq Pending(o)
  <2>1. Goto(p, "call") /\ worker[p].pc = "drain" BY <1>6 DEF Drained
  <2>2. Moved(p) /\ worker'[p].o = worker[p].o BY <1>1, <2>1, GotoFrame
  <2> QED BY <1>3, <2>1, <2>2
<1>7. \/ UNCHANGED worker
      \/ \E p \in Proc : \/ worker' = [worker EXCEPT ![p] = Idle] \/ Drained(p)
                         \/ \E pc \in {"called", "finish", "defer"} : Goto(p, pc)
  <2>1. CASE UNCHANGED vars BY <2>1 DEF vars
  <2>2. ASSUME NEW p \in Proc, Saves(p) \/ Requests(p) \/ LeaseLapses(p) PROVE UNCHANGED worker
        BY <2>2 DEF Saves, Requests, Validate, Prepare, Enqueue, AbandonSave, Admit, AcquireLease,
                    Publish, Record, Refuse, LeaseLapses
  <2>3. ASSUME NEW p \in Proc, Polls(p) PROVE UNCHANGED worker
        BY <2>3 DEF Polls, Pause, Claiming
  <2>4. ASSUME NEW p \in Proc, WorkerStep(p) \/ WorkerFault(p) \/ Crash(p)
        PROVE  \/ worker' = [worker EXCEPT ![p] = Idle] \/ Drained(p)
               \/ \E pc \in {"called", "finish", "defer"} : Goto(p, pc)
        BY <2>4 DEF WorkerStep, WorkerFault, DrainTimesOut, Call, Reply, Finish, Defer,
                    CallFails, FinishFails, LeaveClaim, Crash
  <2>5. ASSUME NEW o \in Op, Recover(o) \/ Execute(o) \/ ClaimLapses(o) \/ BackoffEnds(o)
        PROVE  UNCHANGED worker
        BY <2>5 DEF Recover, Execute, ClaimLapses, BackoffEnds
  <2> QED BY <2>1, <2>2, <2>3, <2>4, <2>5 DEF Next
<1> QED BY <1>2, <1>4, <1>5, <1>6, <1>7

\* Nor does it count or forget an attempt.
LEMMA CountsStay ==
  ASSUME Inv, BudgetInv, [Next]_vars, ~Claiming, ~Calling, ~Recovering
  PROVE  /\ UNCHANGED <<calls, recoveries>>
         /\ CountsKept
<1>1. TypeOK BY DEF Inv
<1>2. UNCHANGED <<calls, recoveries>>
  <2>1. CASE UNCHANGED vars BY <2>1 DEF vars, history
  <2>2. ASSUME NEW p \in Proc, Saves(p) \/ Requests(p) \/ LeaseLapses(p) \/ Crash(p)
        PROVE  UNCHANGED <<calls, recoveries>>
        BY <2>2 DEF Saves, Requests, Validate, Prepare, Enqueue, AbandonSave, Admit, AcquireLease,
                    Publish, Record, Refuse, LeaseLapses, Crash, history
  <2>3. ASSUME NEW p \in Proc, Polls(p) \/ WorkerStep(p) \/ WorkerFault(p)
        PROVE  UNCHANGED <<calls, recoveries>>
        BY <2>3 DEF Polls, Pause, WorkerStep, WorkerFault, Drained, DrainTimesOut, Reply, Finish,
                    Defer, CallFails, FinishFails, LeaveClaim, history, Claiming, Calling
  <2>4. ASSUME NEW o \in Op, Execute(o) \/ ClaimLapses(o) \/ BackoffEnds(o)
        PROVE  UNCHANGED <<calls, recoveries>>
        BY <2>4 DEF Execute, ClaimLapses, BackoffEnds, history
  <2> QED BY <2>1, <2>2, <2>3, <2>4 DEF Next, Recovering
<1>3. ASSUME AllKept /\ SameCounts
      PROVE  CountsKept
      BY <1>3 DEF AllKept, SameCounts, Kept, CountsKept
<1>4. \/ UNCHANGED job
      \/ \E p \in Proc : Pause(p) \/ job' = Deferred(p) \/ Enqueue(p) \/ Finish(p)
      \/ \E o \in Op : ClaimLapses(o) \/ BackoffEnds(o)
  <2>1. CASE UNCHANGED vars BY <2>1 DEF vars
  <2>2. ASSUME NEW p \in Proc, Saves(p) \/ Requests(p) \/ LeaseLapses(p) \/ Crash(p)
        PROVE  UNCHANGED job \/ Enqueue(p)
        BY <2>2 DEF Saves, Requests, Validate, Prepare, AbandonSave, Admit, AcquireLease,
                    Publish, Record, Refuse, LeaseLapses, Crash
  <2>3. ASSUME NEW p \in Proc, Polls(p) \/ WorkerStep(p) \/ WorkerFault(p)
        PROVE  UNCHANGED job \/ Pause(p) \/ job' = Deferred(p) \/ Finish(p)
        BY <2>3 DEF Polls, WorkerStep, WorkerFault, Drained, DrainTimesOut, Reply, Defer, CallFails,
                    FinishFails, LeaveClaim, Claiming, Calling
  <2>4. ASSUME NEW o \in Op, Execute(o) PROVE UNCHANGED job BY <2>4 DEF Execute
  <2> QED BY <2>1, <2>2, <2>3, <2>4 DEF Next, Recovering
<1>5. CASE UNCHANGED job BY <1>1, <1>2, <1>3, <1>5, JobsUnchanged
<1>6. ASSUME NEW p \in Proc, Pause(p) \/ job' = Deferred(p) PROVE AllKept /\ SameCounts
      BY <1>1, <1>6, PauseJobs, DeferJobs
<1>7. ASSUME NEW p \in Proc, Enqueue(p) \/ Finish(p)
      PROVE  CountsKept
      BY <1>7, OtherCounts
<1>8. ASSUME NEW o \in Op, ClaimLapses(o) \/ BackoffEnds(o) PROVE AllKept /\ SameCounts
      BY <1>1, <1>8, LapseJobs, BackoffJobs
<1>9. CountsKept
  <2>1. CASE \E p \in Proc : Pause(p) \/ job' = Deferred(p) BY <1>3, <1>6, <2>1
  <2>2. CASE \E p \in Proc : Enqueue(p) \/ Finish(p)
    <3>1. PICK p \in Proc : Enqueue(p) \/ Finish(p) BY <2>2
    <3> QED BY <1>7, <3>1
  <2>3. CASE \E o \in Op : ClaimLapses(o) \/ BackoffEnds(o) BY <1>3, <1>8, <2>3
  <2> QED BY <1>4, <1>5, <2>1, <2>2, <2>3
<1> QED BY <1>2, <1>9

\* Between two recoveries an operation is committed in LCE at most MaxAttempts times
\* (claimPlatformConfigJob's attempt_count), for any number of processes.
THEOREM CommitsAreBounded == Spec => []CommitsBounded
<1>1. Init => BudgetInv
  <2> SUFFICES ASSUME Init, NEW o \in Op PROVE Budget(o) BY DEF BudgetInv
  <2>1. calls[o] = 0 /\ recoveries[o] = 0 /\ job[o].count = 0 BY DEF Init, NoJob
  <2>2. Pending(o) = {} BY DEF Init, Pending, Idle
  <2>3. Cardinality(Pending(o)) = 0 BY <2>2, FS_EmptySet
  <2> QED BY <2>1, <2>3, PlatformConfigAssumption, SMT DEF Budget
<1>2. Inv /\ BudgetInv /\ [Next]_vars => BudgetInv'
  <2> SUFFICES ASSUME Inv, BudgetInv, [Next]_vars PROVE BudgetInv' OBVIOUS
  <2>1. CASE Claiming BY <2>1, BudgetClaim DEF Claiming
  <2>2. CASE Calling \/ Recovering BY <2>2, BudgetCall, BudgetRecover DEF Calling, Recovering
  <2>3. CASE ~Claiming /\ ~Calling /\ ~Recovering
    <3>1. \A o \in Op : Pending(o)' \subseteq Pending(o) BY <2>3, PendingShrinks
    <3>2. /\ UNCHANGED <<calls, recoveries>>
          /\ CountsKept
          BY <2>3, CountsStay
    <3>3. ASSUME NEW o \in Op PROVE Budget(o)'
      <4>1. /\ job'[o].count = job[o].count
            /\ job'[o].status = "none" => job[o].status = "none"
            BY <3>2 DEF CountsKept
      <4>2. Pending(o)' \subseteq Pending(o) BY <3>1
      <4> QED BY <3>2, <4>1, <4>2, BudgetStays
    <3> QED BY <3>3 DEF BudgetInv
  <2> QED BY <2>1, <2>2, <2>3
<1>3. Inv /\ BudgetInv => CommitsBounded
  <2> SUFFICES ASSUME Inv, BudgetInv, NEW o \in Op
               PROVE  calls[o] <= MaxAttempts * (1 + recoveries[o])
      BY DEF CommitsBounded
  <2> DEFINE n == Cardinality(Pending(o))
  <2>1. n \in Nat BY PendingFinite
  <2>2. calls[o] + n <= MaxAttempts * recoveries[o] + job[o].count BY DEF BudgetInv, Budget
  <2> HIDE DEF n
  <2>3. MaxAttempts * (1 + recoveries[o]) = MaxAttempts * recoveries[o] + MaxAttempts
        BY Numbers, PlatformConfigAssumption, SMT DEF Inv
  <2> QED BY <2>1, <2>2, <2>3, Numbers, PlatformConfigAssumption, SMT DEF Inv
<1> QED BY <1>1, <1>2, <1>3, ConfigInvariant, PTL DEF Spec
===============================================================================
