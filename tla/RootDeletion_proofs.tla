-------------------------- MODULE RootDeletion_proofs --------------------------
(***************************************************************************)
(* Theorems about RootDeletion, for any number of deletions, roots,        *)
(* workers, attempts and faults.                                           *)
(***************************************************************************)
EXTENDS RootDeletion, FiniteSetTheorems, TLAPS

\* Zenon proves what a step does not ask SMT for.
USE Zenon

RowType ==
  [status : {"none", "queued", "running", "succeeded", "pruned"},
   root : Root \cup {None}, attempt : Attempt \cup {None}, count : 0..MaxAttempts,
   recovery : BOOLEAN, claimed : BOOLEAN, due : BOOLEAN, asked : 0..MaxContent]

FrameType ==
  [pc : {"idle", "claimed", "leased", "call", "called", "finish", "record", "release"},
   d : Deletion \cup {None}, attempt : Attempt \cup {None}, count : 0..MaxAttempts,
   deferOnly : BOOLEAN]

\* The rows and the frames, and what is left of TypeOK without them.
RowsOK == row \in [Deletion -> RowType]
FramesOK == worker \in [Worker -> FrameType]
RestOK ==
  /\ lease \in Worker \cup {"free", "lost"}
  /\ relay \in [Root -> 0..MaxContent] /\ cloud \in [Root -> 0..MaxContent]
  /\ executed \subseteq Deletion /\ late \subseteq Deletion
  /\ index \in [root : Root \cup {None}, stage : {"none", "running", "published"}]
  /\ contents \in 0..MaxContent
  /\ calls \in [Deletion -> Nat] /\ retries \in [Deletion -> 0..MaxRetries]
  /\ faults \in 0..MaxFaults

\* The type invariant is these three.
LEMMA TypeParts == TypeOK <=> RowsOK /\ FramesOK /\ RestOK
BY DEF TypeOK, RowsOK, FramesOK, RestOK, RowType, FrameType

\* The same in the next state.
LEMMA TypePartsNext == TypeOK' <=> RowsOK' /\ FramesOK' /\ RestOK'
BY DEF TypeOK, RowsOK, FramesOK, RestOK, RowType, FrameType

\* The constants that rows and frames start from.
LEMMA Blank == NoRow \in RowType /\ Idle \in FrameType
BY RootDeletionAssumption, SMT DEF NoRow, RowType, Idle, FrameType

-----------------------------------------------------------------------------
(* What each step makes of the rows *)

\* A row keeps its root and what was asked; its status changes within a class.
Kept(d) ==
  /\ row'[d].root = row[d].root /\ row'[d].asked = row[d].asked
  /\ \/ row'[d].status = row[d].status
     \/ {row[d].status, row'[d].status} \subseteq {"queued", "running"}
     \/ {row[d].status, row'[d].status} \subseteq {"succeeded", "pruned"}

AllKept == RowsOK' /\ \A d \in Deletion : Kept(d)

\* The rows of a step that leaves them alone.
LEMMA RowsUnchanged == ASSUME TypeOK, UNCHANGED row PROVE AllKept
BY TypeParts DEF AllKept, Kept, RowsOK

\* The rows after a retry.
LEMMA RetryRows == ASSUME TypeOK, NEW d \in Deletion, Retry(d) PROVE AllKept
<1> DEFINE r == row[d]
           x == [status |-> r.status, root |-> r.root, attempt |-> r.attempt, count |-> 0,
                 recovery |-> FALSE, claimed |-> r.claimed, due |-> TRUE, asked |-> r.asked]
<1>1. RowsOK /\ r \in RowType BY TypeParts DEF RowsOK
<1>2. x \in RowType BY <1>1, RootDeletionAssumption, SMT DEF RowType
<1>3. row'[d] = x BY <1>1 DEF Retry, RowType, RowsOK
<1>4. DOMAIN row' = Deletion /\ row' = [e \in Deletion |-> row'[e]]
      /\ \A e \in Deletion \ {d} : row'[e] = row[e]
      BY <1>1 DEF Retry, RowsOK
<1>5. x.status = r.status /\ x.root = r.root /\ x.asked = r.asked OBVIOUS
<1> HIDE DEF x
<1> QED BY <1>1, <1>2, <1>3, <1>4, <1>5 DEF AllKept, Kept, RowsOK

\* The rows after a finished job is pruned.
LEMMA PruneRows == ASSUME TypeOK, NEW d \in Deletion, Prune(d) PROVE AllKept
<1> DEFINE r == row[d]
           x == [status |-> "pruned", root |-> r.root, attempt |-> None, count |-> r.count,
                 recovery |-> r.recovery, claimed |-> r.claimed, due |-> r.due,
                 asked |-> r.asked]
<1>1. RowsOK /\ r \in RowType BY TypeParts DEF RowsOK
<1>2. x \in RowType BY <1>1 DEF RowType
<1>3. row'[d] = x BY <1>1 DEF Prune, RowType, RowsOK
<1>4. DOMAIN row' = Deletion /\ row' = [e \in Deletion |-> row'[e]]
      /\ \A e \in Deletion \ {d} : row'[e] = row[e]
      BY <1>1 DEF Prune, RowsOK
<1> QED BY <1>1, <1>2, <1>3, <1>4, SMT DEF AllKept, Kept, RowsOK, Prune

\* The rows after a claim lapses.
LEMMA LapseRows == ASSUME TypeOK, NEW d \in Deletion, ClaimLapses(d) PROVE AllKept
BY TypeParts, ZenonT(30) DEF AllKept, Kept, RowsOK, RowType, ClaimLapses

\* The rows after a backoff ends.
LEMMA BackoffRows == ASSUME TypeOK, NEW d \in Deletion, BackoffEnds(d) PROVE AllKept
BY TypeParts, ZenonT(30) DEF AllKept, Kept, RowsOK, RowType, BackoffEnds

\* What another claim makes of an exhausted job.
LEMMA PausedRow ==
  ASSUME TypeOK, NEW d \in Deletion
  PROVE  /\ Paused(d) \in RowType /\ Paused(d).root = row[d].root
         /\ Paused(d).asked = row[d].asked /\ Paused(d).status = row[d].status
BY TypeParts DEF RowsOK, RowType, Paused

\* The rows after a poll that only pauses.
LEMMA PauseRows == ASSUME TypeOK, NEW w \in Worker, Pause(w) PROVE AllKept
BY PausedRow DEF AllKept, Kept, RowsOK, Pause

\* The rows after a claim.
LEMMA ClaimRows ==
  ASSUME TypeOK, NEW w \in Worker, NEW d \in Deletion, NEW a \in Attempt, Claim(w, d, a)
  PROVE  AllKept
<1> DEFINE x == [status |-> "running", root |-> row[d].root, attempt |-> a,
                 count |-> row[d].count + 1, recovery |-> row[d].recovery, claimed |-> TRUE,
                 due |-> row[d].due, asked |-> row[d].asked]
<1>1. row[d] \in RowType BY TypeParts DEF RowsOK
<1>2. row[d].count + 1 \in 0..MaxAttempts
      BY <1>1, RootDeletionAssumption, SMT DEF RowType, Claim, Candidate
<1>3. x \in RowType BY <1>1, <1>2 DEF RowType
<1>4. row'[d] = x BY <1>1 DEF Claim, RowType
<1>5. \A e \in Deletion \ {d} : row'[e] = Paused(e) BY DEF Claim
<1>6. row' \in [Deletion -> RowType]
  <2>1. row' = [e \in Deletion |-> row'[e]] BY DEF Claim
  <2> QED BY <1>3, <1>4, <1>5, <2>1, PausedRow
<1>7. Kept(d) BY <1>4 DEF Kept, Claim, Candidate
<1>8. ASSUME NEW e \in Deletion \ {d} PROVE Kept(e) BY <1>5, PausedRow DEF Kept
<1> QED BY <1>6, <1>7, <1>8 DEF AllKept, RowsOK

\* The rows after an error is recorded.
LEMMA RecordRows == ASSUME TypeOK, NEW w \in Worker, RecordError(w) PROVE AllKept
<1>1. Attempts(w) \in 0..MaxAttempts
      BY TypeParts, RootDeletionAssumption, SMT DEF FramesOK, FrameType, Attempts
<1> HIDE DEF Attempts
<1>2. CASE ~Current(w) BY <1>2, RowsUnchanged DEF RecordError
<1>3. CASE Current(w)
  <2> DEFINE d == worker[w].d
             r == row[d]
             x == [status |-> r.status, root |-> r.root, attempt |-> r.attempt,
                   count |-> Attempts(w), recovery |-> Attempts(w) >= MaxAttempts,
                   claimed |-> FALSE, due |-> FALSE, asked |-> r.asked]
  <2>1. CASE d \notin Deletion
        BY <1>3, <2>1, TypeParts, RowsUnchanged DEF RecordError, RowsOK
  <2>2. CASE d \in Deletion
    <3>1. RowsOK /\ r \in RowType BY <2>2, TypeParts DEF RowsOK
    <3>2. x \in RowType BY <1>1, <3>1, SMT DEF RowType
    <3>3. row'[d] = x BY <1>3, <2>2, <3>1 DEF RecordError, RowType, RowsOK
    <3>4. DOMAIN row' = Deletion /\ row' = [e \in Deletion |-> row'[e]]
          /\ \A e \in Deletion \ {d} : row'[e] = row[e]
          BY <1>3, <2>2, <3>1 DEF RecordError, RowsOK
    <3> QED BY <3>1, <3>2, <3>3, <3>4, SMT DEF AllKept, Kept, RowsOK
  <2> QED BY <2>1, <2>2
<1> QED BY <1>2, <1>3

-----------------------------------------------------------------------------
(* What each step makes of a frame *)

\* One worker's frame changes; the others stay.
Moved(w) == FramesOK' /\ \A v \in Worker \ {w} : worker'[v] = worker[v]

\* A worker that goes on keeps its deletion.
LEMMA GotoFrame ==
  ASSUME TypeOK, NEW w \in Worker,
         NEW pc \in {"leased", "call", "called", "finish", "release"}, Goto(w, pc)
  PROVE  Moved(w) /\ worker'[w].pc = pc /\ worker'[w].d = worker[w].d
BY TypeParts, SMT DEF Goto, Moved, FramesOK, FrameType

\* A worker that goes on to record an error keeps its deletion.
LEMMA ToRecordFrame ==
  ASSUME TypeOK, NEW w \in Worker, NEW b \in BOOLEAN, ToRecord(w, b)
  PROVE  Moved(w) /\ worker'[w].pc = "record" /\ worker'[w].d = worker[w].d
<1> DEFINE f == worker[w]
           x == [pc |-> "record", d |-> f.d, attempt |-> f.attempt, count |-> f.count,
                 deferOnly |-> b]
<1>1. FramesOK /\ f \in FrameType BY TypeParts DEF FramesOK
<1>2. x \in FrameType BY <1>1 DEF FrameType
<1>3. worker'[w] = x BY <1>1 DEF ToRecord, FrameType, FramesOK
<1>4. worker' = [v \in Worker |-> worker'[v]] /\ \A v \in Worker \ {w} : worker'[v] = worker[v]
      BY <1>1 DEF ToRecord, FramesOK
<1> QED BY <1>1, <1>2, <1>3, <1>4, SMT DEF Moved, FramesOK

\* A worker that ends its attempt.
LEMMA IdleFrame ==
  ASSUME TypeOK, NEW w \in Worker, worker' = [worker EXCEPT ![w] = Idle]
  PROVE  Moved(w) /\ worker'[w].pc = "idle"
BY TypeParts, Blank DEF Moved, FramesOK, Idle

\* The frame of a new attempt.
LEMMA ClaimFrame ==
  ASSUME TypeOK, NEW w \in Worker, NEW d \in Deletion, NEW a \in Attempt, Claim(w, d, a)
  PROVE  Moved(w) /\ worker'[w].pc = "claimed" /\ worker'[w].d = d
<1> DEFINE x == [pc |-> "claimed", d |-> d, attempt |-> a, count |-> row[d].count + 1,
                 deferOnly |-> FALSE]
<1>1. row[d].count + 1 \in 0..MaxAttempts
      BY TypeParts, RootDeletionAssumption, SMT DEF RowsOK, RowType, Claim, Candidate
<1>2. x \in FrameType BY <1>1 DEF FrameType
<1>3. FramesOK BY TypeParts
<1>4. worker'[w] = x BY <1>3 DEF Claim, FramesOK, Idle
<1>5. worker' = [v \in Worker |-> worker'[v]] /\ \A v \in Worker \ {w} : worker'[v] = worker[v]
      BY <1>3 DEF Claim, FramesOK
<1>6. x.pc = "claimed" /\ x.d = d OBVIOUS
<1> HIDE DEF x
<1> QED BY <1>2, <1>3, <1>4, <1>5, <1>6 DEF Moved, FramesOK

-----------------------------------------------------------------------------
(* The inductive invariant *)

\* Only an active deletion can still have its operation executed; while it is active
\* nothing is published, so what is in the cloud was there when it was asked for.
RowInv(d) ==
  /\ row[d].status # "none" => row[d].root \in Root
  /\ row[d].status = "none" => d \notin late \cup executed
  /\ row[d].status \in {"succeeded", "pruned"} => d \in executed
  /\ Active(d) => cloud[row[d].root] <= row[d].asked
  /\ Active(d) /\ d \in executed => cloud[row[d].root] = 0

\* A worker has a deletion that was accepted, and finishes one that was executed.
FrameInv(w) ==
  worker[w].pc # "idle" =>
    /\ worker[w].d \in Deletion /\ row[worker[w].d].status # "none"
    /\ worker[w].pc = "finish" => worker[w].d \in executed

\* An index job and a deletion exclude each other (submitRootDeletion, beginIndexJob).
IndexInv ==
  index.stage # "none" => index.root \in Root /\ \A d \in Deletion : ~Active(d)

Inv ==
  /\ TypeOK /\ SnapshotAgrees /\ IndexInv
  /\ \A d \in Deletion : RowInv(d)
  /\ \A w \in Worker : FrameInv(w)

\* A step that moves rows within their class, frames with them, and neither the
\* contents nor the index job.
LEMMA RowsMove ==
  ASSUME Inv, AllKept, FramesOK', RestOK',
         UNCHANGED <<relay, cloud, executed, indexVars>>, late' \subseteq late,
         \A w \in Worker : worker'[w].pc # "idle" =>
            /\ worker'[w].d \in Deletion /\ row[worker'[w].d].status # "none"
            /\ worker'[w].pc = "finish" => worker'[w].d \in executed
  PROVE  Inv'
<1>1. TypeOK' BY TypePartsNext DEF AllKept
<1>2. ASSUME NEW d \in Deletion
      PROVE  /\ Kept(d) /\ (Active(d)' <=> Active(d)) /\ row'[d].root = row[d].root
             /\ row'[d].status = "none" <=> row[d].status = "none"
             /\ row'[d].status \in {"succeeded", "pruned"}
                  <=> row[d].status \in {"succeeded", "pruned"}
  <2>1. Kept(d) BY DEF AllKept
  <2> QED BY <2>1 DEF Kept, Active
<1>3. ASSUME NEW d \in Deletion PROVE RowInv(d)' BY <1>2 DEF Inv, RowInv, Kept
<1>4. ASSUME NEW w \in Worker PROVE FrameInv(w)' BY <1>2 DEF FrameInv
<1>5. IndexInv' BY <1>2 DEF Inv, IndexInv, indexVars
<1>6. SnapshotAgrees' BY <1>2, SMT DEF Inv, SnapshotAgrees, indexVars
<1> QED BY <1>1, <1>3, <1>4, <1>5, <1>6 DEF Inv

\* A step of one worker that leaves rows and contents alone.
LEMMA WorkerMoves ==
  ASSUME Inv, NEW w \in Worker, Moved(w),
         UNCHANGED <<row, relay, cloud, executed, indexVars, history>>, late' \subseteq late,
         lease' \in Worker \cup {"free", "lost"}, faults' \in 0..MaxFaults,
         \/ worker'[w].pc = "idle"
         \/ /\ worker[w].pc # "idle" /\ worker'[w].d = worker[w].d
            /\ worker'[w].pc = "finish" => worker[w].d \in executed
  PROVE  Inv'
<1>1. AllKept BY RowsUnchanged DEF Inv
<1>2. FramesOK' BY DEF Moved
<1>3. RestOK' BY TypeParts DEF Inv, RestOK, indexVars, history
<1>4. ASSUME NEW v \in Worker, worker'[v].pc # "idle"
      PROVE  /\ worker'[v].d \in Deletion /\ row[worker'[v].d].status # "none"
             /\ worker'[v].pc = "finish" => worker'[v].d \in executed
  <2>1. CASE v = w BY <1>4, <2>1 DEF Inv, FrameInv
  <2>2. CASE v # w BY <1>4, <2>2 DEF Inv, FrameInv, Moved
  <2> QED BY <2>1, <2>2
<1> QED BY <1>1, <1>2, <1>3, <1>4, RowsMove

\* The bounded counter of faults.
LEMMA FaultCounts == ASSUME TypeOK, Fault \/ NoFault PROVE faults' \in 0..MaxFaults
BY TypeParts, RootDeletionAssumption, SMT DEF RestOK, Fault, NoFault

\* The steps of a worker that change neither rows nor contents.
LEMMA QuietSteps ==
  ASSUME Inv, NEW w \in Worker,
         \/ AcquireLease(w) \/ CheckCurrent(w) \/ Reply(w) \/ Release(w)
         \/ WorkerFault(w)
  PROVE  Inv'
<1>1. TypeOK /\ lease \in Worker \cup {"free", "lost"} BY TypeParts DEF Inv, RestOK
<1>2. CASE AcquireLease(w)
  <2>1. Goto(w, "leased") \/ ToRecord(w, TRUE) BY <1>2 DEF AcquireLease
  <2>2. /\ Moved(w) /\ worker'[w].d = worker[w].d /\ worker'[w].pc # "finish"
        BY <1>1, <2>1, GotoFrame, ToRecordFrame
  <2> QED BY <1>1, <1>2, <2>2, FaultCounts, WorkerMoves DEF AcquireLease, cloudVars
<1>3. CASE CheckCurrent(w)
  <2>1. Goto(w, "call") \/ Goto(w, "release") BY <1>3 DEF CheckCurrent
  <2>2. /\ Moved(w) /\ worker'[w].d = worker[w].d /\ worker'[w].pc # "finish"
        BY <1>1, <2>1, GotoFrame
  <2> QED BY <1>1, <1>3, <2>2, FaultCounts, WorkerMoves DEF CheckCurrent, cloudVars
<1>4. CASE Reply(w)
  <2>1. Goto(w, "finish") BY <1>4 DEF Reply
  <2>2. Moved(w) /\ worker'[w].d = worker[w].d BY <1>1, <2>1, GotoFrame
  <2> QED BY <1>1, <1>4, <2>2, FaultCounts, WorkerMoves DEF Reply, cloudVars
<1>5. CASE Release(w)
  <2>1. worker' = [worker EXCEPT ![w] = Idle] BY <1>5 DEF Release
  <2>2. Moved(w) /\ worker'[w].pc = "idle" BY <1>1, <2>1, IdleFrame
  <2>3. lease' \in Worker \cup {"free", "lost"} BY <1>1, <1>5 DEF Release
  <2> QED BY <1>1, <1>5, <2>2, <2>3, FaultCounts, WorkerMoves DEF Release, cloudVars
<1>6. CASE Crash(w)
  <2>1. worker' = [worker EXCEPT ![w] = Idle] BY <1>6 DEF Crash
  <2>2. Moved(w) /\ worker'[w].pc = "idle" BY <1>1, <2>1, IdleFrame
  <2>3. lease' \in Worker \cup {"free", "lost"} BY <1>1, <1>6 DEF Crash
  <2> QED BY <1>1, <1>6, <2>2, <2>3, FaultCounts, WorkerMoves DEF Crash, cloudVars
<1>7. CASE BarrierRefuses(w) \/ CallFails(w) \/ FinishFails(w)
  <2>1. ToRecord(w, TRUE) \/ ToRecord(w, FALSE)
        BY <1>7 DEF BarrierRefuses, CallFails, FinishFails
  <2>2. Moved(w) /\ worker'[w].d = worker[w].d /\ worker'[w].pc # "finish"
        BY <1>1, <2>1, ToRecordFrame
  <2>3. /\ UNCHANGED <<row, lease, relay, cloud, executed, indexVars, history>>
        /\ late' \subseteq late /\ Fault /\ worker[w].pc # "idle"
        BY <1>7 DEF BarrierRefuses, CallFails, FinishFails, cloudVars
  <2> QED BY <1>1, <2>2, <2>3, FaultCounts, WorkerMoves
<1>8. CASE LeaveClaim(w)
  <2>1. Goto(w, "release") BY <1>8 DEF LeaveClaim
  <2>2. Moved(w) /\ worker'[w].d = worker[w].d /\ worker'[w].pc # "finish"
        BY <1>1, <2>1, GotoFrame
  <2> QED BY <1>1, <1>8, <2>2, FaultCounts, WorkerMoves DEF LeaveClaim, cloudVars
<1> QED BY <1>2, <1>3, <1>4, <1>5, <1>6, <1>7, <1>8 DEF WorkerFault

\* Retries, pruning, polling, the record of an error and the clock.
LEMMA RowSteps ==
  ASSUME Inv,
         \/ \E d \in Deletion : Retry(d) \/ Prune(d) \/ ClaimLapses(d) \/ BackoffEnds(d)
         \/ \E w \in Worker : Polls(w) \/ RecordError(w)
         \/ LeaseLapses
  PROVE  Inv'
<1>1. TypeOK /\ RestOK BY TypeParts DEF Inv
<1>2. CASE \E d \in Deletion : Retry(d) \/ Prune(d) \/ ClaimLapses(d) \/ BackoffEnds(d)
  <2>1. PICK d \in Deletion : Retry(d) \/ Prune(d) \/ ClaimLapses(d) \/ BackoffEnds(d) BY <1>2
  <2>2. AllKept BY <1>1, <2>1, RetryRows, PruneRows, LapseRows, BackoffRows
  <2>3. /\ UNCHANGED <<worker, lease, relay, cloudVars, indexVars, calls>>
        /\ retries' \in [Deletion -> 0..MaxRetries]
        /\ Fault \/ NoFault
    <3>1. CASE Retry(d)
      <4>1. /\ retries \in [Deletion -> 0..MaxRetries] /\ retries[d] < MaxRetries
            /\ retries' = [retries EXCEPT ![d] = retries[d] + 1]
            BY <1>1, <3>1 DEF Retry, RestOK
      <4>2. retries[d] + 1 \in 0..MaxRetries BY <4>1, RootDeletionAssumption, SMT
      <4>3. retries' \in [Deletion -> 0..MaxRetries] BY <4>1, <4>2
      <4> QED BY <3>1, <4>3 DEF Retry
    <3>2. CASE Prune(d) \/ ClaimLapses(d) \/ BackoffEnds(d)
          BY <1>1, <3>2 DEF Prune, ClaimLapses, BackoffEnds, history, RestOK
    <3> QED BY <2>1, <3>1, <3>2
  <2>4. RestOK' /\ FramesOK'
        BY <1>1, <2>3, FaultCounts, TypeParts DEF RestOK, FramesOK, cloudVars, indexVars
  <2> QED BY <2>2, <2>3, <2>4, RowsMove DEF Inv, FrameInv, cloudVars
<1>3. CASE \E w \in Worker : Polls(w) \/ RecordError(w)
  <2>1. PICK w \in Worker : Polls(w) \/ RecordError(w) BY <1>3
  <2>2. /\ UNCHANGED <<lease, relay, cloudVars, indexVars, history>> /\ NoFault
        BY <2>1 DEF Polls, Pause, Claim, RecordError
  <2>3. RestOK' BY <1>1, <2>2 DEF RestOK, NoFault, cloudVars, indexVars, history
  <2>4. /\ AllKept /\ FramesOK' /\ \A v \in Worker \ {w} : worker'[v] = worker[v]
        /\ worker'[w].pc # "idle" =>
             /\ worker'[w].d \in Deletion /\ row[worker'[w].d].status # "none"
             /\ worker'[w].pc = "finish" => worker'[w].d \in executed
    <3>1. CASE Pause(w)
      <4>1. AllKept /\ UNCHANGED worker BY <1>1, <3>1, PauseRows DEF Pause
      <4> QED BY <1>1, <4>1, TypeParts DEF Inv, FrameInv, FramesOK
    <3>2. CASE \E d \in Deletion, a \in Attempt : Claim(w, d, a)
      <4>1. PICK d \in Deletion, a \in Attempt : Claim(w, d, a) BY <3>2
      <4>2. AllKept /\ Moved(w) /\ worker'[w].pc = "claimed" /\ worker'[w].d = d
            BY <1>1, <4>1, ClaimRows, ClaimFrame
      <4>3. row[d].status # "none" BY <4>1 DEF Claim, Candidate
      <4> QED BY <4>2, <4>3 DEF Moved
    <3>3. CASE RecordError(w)
      <4>1. AllKept BY <1>1, <3>3, RecordRows
      <4>2. Goto(w, "release") /\ worker[w].pc # "idle" BY <3>3 DEF RecordError
      <4>3. Moved(w) /\ worker'[w].pc = "release" /\ worker'[w].d = worker[w].d
            BY <1>1, <4>2, GotoFrame
      <4> QED BY <4>1, <4>2, <4>3 DEF Moved, Inv, FrameInv
    <3> QED BY <2>1, <3>1, <3>2, <3>3 DEF Polls
  <2> QED BY <2>2, <2>3, <2>4, RowsMove DEF Inv, FrameInv, cloudVars
<1>4. CASE LeaseLapses
  <2>1. AllKept BY <1>1, <1>4, RowsUnchanged DEF LeaseLapses
  <2>2. RestOK' /\ FramesOK'
        BY <1>1, <1>4, TypeParts
        DEF LeaseLapses, NoFault, RestOK, FramesOK, cloudVars, indexVars, history
  <2> QED BY <1>4, <2>1, <2>2, RowsMove DEF LeaseLapses, Inv, FrameInv, cloudVars
<1> QED BY <1>2, <1>3, <1>4

\* The cloud is called for a deletion that was accepted.
LEMMA CallStep ==
  ASSUME Inv, NEW w \in Worker, Call(w)
  PROVE  Inv'
<1> DEFINE d == worker[w].d
<1>1. TypeOK /\ RestOK /\ RowsOK BY TypeParts DEF Inv
<1>2. d \in Deletion /\ row[d].status # "none" BY DEF Call, Inv, FrameInv
<1>3. Moved(w) /\ worker'[w].pc = "called" /\ worker'[w].d = d BY <1>1, GotoFrame DEF Call
<1>4. /\ UNCHANGED <<row, lease, relay, cloud, executed, indexVars, retries, faults>>
      /\ late' = late \cup {d} /\ calls' = [calls EXCEPT ![d] = @ + 1]
      BY DEF Call, NoFault
<1>5. RestOK' BY <1>1, <1>2, <1>4, SMT DEF RestOK, indexVars
<1>6. TypeOK' BY <1>1, <1>3, <1>4, <1>5, TypePartsNext DEF Moved, RowsOK
<1>7. ASSUME NEW e \in Deletion PROVE RowInv(e)'
      BY <1>2, <1>4 DEF Inv, RowInv, Active
<1>8. ASSUME NEW v \in Worker PROVE FrameInv(v)'
      BY <1>2, <1>3, <1>4 DEF Inv, FrameInv, Moved
<1>9. IndexInv' /\ SnapshotAgrees' BY <1>4 DEF Inv, IndexInv, SnapshotAgrees, Active, indexVars
<1> QED BY <1>6, <1>7, <1>8, <1>9 DEF Inv

\* LCE executes an operation for the first time only while its deletion is active.
LEMMA ExecuteStep ==
  ASSUME Inv, NEW d \in Deletion, Execute(d)
  PROVE  Inv' /\ (d \notin executed => Active(d) /\ row[d].root \in Root)
<1>1. TypeOK /\ RestOK /\ RowsOK BY TypeParts DEF Inv
<1>2. row[d].status # "none" BY DEF Execute, Inv, RowInv
<1>3. d \notin executed => Active(d) /\ row[d].root \in Root
      BY <1>1, <1>2 DEF Inv, RowInv, Active, RowsOK, RowType
<1>4. /\ UNCHANGED <<row, worker, lease, relay, indexVars, history, faults>>
      /\ late' = late \ {d} /\ executed' = executed \cup {d}
      /\ cloud' = IF d \in executed THEN cloud ELSE [cloud EXCEPT ![row[d].root] = 0]
      BY DEF Execute, NoFault
<1>5. cloud' \in [Root -> 0..MaxContent]
  <2>1. cloud \in [Root -> 0..MaxContent] /\ 0 \in 0..MaxContent
        BY <1>1, RootDeletionAssumption, SMT DEF RestOK
  <2>2. [cloud EXCEPT ![row[d].root] = 0] \in [Root -> 0..MaxContent] BY <2>1
  <2> QED BY <1>4, <2>1, <2>2
<1>6. RestOK' BY <1>1, <1>4, <1>5 DEF RestOK, indexVars, history
<1>7. TypeOK' BY <1>1, <1>4, <1>6, TypePartsNext, TypeParts DEF RowsOK, FramesOK
<1>8. ASSUME NEW e \in Deletion PROVE RowInv(e)'
  <2>1. row[e].status # "none" => row[e].root \in Root BY DEF Inv, RowInv
  <2>2. Active(e) => cloud'[row[e].root] \in {cloud[row[e].root], 0}
        BY <1>1, <1>4, <2>1 DEF RestOK, Active
  <2>3. Active(d) /\ d \notin executed => cloud'[row[d].root] = 0
        BY <1>1, <1>3, <1>4 DEF RestOK
  <2>4. row[e].asked \in Nat BY <1>1, RootDeletionAssumption, SMT DEF RowsOK, RowType
  <2>5. RowInv(e) BY DEF Inv
  <2>6. CASE e = d BY <1>2, <1>4, <2>2, <2>3, <2>4, <2>5, <2>6, SMT DEF RowInv, Active
  <2>7. CASE e # d BY <1>4, <2>2, <2>4, <2>5, <2>7, SMT DEF RowInv, Active
  <2> QED BY <2>6, <2>7
<1>9. ASSUME NEW v \in Worker PROVE FrameInv(v)' BY <1>4 DEF Inv, FrameInv
<1>10. IndexInv' BY <1>4 DEF Inv, IndexInv, Active, indexVars
<1>11. SnapshotAgrees'
  <2>1. CASE d \in executed BY <1>4, <2>1 DEF Inv, SnapshotAgrees, Active, indexVars
  <2>2. CASE d \notin executed
        BY <1>1, <1>3, <1>4, <2>2 DEF Inv, SnapshotAgrees, Active, indexVars, RestOK
  <2> QED BY <2>1, <2>2
<1> QED BY <1>3, <1>7, <1>8, <1>9, <1>10, <1>11 DEF Inv

\* The relay's rows go when the cloud's content has gone, and with the deletion.
LEMMA FinishStep ==
  ASSUME Inv, NEW w \in Worker, Finish(w)
  PROVE  Inv'
<1>1. TypeOK /\ RestOK /\ RowsOK BY TypeParts DEF Inv
<1>2. PICK d \in Deletion : d = worker[w].d /\ row[d].status # "none" /\ d \in executed
      BY DEF Finish, Inv, FrameInv
<1>3. /\ UNCHANGED <<lease, cloud, executed, late, indexVars, history, faults>>
      /\ Goto(w, "release") \/ ToRecord(w, FALSE)
      BY DEF Finish, NoFault, cloudVars
<1>4. Moved(w) /\ worker'[w].pc \in {"release", "record"} /\ worker'[w].d = d
      BY <1>1, <1>2, <1>3, GotoFrame, ToRecordFrame
<1>5. CASE ~Current(w)
  <2>1. UNCHANGED <<row, relay>> BY <1>5 DEF Finish
  <2> QED BY <1>1, <1>2, <1>3, <1>4, <2>1, WorkerMoves DEF RestOK, Finish
<1>6. CASE Current(w)
  <2> DEFINE r == row[d]
             x == [status |-> "succeeded", root |-> r.root, attempt |-> r.attempt,
                   count |-> r.count, recovery |-> r.recovery, claimed |-> FALSE,
                   due |-> r.due, asked |-> r.asked]
  <2>1. r \in RowType BY <1>1, <1>2 DEF RowsOK
  <2>2. Active(d) /\ r.root \in Root /\ cloud[r.root] = 0
        BY <1>2, <1>6 DEF Current, Inv, RowInv, Active
  <2>3. x \in RowType BY <2>1 DEF RowType
  <2>4. row'[d] = x
    <3>1. row' = [row EXCEPT ![d].status = "succeeded", ![d].claimed = FALSE]
          BY <1>2, <1>6 DEF Finish
    <3> QED BY <1>1, <2>1, <3>1 DEF RowsOK, RowType
  <2>5. row' = [e \in Deletion |-> row'[e]] /\ \A e \in Deletion \ {d} : row'[e] = row[e]
        BY <1>1, <1>2, <1>6 DEF Finish, RowsOK
  <2>6. x.status = "succeeded" /\ x.root = r.root OBVIOUS
  <2> HIDE DEF x
  <2>7. RowsOK' BY <1>1, <2>3, <2>4, <2>5 DEF RowsOK
  <2>8. relay' = [relay EXCEPT ![r.root] = 0] BY <1>2, <1>6 DEF Finish
  <2>9. RestOK'
    <3>1. relay \in [Root -> 0..MaxContent] /\ 0 \in 0..MaxContent
          BY <1>1, RootDeletionAssumption, SMT DEF RestOK
    <3>2. relay' \in [Root -> 0..MaxContent] BY <2>8, <3>1
    <3> QED BY <1>1, <1>3, <3>2 DEF RestOK, indexVars, history
  <2>10. TypeOK' BY <1>4, <2>7, <2>9, TypePartsNext DEF Moved
  <2>11. ~Active(d)' /\ \A e \in Deletion \ {d} : Active(e)' <=> Active(e)
         BY <1>2, <2>4, <2>5, <2>6 DEF Active
  <2>12. ASSUME NEW e \in Deletion PROVE RowInv(e)'
    <3>1. CASE e = d BY <1>2, <1>3, <2>2, <2>4, <2>6, <2>11, <3>1 DEF RowInv
    <3>2. CASE e # d BY <1>3, <2>5, <2>11, <3>2 DEF Inv, RowInv
    <3> QED BY <3>1, <3>2
  <2>13. ASSUME NEW v \in Worker PROVE FrameInv(v)'
    <3>1. \A e \in Deletion : row[e].status # "none" => row'[e].status # "none"
          BY <2>4, <2>5, <2>6
    <3> QED BY <1>2, <1>3, <1>4, <3>1 DEF Inv, FrameInv, Moved
  <2>14. IndexInv' BY <1>3, <2>2, <1>2 DEF Inv, IndexInv, indexVars
  <2>15. ASSUME NEW r2 \in Root
         PROVE  \/ relay'[r2] = cloud'[r2]
                \/ index' = [root |-> r2, stage |-> "published"]
                \/ \E e \in Deletion : Active(e)' /\ row'[e].root = r2
    <3>1. CASE r2 = r.root BY <1>1, <1>3, <2>2, <2>8, <3>1 DEF RestOK
    <3>2. CASE r2 # r.root
          BY <1>1, <1>3, <2>2, <2>5, <2>8, <2>11, <3>2, SMT DEF Inv, SnapshotAgrees, indexVars, RestOK
    <3> QED BY <3>1, <3>2
  <2>16. SnapshotAgrees' BY <2>15 DEF SnapshotAgrees
  <2> QED BY <2>10, <2>12, <2>13, <2>14, <2>16 DEF Inv
<1> QED BY <1>5, <1>6

\* A deletion is accepted when nothing else is under way.
LEMMA SubmitStep ==
  ASSUME Inv, NEW d \in Deletion, NEW r \in Root, Submit(d, r)
  PROVE  Inv'
<1> DEFINE x == [status |-> "queued", root |-> r, attempt |-> None, count |-> 0,
                 recovery |-> FALSE, claimed |-> FALSE, due |-> TRUE, asked |-> cloud[r]]
<1>1. TypeOK /\ RestOK /\ RowsOK /\ FramesOK BY TypeParts DEF Inv
<1>2. cloud[r] \in 0..MaxContent /\ cloud[r] \in Nat
      BY <1>1, RootDeletionAssumption, SMT DEF RestOK
<1>3. x \in RowType BY <1>2, RootDeletionAssumption, SMT DEF RowType
<1>4. row'[d] = x BY <1>1 DEF Submit, Queue, RowsOK, NoRow
<1>5. row' = [e \in Deletion |-> row'[e]] /\ \A e \in Deletion \ {d} : row'[e] = row[e]
      BY <1>1 DEF Submit, Queue, RowsOK
<1>6. x.status = "queued" /\ x.root = r /\ x.asked = cloud[r] OBVIOUS
<1> HIDE DEF x
<1>7. UNCHANGED <<worker, lease, relay, cloud, executed, late, indexVars, history, faults>>
      BY DEF Submit, NoFault, cloudVars
<1>8. TypeOK'
  <2>1. RowsOK' BY <1>1, <1>3, <1>4, <1>5 DEF RowsOK
  <2>2. RestOK' /\ FramesOK' BY <1>1, <1>7 DEF RestOK, FramesOK, indexVars, history
  <2> QED BY <2>1, <2>2, TypePartsNext
<1>9. d \notin late \cup executed /\ row[d].status = "none" /\ index.stage = "none"
      BY DEF Submit, Inv, RowInv
<1>10. ASSUME NEW e \in Deletion PROVE RowInv(e)'
  <2>1. CASE e = d BY <1>2, <1>4, <1>6, <1>7, <1>9, <2>1, SMT DEF RowInv, Active
  <2>2. CASE e # d BY <1>5, <1>7, <2>2 DEF Inv, RowInv, Active
  <2> QED BY <2>1, <2>2
<1>11. ASSUME NEW v \in Worker PROVE FrameInv(v)'
       BY <1>4, <1>5, <1>6, <1>7, <1>9 DEF Inv, FrameInv
<1>12. IndexInv' BY <1>7, <1>9 DEF IndexInv, indexVars
<1>13. \A e \in Deletion : Active(e) => Active(e)' /\ row'[e].root = row[e].root
       BY <1>5, <1>9 DEF Active
<1>14. SnapshotAgrees' BY <1>7, <1>13, SMT DEF Inv, SnapshotAgrees, indexVars
<1> QED BY <1>8, <1>10, <1>11, <1>12, <1>14 DEF Inv

\* An index job runs, publishes and records while no deletion is active.
LEMMA IndexSteps ==
  ASSUME Inv, (\E r \in Root : StartIndex(r)) \/ PublishIndex \/ RecordIndex \/ EndIndex
  PROVE  Inv'
<1>1. TypeOK /\ RestOK /\ RowsOK /\ FramesOK BY TypeParts DEF Inv
<1>2. /\ UNCHANGED <<row, worker, lease, executed, late, history, faults>>
      /\ \A d \in Deletion : ~Active(d)
      BY DEF Inv, IndexInv, StartIndex, PublishIndex, RecordIndex, EndIndex, NoFault, cloudVars
<1>3. \A w \in Worker : FrameInv(w)' BY <1>2 DEF Inv, FrameInv
<1>4. \A d \in Deletion : RowInv(d)' /\ ~Active(d)' BY <1>2 DEF Inv, RowInv, Active
<1>5. RowsOK' /\ FramesOK' BY <1>1, <1>2 DEF RowsOK, FramesOK
<1>6. ASSUME NEW r \in Root
      PROVE  relay[r] = cloud[r] \/ index = [root |-> r, stage |-> "published"]
      BY <1>2 DEF Inv, SnapshotAgrees
<1>7. SUFFICES RestOK' /\ SnapshotAgrees' /\ (index'.stage # "none" => index'.root \in Root)
      BY <1>3, <1>4, <1>5, TypePartsNext DEF Inv, IndexInv
<1>8. CASE \E r \in Root : StartIndex(r)
  <2>1. PICK r \in Root : StartIndex(r) BY <1>8
  <2>2. index' = [root |-> r, stage |-> "running"] /\ index.stage # "published"
        /\ UNCHANGED <<relay, cloud, contents>>
        BY <2>1 DEF StartIndex, NoIndex, cloudVars
  <2>3. \A q \in Root : relay'[q] = cloud'[q] BY <1>6, <2>2, SMT
  <2>4. RestOK' BY <1>1, <1>2, <2>2 DEF RestOK, history
  <2> QED BY <2>2, <2>3, <2>4 DEF SnapshotAgrees
<1>9. CASE PublishIndex
  <2>1. /\ index.stage = "running" /\ index.root \in Root /\ contents + 1 \in 0..MaxContent
        /\ UNCHANGED relay /\ contents' = contents + 1
        /\ cloud' = [cloud EXCEPT ![index.root] = contents + 1]
        BY <1>1, <1>9, RootDeletionAssumption, SMT DEF PublishIndex, Inv, IndexInv, RestOK
  <2>2. index' = [root |-> index.root, stage |-> "published"]
        BY <1>1, <1>9 DEF PublishIndex, RestOK
  <2>3. RestOK' BY <1>1, <1>2, <2>1, <2>2 DEF RestOK, history
  <2>4. ASSUME NEW q \in Root, q # index.root PROVE relay'[q] = cloud'[q]
        BY <1>1, <1>6, <2>1, <2>4, SMT DEF RestOK
  <2> QED BY <2>1, <2>2, <2>3, <2>4 DEF SnapshotAgrees
<1>10. CASE RecordIndex
  <2>1. /\ index.stage = "published" /\ index.root \in Root /\ index' = NoIndex
        /\ relay' = [relay EXCEPT ![index.root] = cloud[index.root]]
        /\ UNCHANGED <<cloud, contents>>
        BY <1>10 DEF RecordIndex, Inv, IndexInv, cloudVars
  <2>2. ASSUME NEW q \in Root PROVE relay'[q] = cloud'[q]
    <3>1. CASE q = index.root BY <1>1, <2>1, <3>1 DEF RestOK
    <3>2. CASE q # index.root BY <1>1, <1>6, <2>1, <3>2, SMT DEF RestOK
    <3> QED BY <3>1, <3>2
  <2>3. RestOK' BY <1>1, <1>2, <2>1 DEF RestOK, history, NoIndex
  <2> QED BY <2>1, <2>2, <2>3 DEF SnapshotAgrees, NoIndex
<1>11. CASE EndIndex
  <2>1. index' = NoIndex /\ index.stage = "running" /\ UNCHANGED <<relay, cloud, contents>>
        BY <1>11 DEF EndIndex, cloudVars
  <2>2. \A q \in Root : relay'[q] = cloud'[q] BY <1>6, <2>1, SMT
  <2>3. RestOK' BY <1>1, <1>2, <2>1 DEF RestOK, history, NoIndex
  <2> QED BY <2>1, <2>2, <2>3 DEF SnapshotAgrees, NoIndex
<1> QED BY <1>8, <1>9, <1>10, <1>11

-----------------------------------------------------------------------------
(* The theorems *)

\* The invariant holds initially.
LEMMA InitInv == Init => Inv
<1> SUFFICES ASSUME Init PROVE Inv OBVIOUS
<1>1. RowsOK /\ FramesOK BY Blank DEF Init, RowsOK, FramesOK
<1>2. RestOK
  <2>1. 0 \in 0..MaxContent /\ 0 \in 0..MaxRetries /\ 0 \in 0..MaxFaults
        BY RootDeletionAssumption, SMT
  <2>2. relay \in [Root -> 0..MaxContent] /\ cloud \in [Root -> 0..MaxContent]
        BY <2>1 DEF Init
  <2>3. calls \in [Deletion -> Nat] /\ retries \in [Deletion -> 0..MaxRetries]
        BY <2>1 DEF Init
  <2> QED BY <2>1, <2>2, <2>3 DEF Init, RestOK, NoIndex
<1>3. SnapshotAgrees /\ IndexInv BY DEF Init, SnapshotAgrees, IndexInv, NoIndex
<1>4. \A d \in Deletion : RowInv(d) BY DEF Init, RowInv, NoRow, Active
<1>5. \A w \in Worker : FrameInv(w) BY DEF Init, FrameInv, Idle
<1> QED BY <1>1, <1>2, <1>3, <1>4, <1>5, TypeParts DEF Inv

\* A stuttering step keeps the invariant.
LEMMA StutterInv == Inv /\ UNCHANGED vars => Inv'
<1> SUFFICES ASSUME Inv, UNCHANGED vars PROVE Inv' OBVIOUS
<1>1. TypeOK /\ RestOK /\ FramesOK BY TypeParts DEF Inv
<1>2. UNCHANGED <<row, worker, lease, relay, cloud, executed, late, index, contents, calls,
                  retries, faults>>
      BY DEF vars, cloudVars, indexVars, history
<1>3. RestOK' /\ FramesOK' BY <1>1, <1>2 DEF RestOK, FramesOK
<1>4. AllKept BY <1>1, <1>2, RowsUnchanged
<1> QED BY <1>2, <1>3, <1>4, RowsMove DEF Inv, FrameInv, indexVars

\* The invariant is inductive; TypeOK is one of its conjuncts.
THEOREM DeletionInvariant == Spec => []Inv
<1>1. Inv /\ [Next]_vars => Inv'
      BY StutterInv, SubmitStep, RowSteps, ExecuteStep, QuietSteps, CallStep, FinishStep, IndexSteps
      DEF Next, WorkerStep
<1> QED BY <1>1, InitInv, PTL DEF Spec

\* The relay's snapshot of a root is the cloud's content, or a deletion or an index
\* job that will make it so is under way (finishRootDeletion, submitRootDeletion).
THEOREM SnapshotsAgree == Spec => []SnapshotAgrees
<1>1. Inv => SnapshotAgrees BY DEF Inv
<1> QED BY <1>1, DeletionInvariant, PTL

\* Only a step of LCE that executes an active deletion for the first time takes a
\* root's content away.
LEMMA OnlyExecuteClears ==
  ASSUME Inv, [Next]_vars, NEW r \in Root, cloud[r] # 0, cloud'[r] = 0
  PROVE  \E d \in Deletion : Active(d) /\ row[d].root = r /\ row[d].asked >= cloud[r]
<1>1. RestOK /\ RowsOK BY TypeParts DEF Inv
<1>2. CASE \E d \in Deletion : Execute(d)
  <2>1. PICK d \in Deletion : Execute(d) BY <1>2
  <2>2. d \notin executed /\ cloud' = [cloud EXCEPT ![row[d].root] = 0] BY <2>1 DEF Execute
  <2>3. Active(d) /\ row[d].root \in Root BY <2>1, <2>2, ExecuteStep
  <2>4. row[d].root = r BY <1>1, <2>2, <2>3 DEF RestOK
  <2>5. cloud[r] <= row[d].asked BY <2>3, <2>4 DEF Inv, RowInv
  <2>6. cloud[r] \in Nat /\ row[d].asked \in Nat
        BY <1>1, RootDeletionAssumption, SMT DEF RestOK, RowsOK, RowType
  <2> QED BY <2>3, <2>4, <2>5, <2>6
<1>3. CASE PublishIndex
  <2>1. cloud' = [cloud EXCEPT ![index.root] = contents + 1] /\ contents \in Nat
        BY <1>1, <1>3, RootDeletionAssumption, SMT DEF PublishIndex, RestOK
  <2>2. contents + 1 # 0 BY <2>1, SMT
  <2>3. cloud'[r] = cloud[r] \/ cloud'[r] = contents + 1 BY <1>1, <2>1 DEF RestOK
  <2> QED BY <2>2, <2>3
<1>4. CASE UNCHANGED cloud BY <1>4
<1>5. (\E d \in Deletion : Execute(d)) \/ PublishIndex \/ UNCHANGED cloud
  <2>1. CASE UNCHANGED vars BY <2>1 DEF vars, cloudVars
  <2>2. CASE \E d \in Deletion, q \in Root : Submit(d, q) BY <2>2 DEF Submit, cloudVars
  <2>3. CASE \E d \in Deletion : Retry(d) \/ Prune(d) \/ ClaimLapses(d) \/ BackoffEnds(d)
        BY <2>3 DEF Retry, Prune, ClaimLapses, BackoffEnds, cloudVars
  <2>4. CASE \E w \in Worker : Polls(w) \/ WorkerStep(w) \/ WorkerFault(w)
        BY <2>4, ZenonT(30) DEF Polls, WorkerStep, WorkerFault, Pause, Claim, AcquireLease, CheckCurrent, Call,
           Reply, Finish, RecordError, Release, BarrierRefuses, CallFails, FinishFails, LeaveClaim,
           Crash, cloudVars
  <2>5. CASE LeaseLapses \/ (\E q \in Root : StartIndex(q)) \/ RecordIndex \/ EndIndex
        BY <2>5 DEF LeaseLapses, StartIndex, RecordIndex, EndIndex, cloudVars
  <2> QED BY <2>1, <2>2, <2>3, <2>4, <2>5 DEF Next
<1> QED BY <1>2, <1>3, <1>4, <1>5

\* No retry, replayed attempt or late call removes what was indexed again since the
\* deletion was asked for (submitRootDeletion, and the operation id of processRootDeletion).
THEOREM OnlyAskedDeleted == Spec => OnlyAskedContentDeleted
<1>1. Inv /\ [Next]_vars =>
        [\A r \in Root : cloud[r] # 0 /\ cloud'[r] = 0 =>
           \E d \in Deletion : Active(d) /\ row[d].root = r /\ row[d].asked >= cloud[r]]_vars
      BY OnlyExecuteClears
<1> QED BY <1>1, DeletionInvariant, PTL DEF Spec, OnlyAskedContentDeleted

-----------------------------------------------------------------------------
(* The attempts that are counted *)

\* A worker that may yet call the cloud, or that may give its attempt back.
Unspent(w) ==
  \/ worker[w].pc \in {"claimed", "leased", "call"}
  \/ worker[w].pc = "record" /\ worker[w].deferOnly

Pending(d) == {w \in Worker : worker[w].d = d /\ Unspent(w)}

\* Each call made, or yet to be made, was counted, since this recovery or an earlier
\* one; only a running attempt holds a claim.
Budget(d) ==
  /\ calls[d] + Cardinality(Pending(d)) <= MaxAttempts * retries[d] + row[d].count
  /\ row[d].claimed => row[d].status = "running" /\ ~row[d].recovery
  /\ row[d].status = "none" => row[d].count = 0

\* The copy of attempt_count a worker writes back is the row's while its attempt
\* holds the claim.
Owns(w) ==
  worker[w].pc # "idle" =>
    LET r == row[worker[w].d]
    IN  r.claimed /\ r.attempt = worker[w].attempt => worker[w].count = r.count

BudgetInv == (\A d \in Deletion : Budget(d)) /\ (\A w \in Worker : Owns(w))

\* The pending workers of a deletion are finitely many.
LEMMA PendingFinite ==
  ASSUME NEW d \in Deletion
  PROVE  IsFiniteSet(Pending(d)) /\ Cardinality(Pending(d)) \in Nat
<1>1. Pending(d) \in SUBSET Worker BY DEF Pending
<1>2. IsFiniteSet(Pending(d)) BY <1>1, FS_Subset, RootDeletionAssumption
<1> QED BY <1>2, FS_CardinalityType

\* What Budget counts with.
LEMMA Numbers ==
  ASSUME TypeOK, NEW d \in Deletion
  PROVE  /\ calls[d] \in Nat /\ retries[d] \in Nat /\ row[d].count \in Nat
         /\ MaxAttempts * retries[d] \in Nat /\ row[d].count <= MaxAttempts
<1>1. /\ calls[d] \in Nat /\ retries[d] \in Nat /\ row[d].count \in Nat
      /\ row[d].count <= MaxAttempts
      BY TypeParts, RootDeletionAssumption, SMT DEF RestOK, RowsOK, RowType
<1> QED BY <1>1, RootDeletionAssumption, SMT

\* A row whose attempts are not counted again, and whose claim no other attempt takes.
Tame(d) ==
  /\ row'[d].count = row[d].count
  /\ row'[d].claimed =>
       /\ row[d].claimed /\ row'[d].attempt = row[d].attempt
       /\ row'[d].status = row[d].status /\ row'[d].recovery = row[d].recovery
  /\ row'[d].status = "none" => row[d].status = "none"

\* A frame that goes on with its attempt, or ends it.
Continues(w) ==
  \/ worker'[w].pc = "idle"
  \/ /\ worker[w].pc # "idle" /\ worker'[w].d = worker[w].d
     /\ worker'[w].attempt = worker[w].attempt /\ worker'[w].count = worker[w].count
     /\ Unspent(w)' => Unspent(w)

\* A step that neither calls nor counts.
LEMMA BudgetStays ==
  ASSUME Inv, BudgetInv, NEW d \in Deletion, Tame(d), UNCHANGED <<calls, retries>>,
         Pending(d)' \subseteq Pending(d)
  PROVE  Budget(d)'
<1> DEFINE P == Pending(d)
           Q == Pending(d)'
<1>1. IsFiniteSet(P) /\ Cardinality(P) \in Nat BY PendingFinite
<1>2. Q \in SUBSET P OBVIOUS
<1>3. IsFiniteSet(Q) /\ Cardinality(Q) <= Cardinality(P) BY <1>1, <1>2, FS_Subset
<1>4. Cardinality(Q) \in Nat BY <1>3, FS_CardinalityType
<1>5. calls[d] + Cardinality(P) <= MaxAttempts * retries[d] + row[d].count
      BY DEF BudgetInv, Budget
<1> HIDE DEF P, Q
<1>6. calls[d] + Cardinality(Q) <= MaxAttempts * retries[d] + row[d].count
      BY <1>1, <1>3, <1>4, <1>5, Numbers, SMT DEF Inv
<1>7. /\ row[d].claimed => row[d].status = "running" /\ ~row[d].recovery
      /\ row[d].status = "none" => row[d].count = 0
      BY DEF BudgetInv, Budget
<1> QED BY <1>6, <1>7 DEF Budget, Tame, Q

\* A worker's copy stays right while its row is tame or its claim is gone.
LEMMA OwnsStays ==
  ASSUME Inv, BudgetInv, NEW w \in Worker, Continues(w),
         worker[w].pc # "idle" =>
           \/ Tame(worker[w].d)
           \/ ~row'[worker[w].d].claimed
           \/ row'[worker[w].d].attempt # worker[w].attempt
  PROVE  Owns(w)'
<1>1. CASE worker'[w].pc = "idle" BY <1>1 DEF Owns
<1>2. CASE worker'[w].pc # "idle"
  <2>1. PICK d : d = worker[w].d OBVIOUS
  <2>2. /\ worker[w].pc # "idle" /\ worker'[w].d = d /\ worker'[w].attempt = worker[w].attempt
        /\ worker'[w].count = worker[w].count
        BY <1>2, <2>1 DEF Continues
  <2>3. row[d].claimed /\ row[d].attempt = worker[w].attempt => worker[w].count = row[d].count
        BY <2>1, <2>2 DEF BudgetInv, Owns
  <2>4. Tame(d) \/ ~row'[d].claimed \/ row'[d].attempt # worker[w].attempt BY <2>1, <2>2
  <2>5. row'[d].claimed /\ row'[d].attempt = worker[w].attempt => worker[w].count = row'[d].count
        BY <2>3, <2>4 DEF Tame
  <2> QED BY <2>2, <2>5 DEF Owns
<1> QED BY <1>1, <1>2

\* The steps that change what Budget compares.
Claiming == \E w \in Worker, d \in Deletion, a \in Attempt : Claim(w, d, a)
Calling == \E w \in Worker : Call(w)
Recording == \E w \in Worker : RecordError(w)
Retrying == \E d \in Deletion : Retry(d)

\* A worker's next step within its attempt.
LEMMA GotoContinues ==
  ASSUME TypeOK, NEW w \in Worker, worker[w].pc # "idle",
         NEW pc \in {"leased", "call", "called", "finish", "release"}, Goto(w, pc),
         pc \in {"leased", "call"} => Unspent(w)
  PROVE  \A v \in Worker : Continues(v)
<1>1. /\ worker'[w].pc = pc /\ worker'[w].d = worker[w].d
      /\ worker'[w].attempt = worker[w].attempt /\ worker'[w].count = worker[w].count
      /\ \A v \in Worker \ {w} : worker'[v] = worker[v]
      BY TypeParts DEF Goto, FramesOK, FrameType
<1>2. Unspent(w)' => Unspent(w) BY <1>1 DEF Unspent
<1>3. ASSUME NEW v \in Worker, v # w PROVE Continues(v) BY <1>1, <1>3 DEF Continues, Unspent
<1> QED BY <1>1, <1>2, <1>3 DEF Continues

\* A failed attempt that may be given back was not spent.
LEMMA ToRecordContinues ==
  ASSUME TypeOK, NEW w \in Worker, worker[w].pc # "idle", NEW b \in BOOLEAN, ToRecord(w, b),
         b => Unspent(w)
  PROVE  \A v \in Worker : Continues(v)
<1> DEFINE f == worker[w]
           x == [pc |-> "record", d |-> f.d, attempt |-> f.attempt, count |-> f.count,
                 deferOnly |-> b]
<1>1. FramesOK /\ f \in FrameType BY TypeParts DEF FramesOK
<1>2. worker'[w] = x BY <1>1 DEF ToRecord, FrameType, FramesOK
<1>3. /\ x.pc = "record" /\ x.d = f.d /\ x.attempt = f.attempt /\ x.count = f.count
      /\ x.deferOnly = b
      OBVIOUS
<1>4. \A v \in Worker \ {w} : worker'[v] = worker[v] BY <1>1 DEF ToRecord, FramesOK
<1> HIDE DEF x
<1>5. Unspent(w)' => Unspent(w) BY <1>2, <1>3 DEF Unspent
<1>6. ASSUME NEW v \in Worker, v # w PROVE Continues(v) BY <1>4, <1>6 DEF Continues, Unspent
<1> QED BY <1>2, <1>3, <1>5, <1>6 DEF Continues

\* Only a claim starts an attempt.
LEMMA FramesContinue ==
  ASSUME Inv, [Next]_vars, ~Claiming
  PROVE  \A v \in Worker : Continues(v)
<1>1. TypeOK BY DEF Inv
<1>2. CASE UNCHANGED worker BY <1>2 DEF Continues, Unspent
<1>3. ASSUME NEW w \in Worker, worker' = [worker EXCEPT ![w] = Idle]
      PROVE  \A v \in Worker : Continues(v)
  <2>1. Moved(w) /\ worker'[w].pc = "idle" BY <1>1, <1>3, IdleFrame
  <2> QED BY <2>1 DEF Moved, Continues, Unspent
<1>4. ASSUME NEW w \in Worker, WorkerStep(w) \/ WorkerFault(w)
      PROVE  \A v \in Worker : Continues(v)
  <2>1. CASE Release(w) \/ Crash(w) BY <1>3, <2>1 DEF Release, Crash
  <2>2. CASE AcquireLease(w) \/ BarrierRefuses(w)
    <3>1. Unspent(w) /\ worker[w].pc # "idle" /\ (Goto(w, "leased") \/ ToRecord(w, TRUE))
          BY <2>2 DEF AcquireLease, BarrierRefuses, Unspent
    <3> QED BY <1>1, <3>1, GotoContinues, ToRecordContinues
  <2>3. CASE CheckCurrent(w)
    <3>1. Unspent(w) /\ worker[w].pc # "idle" /\ (Goto(w, "call") \/ Goto(w, "release"))
          BY <2>3 DEF CheckCurrent, Unspent
    <3> QED BY <1>1, <3>1, GotoContinues
  <2>4. CASE Call(w) \/ Reply(w) \/ RecordError(w) \/ LeaveClaim(w)
    <3>1. worker[w].pc # "idle" /\ \E pc \in {"called", "finish", "release"} : Goto(w, pc)
          BY <2>4 DEF Call, Reply, RecordError, LeaveClaim
    <3> QED BY <1>1, <3>1, GotoContinues
  <2>5. CASE Finish(w) \/ CallFails(w) \/ FinishFails(w)
    <3>1. worker[w].pc # "idle" /\ (Goto(w, "release") \/ ToRecord(w, FALSE))
          BY <2>5 DEF Finish, CallFails, FinishFails
    <3> QED BY <1>1, <3>1, GotoContinues, ToRecordContinues
  <2> QED BY <1>4, <2>1, <2>2, <2>3, <2>4, <2>5 DEF WorkerStep, WorkerFault
<1>5. UNCHANGED worker \/ \E w \in Worker : WorkerStep(w) \/ WorkerFault(w)
  <2>1. CASE UNCHANGED vars BY <2>1 DEF vars
  <2>2. ASSUME NEW d \in Deletion,
               \/ \E r \in Root : Submit(d, r)
               \/ Retry(d) \/ Prune(d) \/ Execute(d) \/ ClaimLapses(d) \/ BackoffEnds(d)
        PROVE  UNCHANGED worker
        BY <2>2 DEF Submit, Retry, Prune, Execute, ClaimLapses, BackoffEnds
  <2>3. ASSUME NEW w \in Worker, Polls(w) PROVE UNCHANGED worker
        BY <2>3 DEF Polls, Pause, Claiming
  <2>4. CASE LeaseLapses \/ (\E r \in Root : StartIndex(r)) \/ PublishIndex \/ RecordIndex \/ EndIndex
        BY <2>4 DEF LeaseLapses, StartIndex, PublishIndex, RecordIndex, EndIndex
  <2> QED BY <2>1, <2>2, <2>3, <2>4 DEF Next
<1> QED BY <1>2, <1>4, <1>5

\* So the pending workers of a deletion only become fewer.
LEMMA PendingShrinks ==
  ASSUME \A v \in Worker : Continues(v), NEW d \in Deletion
  PROVE  Pending(d)' \subseteq Pending(d)
<1> SUFFICES ASSUME NEW w \in Worker, worker'[w].d = d, Unspent(w)'
             PROVE  worker[w].d = d /\ Unspent(w)
    BY DEF Pending
<1>1. worker'[w].pc # "idle" BY DEF Unspent
<1> QED BY <1>1 DEF Continues

\* A job that is paused by another claim keeps its count.
LEMMA PausedTame ==
  ASSUME TypeOK, NEW d \in Deletion, row'[d] = Paused(d)
  PROVE  Tame(d)
<1>1. row[d] \in RowType BY TypeParts DEF RowsOK
<1>2. CASE Exhausted(d)
  <2>1. row'[d] = [row[d] EXCEPT !.recovery = TRUE] BY <1>2 DEF Paused
  <2>2. /\ row'[d].count = row[d].count /\ row'[d].claimed = row[d].claimed
        /\ row'[d].status = row[d].status
        BY <1>1, <2>1 DEF RowType
  <2> QED BY <1>2, <2>2 DEF Tame, Exhausted
<1>3. CASE ~Exhausted(d) BY <1>3 DEF Paused, Tame
<1> QED BY <1>2, <1>3

\* The rows of the steps that count no attempt and start no new count.
LEMMA RowsTame ==
  ASSUME Inv, BudgetInv, [Next]_vars, ~Claiming, ~Recording, ~Retrying
  PROVE  \A d \in Deletion : Tame(d)
<1>1. TypeOK /\ RowsOK BY TypeParts DEF Inv
<1>2. ASSUME NEW d \in Deletion
      PROVE  /\ row[d].claimed => row[d].status = "running" /\ ~row[d].recovery
             /\ row[d].status = "none" => row[d].count = 0
      BY DEF BudgetInv, Budget
<1>3. ASSUME NEW d \in Deletion, row'[d] = row[d] PROVE Tame(d) BY <1>3 DEF Tame
<1>4. ASSUME NEW d \in Deletion, NEW r \in Root, Submit(d, r) PROVE \A e \in Deletion : Tame(e)
  <2> DEFINE x == [status |-> "queued", root |-> r, attempt |-> None, count |-> 0,
                   recovery |-> FALSE, claimed |-> FALSE, due |-> TRUE, asked |-> cloud[r]]
  <2>1. row[d].status = "none" BY <1>4 DEF Submit
  <2>2. row'[d] = x BY <1>1, <1>4 DEF Submit, Queue, RowsOK, NoRow
  <2>3. x.count = 0 /\ x.claimed = FALSE /\ x.status = "queued" OBVIOUS
  <2>4. \A e \in Deletion \ {d} : row'[e] = row[e] BY <1>1, <1>4 DEF Submit, Queue, RowsOK
  <2> HIDE DEF x
  <2>5. Tame(d) BY <1>2, <2>1, <2>2, <2>3 DEF Tame
  <2> QED BY <1>3, <2>4, <2>5
<1>5. ASSUME NEW d \in Deletion, Prune(d) PROVE \A e \in Deletion : Tame(e)
  <2>1. /\ row'[d].count = row[d].count /\ row'[d].status = "pruned"
        /\ row'[d].claimed = row[d].claimed /\ row[d].status = "succeeded"
        BY <1>1, <1>5 DEF Prune, RowsOK, RowType
  <2>2. \A e \in Deletion \ {d} : row'[e] = row[e] BY <1>1, <1>5 DEF Prune, RowsOK
  <2>3. Tame(d) BY <1>2, <2>1 DEF Tame
  <2> QED BY <1>3, <2>2, <2>3
<1>6. ASSUME NEW d \in Deletion, ClaimLapses(d) PROVE \A e \in Deletion : Tame(e)
      BY <1>1, <1>6 DEF ClaimLapses, RowsOK, RowType, Tame
<1>7. ASSUME NEW d \in Deletion, BackoffEnds(d) PROVE \A e \in Deletion : Tame(e)
      BY <1>1, <1>7 DEF BackoffEnds, RowsOK, RowType, Tame
<1>8. ASSUME NEW w \in Worker, Pause(w) PROVE \A d \in Deletion : Tame(d)
  <2> SUFFICES ASSUME NEW d \in Deletion PROVE Tame(d) OBVIOUS
  <2>1. row'[d] = Paused(d) BY <1>8 DEF Pause
  <2> QED BY <1>1, <2>1, PausedTame
<1>9. ASSUME NEW w \in Worker, Finish(w) PROVE \A d \in Deletion : Tame(d)
  <2>1. PICK d \in Deletion : d = worker[w].d BY <1>9 DEF Finish, Inv, FrameInv
  <2>2. CASE ~Current(w) BY <1>3, <1>9, <2>2 DEF Finish
  <2>3. CASE Current(w)
    <3>1. row' = [row EXCEPT ![d].status = "succeeded", ![d].claimed = FALSE]
          BY <1>9, <2>1, <2>3 DEF Finish
    <3>2. /\ row'[d].count = row[d].count /\ row'[d].claimed = FALSE
          /\ row'[d].status = "succeeded"
          BY <1>1, <3>1 DEF RowsOK, RowType
    <3>3. \A e \in Deletion \ {d} : row'[e] = row[e] BY <1>1, <3>1 DEF RowsOK
    <3>4. Tame(d) BY <3>2 DEF Tame
    <3> QED BY <1>3, <3>3, <3>4
  <2> QED BY <2>2, <2>3
<1>10. \/ UNCHANGED row
       \/ \E d \in Deletion : \/ (\E r \in Root : Submit(d, r)) \/ Prune(d)
                              \/ ClaimLapses(d) \/ BackoffEnds(d)
       \/ \E w \in Worker : Pause(w) \/ Finish(w)
  <2>1. CASE UNCHANGED vars BY <2>1 DEF vars
  <2>2. ASSUME NEW d \in Deletion, Execute(d) PROVE UNCHANGED row BY <2>2 DEF Execute
  <2>3. ASSUME NEW w \in Worker, Polls(w) \/ WorkerStep(w) \/ WorkerFault(w)
        PROVE  UNCHANGED row \/ Pause(w) \/ Finish(w)
        BY <2>3 DEF Polls, WorkerStep, WorkerFault, AcquireLease, CheckCurrent, Call, Reply, Release,
                    BarrierRefuses, CallFails, FinishFails, LeaveClaim, Crash, Claiming, Recording
  <2>4. CASE LeaseLapses \/ (\E r \in Root : StartIndex(r)) \/ PublishIndex \/ RecordIndex \/ EndIndex
        BY <2>4 DEF LeaseLapses, StartIndex, PublishIndex, RecordIndex, EndIndex
  <2> QED BY <2>1, <2>2, <2>3, <2>4 DEF Next, Retrying
<1>11. CASE UNCHANGED row BY <1>3, <1>11
<1>12. CASE \E d \in Deletion : \/ (\E r \in Root : Submit(d, r)) \/ Prune(d)
                                \/ ClaimLapses(d) \/ BackoffEnds(d)
  <2>1. PICK d \in Deletion : \/ (\E r \in Root : Submit(d, r)) \/ Prune(d)
                              \/ ClaimLapses(d) \/ BackoffEnds(d)
        BY <1>12
  <2> QED BY <1>4, <1>5, <1>6, <1>7, <2>1
<1>13. CASE \E w \in Worker : Pause(w) \/ Finish(w)
  <2>1. PICK w \in Worker : Pause(w) \/ Finish(w) BY <1>13
  <2> QED BY <1>8, <1>9, <2>1
<1> QED BY <1>10, <1>11, <1>12, <1>13

\* A claim counts the attempt of the worker that may now call, under a fresh id.
LEMMA BudgetClaim ==
  ASSUME Inv, BudgetInv, NEW w \in Worker, NEW c \in Deletion, NEW a \in Attempt, Claim(w, c, a)
  PROVE  BudgetInv'
<1>1. TypeOK /\ FramesOK /\ row[c] \in RowType BY TypeParts DEF Inv, RowsOK
<1> DEFINE x == [pc |-> "claimed", d |-> c, attempt |-> a, count |-> row[c].count + 1,
                 deferOnly |-> FALSE]
           y == [status |-> "running", root |-> row[c].root, attempt |-> a,
                 count |-> row[c].count + 1, recovery |-> row[c].recovery, claimed |-> TRUE,
                 due |-> row[c].due, asked |-> row[c].asked]
<1>2. worker'[w] = x /\ \A v \in Worker \ {w} : worker'[v] = worker[v]
      BY <1>1 DEF Claim, FramesOK, Idle
<1>3. row'[c] = y BY <1>1 DEF Claim, RowType
<1>4. x.pc = "claimed" /\ x.d = c /\ x.attempt = a /\ x.count = row[c].count + 1 OBVIOUS
<1>5. /\ y.status = "running" /\ y.attempt = a /\ y.count = row[c].count + 1
      /\ y.recovery = row[c].recovery
      OBVIOUS
<1> HIDE DEF x, y
<1>6. \A e \in Deletion \ {c} : row'[e] = Paused(e) BY DEF Claim
<1>7. /\ UNCHANGED <<calls, retries>> /\ worker[w].pc = "idle" /\ ~row[c].recovery
      /\ \A v \in Worker : worker[v].attempt # a
      BY DEF Claim, Candidate, Fresh, InUse, history
<1>8. ASSUME NEW e \in Deletion, e # c PROVE Tame(e) BY <1>1, <1>6, <1>8, PausedTame
<1>9. ASSUME NEW e \in Deletion, e # c PROVE Budget(e)'
  <2>1. Pending(e)' \subseteq Pending(e) BY <1>2, <1>4, <1>9 DEF Pending, Unspent
  <2> QED BY <1>7, <1>8, <1>9, <2>1, BudgetStays
<1>10. Budget(c)'
  <2> DEFINE P == Pending(c)
             Q == Pending(c)'
  <2>1. Q = P \cup {w} /\ w \notin P BY <1>2, <1>4, <1>7 DEF Pending, Unspent
  <2>2. IsFiniteSet(P) /\ Cardinality(P) \in Nat BY PendingFinite
  <2>3. Cardinality(Q) = Cardinality(P) + 1 BY <2>1, <2>2, FS_AddElement
  <2>4. calls[c] + Cardinality(P) <= MaxAttempts * retries[c] + row[c].count
        BY DEF BudgetInv, Budget
  <2> HIDE DEF P, Q
  <2>5. calls'[c] + Cardinality(Q) <= MaxAttempts * retries'[c] + row'[c].count
        BY <1>1, <1>3, <1>5, <1>7, <2>2, <2>3, <2>4, Numbers, SMT
  <2> QED BY <1>3, <1>5, <1>7, <2>5 DEF Budget, Q
<1>11. Owns(w)' BY <1>2, <1>3, <1>4, <1>5 DEF Owns
<1>12. ASSUME NEW v \in Worker, v # w PROVE Owns(v)'
  <2>1. Continues(v) BY <1>2, <1>12 DEF Continues, Unspent
  <2>2. worker[v].pc # "idle" => Tame(worker[v].d) \/ row'[worker[v].d].attempt # worker[v].attempt
        BY <1>3, <1>5, <1>7, <1>8 DEF Inv, FrameInv
  <2> QED BY <2>1, <2>2, OwnsStays
<1> QED BY <1>9, <1>10, <1>11, <1>12 DEF BudgetInv

\* A worker calls once.
LEMMA BudgetCall ==
  ASSUME Inv, BudgetInv, NEW w \in Worker, Call(w), \A v \in Worker : Continues(v)
  PROVE  BudgetInv'
<1>1. TypeOK /\ calls \in [Deletion -> Nat] BY TypeParts DEF Inv, RestOK
<1>2. PICK c \in Deletion : c = worker[w].d BY DEF Call, Inv, FrameInv
<1>3. Moved(w) /\ worker'[w].pc = "called" BY <1>1, GotoFrame DEF Call
<1>4. UNCHANGED <<row, retries>> /\ calls' = [calls EXCEPT ![c] = @ + 1] BY <1>2 DEF Call
<1>5. ASSUME NEW d \in Deletion, d # c PROVE Budget(d)'
  <2>1. Pending(d)' = Pending(d) BY <1>2, <1>3, <1>5 DEF Pending, Moved, Unspent
  <2>2. calls'[d] = calls[d] BY <1>1, <1>4, <1>5
  <2> QED BY <1>4, <2>1, <2>2 DEF BudgetInv, Budget
<1>6. Budget(c)'
  <2> DEFINE P == Pending(c)
             Q == Pending(c)'
  <2>1. Q = P \ {w} /\ w \in P BY <1>2, <1>3, SMT DEF Pending, Moved, Call, Unspent
  <2>2. IsFiniteSet(P) /\ Cardinality(P) \in Nat BY PendingFinite
  <2>3. Cardinality(Q) = Cardinality(P) - 1 BY <2>1, <2>2, FS_RemoveElement
  <2>4. calls[c] + Cardinality(P) <= MaxAttempts * retries[c] + row[c].count
        BY DEF BudgetInv, Budget
  <2>5. calls'[c] = calls[c] + 1 BY <1>1, <1>4
  <2> HIDE DEF P, Q
  <2>6. calls'[c] + Cardinality(Q) <= MaxAttempts * retries[c] + row[c].count
        BY <1>1, <2>2, <2>3, <2>4, <2>5, Numbers, SMT
  <2> QED BY <1>4, <2>6 DEF BudgetInv, Budget, Q
<1>7. ASSUME NEW v \in Worker PROVE Owns(v)'
  <2>1. Tame(worker[v].d) BY <1>4 DEF Tame
  <2> QED BY <2>1, OwnsStays
<1> QED BY <1>5, <1>6, <1>7 DEF BudgetInv

\* A retry starts counting again, having used at most MaxAttempts; no attempt holds
\* the claim of a job that asks for recovery.
LEMMA BudgetRetry ==
  ASSUME Inv, BudgetInv, NEW c \in Deletion, Retry(c), \A v \in Worker : Continues(v)
  PROVE  BudgetInv'
<1>1. TypeOK /\ retries \in [Deletion -> 0..MaxRetries] /\ RowsOK BY TypeParts DEF Inv, RestOK
<1>2. /\ row'[c].count = 0 /\ row'[c].claimed = row[c].claimed
      /\ row'[c].status = row[c].status /\ row[c].recovery
      /\ \A e \in Deletion \ {c} : row'[e] = row[e]
  <2> DEFINE r == row[c]
             x == [status |-> r.status, root |-> r.root, attempt |-> r.attempt, count |-> 0,
                   recovery |-> FALSE, claimed |-> r.claimed, due |-> TRUE, asked |-> r.asked]
  <2>1. r \in RowType BY <1>1 DEF RowsOK
  <2>2. row'[c] = x BY <1>1, <2>1 DEF Retry, RowType, RowsOK
  <2>3. x.count = 0 /\ x.claimed = r.claimed /\ x.status = r.status OBVIOUS
  <2> HIDE DEF x
  <2>4. row[c].recovery /\ \A e \in Deletion \ {c} : row'[e] = row[e]
        BY <1>1 DEF Retry, RowsOK
  <2> QED BY <2>2, <2>3, <2>4
<1>3. ~row'[c].claimed /\ row'[c].status # "none"
      BY <1>2 DEF BudgetInv, Budget, Retry, Active
<1>4. UNCHANGED <<worker, calls>> /\ retries' = [retries EXCEPT ![c] = @ + 1]
      BY DEF Retry
<1>5. \A d \in Deletion : Pending(d)' = Pending(d) BY <1>4 DEF Pending, Unspent
<1>6. ASSUME NEW d \in Deletion, d # c PROVE Budget(d)'
      BY <1>1, <1>2, <1>4, <1>5, <1>6 DEF BudgetInv, Budget
<1>7. Budget(c)'
  <2> DEFINE n == Cardinality(Pending(c))
  <2>1. n \in Nat BY PendingFinite
  <2>2. calls[c] + n <= MaxAttempts * retries[c] + row[c].count BY DEF BudgetInv, Budget
  <2>3. retries'[c] = retries[c] + 1 BY <1>1, <1>4
  <2> HIDE DEF n
  <2>4. MaxAttempts * (retries[c] + 1) = MaxAttempts * retries[c] + MaxAttempts
        BY <1>1, Numbers, RootDeletionAssumption, SMT
  <2>5. calls[c] + n <= MaxAttempts * (retries[c] + 1) + 0
        BY <1>1, <2>1, <2>2, <2>4, Numbers, RootDeletionAssumption, SMT
  <2> QED BY <1>2, <1>3, <1>4, <1>5, <2>3, <2>5 DEF Budget, n
<1>8. ASSUME NEW v \in Worker PROVE Owns(v)'
  <2>1. worker[v].pc # "idle" => Tame(worker[v].d) \/ ~row'[worker[v].d].claimed
        BY <1>2, <1>3 DEF Tame, Inv, FrameInv
  <2> QED BY <2>1, OwnsStays
<1> QED BY <1>6, <1>7, <1>8 DEF BudgetInv

\* An error is recorded with the count of the attempt, less the attempt itself if it was
\* not spent.
LEMMA BudgetRecord ==
  ASSUME Inv, BudgetInv, NEW w \in Worker, RecordError(w), \A v \in Worker : Continues(v)
  PROVE  BudgetInv'
<1>1. TypeOK /\ RowsOK /\ FramesOK BY TypeParts DEF Inv
<1>2. PICK c \in Deletion : c = worker[w].d BY DEF RecordError, Inv, FrameInv
<1>3. /\ UNCHANGED <<calls, retries>> /\ worker[w].pc = "record"
      /\ Moved(w) /\ worker'[w].pc = "release"
      BY <1>1, GotoFrame DEF RecordError, history
<1>4. \A d \in Deletion : Pending(d)' \subseteq Pending(d) BY PendingShrinks
<1>5. CASE ~Current(w)
  <2>1. \A d : Tame(d) BY <1>5 DEF RecordError, Tame
  <2> QED BY <1>3, <1>4, <2>1, BudgetStays, OwnsStays DEF BudgetInv
<1>6. CASE Current(w)
  <2>1. /\ row[c].claimed /\ row[c].status = "running" /\ worker[w].count = row[c].count
        BY <1>2, <1>3, <1>6 DEF Current, BudgetInv, Owns
  <2>2. Attempts(w) \in Nat
        BY <1>1, RootDeletionAssumption, SMT DEF FramesOK, FrameType, Attempts
  <2> DEFINE m == Attempts(w)
  <2>3. IF worker[w].deferOnly THEN m + 1 >= row[c].count ELSE m = row[c].count
        BY <1>1, <2>1, Numbers, SMT DEF Attempts
  <2> HIDE DEF m
  <2>4. /\ row'[c].count = m /\ row'[c].claimed = FALSE /\ row'[c].status = "running"
        /\ \A e \in Deletion \ {c} : row'[e] = row[e]
    <3> DEFINE r == row[c]
               x == [status |-> r.status, root |-> r.root, attempt |-> r.attempt, count |-> m,
                     recovery |-> m >= MaxAttempts, claimed |-> FALSE, due |-> FALSE,
                     asked |-> r.asked]
    <3>1. r \in RowType BY <1>1 DEF RowsOK
    <3>2. row'[c] = x BY <1>1, <1>2, <1>6, <3>1 DEF RecordError, RowType, RowsOK, m
    <3>3. x.count = m /\ x.claimed = FALSE /\ x.status = r.status OBVIOUS
    <3> HIDE DEF x
    <3>4. \A e \in Deletion \ {c} : row'[e] = row[e]
          BY <1>1, <1>2, <1>6 DEF RecordError, RowsOK
    <3> QED BY <2>1, <3>2, <3>3, <3>4
  <2>5. ASSUME NEW d \in Deletion, d # c PROVE Tame(d) BY <2>4, <2>5 DEF Tame
  <2>6. ASSUME NEW d \in Deletion, d # c PROVE Budget(d)'
        BY <1>3, <1>4, <2>5, <2>6, BudgetStays
  <2>7. Budget(c)'
    <3> DEFINE P == Pending(c)
               Q == Pending(c)'
    <3>1. IsFiniteSet(P) /\ Cardinality(P) \in Nat BY PendingFinite
    <3>2. Q \subseteq P /\ Q \in SUBSET P BY <1>4
    <3>3. calls[c] + Cardinality(P) <= MaxAttempts * retries[c] + row[c].count
          BY DEF BudgetInv, Budget
    <3>4. calls[c] \in Nat /\ MaxAttempts * retries[c] \in Nat /\ row[c].count \in Nat /\ m \in Nat
          BY <1>1, <2>2, Numbers DEF m
    <3>5. calls[c] + Cardinality(Q) <= MaxAttempts * retries[c] + m
      <4>1. CASE worker[w].deferOnly
        <5>1. Q = P \ {w} /\ w \in P BY <1>2, <1>3, <4>1 DEF Pending, Moved, Unspent
        <5>2. Cardinality(Q) = Cardinality(P) - 1 BY <3>1, <5>1, FS_RemoveElement
        <5> HIDE DEF P, Q
        <5>3. m + 1 >= row[c].count BY <2>3, <4>1
        <5> QED BY <3>1, <3>3, <3>4, <5>2, <5>3, SMT
      <4>2. CASE ~worker[w].deferOnly
        <5>1. IsFiniteSet(Q) /\ Cardinality(Q) <= Cardinality(P) BY <3>1, <3>2, FS_Subset
        <5>2. Cardinality(Q) \in Nat BY <5>1, FS_CardinalityType
        <5> HIDE DEF P, Q
        <5>3. m = row[c].count BY <2>3, <4>2
        <5> QED BY <3>1, <3>3, <3>4, <5>1, <5>2, <5>3, SMT
      <4> QED BY <4>1, <4>2
    <3> HIDE DEF Q
    <3> QED BY <1>3, <2>4, <3>5 DEF Budget, Q
  <2>8. ASSUME NEW v \in Worker PROVE Owns(v)'
    <3>1. worker[v].pc # "idle" => Tame(worker[v].d) \/ ~row'[worker[v].d].claimed
          BY <2>4, <2>5 DEF Inv, FrameInv
    <3> QED BY <3>1, OwnsStays
  <2> QED BY <2>6, <2>7, <2>8 DEF BudgetInv
<1> QED BY <1>5, <1>6

\* The histories change with these steps only.
LEMMA HistoryStays ==
  ASSUME [Next]_vars, ~Calling, ~Retrying
  PROVE  UNCHANGED <<calls, retries>>
<1>1. CASE UNCHANGED vars BY <1>1 DEF vars, history
<1>2. ASSUME NEW d \in Deletion,
             \/ \E r \in Root : Submit(d, r)
             \/ Prune(d) \/ Execute(d) \/ ClaimLapses(d) \/ BackoffEnds(d)
      PROVE  UNCHANGED <<calls, retries>>
      BY <1>2 DEF Submit, Prune, Execute, ClaimLapses, BackoffEnds, history
<1>3. ASSUME NEW w \in Worker, Polls(w) \/ WorkerStep(w) \/ WorkerFault(w)
      PROVE  UNCHANGED <<calls, retries>>
      BY <1>3 DEF Polls, Pause, Claim, WorkerStep, WorkerFault, AcquireLease, CheckCurrent, Reply,
                  Finish, RecordError, Release, BarrierRefuses, CallFails, FinishFails, LeaveClaim,
                  Crash, Calling, history
<1>4. CASE LeaseLapses \/ (\E r \in Root : StartIndex(r)) \/ PublishIndex \/ RecordIndex \/ EndIndex
      BY <1>4 DEF LeaseLapses, StartIndex, PublishIndex, RecordIndex, EndIndex, history
<1> QED BY <1>1, <1>2, <1>3, <1>4 DEF Next, Retrying

\* Between two recoveries a deletion calls the cloud at most MaxAttempts times, for any
\* number of workers, although an attempt that met a busy tenant is given back
\* (claimRootDeletion's attempt_count and recordRootDeletionError's fence).
THEOREM CallsAreBounded == Spec => []CallsBounded
<1>1. Init => BudgetInv
  <2> SUFFICES ASSUME Init PROVE BudgetInv OBVIOUS
  <2>1. ASSUME NEW d \in Deletion PROVE Budget(d)
    <3>1. /\ calls[d] = 0 /\ retries[d] = 0 /\ row[d].count = 0 /\ ~row[d].claimed
          BY DEF Init, NoRow
    <3>2. Pending(d) = {} BY DEF Init, Pending, Unspent, Idle
    <3>3. Cardinality(Pending(d)) = 0 BY <3>2, FS_EmptySet
    <3> QED BY <3>1, <3>3, RootDeletionAssumption, SMT DEF Budget
  <2>2. \A w \in Worker : Owns(w) BY DEF Init, Owns, Idle
  <2> QED BY <2>1, <2>2 DEF BudgetInv
<1>2. Inv /\ BudgetInv /\ [Next]_vars => BudgetInv'
  <2> SUFFICES ASSUME Inv, BudgetInv, [Next]_vars PROVE BudgetInv' OBVIOUS
  <2>1. CASE Claiming BY <2>1, BudgetClaim DEF Claiming
  <2>2. CASE ~Claiming
    <3>1. \A v \in Worker : Continues(v) BY <2>2, FramesContinue
    <3>2. CASE Calling \/ Retrying \/ Recording
          BY <3>1, <3>2, BudgetCall, BudgetRetry, BudgetRecord DEF Calling, Retrying, Recording
    <3>3. CASE ~Calling /\ ~Retrying /\ ~Recording
      <4>1. \A d \in Deletion : Tame(d) BY <2>2, <3>3, RowsTame
      <4>2. UNCHANGED <<calls, retries>> BY <3>3, HistoryStays
      <4>3. \A d \in Deletion : Pending(d)' \subseteq Pending(d) BY <3>1, PendingShrinks
      <4>4. \A d \in Deletion : Budget(d)' BY <4>1, <4>2, <4>3, BudgetStays
      <4>5. ASSUME NEW w \in Worker PROVE Owns(w)'
        <5>1. worker[w].pc # "idle" => Tame(worker[w].d) BY <4>1 DEF Inv, FrameInv
        <5> QED BY <3>1, <5>1, OwnsStays
      <4> QED BY <4>4, <4>5 DEF BudgetInv
    <3> QED BY <3>2, <3>3
  <2> QED BY <2>1, <2>2
<1>3. Inv /\ BudgetInv => CallsBounded
  <2> SUFFICES ASSUME Inv, BudgetInv, NEW d \in Deletion
               PROVE  calls[d] <= MaxAttempts * (1 + retries[d])
      BY DEF CallsBounded
  <2> DEFINE n == Cardinality(Pending(d))
  <2>1. n \in Nat BY PendingFinite
  <2>2. calls[d] + n <= MaxAttempts * retries[d] + row[d].count BY DEF BudgetInv, Budget
  <2> HIDE DEF n
  <2>3. MaxAttempts * (1 + retries[d]) = MaxAttempts * retries[d] + MaxAttempts
        BY Numbers, RootDeletionAssumption, SMT DEF Inv
  <2> QED BY <2>1, <2>2, <2>3, Numbers, RootDeletionAssumption, SMT DEF Inv
<1> QED BY <1>1, <1>2, <1>3, DeletionInvariant, PTL DEF Spec
===============================================================================
