---------------------------- MODULE Leases_proofs ----------------------------
(***************************************************************************)
(* Proofs about the operations on an index: their leases, for any set of   *)
(* operations, tenants and resources and any lease and renewal times that  *)
(* LeaseAssumption admits, and the administrator's operations on indexed   *)
(* roots, for any set of roots. The theorems on leases assume ~FastFail: a *)
(* renewal that errs has used its whole timeout. Without it the properties *)
(* fail (IndexLeasesRace).                                                 *)
(***************************************************************************)
EXTENDS IndexLeases, RootAdmin, FiniteSetTheorems, TLAPS

\* Zenon proves what a step does not ask SMT for.
USE Zenon

\* x lies in the window [k, k + MaxDelay): a whole number of intervals apart
\* but for the delay of one renewal's reply.
Near(x, k) == k <= x /\ x < k + MaxDelay

\* Between two renewals the local deadline is one to three intervals behind
\* the next tick, and the row outlives it but for one delay.
Resting(o) ==
  /\ o \in rows
  /\ left[o] >= dead[o] - MaxDelay
  /\ \/ Near(dead[o] - tick[o], RenewInterval)
     \/ Near(dead[o] - tick[o], 2 * RenewInterval)
     \/ Near(dead[o] - tick[o], 3 * RenewInterval)

\* While an attempt is in flight the ticker already counts to the next one.
Trying(o) ==
  /\ o \in rows
  /\ left[o] >= dead[o] - MaxDelay
  /\ \/ Near(dead[o] - tick[o], 0)
     \/ Near(dead[o] - tick[o], RenewInterval)
     \/ Near(dead[o] - tick[o], 2 * RenewInterval)
  /\ attLeft[o] = tick[o] - (RenewInterval - MaxDelay)
  /\ att[o] = "ok" => left[o] >= Duration - (RenewInterval - tick[o])
  /\ att[o] = "fail" => attLeft[o] = 0

Timing ==
  \A o \in Op : /\ phase[o] = "held" /\ att[o] = "none" => Resting(o)
                /\ att[o] # "none" => phase[o] \in {"held", "lost"} /\ Trying(o)

\* The tenant's advisory lock: one acquiring transaction at a time.
OneTx ==
  \A o, r \in Op :
    phase[o] = "tx" /\ phase[r] = "tx" /\ OpTenant[o] = OpTenant[r] => o = r

\* A row that the transaction's snapshot shows expired stays expired.
PurgeExpired ==
  \A o \in Op : phase[o] = "tx" =>
    \A r \in purge[o] : /\ OpTenant[r] = OpTenant[o]
                        /\ r \in rows => left[r] + txAge[o] <= 0

\* A positive verdict stays right until the transaction commits.
GrantHolds ==
  \A o \in Op : phase[o] = "tx" /\ grant[o] =>
    /\ \A r \in rows \ purge[o] : ~Conflict(o, r)
    /\ NoActiveDeletion(o)
    /\ NoActiveReset

\* Whatever rows the table holds, live or not, are compatible.
RowsCompatible ==
  \A o, r \in rows : o # r => ~Conflict(o, r)

IInv ==
  /\ TypeOK
  /\ Timing
  /\ OneTx
  /\ PurgeExpired
  /\ GrantHolds
  /\ RowsCompatible
  /\ DeletionFence
  /\ ResetFence
-----------------------------------------------------------------------------
(* Type correctness, with or without FastFail.                             *)

\* Every step keeps the types.
LEMMA TypeStep == TypeOK /\ [Next]_vars => TypeOK'
<1> SUFFICES ASSUME TypeOK, [Next]_vars PROVE TypeOK'
  OBVIOUS
<1> USE LeaseAssumption DEF TypeOK
<1>1. ASSUME NEW o \in Op, Caller(o) PROVE TypeOK'
  <2>1. CASE Call(o) \/ GiveUp(o) \/ CallerCancelled(o)
    BY <2>1 DEF Call, GiveUp, CallerCancelled, renewVars, fenceVars
  <2>2. CASE AcquireBegin(o)
    BY <2>2, SMT DEF AcquireBegin, Admissible, TenantRows, renewVars, fenceVars
  <2>3. CASE AcquireCommit(o)
    BY <2>3, SMT DEF AcquireCommit, fenceVars
  <2>4. CASE Release(o)
    BY <2>4, SMT DEF Release, fenceVars
  <2>5. CASE Crash(o)
    BY <2>5, SMT DEF Crash, fenceVars
  <2> QED BY <1>1, <2>1, <2>2, <2>3, <2>4, <2>5 DEF Caller
<1>2. ASSUME NEW o \in Op, Renewer(o) PROVE TypeOK'
  BY <1>2, SMT DEF Renewer, RenewFire, RenewExec, RenewError, RenewSucceeded,
              RenewFailed, callerVars, fenceVars
<1>3. ASSUME NEW t \in Tenant, SubmitRootDeletion(t) \/ FinishRootDeletion(t)
      PROVE TypeOK'
  BY <1>3 DEF SubmitRootDeletion, FinishRootDeletion, callerVars, renewVars
<1>4. CASE EnqueueReset \/ FinishReset
  BY <1>4 DEF EnqueueReset, FinishReset, callerVars, renewVars
<1>5. CASE TimePasses
  BY <1>5, SMT DEF TimePasses, fenceVars
<1>6. CASE UNCHANGED vars
  BY <1>6 DEF vars
<1> QED BY <1>1, <1>2, <1>3, <1>4, <1>5, <1>6 DEF Next

\* The initial state has the types.
LEMMA TypeInit == Init => TypeOK
<1> SUFFICES ASSUME Init PROVE TypeOK
  OBVIOUS
<1>1. 0 \in (-MaxDelay)..Duration /\ 0 \in 0..RenewInterval /\ 0 \in 0..Duration
      /\ 0 \in 0..MaxDelay
  BY LeaseAssumption, SMT
<1> QED BY <1>1 DEF Init, TypeOK

\* Every timer, row and phase stays in its range, through every expiry,
\* crash and renewal of index_operations.go.
THEOREM TypeCorrect == Spec => []TypeOK
  BY TypeInit, TypeStep, PTL DEF Spec
-----------------------------------------------------------------------------
(* The lease outlives its holder.                                          *)

\* An operation that runs, or whose renewal is in flight, has a live row.
LEMMA HolderLive ==
  ASSUME TypeOK, Timing, NEW o \in Op, phase[o] = "held" \/ att[o] # "none"
  PROVE  o \in rows /\ left[o] > 0
BY LeaseAssumption, SMT DEF TypeOK, Timing, Resting, Trying, Near

\* The renewer's timers keep in step with the row's expiry.
LEMMA TimingStep ==
  ASSUME ~FastFail, TypeOK, Timing, ResetFence, [Next]_vars
  PROVE  Timing'
<1> USE LeaseAssumption DEF TypeOK, Timing
<1>1. ASSUME NEW o \in Op, Caller(o) PROVE Timing'
  <2>1. CASE Call(o) \/ GiveUp(o) \/ CallerCancelled(o) \/ AcquireBegin(o)
    BY <2>1, SMT DEF Call, GiveUp, CallerCancelled, AcquireBegin, renewVars, Resting, Trying
  <2>2. CASE AcquireCommit(o)
    <3>1. ASSUME NEW r \in Op, r # o, phase[r] = "held" \/ att[r] # "none"
          PROVE  r \in rows'
      BY <2>2, <3>1, HolderLive, SMT DEF AcquireCommit
    <3>2. att[o] = "none"
      BY <2>2 DEF AcquireCommit
    <3> QED BY <2>2, <3>1, <3>2, SMT DEF AcquireCommit, Resting, Trying, Near
  <2>3. CASE Release(o)
    BY <2>3 DEF Release, Resting, Trying
  <2>4. CASE Crash(o)
    BY <2>4 DEF Crash, Resting, Trying
  <2> QED BY <1>1, <2>1, <2>2, <2>3, <2>4 DEF Caller
<1>2. ASSUME NEW o \in Op, Renewer(o) PROVE Timing'
  <2>1. CASE RenewFire(o)
    BY <2>1, SMT DEF RenewFire, callerVars, Resting, Trying, Near
  <2>2. CASE RenewExec(o)
    BY <2>2, SMT DEF RenewExec, callerVars, Resting, Trying, Near
  <2>3. CASE RenewError(o)
    BY <2>3 DEF RenewError, callerVars, Resting, Trying, Near
  <2>4. CASE RenewSucceeded(o)
    BY <2>4, SMT DEF RenewSucceeded, callerVars, Resting, Trying, Near
  <2>5. CASE RenewFailed(o)
    BY <2>5, SMT DEF RenewFailed, Resting, Trying, Near
  <2> QED BY <1>2, <2>1, <2>2, <2>3, <2>4, <2>5 DEF Renewer
<1>3. ASSUME NEW t \in Tenant, SubmitRootDeletion(t) \/ FinishRootDeletion(t)
      PROVE Timing'
  BY <1>3 DEF SubmitRootDeletion, FinishRootDeletion, callerVars, renewVars,
              Resting, Trying
<1>4. CASE EnqueueReset
  BY <1>4 DEF EnqueueReset, callerVars, renewVars, Resting, Trying
<1>5. CASE FinishReset
  BY <1>5, HolderLive, SMT DEF FinishReset, ResetFence, LiveRows, callerVars, renewVars,
                          Resting, Trying
<1>6. CASE TimePasses
  BY <1>6, SMT DEF TimePasses, Resting, Trying, Near
<1>7. CASE UNCHANGED vars
  BY <1>7 DEF vars, Resting, Trying
<1> QED BY <1>1, <1>2, <1>3, <1>4, <1>5, <1>6, <1>7 DEF Next
-----------------------------------------------------------------------------
(* Transactions under the tenant's lock, and the rows they leave.          *)

Locking == OneTx /\ PurgeExpired /\ GrantHolds /\ RowsCompatible

\* Every step keeps the advisory lock's order.
LEMMA LockingStep ==
  ASSUME TypeOK, Timing, Locking, [Next]_vars
  PROVE  Locking'
<1> USE LeaseAssumption DEF TypeOK, Locking
<1>1. ASSUME NEW o \in Op, Caller(o) PROVE Locking'
  <2>1. CASE Call(o) \/ GiveUp(o) \/ CallerCancelled(o)
    BY <2>1, SMT DEF Call, GiveUp, CallerCancelled, fenceVars, OneTx, PurgeExpired,
                GrantHolds, RowsCompatible, NoActiveDeletion, NoActiveReset
  <2>2. CASE AcquireBegin(o)
    <3>1. OneTx'
      BY <2>2 DEF AcquireBegin, OneTx, LockFree
    <3>2. PurgeExpired'
      BY <2>2, SMT DEF AcquireBegin, PurgeExpired, TenantRows, LiveRows
    <3>3. GrantHolds'
      <4>1. PICK age \in 0..MaxDelay :
              /\ grant' = [grant EXCEPT ![o] = Admissible(o, age)]
              /\ purge' = [purge EXCEPT ![o] = TenantRows(OpTenant[o]) \ LiveRows(age)]
        BY <2>2 DEF AcquireBegin
      <4>2. ASSUME Admissible(o, age), NEW r \in rows \ (TenantRows(OpTenant[o]) \ LiveRows(age))
            PROVE  ~Conflict(o, r)
        BY <4>2 DEF Admissible, NoConflict, TenantRows, Conflict
      <4>3. Admissible(o, age) => NoActiveDeletion(o) /\ NoActiveReset
        BY DEF Admissible
      <4>4. grant'[o] => Admissible(o, age)
        BY <4>1
      <4>5. \A r \in Op : r # o => grant'[r] = grant[r] /\ purge'[r] = purge[r]
        BY <4>1
      <4>6. purge'[o] = TenantRows(OpTenant[o]) \ LiveRows(age)
        BY <4>1
      <4>7. /\ rows' = rows /\ deleting' = deleting /\ resetting' = resetting
            /\ phase' = [phase EXCEPT ![o] = "tx"]
        BY <2>2 DEF AcquireBegin, fenceVars
      <4> QED BY <4>2, <4>3, <4>4, <4>5, <4>6, <4>7, SMT
              DEF GrantHolds, NoActiveDeletion, NoActiveReset
    <3>4. RowsCompatible'
      BY <2>2 DEF AcquireBegin, RowsCompatible
    <3> QED BY <3>1, <3>2, <3>3, <3>4
  <2>3. CASE AcquireCommit(o)
    <3>1. OneTx'
      BY <2>3, SMT DEF AcquireCommit, OneTx
    <3>2. \A r \in rows' : r \in rows \/ (r = o /\ grant[o])
      BY <2>3, SMT DEF AcquireCommit
    <3>3. rows \cap purge[o] \cap rows' \subseteq {o}
      BY <2>3 DEF AcquireCommit, PurgeExpired
    <3>4. \A r \in Op : phase'[r] = "tx" => /\ r # o /\ phase[r] = "tx"
                                            /\ OpTenant[r] # OpTenant[o]
                                          /\ grant'[r] = grant[r]
                                          /\ purge'[r] = purge[r]
                                          /\ txAge'[r] = txAge[r]
      <4>1. phase'[o] # "tx" /\ \A r \in Op : r # o => phase'[r] = phase[r]
        BY <2>3 DEF AcquireCommit
      <4>2. \A r \in Op : r # o => grant'[r] = grant[r] /\ purge'[r] = purge[r]
                                  /\ txAge'[r] = txAge[r]
        BY <2>3 DEF AcquireCommit
      <4>3. phase[o] = "tx"
        BY <2>3 DEF AcquireCommit
      <4> QED BY <4>1, <4>2, <4>3 DEF OneTx
    <3>5. PurgeExpired'
      <4>1. \A r \in Op : r # o => left'[r] = left[r]
        BY <2>3 DEF AcquireCommit
      <4> QED BY <3>2, <3>4, <4>1, SMT DEF PurgeExpired
    <3>6. GrantHolds'
      <4>1. deleting' = deleting /\ resetting' = resetting
        BY <2>3 DEF AcquireCommit, fenceVars
      <4> QED BY <3>2, <3>4, <4>1 DEF GrantHolds, Conflict, NoActiveDeletion,
                                      NoActiveReset
    <3>7. RowsCompatible'
      <4>1. ASSUME grant[o], NEW r \in rows', r # o
            PROVE  ~Conflict(o, r) /\ ~Conflict(r, o)
        BY <2>3, <3>2, <3>3, <4>1 DEF AcquireCommit, GrantHolds, Conflict
      <4> QED BY <3>2, <4>1 DEF RowsCompatible
    <3> QED BY <3>1, <3>5, <3>6, <3>7
  <2>4. CASE Release(o)
    BY <2>4, SMT DEF Release, fenceVars, OneTx, PurgeExpired, GrantHolds, RowsCompatible,
                NoActiveDeletion, NoActiveReset
  <2>5. CASE Crash(o)
    BY <2>5, SMT DEF Crash, fenceVars, OneTx, PurgeExpired, GrantHolds, RowsCompatible,
                NoActiveDeletion, NoActiveReset
  <2> QED BY <1>1, <2>1, <2>2, <2>3, <2>4, <2>5 DEF Caller
<1>2. ASSUME NEW o \in Op, Renewer(o) PROVE Locking'
  <2>1. UNCHANGED <<rows, txAge, grant, purge, deleting, resetting>>
    BY <1>2 DEF Renewer, RenewFire, RenewExec, RenewError, RenewSucceeded,
                RenewFailed, callerVars, fenceVars
  <2>2. \A r \in Op : phase'[r] = "tx" => phase[r] = "tx"
    BY <1>2, SMT DEF Renewer, RenewFire, RenewExec, RenewError, RenewSucceeded,
                RenewFailed, callerVars
  <2>3. left' = left \/ (left' = [left EXCEPT ![o] = Duration] /\ left[o] > 0)
    BY <1>2, HolderLive DEF Renewer, RenewFire, RenewExec, RenewError,
                            RenewSucceeded, RenewFailed
  <2> QED BY <2>1, <2>2, <2>3, SMT DEF OneTx, PurgeExpired, GrantHolds, RowsCompatible,
                                  NoActiveDeletion, NoActiveReset
<1>3. ASSUME NEW t \in Tenant, SubmitRootDeletion(t) \/ FinishRootDeletion(t)
      PROVE Locking'
  BY <1>3, SMT DEF SubmitRootDeletion, FinishRootDeletion, callerVars, LockFree, OneTx,
              PurgeExpired, GrantHolds, RowsCompatible, NoActiveDeletion, NoActiveReset
<1>4. CASE EnqueueReset \/ FinishReset
  BY <1>4 DEF EnqueueReset, FinishReset, callerVars, LockFree, OneTx, PurgeExpired,
              GrantHolds, RowsCompatible, NoActiveDeletion, NoActiveReset
<1>5. CASE TimePasses
  BY <1>5, SMT DEF TimePasses, fenceVars, OneTx, PurgeExpired, GrantHolds, RowsCompatible,
              NoActiveDeletion, NoActiveReset
<1>6. CASE UNCHANGED vars
  BY <1>6 DEF vars, OneTx, PurgeExpired, GrantHolds, RowsCompatible,
              NoActiveDeletion, NoActiveReset
<1> QED BY <1>1, <1>2, <1>3, <1>4, <1>5, <1>6 DEF Next
-----------------------------------------------------------------------------
(* The fences of root deletions and embedding resets.                      *)

\* Every step keeps the two fences.
LEMMA FenceStep ==
  ASSUME TypeOK, Timing, GrantHolds, DeletionFence, ResetFence, [Next]_vars
  PROVE  DeletionFence' /\ ResetFence'
<1> USE LeaseAssumption DEF TypeOK, DeletionFence, ResetFence, LiveRows, TenantRows
<1>1. ASSUME NEW o \in Op, Caller(o) PROVE DeletionFence' /\ ResetFence'
  <2>1. CASE Call(o) \/ GiveUp(o) \/ CallerCancelled(o) \/ AcquireBegin(o) \/ Crash(o)
    BY <2>1, SMT DEF Call, GiveUp, CallerCancelled, AcquireBegin, Crash, fenceVars
  <2>2. CASE AcquireCommit(o)
    BY <2>2, SMT DEF AcquireCommit, fenceVars, GrantHolds, NoActiveDeletion, NoActiveReset
  <2>3. CASE Release(o)
    BY <2>3 DEF Release, fenceVars
  <2> QED BY <1>1, <2>1, <2>2, <2>3 DEF Caller
<1>2. ASSUME NEW o \in Op, Renewer(o) PROVE DeletionFence' /\ ResetFence'
  <2>1. UNCHANGED <<rows, deleting, resetting>>
    BY <1>2 DEF Renewer, RenewFire, RenewExec, RenewError, RenewSucceeded,
                RenewFailed, fenceVars
  <2>2. left' = left \/ (left' = [left EXCEPT ![o] = Duration] /\ left[o] > 0)
    BY <1>2, HolderLive DEF Renewer, RenewFire, RenewExec, RenewError,
                            RenewSucceeded, RenewFailed
  <2> QED BY <2>1, <2>2, SMT
<1>3. ASSUME NEW t \in Tenant, SubmitRootDeletion(t) \/ FinishRootDeletion(t)
      PROVE DeletionFence' /\ ResetFence'
  BY <1>3, SMT DEF SubmitRootDeletion, FinishRootDeletion
<1>4. CASE EnqueueReset \/ FinishReset
  BY <1>4, SMT DEF EnqueueReset, FinishReset
<1>5. CASE TimePasses
  BY <1>5, SMT DEF TimePasses, fenceVars
<1>6. CASE UNCHANGED vars
  BY <1>6 DEF vars
<1> QED BY <1>1, <1>2, <1>3, <1>4, <1>5, <1>6 DEF Next
-----------------------------------------------------------------------------
(* The bound on concurrent uploads.                                        *)

UploadRows(o) ==
  {r \in rows : Upload(r) /\ OpTenant[r] = OpTenant[o] /\ OpResource[r] = OpResource[o]}

\* The table's upload rows of a job, live or not, stay within the bound, and
\* a granted upload still fits in beside the rows it will not purge.
WithinCap ==
  /\ IsFiniteSet(rows)
  /\ \A o \in Op : Upload(o) => Cardinality(UploadRows(o)) <= MaxUploads
  /\ \A o \in Op : phase[o] = "tx" /\ grant[o] /\ Upload(o) =>
       Cardinality(UploadRows(o) \ purge[o]) < MaxUploads

\* A part of the rows counts no more than the rows themselves.
LEMMA FewerRows ==
  ASSUME NEW S, NEW W, IsFiniteSet(W), S \subseteq W, NEW n \in Nat
  PROVE  /\ IsFiniteSet(S)
         /\ Cardinality(W) <= n => Cardinality(S) <= n
         /\ Cardinality(W) < n => Cardinality(S) < n
BY FS_Subset, FS_CardinalityType, SMT

\* A grant adds at most one row to the unexpired uploads.
LEMMA OneMoreRow ==
  ASSUME NEW W, IsFiniteSet(W), NEW x, NEW n \in Nat, Cardinality(W) < n
  PROVE  IsFiniteSet(W \cup {x}) /\ Cardinality(W \cup {x}) <= n
<1>1. Cardinality(W) \in Nat
  BY FS_CardinalityType
<1>2. /\ IsFiniteSet(W \cup {x})
      /\ Cardinality(W \cup {x}) = IF x \in W THEN Cardinality(W) ELSE Cardinality(W) + 1
  BY FS_AddElement
<1> QED BY <1>1, <1>2, SMT

\* A step that adds no row and admits no transaction keeps the bound.
LEMMA CapShrinks ==
  ASSUME TypeOK, WithinCap, rows' \subseteq rows,
         \A o \in Op : phase'[o] = "tx" /\ grant'[o] =>
           phase[o] = "tx" /\ grant[o] /\ purge'[o] = purge[o]
  PROVE  WithinCap'
<1>1. \A o \in Op : /\ IsFiniteSet(UploadRows(o)) /\ UploadRows(o)' \subseteq UploadRows(o)
                    /\ IsFiniteSet(UploadRows(o) \ purge[o])
  BY FS_Subset DEF WithinCap, UploadRows
<1>2. IsFiniteSet(rows')
  BY FS_Subset DEF WithinCap
<1>3. ASSUME NEW o \in Op, Upload(o) PROVE Cardinality(UploadRows(o)') <= MaxUploads
  BY <1>1, <1>3, FewerRows, LeaseAssumption DEF WithinCap
<1>4. ASSUME NEW o \in Op, phase'[o] = "tx", grant'[o], Upload(o)
      PROVE  Cardinality(UploadRows(o)' \ purge'[o]) < MaxUploads
  <2>1. UploadRows(o)' \ purge'[o] \subseteq UploadRows(o) \ purge[o]
    BY <1>1, <1>4
  <2>2. Cardinality(UploadRows(o) \ purge[o]) < MaxUploads
    BY <1>4 DEF WithinCap
  <2> QED BY <1>1, <2>1, <2>2, FewerRows, LeaseAssumption
<1> QED BY <1>2, <1>3, <1>4 DEF WithinCap, Upload

\* Every step keeps the upload cap.
LEMMA CapStep ==
  ASSUME TypeOK, PurgeExpired, OneTx, WithinCap, [Next]_vars
  PROVE  WithinCap'
<1> USE DEF TypeOK
<1>1. ASSUME NEW o \in Op, AcquireBegin(o) PROVE WithinCap'
  <2>1. PICK age \in 0..MaxDelay :
          /\ grant' = [grant EXCEPT ![o] = Admissible(o, age)]
          /\ purge' = [purge EXCEPT ![o] = TenantRows(OpTenant[o]) \ LiveRows(age)]
    BY <1>1 DEF AcquireBegin
  <2>2. rows' = rows /\ phase' = [phase EXCEPT ![o] = "tx"]
    BY <1>1 DEF AcquireBegin
  <2>3. UploadsOf(o, LiveRows(age) \cap TenantRows(OpTenant[o]))
          = UploadRows(o) \ (TenantRows(OpTenant[o]) \ LiveRows(age))
    BY DEF UploadsOf, UploadRows, TenantRows, LiveRows
  <2>4. grant'[o] /\ Upload(o) => Cardinality(UploadRows(o) \ purge'[o]) < MaxUploads
    BY <2>1, <2>3 DEF Admissible, BelowUploadCap
  <2>5. \A r \in Op : r # o => /\ phase'[r] = phase[r] /\ grant'[r] = grant[r]
                               /\ purge'[r] = purge[r]
    BY <2>1, <2>2
  <2>6. \A r \in Op : UploadRows(r)' = UploadRows(r)
    BY <2>2 DEF UploadRows, Upload
  <2> QED BY <2>2, <2>4, <2>5, <2>6 DEF WithinCap, Upload
<1>2. ASSUME NEW o \in Op, AcquireCommit(o) PROVE WithinCap'
  <2>1. /\ \A r \in Op : phase'[r] = "tx" => /\ r # o /\ phase[r] = "tx"
                                             /\ grant'[r] = grant[r]
                                             /\ purge'[r] = purge[r]
        /\ phase[o] = "tx"
    BY <1>2 DEF AcquireCommit
  <2>2. \A r \in Op : phase'[r] = "tx" => OpTenant[r] # OpTenant[o]
    BY <2>1 DEF OneTx
  <2>3. CASE ~grant[o]
    <3>1. rows' \subseteq rows
      BY <1>2, <2>3 DEF AcquireCommit
    <3> QED BY <2>1, <3>1, CapShrinks
  <2>4. CASE grant[o]
    <3>1. rows' \subseteq (rows \ purge[o]) \cup {o}
      BY <1>2, <2>1, <2>4 DEF AcquireCommit, PurgeExpired
    <3>2. IsFiniteSet(rows')
      <4>1. IsFiniteSet(rows \cup {o})
        BY FS_AddElement DEF WithinCap
      <4> QED BY <3>1, <4>1, FS_Subset, SMT
    <3>3. \A r \in Op : IsFiniteSet(UploadRows(r)) /\ IsFiniteSet(UploadRows(r) \ purge[r])
      BY FS_Subset DEF WithinCap, UploadRows
    <3>4. ASSUME NEW r \in Op, Upload(r) PROVE Cardinality(UploadRows(r)') <= MaxUploads
      <4>1. CASE Upload(o) /\ OpTenant[o] = OpTenant[r] /\ OpResource[o] = OpResource[r]
        <5> DEFINE W == UploadRows(o) \ purge[o]
        <5>1. UploadRows(r)' \subseteq W \cup {o}
          BY <3>1, <4>1 DEF UploadRows, Upload
        <5>2. IsFiniteSet(W) /\ Cardinality(W) < MaxUploads
          BY <2>1, <2>4, <3>3, <4>1 DEF WithinCap
        <5> HIDE DEF W
        <5>3. IsFiniteSet(W \cup {o}) /\ Cardinality(W \cup {o}) <= MaxUploads
          BY <5>2, OneMoreRow, LeaseAssumption
        <5> QED BY <5>1, <5>3, FewerRows, LeaseAssumption
      <4>2. CASE ~(Upload(o) /\ OpTenant[o] = OpTenant[r] /\ OpResource[o] = OpResource[r])
        <5>1. UploadRows(r)' \subseteq UploadRows(r)
          BY <3>1, <4>2 DEF UploadRows, Upload
        <5> QED BY <3>3, <3>4, <5>1, FewerRows, LeaseAssumption DEF WithinCap
      <4> QED BY <4>1, <4>2
    <3>5. ASSUME NEW r \in Op, phase'[r] = "tx", grant'[r], Upload(r)
          PROVE  Cardinality(UploadRows(r)' \ purge'[r]) < MaxUploads
      <4>1. UploadRows(r)' \ purge'[r] \subseteq UploadRows(r) \ purge[r]
        BY <2>1, <2>2, <3>1, <3>5 DEF UploadRows, Upload
      <4>2. Cardinality(UploadRows(r) \ purge[r]) < MaxUploads
        BY <2>1, <3>5 DEF WithinCap
      <4> QED BY <3>3, <4>1, <4>2, FewerRows, LeaseAssumption
    <3> QED BY <3>2, <3>4, <3>5 DEF WithinCap, Upload
  <2> QED BY <2>3, <2>4
<1>3. ASSUME NEW o \in Op,
             Call(o) \/ GiveUp(o) \/ CallerCancelled(o) \/ Release(o) \/ Crash(o)
      PROVE  WithinCap'
  BY <1>3, CapShrinks, SMT DEF Call, GiveUp, CallerCancelled, Release, Crash
<1>4. ASSUME NEW o \in Op, Renewer(o) PROVE WithinCap'
  BY <1>4, CapShrinks DEF Renewer, RenewFire, RenewExec, RenewError, RenewSucceeded,
                          RenewFailed, callerVars
<1>5. ASSUME NEW t \in Tenant, SubmitRootDeletion(t) \/ FinishRootDeletion(t)
      PROVE WithinCap'
  BY <1>5, CapShrinks DEF SubmitRootDeletion, FinishRootDeletion, callerVars
<1>6. CASE EnqueueReset \/ FinishReset \/ TimePasses \/ UNCHANGED vars
  BY <1>6, CapShrinks DEF EnqueueReset, FinishReset, TimePasses, vars, callerVars
<1> QED BY <1>1, <1>2, <1>3, <1>4, <1>5, <1>6 DEF Next, Caller
-----------------------------------------------------------------------------
(* The theorems.                                                           *)

\* The invariant is inductive.
LEMMA Inductive ==
  ASSUME ~FastFail
  PROVE  Spec => []IInv
<1>1. Init => IInv
  <2> SUFFICES ASSUME Init PROVE IInv
    OBVIOUS
  <2>1. TypeOK
    BY TypeInit
  <2> QED BY <2>1 DEF Init, IInv, Timing, OneTx, PurgeExpired, GrantHolds,
                      RowsCompatible, DeletionFence, ResetFence, LiveRows
<1>2. IInv /\ [Next]_vars => IInv'
  BY TypeStep, TimingStep, LockingStep, FenceStep DEF IInv, Locking
<1> QED BY <1>1, <1>2, PTL DEF Spec

\* Two operations that run at once never conflict, for any number of relays,
\* tenants and jobs and any lease times: the conflict predicate of
\* tryAcquireIndexOperation and the renewer together serialize one resource.
THEOREM HoldersSerialized ==
  ASSUME ~FastFail
  PROVE  Spec => []SerializedHolders
<1>1. IInv => SerializedHolders
  BY HolderLive DEF IInv, RowsCompatible, SerializedHolders
<1> QED BY <1>1, Inductive, PTL

\* An operation whose context is live owns an unexpired row: renew cancels the
\* context at the last failed attempt before the lease runs out.
THEOREM HoldersCovered ==
  ASSUME ~FastFail
  PROVE  Spec => []HolderCovered
<1>1. IInv => HolderCovered
  BY HolderLive DEF IInv, HolderCovered
<1> QED BY <1>1, Inductive, PTL

\* No index operation of a tenant has a live lease while its root deletion is
\* queued or running, the deletion worker's own excepted, and none at all while an
\* embedding reset is pending or running, so clearAllRelayIndexStateTx pulls no
\* lease from under a holder.
THEOREM Fenced ==
  ASSUME ~FastFail
  PROVE  Spec => []FencesHold
<1>1. IInv => FencesHold
  BY DEF IInv, FencesHold
<1> QED BY <1>1, Inductive, PTL

\* However renewals, crashes and abandoned rows interleave, no job has more live
\* upload leases than maxConcurrentIndexUploadsPerJob.
THEOREM UploadsCapped ==
  ASSUME ~FastFail
  PROVE  Spec => []UploadCap
<1>1. Init => WithinCap
  <2>1. ASSUME Init, NEW o \in Op PROVE UploadRows(o) = {}
    BY <2>1 DEF Init, UploadRows
  <2>2. IsFiniteSet({}) /\ Cardinality({}) = 0 /\ 0 <= MaxUploads
    BY FS_EmptySet, LeaseAssumption, SMT
  <2>3. ASSUME Init, NEW o \in Op PROVE phase[o] # "tx"
    BY <2>3 DEF Init
  <2> QED BY <2>1, <2>2, <2>3 DEF Init, WithinCap
<1>2. IInv /\ WithinCap /\ [Next]_vars => WithinCap'
  BY CapStep DEF IInv
<1>3. WithinCap => UploadCap
  <2> SUFFICES ASSUME WithinCap, NEW o \in Op, Upload(o)
      PROVE Cardinality({r \in LiveRows(0) : Upload(r) /\ OpTenant[r] = OpTenant[o]
                           /\ OpResource[r] = OpResource[o]}) <= MaxUploads
    BY DEF UploadCap
  <2>1. IsFiniteSet(UploadRows(o)) /\ Cardinality(UploadRows(o)) <= MaxUploads
    BY FS_Subset DEF WithinCap, UploadRows
  <2> QED BY <2>1, FewerRows, LeaseAssumption DEF UploadRows, LiveRows
<1> QED BY <1>1, <1>2, <1>3, Inductive, PTL DEF Spec

-----------------------------------------------------------------------------
(* The administrator's operations on indexed roots *)

\* What an operation has done so far: clear-index has every root and emptied the relay
\* before it asks the cloud; delete-root emptied the cloud before it asks the relay;
\* dismiss-root-failure asks the cloud only for a root without rows.
OperationOK ==
  /\ admin.op = "none" <=> admin = NoAdmin
  /\ admin.op # "none" => admin.at \in {"relay", "cloud"}
  /\ admin.op = "clear" =>
       /\ admin.roots = AdminRoot
       /\ admin.at = "cloud" => \A r \in AdminRoot : snapshot[r] = 0
  /\ admin.op = "delete" /\ admin.at = "relay" => \A r \in admin.roots : content[r] = 0
  /\ admin.op = "dismiss" =>
       \A r \in admin.roots : IF admin.at = "cloud" THEN snapshot[r] = 0
                              ELSE snapshot[r] # 0 \/ content[r] = 0

\* SnapshotNotAhead, with its exception only between the two steps of a delete-root.
RowsInCloud ==
  \A r \in AdminRoot \ behind :
    \/ snapshot[r] \in {0, content[r]}
    \/ admin.op = "delete" /\ admin.at = "relay" /\ r \in admin.roots

\* ContentListed, with its exception only between the two steps of a clear-index.
CloudInRows ==
  \A r \in AdminRoot \ unlisted :
    content[r] # 0 => \/ snapshot[r] # 0 \/ job[r] # "none"
                      \/ admin.op = "clear" /\ admin.at = "cloud"

AdminInv == AdminTypeOK /\ OperationOK /\ RowsInCloud /\ CloudInRows

\* The roots a step clears.
LEMMA ClearedAt ==
  ASSUME NEW f, NEW roots, NEW none, NEW g, g = Cleared(f, roots, none)
  PROVE  \A r \in AdminRoot : g[r] = IF r \in roots THEN none ELSE f[r]
BY DEF Cleared

\* Clearing roots of a map keeps its type.
LEMMA ClearedType ==
  ASSUME NEW T, NEW f \in [AdminRoot -> T], NEW roots, NEW none \in T
  PROVE  Cleared(f, roots, none) \in [AdminRoot -> T]
BY DEF Cleared

\* No operation is an operation.
LEMMA Idle == NoAdmin \in Operation /\ NoAdmin.op = "none" /\ NoAdmin.roots = {}
BY DEF NoAdmin, Operation

\* A tenant without content.
LEMMA AdminInitInv == AdminInit => AdminInv
<1> SUFFICES ASSUME AdminInit PROVE AdminInv
  OBVIOUS
<1> USE RootAdminAssumption
<1>1. AdminTypeOK
  <2>1. snapshot \in [AdminRoot -> 0..MaxPublished] /\ content \in [AdminRoot -> 0..MaxPublished]
    BY SMT DEF AdminInit
  <2>2. job \in [AdminRoot -> {"none", "running", "failed"}] BY DEF AdminInit
  <2>3. admin \in Operation BY Idle DEF AdminInit
  <2>4. published \in 0..MaxPublished /\ adminFaults \in 0..AdminFaults BY SMT DEF AdminInit
  <2>5. adrift \subseteq SUBSET AdminRoot /\ behind \subseteq AdminRoot /\ unlisted \subseteq AdminRoot
    BY DEF AdminInit
  <2>6. cooldown \in BOOLEAN /\ waiting \in BOOLEAN BY DEF AdminInit
  <2> QED BY <2>1, <2>2, <2>3, <2>4, <2>5, <2>6 DEF AdminTypeOK
<1>2. OperationOK BY Idle DEF AdminInit, OperationOK
<1>3. RowsInCloud /\ CloudInRows BY DEF AdminInit, RowsInCloud, CloudInRows
<1> QED BY <1>1, <1>2, <1>3 DEF AdminInv

\* An operation begins: nothing else changes.
LEMMA Starts ==
  ASSUME AdminInv, NEW op \in {"clear", "delete", "dismiss"}, NEW at \in {"relay", "cloud"},
         NEW roots \in SUBSET AdminRoot, Start(op, at, roots), waiting' \in BOOLEAN,
         op = "clear" => at = "relay" /\ roots = AdminRoot,
         op = "delete" => at = "cloud",
         op = "dismiss" => \A r \in roots : at = IF snapshot[r] = 0 THEN "cloud" ELSE "relay"
  PROVE  AdminInv'
<1> USE DEF AdminInv
<1>1. /\ admin' = [op |-> op, at |-> at, roots |-> roots]
      /\ UNCHANGED <<snapshot, job, content, adrift, cooldown, published, behind, unlisted, adminFaults>>
  BY DEF Start, tenant, NoAdminFault
<1>2. admin'.op = op /\ admin'.at = at /\ admin'.roots = roots /\ admin' # NoAdmin /\ admin.op = "none"
  BY <1>1, Idle, SMT DEF Start
<1>3. AdminTypeOK'
  <2>1. admin' \in Operation BY <1>1 DEF Operation
  <2> QED BY <1>1, <2>1 DEF AdminTypeOK
<1>4. OperationOK' BY <1>1, <1>2 DEF OperationOK
<1>5. RowsInCloud' /\ CloudInRows' BY <1>1, <1>2 DEF RowsInCloud, CloudInRows
<1> QED BY <1>3, <1>4, <1>5

\* Clear-index, delete-root, a workspace's move and dismiss-root-failure begin.
LEMMA StartStep ==
  ASSUME AdminInv,
         \/ StartClear
         \/ \E r \in AdminRoot : MoveWorkspace(r) \/ StartDelete(r) \/ StartDismiss(r)
  PROVE  AdminInv'
<1>1. CASE StartClear BY <1>1, Starts DEF StartClear, ClearFirst
<1>2. ASSUME NEW r \in AdminRoot, MoveWorkspace(r) \/ StartDelete(r) PROVE AdminInv'
  <2>1. Start("delete", "cloud", {r}) /\ waiting' \in BOOLEAN
    BY <1>2 DEF MoveWorkspace, StartDelete, AdminInv, AdminTypeOK
  <2> QED BY <2>1, Starts, SMT
<1>3. ASSUME NEW r \in AdminRoot, StartDismiss(r) PROVE AdminInv'
  <2>1. Start("dismiss", IF snapshot[r] = 0 THEN "cloud" ELSE "relay", {r}) /\ waiting' \in BOOLEAN
    BY <1>3 DEF StartDismiss, DismissFirst, AdminInv, AdminTypeOK
  <2>2. CASE snapshot[r] = 0 BY <2>1, <2>2, Starts, SMT
  <2>3. CASE snapshot[r] # 0 BY <2>1, <2>3, Starts, SMT
  <2> QED BY <2>2, <2>3
<1> QED BY <1>1, <1>2, <1>3

\* The relay's transaction commits.
LEMMA CommitStep ==
  ASSUME AdminInv, CommitRelay
  PROVE  AdminInv'
<1> USE DEF AdminInv
<1> DEFINE emptied == admin.op # "dismiss"
<1>1. /\ \A r \in AdminRoot : snapshot'[r] = IF emptied /\ r \in admin.roots THEN 0 ELSE snapshot[r]
      /\ \A r \in AdminRoot : job'[r] = IF r \in admin.roots THEN "none" ELSE job[r]
      /\ behind' = IF emptied THEN behind \ admin.roots ELSE behind
      /\ content' = content
  BY ClearedAt, SMT DEF CommitRelay
<1>2. admin' \in {NoAdmin, After("relay")} /\ admin.at = "relay" BY DEF CommitRelay
<1>3. admin.op # "none" BY <1>2, SMT DEF OperationOK, NoAdmin
<1>4. \/ admin' = NoAdmin
      \/ admin.op = "clear" /\ admin' = [admin EXCEPT !.at = "cloud"]
  BY <1>2, <1>3 DEF After, ClearFirst, AdminTypeOK, Operation
<1>5. NoAdmin.op = "none" BY Idle
<1>6. AdminTypeOK'
  <2>1. admin' \in Operation BY <1>4, Idle DEF AdminTypeOK, Operation
  <2>2. 0 \in 0..MaxPublished BY RootAdminAssumption, SMT
  <2>3. snapshot' \in [AdminRoot -> 0..MaxPublished]
    <3>1. snapshot \in [AdminRoot -> 0..MaxPublished] BY DEF AdminTypeOK
    <3>2. Cleared(snapshot, admin.roots, 0) \in [AdminRoot -> 0..MaxPublished]
      BY <2>2, <3>1, ClearedType
    <3> QED BY <3>1, <3>2 DEF CommitRelay
  <2>4. job' \in [AdminRoot -> {"none", "running", "failed"}] BY ClearedType DEF AdminTypeOK, CommitRelay
  <2>5. adminFaults' \in 0..AdminFaults
    BY RootAdminAssumption, SMT DEF AdminTypeOK, CommitRelay, AdminFault, NoAdminFault
  <2>6. behind' \subseteq AdminRoot /\ unlisted' \subseteq AdminRoot BY <1>1 DEF AdminTypeOK, CommitRelay
  <2> QED BY <2>1, <2>3, <2>4, <2>5, <2>6 DEF AdminTypeOK, CommitRelay
<1>7. OperationOK'
  <2>1. CASE admin' = NoAdmin BY <2>1, <1>5 DEF OperationOK
  <2>2. CASE admin.op = "clear" /\ admin' = [admin EXCEPT !.at = "cloud"]
    <3>1. admin'.op = "clear" /\ admin'.at = "cloud" /\ admin'.roots = AdminRoot
      BY <2>2 DEF OperationOK, AdminTypeOK, Operation
    <3>2. \A r \in AdminRoot : snapshot'[r] = 0 BY <2>2, <1>1 DEF OperationOK
    <3> QED BY <3>1, <3>2, <1>5 DEF OperationOK
  <2> QED BY <2>1, <2>2, <1>4
<1>8. RowsInCloud'
  <2> SUFFICES ASSUME NEW r \in AdminRoot \ behind' PROVE snapshot'[r] \in {0, content'[r]}
    BY DEF RowsInCloud
  <2>1. CASE emptied /\ r \in admin.roots BY <2>1, <1>1
  <2>2. CASE ~(emptied /\ r \in admin.roots)
    <3>1. r \notin behind /\ snapshot'[r] = snapshot[r] BY <2>2, <1>1
    <3>2. ~(admin.op = "delete" /\ r \in admin.roots) BY <2>2
    <3> QED BY <3>1, <3>2, <1>1 DEF RowsInCloud
  <2> QED BY <2>1, <2>2
<1>9. CloudInRows'
  <2> SUFFICES ASSUME NEW r \in AdminRoot \ unlisted', content[r] # 0
               PROVE  \/ snapshot'[r] # 0 \/ job'[r] # "none"
                      \/ admin'.op = "clear" /\ admin'.at = "cloud"
    BY <1>1 DEF CloudInRows
  <2>1. CASE admin.op = "clear"
    <3>1. CASE admin' = NoAdmin
      <4>1. After("relay") # NoAdmin
        <5>1. After("relay") = [admin EXCEPT !.at = "cloud"] BY <2>1 DEF After, ClearFirst
        <5>2. [admin EXCEPT !.at = "cloud"].op = "clear" BY <2>1 DEF AdminTypeOK, Operation
        <5> QED BY <5>1, <5>2, <1>5
      <4>2. unlisted' = unlisted \cup {q \in AdminRoot : content[q] # 0} BY <2>1, <3>1, <4>1 DEF CommitRelay
      <4> QED BY <4>2
    <3>2. CASE admin' = [admin EXCEPT !.at = "cloud"] BY <2>1, <3>2 DEF AdminTypeOK, Operation
    <3> QED BY <3>1, <3>2, <1>4
  <2>2. CASE admin.op # "clear"
    <3>1. unlisted' = unlisted BY <2>2 DEF CommitRelay
    <3>2. CASE r \notin admin.roots BY <3>1, <3>2, <2>2, <1>1 DEF CloudInRows
    <3>3. CASE r \in admin.roots /\ admin.op = "delete" BY <3>3, <1>2 DEF OperationOK
    <3>4. CASE r \in admin.roots /\ admin.op = "dismiss" BY <3>4, <1>1, <1>2 DEF OperationOK
    <3> QED BY <3>2, <3>3, <3>4, <2>2, <1>3 DEF AdminTypeOK, Operation
  <2> QED BY <2>1, <2>2
<1> QED BY <1>6, <1>7, <1>8, <1>9

\* LCE answers, or does not; what it cleared, the delete-root that failed left behind.
LEMMA CloudStep ==
  ASSUME AdminInv, ClearCloud \/ CloudFails
  PROVE  AdminInv'
<1> USE DEF AdminInv
<1>1. admin.at = "cloud" /\ admin.op # "none" BY SMT DEF ClearCloud, CloudFails, OperationOK, NoAdmin
<1>2. UNCHANGED <<snapshot, job, waiting, published>> BY DEF ClearCloud, CloudFails
<1>3. \/ \A r \in AdminRoot : content'[r] = IF r \in admin.roots THEN 0 ELSE content[r]
      \/ CloudFails /\ content' = content
  BY ClearedAt, SMT DEF ClearCloud, CloudFails
<1>4. \/ admin' = NoAdmin
      \/ ClearCloud /\ admin.op \in {"delete", "dismiss"} /\ admin' = [admin EXCEPT !.at = "relay"]
  BY <1>1 DEF ClearCloud, CloudFails, After, ClearFirst, AdminTypeOK, Operation
<1>5. NoAdmin.op = "none" BY Idle
<1>6. AdminTypeOK'
  <2>1. admin' \in Operation BY <1>4, Idle DEF AdminTypeOK, Operation
  <2>2. 0 \in 0..MaxPublished BY RootAdminAssumption, SMT
  <2>3. content' \in [AdminRoot -> 0..MaxPublished]
    <3>1. content \in [AdminRoot -> 0..MaxPublished] BY DEF AdminTypeOK
    <3>2. Cleared(content, admin.roots, 0) \in [AdminRoot -> 0..MaxPublished]
      BY <2>2, <3>1, ClearedType
    <3> QED BY <3>1, <3>2 DEF ClearCloud, CloudFails
  <2>4. adminFaults' \in 0..AdminFaults
    BY RootAdminAssumption, SMT DEF AdminTypeOK, ClearCloud, CloudFails, AdminFault, NoAdminFault
  <2>5. behind' \subseteq AdminRoot /\ unlisted' \subseteq AdminRoot
    BY DEF AdminTypeOK, Operation, ClearCloud, CloudFails, Orphaned
  <2>6. adrift' \subseteq SUBSET AdminRoot /\ cooldown' \in BOOLEAN
    BY DEF AdminTypeOK, Operation, ClearCloud, CloudFails
  <2> QED BY <1>2, <2>1, <2>3, <2>4, <2>5, <2>6 DEF AdminTypeOK
<1>7. OperationOK'
  <2>1. CASE admin' = NoAdmin BY <2>1, <1>5 DEF OperationOK
  <2>2. CASE ClearCloud /\ admin.op \in {"delete", "dismiss"} /\ admin' = [admin EXCEPT !.at = "relay"]
    <3>1. admin'.op = admin.op /\ admin'.at = "relay" /\ admin'.roots = admin.roots
      BY <2>2 DEF AdminTypeOK, Operation
    <3>2. \A r \in admin.roots : content'[r] = 0
      BY <2>2, ClearedAt, SMT DEF ClearCloud, AdminTypeOK, Operation
    <3> QED BY <2>2, <3>1, <3>2, <1>5 DEF OperationOK
  <2> QED BY <2>1, <2>2, <1>4
<1>8. RowsInCloud'
  <2> SUFFICES ASSUME NEW r \in AdminRoot \ behind', snapshot[r] # 0
               PROVE  \/ snapshot[r] = content'[r]
                      \/ admin'.op = "delete" /\ admin'.at = "relay" /\ r \in admin'.roots
    BY <1>2 DEF RowsInCloud
  <2>1. r \notin behind BY DEF ClearCloud, CloudFails
  <2>2. snapshot[r] = content[r] BY <2>1, <1>1 DEF RowsInCloud
  <2>3. CASE content'[r] = content[r] BY <2>2, <2>3
  <2>4. CASE r \in admin.roots
    <3>1. admin.op = "delete" BY <2>4, <1>1 DEF OperationOK, AdminTypeOK, Operation
    <3>2. CASE ClearCloud
      <4>1. admin' = [admin EXCEPT !.at = "relay"]
        BY <3>1, <3>2, <1>1 DEF ClearCloud, After, ClearFirst
      <4> QED BY <4>1, <3>1, <2>4 DEF AdminTypeOK, Operation
    <3>3. CASE CloudFails
      <4>1. r \notin Orphaned BY <3>3 DEF CloudFails
      <4>2. content'[r] # 0 BY <4>1, <3>1, <2>4 DEF Orphaned
      <4> QED BY <4>2, <2>3, <1>3
    <3> QED BY <3>2, <3>3
  <2> QED BY <2>3, <2>4, <1>3
<1>9. CloudInRows'
  <2> SUFFICES ASSUME NEW r \in AdminRoot \ unlisted', content'[r] # 0
               PROVE  snapshot[r] # 0 \/ job[r] # "none"
    BY <1>2 DEF CloudInRows
  <2>1. content'[r] = content[r] BY <1>3
  <2>2. CASE admin.op = "clear"
    <3>1. CASE ClearCloud BY <2>2, <3>1, ClearedAt, SMT DEF ClearCloud, OperationOK
    <3>2. CASE CloudFails BY <2>2, <3>2 DEF CloudFails
    <3> QED BY <3>1, <3>2
  <2>3. CASE admin.op # "clear"
    <3>1. CASE ClearCloud
      <4>1. r \notin admin.roots BY <3>1, ClearedAt, SMT DEF ClearCloud
      <4>2. r \notin unlisted BY <3>1, <4>1 DEF ClearCloud
      <4> QED BY <4>2, <2>1, <2>3 DEF CloudInRows
    <3>2. CASE CloudFails
      <4>1. r \notin unlisted BY <3>2, <2>3 DEF CloudFails
      <4> QED BY <4>1, <2>1, <2>3 DEF CloudInRows
    <3> QED BY <3>1, <3>2
  <2> QED BY <2>2, <2>3
<1> QED BY <1>6, <1>7, <1>8, <1>9

\* The relay's transaction fails: of a delete-root, the rows of what is gone are left.
LEMMA RelayFailsStep ==
  ASSUME AdminInv, RelayFails
  PROVE  AdminInv'
<1> USE DEF AdminInv, tenant
<1>1. /\ admin.at = "relay" /\ admin' = NoAdmin /\ behind' = behind \cup Orphaned
      /\ UNCHANGED <<snapshot, job, content, adrift, cooldown, waiting, published, unlisted>>
  BY DEF RelayFails
<1>2. AdminTypeOK'
  <2>1. adminFaults' \in 0..AdminFaults BY RootAdminAssumption, SMT DEF AdminTypeOK, RelayFails, AdminFault
  <2>2. behind' \subseteq AdminRoot BY <1>1 DEF AdminTypeOK, Operation, Orphaned
  <2> QED BY <1>1, <2>1, <2>2, Idle DEF AdminTypeOK
<1>3. OperationOK' BY <1>1, Idle DEF OperationOK
<1>4. RowsInCloud'
  <2> SUFFICES ASSUME NEW r \in AdminRoot, r \notin behind, r \notin Orphaned
               PROVE  snapshot[r] \in {0, content[r]}
    BY <1>1 DEF RowsInCloud
  <2>1. CASE admin.op = "delete" /\ r \in admin.roots
    BY <2>1, <1>1 DEF Orphaned, OperationOK
  <2>2. CASE ~(admin.op = "delete" /\ r \in admin.roots) BY <2>2 DEF RowsInCloud
  <2> QED BY <2>1, <2>2
<1>5. CloudInRows' BY <1>1 DEF CloudInRows
<1> QED BY <1>2, <1>3, <1>4, <1>5

\* A call whose caller left is executed at any later time.
LEMMA AdriftStep ==
  ASSUME AdminInv, NEW roots \in adrift, ExecuteAdrift(roots)
  PROVE  AdminInv'
<1> USE DEF AdminInv
<1>1. /\ \A r \in AdminRoot : content'[r] = IF r \in roots THEN 0 ELSE content[r]
      /\ behind' = behind \cup {r \in roots : snapshot[r] # 0} /\ unlisted' = unlisted \ roots
      /\ UNCHANGED <<snapshot, job, admin, cooldown, waiting, published, adminFaults>>
  BY ClearedAt, SMT DEF ExecuteAdrift, NoAdminFault
<1>2. AdminTypeOK'
  <2>1. 0 \in 0..MaxPublished BY RootAdminAssumption, SMT
  <2>2. content' \in [AdminRoot -> 0..MaxPublished] BY <2>1, ClearedType DEF AdminTypeOK, ExecuteAdrift
  <2>3. roots \subseteq AdminRoot BY DEF AdminTypeOK
  <2> QED BY <1>1, <2>2, <2>3 DEF AdminTypeOK, ExecuteAdrift
<1>3. OperationOK' BY <1>1 DEF OperationOK, AdminTypeOK, Operation
<1>4. RowsInCloud' BY <1>1 DEF RowsInCloud
<1>5. CloudInRows' BY <1>1 DEF CloudInRows
<1> QED BY <1>2, <1>3, <1>4, <1>5

\* Jobs start, publish and fail while no operation has the lease.
LEMMA JobsStep ==
  ASSUME AdminInv, NEW r \in AdminRoot,
         StartJob(r) \/ PublishJob(r) \/ PublishUnrecorded(r) \/ FailJob(r)
  PROVE  AdminInv'
<1> USE RootAdminAssumption DEF AdminInv, JobStep
<1>1. CASE StartJob(r) \/ FailJob(r)
  <2>1. /\ UNCHANGED <<snapshot, content, admin, adrift, cooldown, waiting, published, behind, unlisted,
                       adminFaults>>
        /\ job' \in [AdminRoot -> {"none", "running", "failed"}]
        /\ \A q \in AdminRoot : job'[q] = "none" => job[q] = "none"
    BY <1>1 DEF StartJob, FailJob, NoAdminFault, AdminTypeOK
  <2>2. AdminTypeOK' BY <2>1 DEF AdminTypeOK
  <2>3. OperationOK' /\ RowsInCloud' BY <2>1 DEF OperationOK, RowsInCloud
  <2>4. CloudInRows' BY <2>1 DEF CloudInRows
  <2> QED BY <2>2, <2>3, <2>4
<1>2. CASE PublishJob(r) \/ PublishUnrecorded(r)
  <2>1. /\ admin = NoAdmin /\ UNCHANGED <<admin, adrift, cooldown, waiting>>
        /\ published' = published + 1 /\ published + 1 \in 0..MaxPublished /\ published \in Nat
        /\ content' = [content EXCEPT ![r] = Uploaded(r)]
    BY <1>2, SMT DEF PublishJob, PublishUnrecorded, AdminTypeOK
  <2>2. Uploaded(r) \in 0..MaxPublished BY <2>1 DEF Uploaded, AdminTypeOK
  <2>3. content' \in [AdminRoot -> 0..MaxPublished] BY <2>1, <2>2 DEF AdminTypeOK
  <2>4. content'[r] = Uploaded(r) /\ \A q \in AdminRoot \ {r} : content'[q] = content[q]
    BY <2>1 DEF AdminTypeOK
  <2>5. OperationOK' BY <2>1, Idle DEF OperationOK
  <2>6. admin.op = "none" BY <2>1, Idle
  <2>7. CASE PublishJob(r)
    <3>1. /\ snapshot' = [snapshot EXCEPT ![r] = published + 1] /\ job' = [job EXCEPT ![r] = "none"]
          /\ behind' = behind /\ unlisted' = unlisted \ {r} /\ adminFaults' = adminFaults
      BY <2>7 DEF PublishJob, NoAdminFault
    <3>2. /\ snapshot' \in [AdminRoot -> 0..MaxPublished]
          /\ job' \in [AdminRoot -> {"none", "running", "failed"}]
      BY <2>1, <3>1 DEF AdminTypeOK
    <3>3. AdminTypeOK' BY <2>1, <2>3, <3>1, <3>2 DEF AdminTypeOK
    <3>4. /\ snapshot'[r] = published + 1 /\ \A q \in AdminRoot \ {r} : snapshot'[q] = snapshot[q]
          /\ \A q \in AdminRoot \ {r} : job'[q] = job[q]
      BY <3>1 DEF AdminTypeOK
    <3>5. RowsInCloud'
      <4>1. r \notin behind => content'[r] = published + 1
        BY <2>4, <2>6 DEF RowsInCloud, Uploaded
      <4> QED BY <2>4, <2>6, <3>1, <3>4, <4>1 DEF RowsInCloud
    <3>6. CloudInRows'
      <4>1. snapshot'[r] # 0 BY <2>1, <3>4, SMT
      <4> QED BY <2>1, <2>4, <2>6, <3>1, <3>4, <4>1 DEF CloudInRows
    <3> QED BY <2>5, <3>3, <3>5, <3>6
  <2>8. CASE PublishUnrecorded(r)
    <3>1. /\ snapshot' = snapshot /\ job' = [job EXCEPT ![r] = "failed"] /\ unlisted' = unlisted
          /\ behind' = IF snapshot[r] = 0 THEN behind ELSE behind \cup {r}
      BY <2>8 DEF PublishUnrecorded
    <3>2. /\ job' \in [AdminRoot -> {"none", "running", "failed"}]
          /\ adminFaults' \in 0..AdminFaults
      BY <2>8, <3>1, SMT DEF AdminTypeOK, PublishUnrecorded, AdminFault
    <3>3. AdminTypeOK' BY <2>1, <2>3, <3>1, <3>2 DEF AdminTypeOK
    <3>4. job'[r] = "failed" /\ \A q \in AdminRoot \ {r} : job'[q] = job[q] BY <3>1 DEF AdminTypeOK
    <3>5. RowsInCloud' BY <2>4, <2>6, <3>1 DEF RowsInCloud
    <3>6. CloudInRows' BY <2>1, <2>4, <2>6, <3>1, <3>4 DEF CloudInRows
    <3> QED BY <2>5, <3>3, <3>5, <3>6
  <2> QED BY <1>2, <2>7, <2>8
<1> QED BY <1>1, <1>2

\* The relay's rows and the cloud agree whichever step of an operation fails.
THEOREM AdminInvariant == AdminSpec => []AdminInv
<1>1. AdminInv /\ [AdminNext]_adminVars => AdminInv'
  <2> SUFFICES ASSUME AdminInv, [AdminNext]_adminVars PROVE AdminInv'
    OBVIOUS
  <2>1. CASE AskClear \/ LeaveClear \/ EndCooldown \/ UNCHANGED adminVars
    <3>1. /\ UNCHANGED <<snapshot, job, content, admin, adrift, published, behind, unlisted>>
          /\ cooldown' \in BOOLEAN /\ waiting' \in BOOLEAN /\ adminFaults' \in 0..AdminFaults
      <4> USE RootAdminAssumption DEF tenant, NoAdminFault, AdminInv, AdminTypeOK
      <4>1. CASE AskClear BY <4>1, SMT DEF AskClear, AdminFault
      <4>2. CASE LeaveClear BY <4>2 DEF LeaveClear
      <4>3. CASE EndCooldown BY <4>3 DEF EndCooldown
      <4>4. CASE UNCHANGED adminVars BY <4>4 DEF adminVars
      <4> QED BY <2>1, <4>1, <4>2, <4>3, <4>4
    <3>2. AdminTypeOK' BY <3>1 DEF AdminInv, AdminTypeOK
    <3>3. OperationOK' /\ RowsInCloud' /\ CloudInRows'
      BY <3>1 DEF AdminInv, OperationOK, RowsInCloud, CloudInRows
    <3> QED BY <3>2, <3>3 DEF AdminInv
  <2> QED BY <2>1, StartStep, CommitStep, RelayFailsStep, CloudStep, AdriftStep, JobsStep DEF AdminNext
<1> QED BY <1>1, AdminInitInv, PTL DEF AdminSpec

\* What the relay lists is what LCE holds, except while an operation is between its two
\* systems: delete-root and clear-index may fail at either and be repeated, and a failed
\* root is dismissed only where there is nothing left to delete (root_admin.go).
THEOREM RelayAndCloudAgree == AdminSpec => []RelayMatchesCloud
<1>1. AdminInv => RelayMatchesCloud
  BY DEF AdminInv, RelayMatchesCloud, RowsInCloud, SnapshotNotAhead, CloudInRows, ContentListed
<1> QED BY <1>1, AdminInvariant, PTL
=============================================================================
