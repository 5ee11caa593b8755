----------------------------- MODULE IndexLeases -----------------------------
(***************************************************************************)
(* The operation leases of index_operations.go: every index operation of a *)
(* tenant (a start, an upload batch, a publication, a clear, a deletion)   *)
(* runs under a row of index_operation_leases, taken in one transaction    *)
(* under the tenant's advisory lock and kept alive by a renewal goroutine. *)
(*                                                                         *)
(* Time is discrete and kept in countdown timers, so no clock is bounded.  *)
(* The acquiring statement is split where PostgreSQL splits it: it decides *)
(* on its snapshot, and its DELETE rechecks a row that changed meanwhile.  *)
(***************************************************************************)
EXTENDS Integers, FiniteSets

CONSTANTS
  Op,             \* operation attempts, one lease token each
  Tenant,
  Resource,       \* "job:<id>" resources of shared operations
  AnyResource,    \* the resource "*" of exclusive operations
  OpTenant,       \* [Op -> Tenant]
  OpResource,     \* [Op -> Resource \cup {AnyResource}]
  OpKind,         \* [Op -> Kind]
  Duration,       \* indexOperationLeaseDuration
  RenewInterval,  \* indexOperationRenewInterval
  MaxDelay,       \* longest a transaction or a renewal attempt lasts
  MaxUploads,     \* maxConcurrentIndexUploadsPerJob
  FastFail        \* may a renewal fail before its timeout?

Kind == {"upload-batch", "delete-root-job", "other"}

\* The lease outlives four renewals (2 minutes, 30 seconds) and a statement
\* is cut off (5 seconds) well within half a renewal interval.
ASSUME LeaseAssumption ==
  /\ AnyResource \notin Resource
  /\ OpTenant \in [Op -> Tenant]
  /\ OpResource \in [Op -> Resource \cup {AnyResource}]
  /\ OpKind \in [Op -> Kind]
  /\ RenewInterval \in Nat /\ MaxDelay \in Nat \ {0} /\ MaxUploads \in Nat \ {0}
  /\ Duration = 4 * RenewInterval
  /\ 2 * MaxDelay < RenewInterval
  /\ FastFail \in BOOLEAN

VARIABLES
  phase,      \* what the caller of attempt o is doing
  rows,       \* tokens present in index_operation_leases
  left,       \* time until lease_expires_at; not positive once expired
  tick,       \* time until the renewer's ticker fires
  dead,       \* time until the renewer's local deadline
  att,        \* the renewal attempt in flight
  attLeft,    \* time until that attempt is cut off
  txAge,      \* age of the acquiring transaction, so of its NOW()
  grant,      \* the verdict of the acquiring statement on its snapshot
  purge,      \* the rows that snapshot shows as expired
  deleting,   \* tenants with a queued or running root_deletion_jobs row
  resetting   \* is an embedding platform_config_jobs row pending or running?

callerVars == <<phase, txAge, grant, purge>>
renewVars == <<tick, dead, att, attLeft>>
fenceVars == <<deleting, resetting>>
vars == <<phase, rows, left, tick, dead, att, attLeft, txAge, grant, purge,
          deleting, resetting>>

Exclusive(o) == OpResource[o] = AnyResource
Upload(o) == OpKind[o] = "upload-batch"

\* The SQL conflict predicate: leases of one tenant exclude each other when
\* either is exclusive, or both name one resource and are not both uploads.
Conflict(o, r) ==
  /\ OpTenant[o] = OpTenant[r]
  /\ \/ Exclusive(o) \/ Exclusive(r)
     \/ OpResource[o] = OpResource[r] /\ ~(Upload(o) /\ Upload(r))

TenantRows(t) == {r \in rows : OpTenant[r] = t}

\* Rows with lease_expires_at > NOW() for a NOW() taken `age` ago.
LiveRows(age) == {r \in rows : left[r] + age > 0}

\* A tenant's advisory lock is held by its open acquiring transaction.
LockFree(t) == \A o \in Op : OpTenant[o] = t => phase[o] # "tx"

\* Rows, timers and verdicts keep their shape; no renewal attempt outlives its
\* statement timeout and no row is granted more than the lease duration.
TypeOK ==
  /\ phase \in [Op -> {"idle", "waiting", "tx", "held", "lost"}]
  /\ rows \subseteq Op
  /\ left \in [Op -> (-MaxDelay)..Duration]
  /\ tick \in [Op -> 0..RenewInterval]
  /\ dead \in [Op -> 0..Duration]
  /\ att \in [Op -> {"none", "sent", "ok", "fail"}]
  /\ attLeft \in [Op -> 0..MaxDelay]
  /\ txAge \in [Op -> 0..MaxDelay]
  /\ grant \in [Op -> BOOLEAN]
  /\ purge \in [Op -> SUBSET Op]
  /\ deleting \subseteq Tenant
  /\ resetting \in BOOLEAN

Init ==
  /\ phase = [o \in Op |-> "idle"]
  /\ rows = {}
  /\ left = [o \in Op |-> 0]
  /\ tick = [o \in Op |-> 0]
  /\ dead = [o \in Op |-> 0]
  /\ att = [o \in Op |-> "none"]
  /\ attLeft = [o \in Op |-> 0]
  /\ txAge = [o \in Op |-> 0]
  /\ grant = [o \in Op |-> FALSE]
  /\ purge = [o \in Op |-> {}]
  /\ deleting = {}
  /\ resetting = FALSE
-----------------------------------------------------------------------------
(* Acquisition.                                                            *)

\* A call of acquireIndexOperation or tryIndexOperation with a fresh token.
\* Only the worker of an active deletion asks for a delete-root-job lease.
Call(o) ==
  /\ phase[o] = "idle" /\ o \notin rows
  /\ OpKind[o] = "delete-root-job" => OpTenant[o] \in deleting
  /\ phase' = [phase EXCEPT ![o] = "waiting"]
  /\ UNCHANGED <<rows, left, txAge, grant, purge, renewVars, fenceVars>>

\* acquireIndexOperation returns errIndexOperationBusy when it sees an active
\* deletion; either form of the call gives up on its context or on conflict.
GiveUp(o) ==
  /\ phase[o] = "waiting"
  /\ phase' = [phase EXCEPT ![o] = "idle"]
  /\ UNCHANGED <<rows, left, txAge, grant, purge, renewVars, fenceVars>>

\* Variant: a request overlooks the exclusive rows of others.
NoConflictIgnoringTheirMode(o, live) ==
  \A r \in live : ~Exclusive(r) => ~Conflict(o, r)

\* What the INSERT ... SELECT decides on the tenant's live rows in its snapshot.
NoConflict(o, live) == \A r \in live : ~Conflict(o, r)

UploadsOf(o, live) == {r \in live : Upload(r) /\ OpResource[r] = OpResource[o]}

\* Variant: one upload too many.
AtUploadCap(o, live) ==
  Upload(o) => Cardinality(UploadsOf(o, live)) <= MaxUploads

BelowUploadCap(o, live) ==
  Upload(o) => Cardinality(UploadsOf(o, live)) < MaxUploads

\* Variant: only acquireIndexOperation's unlocked check looks for a deletion.
NoDeletionCheck(o) == TRUE

NoActiveDeletion(o) ==
  OpTenant[o] \in deleting => OpKind[o] = "delete-root-job"

NoActiveReset == ~resetting

Admissible(o, age) ==
  LET live == LiveRows(age) \cap TenantRows(OpTenant[o]) IN
  /\ NoConflict(o, live)
  /\ BelowUploadCap(o, live)
  /\ NoActiveDeletion(o)
  /\ NoActiveReset

\* beginLockedIndexUserTx and the snapshot of the acquiring statement. The
\* transaction's NOW() is `age` old: it was taken before the lock was granted.
AcquireBegin(o) ==
  /\ phase[o] = "waiting"
  /\ LockFree(OpTenant[o])
  /\ \E age \in 0..MaxDelay :
       /\ txAge' = [txAge EXCEPT ![o] = age]
       /\ grant' = [grant EXCEPT ![o] = Admissible(o, age)]
       /\ purge' = [purge EXCEPT ![o] = TenantRows(OpTenant[o]) \ LiveRows(age)]
  /\ phase' = [phase EXCEPT ![o] = "tx"]
  /\ UNCHANGED <<rows, left, renewVars, fenceVars>>

\* The statement's effects and the commit. Its DELETE rechecks each row it
\* saw expired; a caller that never reads the reply leaves an ownerless row.
AcquireCommit(o) ==
  /\ phase[o] = "tx"
  /\ LET expired == {r \in purge[o] : left[r] + txAge[o] <= 0}
         kept == rows \ expired
     IN IF grant[o]
        THEN /\ rows' = kept \cup {o}
             /\ left' = [left EXCEPT ![o] = Duration - txAge[o]]
             /\ \/ /\ phase' = [phase EXCEPT ![o] = "held"]
                   /\ tick' = [tick EXCEPT ![o] = RenewInterval]
                   /\ dead' = [dead EXCEPT ![o] = Duration]
                \/ /\ phase' = [phase EXCEPT ![o] = "idle"]
                   /\ UNCHANGED <<tick, dead>>
        ELSE /\ rows' = kept
             /\ phase' = [phase EXCEPT ![o] = "waiting"]
             /\ UNCHANGED <<left, tick, dead>>
  /\ txAge' = [txAge EXCEPT ![o] = 0]
  /\ grant' = [grant EXCEPT ![o] = FALSE]
  /\ purge' = [purge EXCEPT ![o] = {}]
  /\ UNCHANGED <<att, attLeft, fenceVars>>
-----------------------------------------------------------------------------
(* The renewal goroutine.                                                  *)

\* The ticker fires: a statement with a timeout of its own is sent.
RenewFire(o) ==
  /\ phase[o] = "held" /\ att[o] = "none" /\ tick[o] = 0
  /\ att' = [att EXCEPT ![o] = "sent"]
  /\ attLeft' = [attLeft EXCEPT ![o] = MaxDelay]
  /\ tick' = [tick EXCEPT ![o] = RenewInterval]
  /\ UNCHANGED <<rows, left, dead, callerVars, fenceVars>>

\* The UPDATE reaches the database: it matches on the token alone.
RenewExec(o) ==
  /\ att[o] = "sent"
  /\ IF o \in rows
     THEN /\ left' = [left EXCEPT ![o] = Duration]
          /\ att' = [att EXCEPT ![o] = "ok"]
     ELSE /\ att' = [att EXCEPT ![o] = "fail"]
          /\ UNCHANGED left
  /\ UNCHANGED <<rows, tick, dead, attLeft, callerVars, fenceVars>>

\* The attempt errs, before or after the UPDATE took effect. Unless FastFail,
\* an error is the statement's timeout.
RenewError(o) ==
  /\ att[o] \in {"sent", "ok"}
  /\ FastFail \/ attLeft[o] = 0
  /\ att' = [att EXCEPT ![o] = "fail"]
  /\ UNCHANGED <<rows, left, tick, dead, attLeft, callerVars, fenceVars>>

\* One row updated: the local deadline moves.
RenewSucceeded(o) ==
  /\ att[o] = "ok" /\ attLeft[o] > 0
  /\ dead' = [dead EXCEPT ![o] = Duration]
  /\ att' = [att EXCEPT ![o] = "none"]
  /\ attLeft' = [attLeft EXCEPT ![o] = 0]
  /\ UNCHANGED <<rows, left, tick, callerVars, fenceVars>>

\* A failed attempt cancels the operation when another interval would pass
\* the deadline; a tick is handled after it is due, so equality is past it.
RenewFailed(o) ==
  /\ att[o] = "fail"
  /\ att' = [att EXCEPT ![o] = "none"]
  /\ attLeft' = [attLeft EXCEPT ![o] = 0]
  /\ IF phase[o] = "held" /\ dead[o] <= RenewInterval
     THEN phase' = [phase EXCEPT ![o] = "lost"]
     ELSE UNCHANGED phase
  /\ UNCHANGED <<rows, left, tick, dead, txAge, grant, purge, fenceVars>>

\* The caller's own context ends: a disconnected client, a deadline.
CallerCancelled(o) ==
  /\ phase[o] = "held"
  /\ phase' = [phase EXCEPT ![o] = "lost"]
  /\ UNCHANGED <<rows, left, txAge, grant, purge, renewVars, fenceVars>>

\* Release stops the renewer, waits for it, and deletes the row; the error
\* of that DELETE is ignored.
Release(o) ==
  /\ phase[o] \in {"held", "lost"} /\ att[o] = "none"
  /\ rows' \in {rows \ {o}, rows}
  /\ left' = [left EXCEPT ![o] = IF o \in rows' THEN @ ELSE 0]
  /\ phase' = [phase EXCEPT ![o] = "idle"]
  /\ tick' = [tick EXCEPT ![o] = 0]
  /\ dead' = [dead EXCEPT ![o] = 0]
  /\ UNCHANGED <<att, attLeft, txAge, grant, purge, fenceVars>>

\* The process dies: its transaction rolls back, its row stays behind.
Crash(o) ==
  /\ phase[o] # "idle"
  /\ phase' = [phase EXCEPT ![o] = "idle"]
  /\ tick' = [tick EXCEPT ![o] = 0]
  /\ dead' = [dead EXCEPT ![o] = 0]
  /\ att' = [att EXCEPT ![o] = "none"]
  /\ attLeft' = [attLeft EXCEPT ![o] = 0]
  /\ txAge' = [txAge EXCEPT ![o] = 0]
  /\ grant' = [grant EXCEPT ![o] = FALSE]
  /\ purge' = [purge EXCEPT ![o] = {}]
  /\ UNCHANGED <<rows, left, fenceVars>>
-----------------------------------------------------------------------------
(* The durable jobs that fence index operations off.                       *)

\* submitRootDeletion's admission, in a transaction under the tenant's lock.
SubmitRootDeletion(t) ==
  /\ t \notin deleting /\ LockFree(t) /\ ~resetting
  /\ \E age \in 0..MaxDelay : LiveRows(age) \cap TenantRows(t) = {}
  /\ deleting' = deleting \cup {t}
  /\ UNCHANGED <<rows, left, resetting, callerVars, renewVars>>

\* finishRootDeletion, by a worker that holds the tenant's exclusive lease.
FinishRootDeletion(t) ==
  /\ t \in deleting /\ LockFree(t)
  /\ \E o \in Op : /\ OpTenant[o] = t /\ OpKind[o] = "delete-root-job"
                   /\ phase[o] = "held"
  /\ deleting' = deleting \ {t}
  /\ UNCHANGED <<rows, left, resetting, callerVars, renewVars>>

\* enqueuePlatformConfigJob for an embedding change, under the exclusive
\* platform lock, which waits for every tenant's open transaction.
EnqueueReset ==
  /\ ~resetting /\ deleting = {} /\ \A t \in Tenant : LockFree(t)
  /\ \E age \in 0..MaxDelay : LiveRows(age) = {}
  /\ resetting' = TRUE
  /\ UNCHANGED <<rows, left, deleting, callerVars, renewVars>>

\* finishPlatformConfigJob: rejected, or completed and every lease deleted.
FinishReset ==
  /\ resetting /\ \A t \in Tenant : LockFree(t)
  /\ resetting' = FALSE
  /\ rows' \in {rows, {}}
  /\ UNCHANGED <<left, deleting, callerVars, renewVars>>
-----------------------------------------------------------------------------
\* Time passes unless a ticker, a statement's timeout or a transaction's
\* limit is due: these fire on time.
TimePasses ==
  /\ \A o \in Op : /\ phase[o] = "held" /\ att[o] = "none" => tick[o] > 0
                   /\ att[o] # "none" => attLeft[o] > 0
                   /\ phase[o] = "tx" => txAge[o] < MaxDelay
  /\ left' = [o \in Op |-> IF o \in rows /\ left[o] > -MaxDelay
                           THEN left[o] - 1 ELSE left[o]]
  /\ tick' = [o \in Op |-> IF tick[o] > 0 THEN tick[o] - 1 ELSE 0]
  /\ dead' = [o \in Op |-> IF dead[o] > 0 THEN dead[o] - 1 ELSE 0]
  /\ attLeft' = [o \in Op |-> IF attLeft[o] > 0 THEN attLeft[o] - 1 ELSE 0]
  /\ txAge' = [o \in Op |-> IF phase[o] = "tx" THEN txAge[o] + 1 ELSE txAge[o]]
  /\ UNCHANGED <<phase, rows, att, grant, purge, fenceVars>>

Renewer(o) == \/ RenewFire(o) \/ RenewExec(o) \/ RenewError(o)
              \/ RenewSucceeded(o) \/ RenewFailed(o)

Caller(o) == \/ Call(o) \/ GiveUp(o) \/ AcquireBegin(o) \/ AcquireCommit(o)
             \/ CallerCancelled(o) \/ Release(o) \/ Crash(o)

Next ==
  \/ \E o \in Op : Caller(o) \/ Renewer(o)
  \/ \E t \in Tenant : SubmitRootDeletion(t) \/ FinishRootDeletion(t)
  \/ EnqueueReset \/ FinishReset
  \/ TimePasses

Spec == Init /\ [][Next]_vars
-----------------------------------------------------------------------------
(* Properties.                                                             *)

\* Two operations that run at once, each with its context still live, do not
\* conflict: the claim of acquireSharedIndexOperation's comment that the
\* conflict predicate "still serializes one resource".
SerializedHolders ==
  \A o, r \in Op : o # r /\ phase[o] = "held" /\ phase[r] = "held"
                     => ~Conflict(o, r)

\* An operation whose context is live owns a lease that has not expired: the
\* renewer cancels the context before another relay could take the lease.
HolderCovered ==
  \A o \in Op : phase[o] = "held" => o \in rows /\ left[o] > 0

\* Overlapping upload batches of one job stay within
\* maxConcurrentIndexUploadsPerJob, whatever is crashed, late or abandoned.
UploadCap ==
  \A o \in Op : Upload(o) =>
    Cardinality({r \in LiveRows(0) :
                   Upload(r) /\ OpTenant[r] = OpTenant[o]
                             /\ OpResource[r] = OpResource[o]}) <= MaxUploads

\* While a tenant's root deletion is queued or running, only the deletion worker's
\* lease is live.
DeletionFence ==
  \A t \in deleting : \A r \in LiveRows(0) \cap TenantRows(t) :
    OpKind[r] = "delete-root-job"

\* While an embedding reset is pending or running no lease is live and no
\* deletion is active: finishing it cannot pull a lease from under a holder.
ResetFence == resetting => LiveRows(0) = {} /\ deleting = {}

\* The jobs that take content away find the tenant, or the platform, to
\* themselves, although they are enqueued while acquisitions are under way: both
\* fences of the acquiring statement hold.
FencesHold == DeletionFence /\ ResetFence
=============================================================================
