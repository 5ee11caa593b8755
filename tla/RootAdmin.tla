------------------------------ MODULE RootAdmin ------------------------------
(***************************************************************************)
(* The console's direct operations on a tenant's index (root_admin.go,     *)
(* main.go): clear-index, delete-root and dismiss-root-failure, and the    *)
(* move of a workspace to another root (index_jobs.go). Each holds the     *)
(* tenant's exclusive lease over a transaction of the relay and a call of  *)
(* LCE that carries no operation id: a call that outlives its caller may   *)
(* clear the cloud later. Index jobs run between the operations.           *)
(*                                                                         *)
(* Contents are numbered by the job that published them, 0 for none.       *)
(***************************************************************************)
EXTENDS Naturals

CONSTANTS
  AdminRoot,     \* the tenant's roots
  MaxPublished,  \* bound on the contents published
  AdminFaults    \* bound on failed steps

ASSUME RootAdminAssumption == MaxPublished \in Nat /\ AdminFaults \in Nat

VARIABLES
  snapshot,    \* the relay's rows of each root: what the next job diffs against
  job,         \* index_jobs: the last job of each root
  content,     \* LCE: the content of each root
  admin,       \* the operation under way, which holds the lease
  adrift,      \* LCE calls whose callers left: the sets of roots they clear
  cooldown,    \* clear_cooldown:{tenant}
  waiting,     \* a clear-index past its cooldown check waits for the lease
  published,   \* contents published so far
  behind,      \* history: roots with rows that a failed step or a late call parted
               \* from the cloud
  unlisted,    \* history: roots whose content a failed clear-index left behind
  adminFaults

tenant == <<snapshot, job, content>>
adminVars ==
  <<tenant, admin, adrift, cooldown, waiting, published, behind, unlisted, adminFaults>>

NoAdmin == [op |-> "none", at |-> "idle", roots |-> {}]
Operation == [op : {"none", "clear", "delete", "dismiss"}, at : {"idle", "relay", "cloud"},
              roots : SUBSET AdminRoot]

\* Roots, operations and calls keep their shape.
AdminTypeOK ==
  /\ snapshot \in [AdminRoot -> 0..MaxPublished] /\ content \in [AdminRoot -> 0..MaxPublished]
  /\ job \in [AdminRoot -> {"none", "running", "failed"}]
  /\ admin \in Operation
  /\ adrift \subseteq SUBSET AdminRoot /\ cooldown \in BOOLEAN /\ waiting \in BOOLEAN
  /\ published \in 0..MaxPublished /\ adminFaults \in 0..AdminFaults
  /\ behind \subseteq AdminRoot /\ unlisted \subseteq AdminRoot

AdminInit ==
  /\ snapshot = [r \in AdminRoot |-> 0] /\ content = [r \in AdminRoot |-> 0]
  /\ job = [r \in AdminRoot |-> "none"]
  /\ admin = NoAdmin /\ adrift = {} /\ cooldown = FALSE /\ waiting = FALSE /\ published = 0
  /\ behind = {} /\ unlisted = {} /\ adminFaults = 0

AdminFault == adminFaults < AdminFaults /\ adminFaults' = adminFaults + 1
NoAdminFault == UNCHANGED adminFaults

Cleared(f, roots, none) == [r \in AdminRoot |-> IF r \in roots THEN none ELSE f[r]]

\* The rows a failed delete-root keeps of what the cloud no longer has.
Orphaned == {r \in admin.roots : admin.op = "delete" /\ snapshot[r] # 0 /\ content'[r] = 0}

-----------------------------------------------------------------------------
(* The operations begin, under the lease *)

Start(op, at, roots) ==
  /\ admin = NoAdmin
  /\ admin' = [op |-> op, at |-> at, roots |-> roots]
  /\ UNCHANGED <<tenant, adrift, cooldown, published, behind, unlisted>> /\ NoAdminFault

\* handleClearIndex reads the cooldown before it waits for the lease; a failed read
\* lets it pass.
AskClear ==
  /\ ~waiting /\ waiting' = TRUE
  /\ IF cooldown THEN AdminFault ELSE NoAdminFault
  /\ UNCHANGED <<tenant, admin, adrift, cooldown, published, behind, unlisted>>

\* The wait ends without the lease.
LeaveClear ==
  /\ waiting /\ waiting' = FALSE
  /\ UNCHANGED <<tenant, admin, adrift, cooldown, published, behind, unlisted>> /\ NoAdminFault

\* Variant of ClearFirst: clear-index begins in the cloud.
ClearFirstCloud == "cloud"

ClearFirst == "relay"

\* handleClearIndex has the lease.
StartClear == waiting /\ waiting' = FALSE /\ Start("clear", ClearFirst, AdminRoot)

\* handleDeleteRoot, past hasRunningJobForRoot and the rate limit.
StartDelete(r) ==
  /\ job[r] # "running" /\ UNCHANGED waiting
  /\ Start("delete", "cloud", {r})

\* createIndexJob for a workspace bound to another root: resetWorkspaceRootBinding takes
\* the old root r away in the steps of a delete-root.
MoveWorkspace(r) == snapshot[r] # 0 /\ StartDelete(r)

\* rootHasPublishedIndex decides whether dismiss-root-failure clears the cloud.
DismissFirst(r) == IF snapshot[r] = 0 THEN "cloud" ELSE "relay"

\* handleDismissRootFailure, past hasRunningJobForRoot.
StartDismiss(r) ==
  /\ job[r] # "running" /\ UNCHANGED waiting
  /\ Start("dismiss", DismissFirst(r), {r})

-----------------------------------------------------------------------------
(* Their steps *)

\* What follows a step that succeeded.
After(at) ==
  IF \/ admin.op = "clear" /\ at # ClearFirst
     \/ admin.op # "clear" /\ at = "relay"
  THEN NoAdmin ELSE [admin EXCEPT !.at = IF at = "relay" THEN "cloud" ELSE "relay"]

\* clearUserIndexState, deleteRootIndexState and dismissRootFailureState; the answer
\* to the commit may be lost.
CommitRelay ==
  /\ admin.at = "relay"
  /\ IF admin.op = "dismiss"
     THEN UNCHANGED <<snapshot, behind>>
     ELSE snapshot' = Cleared(snapshot, admin.roots, 0) /\ behind' = behind \ admin.roots
  /\ job' = Cleared(job, admin.roots, "none")
  /\ \/ admin' = After("relay") /\ UNCHANGED unlisted /\ NoAdminFault
     \/ /\ admin' = NoAdmin /\ AdminFault
        /\ unlisted' = IF admin.op = "clear"
                       THEN unlisted \cup {r \in AdminRoot : content[r] # 0} ELSE unlisted
  /\ UNCHANGED <<content, adrift, cooldown, waiting, published>>

\* The transaction rolls back, or the process dies before it.
RelayFails ==
  /\ admin.at = "relay"
  /\ admin' = NoAdmin
  /\ UNCHANGED <<tenant, adrift, cooldown, waiting, published, unlisted>> /\ AdminFault
  /\ behind' = behind \cup Orphaned

\* LCE clears the roots and answers. A clear-index then starts the cooldown,
\* if Redis takes it.
ClearCloud ==
  /\ admin.at = "cloud"
  /\ content' = Cleared(content, admin.roots, 0)
  /\ admin' = After("cloud")
  /\ \/ cooldown' = (cooldown \/ admin.op = "clear") /\ NoAdminFault
     \/ admin.op = "clear" /\ UNCHANGED cooldown /\ AdminFault
  /\ unlisted' = unlisted \ admin.roots
  /\ UNCHANGED <<snapshot, job, adrift, waiting, published, behind>>

\* The call fails: it was never made, is still on its way, or its answer was lost.
CloudFails ==
  /\ admin.at = "cloud"
  /\ admin' = NoAdmin
  /\ \/ content' = Cleared(content, admin.roots, 0) /\ UNCHANGED adrift
     \/ UNCHANGED <<content, adrift>>
     \/ adrift' = adrift \cup {admin.roots} /\ UNCHANGED content
  /\ behind' = behind \cup Orphaned
  /\ unlisted' = IF admin.op = "clear" THEN {r \in AdminRoot : content'[r] # 0} ELSE unlisted
  /\ UNCHANGED <<snapshot, job, cooldown, waiting, published>> /\ AdminFault

\* LCE executes a call its caller has given up.
ExecuteAdrift(roots) ==
  /\ roots \in adrift
  /\ adrift' = adrift \ {roots}
  /\ content' = Cleared(content, roots, 0)
  /\ behind' = behind \cup {r \in roots : snapshot[r] # 0}
  /\ unlisted' = unlisted \ roots
  /\ UNCHANGED <<snapshot, job, admin, cooldown, waiting, published>> /\ NoAdminFault

EndCooldown ==
  /\ cooldown /\ cooldown' = FALSE
  /\ UNCHANGED <<tenant, admin, adrift, waiting, published, behind, unlisted>> /\ NoAdminFault

-----------------------------------------------------------------------------
(* Index jobs, as far as the operations meet them: their steps need the lease *)

JobStep == admin = NoAdmin /\ UNCHANGED <<admin, adrift, cooldown, waiting>>

StartJob(r) ==
  /\ JobStep /\ job[r] # "running"
  /\ job' = [job EXCEPT ![r] = "running"]
  /\ UNCHANGED <<snapshot, content, published, behind, unlisted>> /\ NoAdminFault

\* What a job publishes: everything, or what differs from the relay's rows, which
\* leaves the cloud without what the relay believes to be there.
Uploaded(r) == IF snapshot[r] \in {0, content[r]} THEN published + 1 ELSE content[r]

PublishJob(r) ==
  /\ JobStep /\ job[r] = "running" /\ published < MaxPublished
  /\ published' = published + 1
  /\ content' = [content EXCEPT ![r] = Uploaded(r)]
  /\ snapshot' = [snapshot EXCEPT ![r] = published + 1]
  /\ job' = [job EXCEPT ![r] = "none"] /\ unlisted' = unlisted \ {r}
  /\ UNCHANGED behind /\ NoAdminFault

\* LCE published and the relay did not record it.
PublishUnrecorded(r) ==
  /\ JobStep /\ job[r] = "running" /\ published < MaxPublished
  /\ published' = published + 1
  /\ content' = [content EXCEPT ![r] = Uploaded(r)]
  /\ job' = [job EXCEPT ![r] = "failed"]
  /\ behind' = IF snapshot[r] = 0 THEN behind ELSE behind \cup {r}
  /\ UNCHANGED <<snapshot, unlisted>> /\ AdminFault

\* A job fails or times out, under a lease or not.
FailJob(r) ==
  /\ job[r] = "running"
  /\ job' = [job EXCEPT ![r] = "failed"]
  /\ UNCHANGED <<snapshot, content, admin, adrift, cooldown, waiting, published, behind, unlisted>> /\ NoAdminFault

-----------------------------------------------------------------------------
AdminNext ==
  \/ AskClear \/ LeaveClear \/ StartClear \/ EndCooldown
  \/ CommitRelay \/ RelayFails \/ ClearCloud \/ CloudFails
  \/ \E roots \in adrift : ExecuteAdrift(roots)
  \/ \E r \in AdminRoot : \/ MoveWorkspace(r) \/ StartDelete(r) \/ StartDismiss(r)
                          \/ StartJob(r) \/ PublishJob(r) \/ PublishUnrecorded(r) \/ FailJob(r)

AdminSpec == AdminInit /\ [][AdminNext]_adminVars

-----------------------------------------------------------------------------
(* Properties *)

\* handleClearIndex: the relay first, since an empty cloud under a full snapshot is a
\* "永久不一致（后续 diff 全判未变更，永远不重传）" (a permanent inconsistency: every later
\* diff finds nothing to upload). The relay's rows of a root are what the cloud holds,
\* or none, but for a delete-root or a move that failed after the cloud was cleared and
\* was not repeated, a publication the relay failed to record, and a call executed late.
SnapshotNotAhead ==
  \A r \in AdminRoot \ behind :
    snapshot[r] \in {0, content[r]} \/ (admin.op = "delete" /\ r \in admin.roots)

\* handleDismissRootFailure: without the call of LCE there would be "用户无法发现也无法
\* 删除的残留" (a residue users can neither find nor delete). What the cloud holds of a root
\* is listed by its rows or its failed job, but for what a clear-index failed to remove.
ContentListed ==
  \A r \in AdminRoot \ unlisted :
    content[r] # 0 => snapshot[r] # 0 \/ job[r] # "none" \/ admin.op = "clear"

\* The relay's rows and the cloud's content agree in both directions, whichever step of
\* which operation fails or is executed late; the state keeps its shape.
RelayMatchesCloud == AdminTypeOK /\ SnapshotNotAhead /\ ContentListed
=============================================================================
