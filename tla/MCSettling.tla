----------------------------- MODULE MCSettling -----------------------------
(***************************************************************************)
(* The durable jobs that must settle whatever fails on the way: deletions  *)
(* of roots, changes of the platform's configuration, and publications of  *)
(* index jobs. Each behaviour of this instance follows the jobs of one     *)
(* kind; the others stay in an initial state, where their fairness asks    *)
(* for nothing.                                                            *)
(***************************************************************************)
EXTENDS PlatformConfig

CONSTANTS
  Root, Deletion, Worker, DeletionAttempt, DeletionAttempts, MaxContent, MaxRetries,
  DeletionFaults, Path, Version, Job, NoIndexJob, Handler, JobFaults

VARIABLES
  kind,
  row, deletionWorker, lease, rows, cloud, executed, deletes, index, contents,
  deletionCalls, retries, deletionFaults,
  indexJob, exists, snapshot, cloudRev, handler, lce, root, rootRev, requests, jobFaults

deletionVars ==
  <<row, deletionWorker, lease, rows, cloud, executed, deletes, index, contents,
    deletionCalls, retries, deletionFaults>>
jobVars ==
  <<indexJob, exists, snapshot, cloudRev, handler, lce, root, rootRev, requests, jobFaults>>

Deletions == INSTANCE RootDeletion WITH
  Attempt <- DeletionAttempt, MaxAttempts <- DeletionAttempts, MaxFaults <- DeletionFaults,
  worker <- deletionWorker, relay <- rows, late <- deletes, calls <- deletionCalls,
  faults <- deletionFaults

Publication == INSTANCE IndexJob WITH
  NoJob <- NoIndexJob, MaxFaults <- JobFaults, CleanupOutlivesLease <- FALSE,
  job <- indexJob, late <- requests, faults <- jobFaults

SettlingInit ==
  /\ kind \in {"deletion", "config", "publication"}
  /\ Init /\ Deletions!Init /\ Publication!Init
  /\ kind # "publication" => root = Publication!NoFiles

DeletionKind == kind = "deletion" /\ Deletions!Next /\ UNCHANGED <<vars, jobVars, kind>>
ConfigKind == kind = "config" /\ Next /\ UNCHANGED <<deletionVars, jobVars, kind>>
PublicationKind ==
  kind = "publication" /\ Publication!Next /\ UNCHANGED <<vars, deletionVars, kind>>

SettlingSpec ==
  /\ SettlingInit
  /\ [][DeletionKind \/ ConfigKind \/ PublicationKind]_<<vars, deletionVars, jobVars, kind>>
  /\ Fairness /\ Deletions!Fairness /\ Publication!Fairness

\* A deletion ends or is reported as failed: RootDeletion's DeletionSettles.
DeletionSettles == Deletions!DeletionSettles

\* A publication LCE knows of ends: IndexJob's PublicationSettles.
PublicationSettles == Publication!PublicationSettles
=============================================================================
