---------------------------- MODULE MCIndexLeases ----------------------------
(* Small instances of IndexLeases: one tenant, one job and a "*" resource. *)
EXTENDS IndexLeases, TLC

CONSTANTS tenant, job, star, up1, up2, complete, worker

\* The operation attempts an instance may hold; a configuration takes a subset.
MCTenant == [o \in Op |-> tenant]

MCResource == [o \in Op |-> IF o = worker THEN star ELSE job]

MCKind == [o \in Op |-> CASE o \in {up1, up2} -> "upload-batch"
                          [] o = worker -> "delete-root-job"
                          [] OTHER -> "other"]

UploadSymmetry == Permutations({up1, up2} \cap Op)
=============================================================================
