----------------------------- MODULE MCUploads -----------------------------
(***************************************************************************)
(* What an upload needs before its bytes go to LCE: a lease, among the     *)
(* other operations of the tenant, and room in the quota of its pool. The  *)
(* two share no state, so each behaviour of this instance follows one of   *)
(* them; need says which.                                                  *)
(***************************************************************************)
EXTENDS MCIndexLeases, IndexQuota

CONSTANTS empty, large, first, second

VARIABLE need

\* Sizes that make a limit be met exactly, missed by one and passed by one.
MCBytes == [x \in File \cup Token |-> CASE x = empty -> 0 [] x = first -> 1 [] OTHER -> 2]

UploadsInit ==
  /\ need \in {"lease", "bytes"}
  /\ Init /\ BytesInit
  /\ \A t \in Payer : plan[t].limit > 0
  /\ need # "bytes" => \A t \in Payer : plan[t] = CHOOSE q \in Plan : q.limit > 0

NeedLease == need = "lease" /\ Next /\ UNCHANGED <<bytesVars, need>>
NeedBytes == need = "bytes" /\ BytesNext /\ UNCHANGED <<vars, need>>

UploadsSpec == UploadsInit /\ [][NeedLease \/ NeedBytes]_<<vars, bytesVars, need>>

\* The handlers that charge carry the names of the uploads.
Symmetry == UploadSymmetry \cup Permutations(Payer) \cup Permutations(Pool)
=============================================================================
