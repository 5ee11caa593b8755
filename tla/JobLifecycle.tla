----------------------------- MODULE JobLifecycle -----------------------------
(***************************************************************************)
(* What the relay promises about the index jobs of one workspace, without  *)
(* handlers, leases, requests or time: at most one job runs; it is either  *)
(* the client's, and may fail or time out, or it has been handed over to   *)
(* the cloud, and then only completes or fails; an ended job stays ended.  *)
(* IndexJob implements this specification.                                 *)
(***************************************************************************)
CONSTANT Job

VARIABLE state

LifecycleTypeOK ==
  state \in [Job -> {"none", "running", "publishing",
                     "completed", "failed", "timed_out"}]

Active(j) == state[j] \in {"running", "publishing"}

Init == state = [j \in Job |-> "none"]

\* A start creates a job when none is active.
Begin(j) ==
  /\ state[j] = "none"
  /\ \A i \in Job : ~Active(i)
  /\ state' = [state EXCEPT ![j] = "running"]

\* The client's job fails, or its heartbeat expires.
GiveUp(j) ==
  /\ state[j] = "running"
  /\ \E s \in {"failed", "timed_out"} : state' = [state EXCEPT ![j] = s]

HandOver(j) ==
  /\ state[j] = "running"
  /\ state' = [state EXCEPT ![j] = "publishing"]

\* The cloud's verdict on a publication.
Settle(j) ==
  /\ state[j] = "publishing"
  /\ \E s \in {"completed", "failed"} : state' = [state EXCEPT ![j] = s]

Next == \E j \in Job : Begin(j) \/ GiveUp(j) \/ HandOver(j) \/ Settle(j)

Spec == Init /\ [][Next]_state
=============================================================================
