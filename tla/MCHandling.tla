----------------------------- MODULE MCHandling -----------------------------
(***************************************************************************)
(* What the relay does for a request it has admitted: it calls LCE over    *)
(* the session its requests share, and keeps the request's log. The two    *)
(* share no state, so each behaviour of this instance follows one of them; *)
(* side says which. The other stays in its initial state, where its        *)
(* fairness asks for nothing.                                              *)
(***************************************************************************)
EXTENDS McpClient, RequestLog

VARIABLE side

HandlingInit == side \in {"client", "log"} /\ Init /\ LogInit

ClientSide == side = "client" /\ Next /\ UNCHANGED <<logVars, side>>
LogSide == side = "log" /\ LogNext /\ UNCHANGED <<vars, side>>

HandlingSpec ==
  /\ HandlingInit
  /\ [][ClientSide \/ LogSide]_<<vars, logVars, side>>
  /\ Fairness /\ LogFairness
=============================================================================
