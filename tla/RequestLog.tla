------------------------------ MODULE RequestLog ------------------------------
(***************************************************************************)
(* The request log (main.go, server_lifecycle.go): a request's row is      *)
(* inserted as pending and completed by background goroutines of its       *)
(* process, reconciled when it stays pending, and deleted by clear-index.  *)
(* Shutdown drains the goroutines before the database is closed. One user. *)
(***************************************************************************)
EXTENDS Naturals, FiniteSets

CONSTANTS
  Request,      \* requests, each served once
  LogFaults     \* bound on failed writes, crashes and shutdowns

ASSUME RequestLogAssumption == LogFaults \in Nat

VARIABLES
  row,         \* request_logs: "own" is completed by the request's handler,
               \* "stale" by the reconciler with 499
  detail,      \* requests with an error_details row
  at,          \* request_timestamp, as the order of arrival; 0 before it
  settled,     \* history: the rows complete when a request arrived
  old,         \* requests that began more than staleRequestLogAfter ago
  handler,     \* what a request's handler is doing, or its outcome
  insert,      \* the goroutine that inserts the row ("over": insertDone is closed)
  complete,    \* the goroutine that completes it
  clearing,    \* clear-index requests whose deleteUserLogsAsync has not run
  process,     \* the relay process
  sealed,      \* requestLogWrites.closed
  logFaults

goroutines == <<insert, complete, clearing>>
logVars == <<row, detail, at, settled, old, handler, goroutines, process, sealed, logFaults>>

Outcome == {"ok", "error", "clear"}

\* Rows, handlers and goroutines keep their shape (at only orders the arrivals).
LogTypeOK ==
  /\ row \in [Request -> {"none", "pending", "own", "stale", "deleted"}]
  /\ detail \subseteq Request /\ old \subseteq Request /\ clearing \subseteq Request
  /\ settled \in [Request -> SUBSET Request]
  /\ handler \in [Request -> {"idle", "running", "killed"} \cup Outcome]
  /\ insert \in [Request -> {"none", "running", "over"}]
  /\ complete \in [Request -> {"none", "running", "over"}]
  /\ process \in {"serving", "draining", "closed", "stopped"}
  /\ sealed \in BOOLEAN /\ logFaults \in Nat

LogInit ==
  /\ row = [r \in Request |-> "none"]
  /\ detail = {} /\ old = {} /\ clearing = {}
  /\ at = [r \in Request |-> 0] /\ settled = [r \in Request |-> {}]
  /\ handler = [r \in Request |-> "idle"]
  /\ insert = [r \in Request |-> "none"] /\ complete = [r \in Request |-> "none"]
  /\ process = "serving" /\ sealed = FALSE /\ logFaults = 0

LogFault == logFaults < LogFaults /\ logFaults' = logFaults + 1
NoLogFault == UNCHANGED logFaults

Arrived == {r \in Request : handler[r] # "idle"}
Completed(r) == row[r] \in {"own", "stale"}

-----------------------------------------------------------------------------
(* authMiddleware and the handlers *)

\* Variant of Run: a sealed group still starts goroutines.
RunSealed(g) == "running"

\* backgroundWrites.run: what becomes of a goroutine's state.
Run(g) == IF sealed THEN "over" ELSE "running"

\* authMiddleware starts the insertion; a refused one closes insertDone.
Arrive(r) ==
  /\ process = "serving" /\ handler[r] = "idle"
  /\ handler' = [handler EXCEPT ![r] = "running"]
  /\ at' = [at EXCEPT ![r] = Cardinality(Arrived) + 1]
  /\ settled' = [settled EXCEPT ![r] = {q \in Request : Completed(q)}]
  /\ insert' = [insert EXCEPT ![r] = Run(@)]
  /\ UNCHANGED <<row, detail, old, complete, clearing, process, sealed>> /\ NoLogFault

\* The handler answers and completes its row; a successful clear-index first starts
\* the deletion of the logs, outside requestLogWrites.
Answered(r, outcome) ==
  /\ handler[r] = "running"
  /\ handler' = [handler EXCEPT ![r] = outcome]
  /\ complete' = [complete EXCEPT ![r] = Run(@)]
  /\ clearing' = IF outcome = "clear" THEN clearing \cup {r} ELSE clearing
  /\ UNCHANGED <<row, detail, at, settled, old, insert, process, sealed>> /\ NoLogFault

-----------------------------------------------------------------------------
(* The goroutines *)

Insert(r) ==
  /\ insert[r] = "running"
  /\ insert' = [insert EXCEPT ![r] = "over"]
  /\ row' = [row EXCEPT ![r] = "pending"]
  /\ UNCHANGED <<detail, at, settled, old, handler, complete, clearing, process, sealed>> /\ NoLogFault

InsertFails(r) ==
  /\ insert[r] = "running"
  /\ insert' = [insert EXCEPT ![r] = "over"]
  /\ UNCHANGED <<row, detail, at, settled, old, handler, complete, clearing, process, sealed>>
  /\ LogFault

\* Variant of Complete: the detail is written on its own, and may be lost.
CompleteApart(r) ==
  /\ complete[r] = "running" /\ insert[r] = "over"
  /\ complete' = [complete EXCEPT ![r] = "over"]
  /\ row' = IF Completed(r) \/ row[r] = "pending" THEN [row EXCEPT ![r] = "own"] ELSE row
  /\ \/ detail' = IF handler[r] = "error" THEN detail \cup {r} ELSE detail
     \/ UNCHANGED detail
  /\ UNCHANGED <<at, settled, old, handler, insert, clearing, process, sealed>> /\ NoLogFault

\* persistRequestLogCompletion, after insertDone: the row, whatever completed it
\* before, takes the handler's result, with the error's detail in one transaction;
\* without a row nothing is written.
Complete(r) ==
  /\ complete[r] = "running" /\ insert[r] = "over"
  /\ complete' = [complete EXCEPT ![r] = "over"]
  /\ IF Completed(r) \/ row[r] = "pending"
     THEN /\ row' = [row EXCEPT ![r] = "own"]
          /\ detail' = IF handler[r] = "error" THEN detail \cup {r} ELSE detail
     ELSE UNCHANGED <<row, detail>>
  /\ UNCHANGED <<at, settled, old, handler, insert, clearing, process, sealed>> /\ NoLogFault

\* The wait for insertDone times out, or the database fails.
CompleteFails(r) ==
  /\ complete[r] = "running"
  /\ complete' = [complete EXCEPT ![r] = "over"]
  /\ UNCHANGED <<row, detail, at, settled, old, handler, insert, clearing, process, sealed>>
  /\ LogFault

\* deleteCompletedUserLogsBefore, with the start of the clear-index request c; the
\* details go with their rows. It fails once the database is closed.
DeleteLogs(c) ==
  LET gone == {r \in Request : process # "closed" /\ Completed(r) /\ at[r] < at[c]}
  IN  /\ c \in clearing
      /\ clearing' = clearing \ {c}
      /\ row' = [r \in Request |-> IF r \in gone THEN "deleted" ELSE row[r]]
      /\ detail' = detail \ gone
      /\ UNCHANGED <<at, settled, old, handler, insert, complete, process, sealed>> /\ NoLogFault

-----------------------------------------------------------------------------
(* The reconciler and the clock *)

Age(r) ==
  /\ r \in Arrived \ old
  /\ old' = old \cup {r}
  /\ UNCHANGED <<row, detail, at, settled, handler, goroutines, process, sealed>> /\ NoLogFault

\* Variant of Stale: a row is reconciled by its age alone.
StaleByAge(r) == r \in old /\ row[r] \in {"pending", "own"}

\* Variant of Stale: only rows whose process died are reconciled.
StaleOfDeadProcess(r) == r \in old /\ row[r] = "pending" /\ handler[r] = "killed"

Stale(r) == r \in old /\ row[r] = "pending"

\* reconcileStaleRequestLogs, at the start and on a ticker.
Reconcile ==
  /\ process = "serving"
  /\ \E r \in Request : Stale(r)
  /\ row' = [r \in Request |-> IF Stale(r) THEN "stale" ELSE row[r]]
  /\ UNCHANGED <<detail, at, settled, old, handler, goroutines, process, sealed>> /\ NoLogFault

-----------------------------------------------------------------------------
(* The process *)

\* serveUntilCancelled has returned, with or without the handlers, the workers have
\* ended, and drain seals the group.
Drain ==
  /\ process = "serving"
  /\ process' = "draining" /\ sealed' = TRUE
  /\ UNCHANGED <<row, detail, at, settled, old, handler, goroutines>> /\ LogFault

\* backgroundWrites.active.Wait
Drained == \A r \in Request : insert[r] # "running" /\ complete[r] # "running"

\* drain returns and the database is closed; handlers may still be running.
CloseDatabase ==
  /\ process = "draining" /\ Drained
  /\ process' = "closed"
  /\ UNCHANGED <<row, detail, at, settled, old, handler, goroutines, sealed>> /\ NoLogFault

Ended(g) == IF g = "running" THEN "over" ELSE g

\* The process ends, and its handlers and goroutines with it.
Exit ==
  /\ process # "stopped"
  /\ process' = "stopped"
  /\ handler' = [r \in Request |-> IF handler[r] = "running" THEN "killed" ELSE handler[r]]
  /\ insert' = [r \in Request |-> Ended(insert[r])]
  /\ complete' = [r \in Request |-> Ended(complete[r])]
  /\ clearing' = {}
  /\ UNCHANGED <<row, detail, at, settled, old, sealed>>
  /\ IF process = "closed" THEN NoLogFault ELSE LogFault

Restart ==
  /\ process = "stopped"
  /\ process' = "serving" /\ sealed' = FALSE
  /\ UNCHANGED <<row, detail, at, settled, old, handler, goroutines>> /\ NoLogFault

-----------------------------------------------------------------------------
LogNext ==
  \/ \E r \in Request :
       \/ Arrive(r) \/ \E outcome \in Outcome : Answered(r, outcome)
       \/ Insert(r) \/ InsertFails(r) \/ Complete(r) \/ CompleteFails(r)
       \/ DeleteLogs(r) \/ Age(r)
  \/ Reconcile \/ Drain \/ CloseDatabase \/ Exit \/ Restart

LogSpec == LogInit /\ [][LogNext]_logVars

\* Goroutines end by their timeouts, the reconciler runs on its ticker, time passes,
\* and a stopped relay is started again. Handlers owe nothing.
LogFairness ==
  /\ \A r \in Request : WF_logVars(Insert(r)) /\ WF_logVars(Complete(r)) /\ WF_logVars(Age(r))
  /\ WF_logVars(Reconcile) /\ WF_logVars(CloseDatabase)
  /\ WF_logVars(process = "closed" /\ Exit) /\ WF_logVars(Restart)

LogFairSpec == LogSpec /\ LogFairness

-----------------------------------------------------------------------------
(* Properties *)

\* persistRequestLogCompletion: "Error details and completion are one state
\* transition". The details are those of the rows whose handlers failed and
\* completed them: none is lost, none outlives its row or precedes its completion.
DetailWithCompletion ==
  detail = {r \in Request : row[r] = "own" /\ handler[r] = "error"}

\* What the handler reported stays: once a row has its handler's result no
\* reconciliation, restart or late insertion replaces it, though the handler's result
\* replaces the reconciler's (the UPDATE of persistRequestLogCompletion).
ResultStays ==
  [][\A r \in Request : row[r] = "own" => row'[r] \in {"own", "deleted"}]_logVars

\* server_lifecycle.go: "Seal admission before waiting so a late handler cannot race
\* WaitGroup.Add". Once drain has returned and the database is closed no goroutine
\* writes to the log any more, though handlers may still return.
NoWriteAfterDrain ==
  process = "closed" => \A r \in Request : insert[r] # "running" /\ complete[r] # "running"

\* "A process restart or a database outage can otherwise leave that marker forever"
\* (reconcileStaleRequestLogs): no row stays pending.
RowsSettle == \A r \in Request : row[r] = "pending" ~> row[r] # "pending"

\* handleClearIndex: "仅删除本次清理开始前已完成的日志；当前清理审计和并发中的请求保留"
\* (only logs completed before the clear began are deleted; requests running at the
\* same time are kept): a deleted row was complete when some request arrived.
ClearKeepsConcurrent ==
  \A r \in Request : row[r] = "deleted" => \E c \in Request : r \in settled[c]
=============================================================================
