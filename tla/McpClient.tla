------------------------------ MODULE McpClient ------------------------------
(***************************************************************************)
(* The relay's MCP client of LCE (mcpClient, main.go).                      *)
(*                                                                         *)
(* All requests of a relay share one session.  A call reads it, or creates  *)
(* one under the write lock, which it keeps for two network calls; a call   *)
(* LCE answers with 404 drops whatever session is current by then, returns  *)
(* it to LCE in the background, and is tried once more with another one;    *)
(* a listing of the tools drops the session the same way and fails.         *)
(*                                                                         *)
(* LCE is external: it keeps a bounded number of sessions, expires them,    *)
(* and forgets them when it restarts.                                       *)
(***************************************************************************)
EXTENDS Naturals, FiniteSets

CONSTANTS
    Caller,     \* goroutines that call a tool of LCE
    Session,    \* the session ids LCE may hand out
    None,       \* no session, no holder of the lock
    MaxCalls,   \* how many tool calls are made
    MaxFaults   \* how many requests or replies are lost, or sessions expired

ASSUME ClientAssumption ==
    /\ None \notin Session \cup Caller
    /\ MaxCalls \in Nat
    /\ MaxFaults \in Nat

VARIABLES
    sessionID,  \* the client's current session
    lock,       \* who holds the write lock across network calls
    pc,         \* pc[c]: where a call is
    sid,        \* sid[c]: the session a call uses or is creating
    try,        \* try[c]: the first or second try of a tool call, or a listing
    live,       \* LCE: the sessions that exist
    given,      \* LCE: the sessions that ever existed
    deleting,   \* sessions a background deleteRemoteSession returns
    lost,       \* history: sessions whose id or whose deletion was lost on the way
    calls,      \* tool calls so far
    faults      \* faults so far

vars == <<sessionID, lock, pc, sid, try, live, given, deleting, lost, calls, faults>>
lce == <<live, given, lost>>

\* Every variable has its type, and only a call that creates a session holds
\* the lock between steps.
TypeOK ==
    /\ sessionID \in Session \cup {None}
    /\ lock \in Caller \cup {None}
    /\ pc \in [Caller -> {"idle", "ensure", "lock", "initialize", "notify", "call", "expired"}]
    /\ sid \in [Caller -> Session \cup {None}]
    /\ try \in [Caller -> {"first", "second", "list"}]
    /\ live \subseteq given
    /\ given \subseteq Session
    /\ deleting \subseteq given
    /\ lost \subseteq given
    /\ calls \in 0 .. MaxCalls
    /\ faults \in 0 .. MaxFaults
    /\ \A c \in Caller : lock = c <=> pc[c] \in {"initialize", "notify"}

Init ==
    /\ sessionID = None
    /\ lock = None
    /\ pc = [c \in Caller |-> "idle"]
    /\ sid = [c \in Caller |-> None]
    /\ try = [c \in Caller |-> "first"]
    /\ live = {}
    /\ given = {}
    /\ deleting = {}
    /\ lost = {}
    /\ calls = 0
    /\ faults = 0

-----------------------------------------------------------------------------
(* Steps of a call *)

Go(c, l) == pc' = [pc EXCEPT ![c] = l]
Fault == faults < MaxFaults /\ faults' = faults + 1

\* The call ends, with a result or with an error.
Return(c) ==
    /\ Go(c, "idle")
    /\ sid' = [sid EXCEPT ![c] = None]
    /\ try' = [try EXCEPT ![c] = "first"]

\* callToolWithTimeout, or toolsList or fetchToolsList, is entered.
Begin(c) ==
    /\ pc[c] = "idle"
    /\ calls < MaxCalls
    /\ calls' = calls + 1
    /\ Go(c, "ensure")
    /\ \E t \in {"first", "list"} : try' = [try EXCEPT ![c] = t]
    /\ UNCHANGED <<sessionID, lock, sid, lce, deleting, faults>>

\* ensureSession: the current session under the read lock, or a new one.
EnsureSession(c) ==
    /\ pc[c] = "ensure"
    /\ lock = None
    /\ sid' = [sid EXCEPT ![c] = sessionID]
    /\ Go(c, IF sessionID # None THEN "call" ELSE "lock")
    /\ UNCHANGED <<sessionID, lock, try, lce, deleting, calls, faults>>

\* A session created although another call has just created one.
InitLockAlways(c) ==
    /\ pc[c] = "lock"
    /\ lock = None
    /\ sid' = [sid EXCEPT ![c] = None]
    /\ Go(c, "initialize") /\ lock' = c
    /\ UNCHANGED <<sessionID, try, lce, deleting, calls, faults>>

\* initSession takes the write lock.  If another call created a session
\* meanwhile that one is used.
InitLock(c) ==
    /\ pc[c] = "lock"
    /\ lock = None
    /\ sid' = [sid EXCEPT ![c] = sessionID]
    /\ IF sessionID # None
       THEN Go(c, "call") /\ UNCHANGED lock
       ELSE Go(c, "initialize") /\ lock' = c
    /\ UNCHANGED <<sessionID, try, lce, deleting, calls, faults>>

\* LCE creates a session and the client learns its id.
InitializeAnswered(c) ==
    /\ pc[c] = "initialize"
    /\ \E s \in Session \ given :
          /\ live' = live \cup {s}
          /\ given' = given \cup {s}
          /\ sid' = [sid EXCEPT ![c] = s]
    /\ Go(c, "notify")
    /\ UNCHANGED <<sessionID, lock, try, deleting, lost, calls, faults>>

\* LCE refuses, being full, and the call fails.
InitializeRefused(c) ==
    /\ pc[c] = "initialize"
    /\ Session = given
    /\ lock' = None
    /\ Return(c)
    /\ UNCHANGED <<sessionID, lce, deleting, calls, faults>>

\* The request or its answer is lost, or ten seconds pass, and the call
\* fails.  LCE may have created a session nobody knows.
InitializeLost(c) ==
    /\ pc[c] = "initialize"
    /\ Fault
    /\ \/ UNCHANGED lce
       \/ \E s \in Session \ given :
             /\ live' = live \cup {s}
             /\ given' = given \cup {s}
             /\ lost' = lost \cup {s}
    /\ lock' = None
    /\ Return(c)
    /\ UNCHANGED <<sessionID, deleting, calls>>

\* LCE knows the session and accepts the notification: it becomes current.
NotifyAccepted(c) ==
    /\ pc[c] = "notify"
    /\ sid[c] \in live
    /\ sessionID' = sid[c]
    /\ lock' = None
    /\ Go(c, "call")
    /\ UNCHANGED <<sid, try, lce, deleting, calls, faults>>

\* The notification fails or is refused: the session is returned to LCE in the
\* background and the call fails.
NotifyFailed(c) ==
    /\ pc[c] = "notify"
    /\ \/ sid[c] \notin live /\ UNCHANGED faults
       \/ Fault
    /\ deleting' = deleting \cup {sid[c]}
    /\ lock' = None
    /\ Return(c)
    /\ UNCHANGED <<sessionID, lce, calls>>

\* doCallTool is answered: the result, or any error but 404.
CallAnswered(c) ==
    /\ pc[c] = "call"
    /\ sid[c] \in live
    /\ Return(c)
    /\ UNCHANGED <<sessionID, lock, lce, deleting, calls, faults>>

\* The call or its answer is lost or times out: an error that is not tried again.
CallLost(c) ==
    /\ pc[c] = "call"
    /\ Fault
    /\ Return(c)
    /\ UNCHANGED <<sessionID, lock, lce, deleting, calls>>

\* LCE answers 404: the second try of a tool call fails, a first try and a
\* listing drop the session.
CallNotFound(c) ==
    /\ pc[c] = "call"
    /\ sid[c] \notin live
    /\ IF try[c] = "second"
       THEN Return(c)
       ELSE Go(c, "expired") /\ UNCHANGED <<sid, try>>
    /\ UNCHANGED <<sessionID, lock, lce, deleting, calls, faults>>

\* Variant: the second attempt starts from the session it just dropped.
TryAgainInvalidates(c) ==
    IF try[c] = "list"
    THEN Return(c)
    ELSE /\ try' = [try EXCEPT ![c] = "second"]
         /\ Go(c, "expired")
         /\ UNCHANGED sid

\* A tool call goes on with initSession; a listing ends here.
TryAgain(c) ==
    IF try[c] = "list"
    THEN Return(c)
    ELSE /\ try' = [try EXCEPT ![c] = "second"]
         /\ Go(c, "lock")
         /\ UNCHANGED sid

\* invalidateSession drops the session that is current now, which need not
\* be the one that expired.
InvalidateSession(c) ==
    /\ pc[c] = "expired"
    /\ lock = None
    /\ sessionID' = None
    /\ deleting' = deleting \cup ({sessionID} \ {None})
    /\ TryAgain(c)
    /\ UNCHANGED <<lock, lce, calls, faults>>

-----------------------------------------------------------------------------
(* The background deletions, and LCE *)

\* deleteRemoteSession reaches LCE.
DeleteRemoteSession(s) ==
    /\ s \in deleting
    /\ deleting' = deleting \ {s}
    /\ live' = live \ {s}
    /\ UNCHANGED <<sessionID, lock, pc, sid, try, given, lost, calls, faults>>

\* It fails and only logs.
DeleteRemoteLost(s) ==
    /\ s \in deleting
    /\ Fault
    /\ deleting' = deleting \ {s}
    /\ lost' = lost \cup {s}
    /\ UNCHANGED <<sessionID, lock, pc, sid, try, live, given, calls>>

\* LCE expires a session.
Expire(s) ==
    /\ s \in live
    /\ Fault
    /\ live' = live \ {s}
    /\ UNCHANGED <<sessionID, lock, pc, sid, try, given, deleting, lost, calls>>

CallStep(c) ==
    \/ EnsureSession(c)
    \/ InitLock(c)
    \/ InitializeAnswered(c)
    \/ InitializeRefused(c)
    \/ InitializeLost(c)
    \/ NotifyAccepted(c)
    \/ NotifyFailed(c)
    \/ CallAnswered(c)
    \/ CallLost(c)
    \/ CallNotFound(c)
    \/ InvalidateSession(c)

Next ==
    \/ \E c \in Caller : Begin(c) \/ CallStep(c)
    \/ \E s \in Session : DeleteRemoteSession(s) \/ DeleteRemoteLost(s) \/ Expire(s)

Spec == Init /\ [][Next]_vars

\* Every network call is under a timeout, so each step of a call is taken
\* eventually, and Go's RWMutex hands itself over to waiting goroutines, so a
\* call that is able to lock again and again does lock.
Fairness == \A c \in Caller : SF_vars(CallStep(c))

FairSpec == Spec /\ Fairness

-----------------------------------------------------------------------------
(* Properties *)

\* No session is leaked: each one LCE keeps is current, is on its way to being
\* current or to being returned, or its id or its deletion was lost by the network
\* (the comment of initSession, main.go:395: otherwise every failed retry would leak
\* a session until LCE refuses new ones).
NoSessionLeaked ==
    live \subseteq {sessionID} \cup deleting \cup lost
                    \cup {sid[c] : c \in {d \in Caller : pc[d] = "notify"}}

\* A session that the relay is returning to LCE, or has returned, is never the
\* current one: new calls are not given a session the relay itself ends.
CurrentNotReturned ==
    sessionID # None => sessionID \notin deleting \cup lost

\* Each session at LCE is accounted for, by the callers who share it, queue for it,
\* replace it or return it: none is leaked, and none handed out while it is returned.
SessionsAccounted == NoSessionLeaked /\ CurrentNotReturned

\* Every tool call returns, whoever holds the lock and whatever LCE does.
CallsReturn ==
    \A c \in Caller : pc[c] # "idle" ~> pc[c] = "idle"
=============================================================================
