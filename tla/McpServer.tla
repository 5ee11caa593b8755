------------------------------- MODULE McpServer -------------------------------
(***************************************************************************)
(* The MCP sessions of one relay process and their event streams (main.go, *)
(* server_lifecycle.go). serverSessions and mcpSSEStreams are two maps     *)
(* with two locks: a session's end and the end of its stream are separate  *)
(* steps, and a GET that found its session alive registers its stream      *)
(* later. The stream of a GET handler is named by the handler.             *)
(***************************************************************************)
EXTENDS Naturals, FiniteSets

CONSTANTS
  User,
  Get,             \* GET /mcp handlers, each served once
  Nobody,
  MaxPerUser,      \* mcpMaxSessionsPerUser
  MaxSessions,     \* mcpMaxSessions
  TTL,             \* mcpSessionTTL
  MaxIds,          \* bound on the session ids drawn
  MaxTime          \* bound on the clock

ASSUME McpServerAssumption ==
  /\ Nobody \notin User \cup Get
  /\ MaxPerUser \in Nat \ {0} /\ MaxSessions \in Nat \ {0}
  /\ TTL \in Nat /\ MaxIds \in Nat /\ MaxTime \in Nat

SessionId == 1..MaxIds

VARIABLES
  now,
  session,     \* serverSessions: the user and the last activity of each live id
  ids,         \* ids drawn so far: a uuid is never drawn twice
  stream,      \* mcpSSEStreams
  get,         \* handleMCPGet
  ending,      \* sessions removed whose streams are still to be closed
  closing,     \* streams taken from the map and still to be closed
  server       \* serveUntilCancelled

sessionVars == <<session, ids>>
streamVars == <<stream, ending, closing>>
serverVars == <<now, sessionVars, streamVars, get, server>>

NoSession == [user |-> Nobody, last |-> 0]

\* done: the stream's done channel is closed. The user of an id never changes.
NoGet == [pc |-> "idle", s |-> 0, done |-> FALSE]

\* The maps and the handlers keep their shape.
ServerTypeOK ==
  /\ now \in 0..MaxTime
  /\ session \in [SessionId -> [user : User \cup {Nobody}, last : 0..MaxTime]]
  /\ ids \in 0..MaxIds
  /\ stream \in [SessionId -> Get \cup {Nobody}]
  /\ get \in [Get -> [pc : {"idle", "found", "open", "left", "ended"}, s : 0..MaxIds,
                      done : BOOLEAN]]
  /\ ending \subseteq SessionId /\ closing \subseteq Get
  /\ server \in {"serving", "cancelled", "shutdown"}

ServerInit ==
  /\ now = 0
  /\ session = [s \in SessionId |-> NoSession] /\ ids = 0
  /\ stream = [s \in SessionId |-> Nobody]
  /\ get = [g \in Get |-> NoGet]
  /\ ending = {} /\ closing = {}
  /\ server = "serving"

Live == {s \in SessionId : session[s].user # Nobody}
Of(u) == {s \in Live : session[s].user = u}
Expired(s) == now - session[s].last > TTL

\* Requests reach the handlers until Shutdown closes the listeners.
Accepting == server \in {"serving", "cancelled"}

-----------------------------------------------------------------------------
(* Sessions, under serverSessionsMu *)

\* pruneExpiredMCPSessions
Pruned == {s \in Live : Expired(s)}

\* Variant of Oldest: the comparison of the times is turned round.
Youngest(S, k) ==
  {E \in SUBSET S :
     /\ Cardinality(E) = k
     /\ \A e \in E, s \in S \ E : session[e].last >= session[s].last}

\* The sets evictOldestMCPSession may remove from S, called k times; equal times
\* are ordered by the ids, which are random.
Oldest(S, k) ==
  {E \in SUBSET S :
     /\ Cardinality(E) = k
     /\ \A e \in E, s \in S \ E : session[e].last <= session[s].last}

\* closeMCPSSEStream is still to come for the sessions just removed; it finds
\* nothing where no stream is registered or about to be.
ToClose(S) == {s \in S : stream[s] # Nobody \/ \E g \in Get : get[g].pc = "found" /\ get[g].s = s}

\* Variant of Surplus: one session more than the limit is kept.
SurplusLoose(S, limit) == IF Cardinality(S) > limit THEN Cardinality(S) - limit ELSE 0

\* How often a loop of prepareMCPSessionSlot evicts from S.
Surplus(S, limit) == IF Cardinality(S) >= limit THEN Cardinality(S) - limit + 1 ELSE 0

\* prepareMCPSessionSlot: the sets of sessions it may evict, first the user's own,
\* then, over the global limit, anyone's.
Evictions(u) ==
  LET left == Live \ Pruned
  IN  UNION {{E \cup F : F \in Oldest(left \ E, Surplus(left \ E, MaxSessions))} :
               E \in Oldest(Of(u) \ Pruned, Surplus(Of(u) \ Pruned, MaxPerUser))}

\* handleMCPPost, initialize: a slot is made and taken in one critical section; the
\* streams of the sessions removed are closed after it.
Initialize(u) ==
  /\ Accepting /\ ids < MaxIds
  /\ \E E \in Evictions(u) :
       LET gone == Pruned \cup E
       IN  /\ session' = [s \in SessionId |->
                            IF s = ids + 1 THEN [user |-> u, last |-> now]
                            ELSE IF s \in gone THEN NoSession ELSE session[s]]
           /\ ending' = ending \cup ToClose(gone)
  /\ ids' = ids + 1
  /\ UNCHANGED <<now, stream, closing, get, server>>

\* touchMCPSession by any other POST: the user's own session, expired or not.
Touch(u, s) ==
  /\ Accepting /\ s \in Of(u)
  /\ session' = [session EXCEPT ![s].last = now]
  /\ UNCHANGED <<now, ids, streamVars, get, server>>

\* handleMCPDelete
Delete(u, s) ==
  /\ Accepting /\ s \in Of(u)
  /\ session' = [session EXCEPT ![s] = NoSession]
  /\ ending' = ending \cup ToClose({s})
  /\ UNCHANGED <<now, ids, stream, closing, get, server>>

\* sweepExpiredMCPSessions
Sweep ==
  /\ server = "serving" /\ Pruned # {}
  /\ session' = [s \in SessionId |-> IF s \in Pruned THEN NoSession ELSE session[s]]
  /\ ending' = ending \cup ToClose(Pruned)
  /\ UNCHANGED <<now, ids, stream, closing, get, server>>

-----------------------------------------------------------------------------
(* Streams, under mcpSSEStreamsMu; done is closed after the lock is released *)

\* Variant of CloseStream: a session without a stream closes nil.
CloseStreamUnchecked(s) ==
  /\ s \in ending
  /\ ending' = ending \ {s}
  /\ closing' = closing \cup {stream[s]}
  /\ stream' = [stream EXCEPT ![s] = Nobody]
  /\ UNCHANGED <<now, sessionVars, get, server>>

\* closeMCPSSEStream, once for each session removed.
CloseStream(s) ==
  /\ s \in ending
  /\ ending' = ending \ {s}
  /\ closing' = closing \cup ({stream[s]} \ {Nobody})
  /\ stream' = [stream EXCEPT ![s] = Nobody]
  /\ UNCHANGED <<now, sessionVars, get, server>>

\* mcpSSEStream.close by whoever took the stream from the map.
Close(g) ==
  /\ g \in closing
  /\ closing' = closing \ {g}
  /\ get' = [get EXCEPT ![g].done = TRUE]
  /\ UNCHANGED <<now, sessionVars, stream, ending, server>>

\* handleMCPGet up to the unlock of serverSessionsMu.
GetFinds(g, u, s) ==
  /\ Accepting /\ get[g].pc = "idle"
  /\ s \in Of(u)
  /\ session' = [session EXCEPT ![s].last = now]
  /\ get' = [get EXCEPT ![g] = [pc |-> "found", s |-> s, done |-> FALSE]]
  /\ UNCHANGED <<now, ids, streamVars, server>>

\* registerMCPSSEStream: the new stream replaces the session's previous one.
Register(g) ==
  LET s == get[g].s
  IN  /\ get[g].pc = "found"
      /\ closing' = closing \cup ({stream[s]} \ {Nobody})
      /\ stream' = [stream EXCEPT ![s] = g]
      /\ get' = [get EXCEPT ![g].pc = "open"]
      /\ UNCHANGED <<now, sessionVars, ending, server>>

\* Variant of Valid: the heartbeat only writes its comment.
ValidAlways(g) == TRUE

\* What the heartbeat asks of the session.
Valid(g) == get[g].s \in Live /\ ~Expired(get[g].s)

\* The loop is left: the client is gone or cannot be written to, the stream is
\* closed, or the heartbeat finds the session gone.
Leaves(g) == get' = [get EXCEPT ![g].pc = "left"]

Disconnect(g) ==
  /\ get[g].pc = "open"
  /\ Leaves(g)
  /\ UNCHANGED <<now, sessionVars, streamVars, server>>

Done(g) ==
  /\ get[g].pc = "open" /\ get[g].done
  /\ Leaves(g)
  /\ UNCHANGED <<now, sessionVars, streamVars, server>>

Heartbeat(g) ==
  /\ get[g].pc = "open" /\ ~Valid(g)
  /\ Leaves(g)
  /\ UNCHANGED <<now, sessionVars, streamVars, server>>

\* Variant of Unregistered: whatever stream the session has is removed.
UnregisteredAny(g) == [stream EXCEPT ![get[g].s] = Nobody]

\* unregisterMCPSSEStream: the streams after it.
Unregistered(g) ==
  IF stream[get[g].s] = g THEN [stream EXCEPT ![get[g].s] = Nobody] ELSE stream

\* The deferred function of handleMCPGet.
Unregister(g) ==
  /\ get[g].pc = "left"
  /\ stream' = Unregistered(g)
  /\ get' = [get EXCEPT ![g] = [pc |-> "ended", s |-> 0, done |-> TRUE]]
  /\ UNCHANGED <<now, sessionVars, ending, closing, server>>

-----------------------------------------------------------------------------
(* serveUntilCancelled and the clock *)

\* The streams registered now are closed; the listener still accepts.
Cancel ==
  /\ server = "serving" /\ server' = "cancelled"
  /\ stream' = [s \in SessionId |-> Nobody]
  /\ get' = [g \in Get |-> IF \E s \in SessionId : stream[s] = g
                           THEN [get[g] EXCEPT !.done = TRUE] ELSE get[g]]
  /\ UNCHANGED <<now, sessionVars, ending, closing>>

\* server.Shutdown closes the listeners and waits for the handlers; at its deadline
\* server.Close cuts their connections.
Shutdown ==
  /\ server = "cancelled" /\ server' = "shutdown"
  /\ UNCHANGED <<now, sessionVars, streamVars, get>>

\* The request's context ends with its connection.
Cut(g) == server = "shutdown" /\ Disconnect(g)

Tick ==
  /\ now < MaxTime /\ now' = now + 1
  /\ UNCHANGED <<sessionVars, streamVars, get, server>>

-----------------------------------------------------------------------------
GetStep(g) == Register(g) \/ Done(g) \/ Heartbeat(g) \/ Cut(g) \/ Unregister(g)

ServerNext ==
  \/ \E u \in User : Initialize(u) \/ \E s \in SessionId : Touch(u, s) \/ Delete(u, s)
  \/ \E g \in Get, u \in User, s \in SessionId : GetFinds(g, u, s)
  \/ \E g \in Get : GetStep(g) \/ Disconnect(g) \/ Close(g)
  \/ \E s \in SessionId : CloseStream(s)
  \/ Sweep \/ Cancel \/ Shutdown \/ Tick

ServerSpec == ServerInit /\ [][ServerNext]_serverVars

\* A handler runs, its ticker fires, and whoever removed a session or took a
\* stream from the map goes on to close it. Clients owe nothing.
ServerFairness ==
  /\ \A g \in Get : WF_serverVars(GetStep(g)) /\ WF_serverVars(Close(g))
  /\ \A s \in SessionId : WF_serverVars(CloseStream(s))

ServerFairSpec == ServerSpec /\ ServerFairness

-----------------------------------------------------------------------------
(* Properties *)

\* prepareMCPSessionSlot: neither limit is ever exceeded, however many sessions
\* expire, are evicted, deleted or revived by a touch in between.
SessionsWithinLimits ==
  /\ Cardinality(Live) <= MaxSessions
  /\ \A u \in User : Cardinality(Of(u)) <= MaxPerUser

Kept == {s \in Live : session'[s].user # Nobody}
Evicted == {s \in Live \ Kept : ~Expired(s)}
OldestOf(e, S) == \A s \in S : session[e].last <= session[s].last

\* Why an initialize of u may evict e.
Justified(u, e) ==
  \/ /\ session[e].user = u /\ Cardinality(Kept \cap Of(u)) = MaxPerUser - 1
     /\ OldestOf(e, Kept \cap Of(u))
  \/ Cardinality(Kept) = MaxSessions - 1 /\ OldestOf(e, Kept)

\* An initialize evicts an unexpired session only to make room for its own: expired
\* sessions went first, either the user had no slot left and loses its own oldest
\* session, or the relay had none left and the oldest of all goes, and one slot is
\* freed, not more (prepareMCPSessionSlot).
EvictionsJustified ==
  [][ids' # ids => /\ \A s \in Kept : ~Expired(s)
                   /\ \A e \in Evicted : Justified(session'[ids'].user, e)]_serverVars

\* registerMCPSSEStream keeps one stream per session, and it can be reached: a stream
\* whose handler still waits on it is the one in the map, or someone is about to
\* close it. No replacement or late unregistration leaves a stream that neither an
\* event nor the end of its session finds.
OpenStreamsRegistered ==
  \A g \in Get : get[g].pc = "open" /\ ~get[g].done =>
                   stream[get[g].s] = g \/ g \in closing

\* A stream ends once its session is gone, even when it was registered after the
\* session's end had closed the session's stream (the heartbeat of handleMCPGet),
\* and once the server shuts down.
StreamsEnd ==
  \A g \in Get :
    get[g].pc = "open" /\ (get[g].s \notin Live \/ server = "shutdown") ~> get[g].pc = "ended"
=============================================================================
