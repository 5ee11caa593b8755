---------------------------- MODULE Handling_proofs ----------------------------
(***************************************************************************)
(* Proofs about what the relay does for an admitted request: its MCP       *)
(* client, for any number of callers, sessions, calls and faults, its log, *)
(* for any set of requests and any number of failed writes, crashes and    *)
(* shutdowns, and its MCP server, for any number of users, sessions and    *)
(* streams and any limits.                                                 *)
(***************************************************************************)
EXTENDS McpClient, RequestLog, McpServer, FiniteSetTheorems, TLAPS

\* Zenon proves what a step does not ask SMT for.
USE Zenon

-----------------------------------------------------------------------------
(* The shared session of the client *)

\* Whoever creates a session found none, and nobody makes one current meanwhile; the
\* session being created is known to LCE and to nobody else.
Creation ==
  /\ sessionID \in given \cup {None}
  /\ lock # None => sessionID = None
  /\ \A c \in Caller : pc[c] = "notify" => sid[c] \in given \ (deleting \cup lost)

IInv == TypeOK /\ Creation /\ NoSessionLeaked /\ CurrentNotReturned

\* Returning from a call leaves the frames of the other calls alone.
LEMMA ReturnTypes ==
  ASSUME TypeOK, NEW c \in Caller, Return(c)
  PROVE  /\ pc' \in [Caller -> {"idle", "ensure", "lock", "initialize", "notify", "call", "expired"}]
         /\ sid' \in [Caller -> Session \cup {None}]
         /\ try' \in [Caller -> {"first", "second", "list"}]
         /\ pc'[c] = "idle"
         /\ \A d \in Caller \ {c} : pc'[d] = pc[d] /\ sid'[d] = sid[d]
BY DEF TypeOK, Return, Go

\* The client begins with no session, no lock and no calls.
LEMMA InitIInv == Init => IInv
BY ClientAssumption, SMT DEF Init, IInv, TypeOK, Creation, NoSessionLeaked, CurrentNotReturned

\* The steps before the network: entering, reading the session, taking the lock.
LEMMA LocalStep ==
  ASSUME IInv, NEW c \in Caller, Begin(c) \/ EnsureSession(c) \/ InitLock(c)
  PROVE  IInv'
<1> USE ClientAssumption DEF IInv, TypeOK, Creation, NoSessionLeaked, CurrentNotReturned, Go, lce
<1>1. CASE Begin(c) BY <1>1, SMT DEF Begin
<1>2. CASE EnsureSession(c) BY <1>2, SMT DEF EnsureSession
<1>3. CASE InitLock(c) BY <1>3, SMT DEF InitLock
<1> QED BY <1>1, <1>2, <1>3

\* The steps under the lock.
LEMMA CreateStep ==
  ASSUME IInv, NEW c \in Caller,
         \/ InitializeAnswered(c) \/ InitializeRefused(c) \/ InitializeLost(c)
         \/ NotifyAccepted(c) \/ NotifyFailed(c)
  PROVE  IInv'
<1> USE ClientAssumption DEF IInv, TypeOK, Creation, NoSessionLeaked, CurrentNotReturned, Go, lce
<1>1. CASE InitializeAnswered(c) BY <1>1, SMT DEF InitializeAnswered
<1>2. CASE InitializeRefused(c) BY <1>2, ReturnTypes, SMT DEF InitializeRefused
<1>3. CASE InitializeLost(c) BY <1>3, ReturnTypes, SMT DEF InitializeLost, Fault
<1>4. CASE NotifyAccepted(c) BY <1>4, SMT DEF NotifyAccepted
<1>5. CASE NotifyFailed(c) BY <1>5, ReturnTypes, SMT DEF NotifyFailed, Fault
<1> QED BY <1>1, <1>2, <1>3, <1>4, <1>5

\* The steps of doCallTool, and the invalidation after a 404.
LEMMA ToolStep ==
  ASSUME IInv, NEW c \in Caller,
         CallAnswered(c) \/ CallLost(c) \/ CallNotFound(c) \/ InvalidateSession(c)
  PROVE  IInv'
<1> USE ClientAssumption DEF IInv, TypeOK, Creation, NoSessionLeaked, CurrentNotReturned, Go, lce
<1>1. CASE CallAnswered(c) BY <1>1, ReturnTypes, SMT DEF CallAnswered
<1>2. CASE CallLost(c) BY <1>2, ReturnTypes, SMT DEF CallLost, Fault
<1>3. CASE CallNotFound(c) BY <1>3, ReturnTypes, SMT DEF CallNotFound
<1>4. CASE InvalidateSession(c) BY <1>4, ReturnTypes, SMT DEF InvalidateSession, TryAgain
<1> QED BY <1>1, <1>2, <1>3, <1>4

\* LCE and the background deletions.
LEMMA SessionStep ==
  ASSUME IInv, NEW s \in Session, DeleteRemoteSession(s) \/ DeleteRemoteLost(s) \/ Expire(s)
  PROVE  IInv'
<1> USE ClientAssumption DEF IInv, TypeOK, Creation, NoSessionLeaked, CurrentNotReturned
<1>1. CASE DeleteRemoteSession(s) BY <1>1, SMT DEF DeleteRemoteSession
<1>2. CASE DeleteRemoteLost(s) BY <1>2, SMT DEF DeleteRemoteLost, Fault
<1>3. CASE Expire(s) BY <1>3, SMT DEF Expire, Fault
<1> QED BY <1>1, <1>2, <1>3

\* The invariant is inductive.
THEOREM ClientInvariant == Spec => []IInv
<1>1. IInv /\ [Next]_vars => IInv'
  <2> SUFFICES ASSUME IInv, [Next]_vars PROVE IInv'
      OBVIOUS
  <2>1. ASSUME NEW c \in Caller, Begin(c) \/ CallStep(c) PROVE IInv'
        BY <2>1, LocalStep, CreateStep, ToolStep DEF CallStep
  <2>2. ASSUME NEW s \in Session, DeleteRemoteSession(s) \/ DeleteRemoteLost(s) \/ Expire(s)
        PROVE  IInv'
        BY <2>2, SessionStep
  <2>3. CASE UNCHANGED vars
        BY <2>3, SMT DEF vars, IInv, TypeOK, Creation, NoSessionLeaked, CurrentNotReturned
  <2> QED BY <2>1, <2>2, <2>3 DEF Next
<1> QED BY InitIInv, <1>1, PTL DEF Spec

\* No session of LCE's is leaked but by the network, however calls queue for the lock
\* and sessions expire, and no call is given a session the relay is returning to LCE
\* (ensureSession against invalidateSession and the failed notification of initSession).
THEOREM SessionsAreAccounted == Spec => []SessionsAccounted
<1>1. IInv => SessionsAccounted BY DEF IInv, SessionsAccounted
<1> QED BY <1>1, ClientInvariant, PTL

-----------------------------------------------------------------------------
(* The request log *)

\* A row appears by its one insertion, and is completed by its handler after the
\* handler has its outcome, which never changes again.
Writing ==
  \A r \in Request :
    /\ handler[r] = "idle" => row[r] = "none"
    /\ insert[r] = "running" => row[r] = "none" /\ handler[r] # "idle"
    /\ complete[r] = "running" => handler[r] \in Outcome
    /\ row[r] = "own" => handler[r] \in Outcome

\* The group is sealed before it is waited for.
Sealing == process \in {"draining", "closed"} => sealed

LogInv == LogTypeOK /\ Writing /\ DetailWithCompletion /\ Sealing /\ NoWriteAfterDrain

\* The log begins empty, with the process serving.
LEMMA LogInitInv == LogInit => LogInv
<1>1. ASSUME LogInit PROVE LogTypeOK
  <2>1. settled \in [Request -> SUBSET Request] BY <1>1 DEF LogInit
  <2>2. detail \subseteq Request /\ old \subseteq Request /\ clearing \subseteq Request
        BY <1>1 DEF LogInit
  <2>3. sealed \in BOOLEAN /\ logFaults \in Nat BY <1>1 DEF LogInit
  <2> QED BY <1>1, <2>1, <2>2, <2>3 DEF LogInit, LogTypeOK, Outcome
<1>2. LogInit => Writing /\ DetailWithCompletion
      BY DEF LogInit, Writing, DetailWithCompletion, Outcome
<1>3. LogInit => Sealing /\ NoWriteAfterDrain BY DEF LogInit, Sealing, NoWriteAfterDrain
<1> QED BY <1>1, <1>2, <1>3 DEF LogInv

\* authMiddleware and the handler's answer start goroutines.
LEMMA HandlerStep ==
  ASSUME LogInv, NEW r \in Request, Arrive(r) \/ \E outcome \in Outcome : Answered(r, outcome)
  PROVE  LogInv'
<1> USE DEF LogInv, LogTypeOK, Writing, DetailWithCompletion, Sealing, NoWriteAfterDrain, Outcome,
            LogFault, NoLogFault, Run
<1>1. CASE Arrive(r) BY <1>1 DEF Arrive
<1>2. ASSUME NEW outcome \in Outcome, Answered(r, outcome) PROVE LogInv'
      BY <1>2, SMT DEF Answered
<1> QED BY <1>1, <1>2

\* The goroutines that insert, complete and delete rows.
LEMMA WriteStep ==
  ASSUME LogInv, NEW r \in Request,
         \/ Insert(r) \/ InsertFails(r) \/ Complete(r) \/ CompleteFails(r)
         \/ DeleteLogs(r) \/ Age(r)
  PROVE  LogInv'
<1> USE DEF LogInv, LogTypeOK, Writing, DetailWithCompletion, Sealing, NoWriteAfterDrain, Outcome,
            LogFault, NoLogFault
<1>1. CASE Insert(r) BY <1>1 DEF Insert
<1>2. CASE InsertFails(r) BY <1>2, SMT DEF InsertFails
<1>3. CASE Complete(r) BY <1>3, SMT DEF Complete, Completed
<1>4. CASE CompleteFails(r) BY <1>4, SMT DEF CompleteFails
<1>5. CASE DeleteLogs(r) BY <1>5 DEF DeleteLogs, Completed
<1>6. CASE Age(r) BY <1>6 DEF Age, goroutines
<1> QED BY <1>1, <1>2, <1>3, <1>4, <1>5, <1>6

\* The reconciler, and the life of the process.
LEMMA ProcessStep ==
  ASSUME LogInv, Reconcile \/ Drain \/ CloseDatabase \/ Exit \/ Restart
  PROVE  LogInv'
<1> USE DEF LogInv, LogTypeOK, Writing, DetailWithCompletion, Sealing, NoWriteAfterDrain, Outcome,
            LogFault, NoLogFault, goroutines
<1>1. CASE Reconcile BY <1>1 DEF Reconcile, Stale
<1>2. CASE Drain BY <1>2, SMT DEF Drain
<1>3. CASE CloseDatabase BY <1>3 DEF CloseDatabase, Drained
<1>4. CASE Exit BY <1>4, SMT DEF Exit, Ended
<1>5. CASE Restart BY <1>5 DEF Restart
<1> QED BY <1>1, <1>2, <1>3, <1>4, <1>5

\* The invariant is inductive.
THEOREM LogInvariant == LogSpec => []LogInv
<1>1. LogInv /\ [LogNext]_logVars => LogInv'
  <2> SUFFICES ASSUME LogInv, [LogNext]_logVars PROVE LogInv'
      OBVIOUS
  <2>1. CASE LogNext BY <2>1, HandlerStep, WriteStep, ProcessStep DEF LogNext
  <2>2. CASE UNCHANGED logVars
        BY <2>2 DEF logVars, goroutines, LogInv, LogTypeOK, Writing, DetailWithCompletion, Sealing,
                    NoWriteAfterDrain
  <2> QED BY <2>1, <2>2
<1> QED BY LogInitInv, <1>1, PTL DEF LogSpec

\* An error's details come and go with the completion of its row: none is lost and
\* none outlives the row, whatever is written late, reconciled, cleared or cut off
\* (persistRequestLogCompletion).
THEOREM DetailsWithCompletion == LogSpec => []DetailWithCompletion
BY LogInvariant, PTL DEF LogInv

\* When the database is closed no goroutine of the group writes, although handlers
\* may still answer (backgroundWrites.run and drain).
THEOREM DrainHolds == LogSpec => []NoWriteAfterDrain
BY LogInvariant, PTL DEF LogInv

\* A handler's result is never replaced, by its own late insertion or by the
\* reconciler (reconcileStaleRequestLogs).
THEOREM ResultsStay == LogSpec => ResultStays
<1>1. LogInv /\ [LogNext]_logVars =>
        [\A r \in Request : row[r] = "own" => row'[r] \in {"own", "deleted"}]_logVars
  <2> SUFFICES ASSUME LogInv, LogNext, NEW r \in Request, row[r] = "own"
               PROVE  row'[r] \in {"own", "deleted"}
      OBVIOUS
  <2> USE DEF LogInv, LogTypeOK, Writing
  <2>1. ASSUME NEW q \in Request, Insert(q) PROVE row'[r] \in {"own", "deleted"}
        BY <2>1 DEF Insert
  <2>2. ASSUME NEW q \in Request, Complete(q) PROVE row'[r] \in {"own", "deleted"}
        BY <2>2 DEF Complete
  <2>3. ASSUME NEW q \in Request, DeleteLogs(q) PROVE row'[r] \in {"own", "deleted"}
        BY <2>3 DEF DeleteLogs
  <2>4. CASE Reconcile BY <2>4 DEF Reconcile, Stale
  <2>5. CASE UNCHANGED row BY <2>5
  <2> QED BY <2>1, <2>2, <2>3, <2>4, <2>5
        DEF LogNext, Arrive, Answered, InsertFails, CompleteFails, Age, Drain, CloseDatabase,
            Exit, Restart
<1> QED BY LogInvariant, <1>1, PTL DEF LogSpec, ResultStays

-----------------------------------------------------------------------------
(* The sessions and streams of the server *)

\* Ids not drawn yet have no session.
Drawn == \A s \in SessionId : s > ids => session[s].user = Nobody

\* A handler past its lookup has a session id, and its stream can be reached.
Serving == \A g \in Get : get[g].pc \in {"found", "open", "left"} => get[g].s \in SessionId

ServerInv == ServerTypeOK /\ Drawn /\ Serving /\ SessionsWithinLimits /\ OpenStreamsRegistered

\* Sets of sessions are finite.
LEMMA FiniteSessions ==
  ASSUME NEW S \in SUBSET SessionId
  PROVE  IsFiniteSet(S) /\ Cardinality(S) \in Nat
<1>1. IsFiniteSet(SessionId) BY FS_Interval, McpServerAssumption, SMT DEF SessionId
<1> QED BY <1>1, FS_Subset, FS_CardinalityType

\* A loop of evictions leaves one slot free below its limit, and takes no more than
\* that needs: it stops at the limit, or evicts nothing.
LEMMA EvictionLoop ==
  ASSUME NEW S \in SUBSET SessionId, NEW limit \in Nat \ {0},
         NEW E \in Oldest(S, Surplus(S, limit))
  PROVE  /\ E \subseteq S
         /\ Cardinality(S \ E) <= limit - 1
         /\ E = {} \/ Cardinality(S \ E) = limit - 1
         /\ \A e \in E, s \in S \ E : session[e].last <= session[s].last
<1>1. /\ E \subseteq S /\ Cardinality(E) = Surplus(S, limit)
      /\ \A e \in E, s \in S \ E : session[e].last <= session[s].last
  BY DEF Oldest
<1>2. IsFiniteSet(S) /\ IsFiniteSet(E) /\ Cardinality(S) \in Nat /\ Cardinality(E) \in Nat
  BY <1>1, FiniteSessions
<1>3. Cardinality(S \ E) = Cardinality(S) - Cardinality(E)
  <2>1. Cardinality(S \ E) = Cardinality(S) - Cardinality(S \cap E) BY <1>2, FS_Difference
  <2>2. S \cap E = E BY <1>1
  <2> QED BY <2>1, <2>2
<1>4. CASE Cardinality(S) >= limit BY <1>1, <1>2, <1>3, <1>4, SMT DEF Surplus
<1>5. CASE ~(Cardinality(S) >= limit)
  <2>1. Cardinality(E) = 0 BY <1>1, <1>5 DEF Surplus
  <2>2. E = {} BY <2>1, <1>2, FS_EmptySet
  <2> QED BY <1>1, <1>2, <1>3, <1>5, <2>1, <2>2, SMT
<1> QED BY <1>4, <1>5

\* What prepareMCPSessionSlot evicts for u: first E of the user's own, then F of all.
LEMMA SlotPrepared ==
  ASSUME NEW u \in User, NEW G \in Evictions(u)
  PROVE  \E E \in SUBSET (Of(u) \ Pruned) :
         \E F \in SUBSET ((Live \ Pruned) \ E) :
           /\ G = E \cup F
           /\ E \in Oldest(Of(u) \ Pruned, Surplus(Of(u) \ Pruned, MaxPerUser))
           /\ F \in Oldest((Live \ Pruned) \ E, Surplus((Live \ Pruned) \ E, MaxSessions))
<1>1. PICK E \in Oldest(Of(u) \ Pruned, Surplus(Of(u) \ Pruned, MaxPerUser)) :
        G \in {E \cup F : F \in Oldest((Live \ Pruned) \ E, Surplus((Live \ Pruned) \ E, MaxSessions))}
  BY DEF Evictions
<1>2. PICK F \in Oldest((Live \ Pruned) \ E, Surplus((Live \ Pruned) \ E, MaxSessions)) : G = E \cup F
  BY <1>1
<1>3. E \in SUBSET (Of(u) \ Pruned) BY DEF Oldest
<1>4. F \in SUBSET ((Live \ Pruned) \ E) BY DEF Oldest
<1> QED BY <1>2, <1>3, <1>4

\* What an initialize of u leaves: within both limits with the new session, and every
\* session evicted had to go.
LEMMA InitializeLeaves ==
  ASSUME ServerTypeOK, NEW u \in User, NEW G \in Evictions(u), NEW keep,
         keep = (Live \ Pruned) \ G
  PROVE  /\ G \subseteq Live \ Pruned
         /\ Cardinality(keep) <= MaxSessions - 1
         /\ Cardinality(keep \cap Of(u)) <= MaxPerUser - 1
         /\ \A e \in G :
              \/ /\ session[e].user = u /\ Cardinality(keep \cap Of(u)) = MaxPerUser - 1
                 /\ OldestOf(e, keep \cap Of(u))
              \/ Cardinality(keep) = MaxSessions - 1 /\ OldestOf(e, keep)
<1> USE McpServerAssumption
<1>1. PICK E \in SUBSET (Of(u) \ Pruned), F \in SUBSET (Live \ Pruned) :
           /\ G = E \cup F
           /\ E \in Oldest(Of(u) \ Pruned, Surplus(Of(u) \ Pruned, MaxPerUser))
           /\ F \in Oldest((Live \ Pruned) \ E, Surplus((Live \ Pruned) \ E, MaxSessions))
  BY SlotPrepared
<1> DEFINE own == Of(u) \ Pruned
           rest == (Live \ Pruned) \ E
<1>2. Of(u) \subseteq Live /\ Live \subseteq SessionId /\ own \in SUBSET SessionId /\ rest \in SUBSET SessionId
  BY DEF Of, Live
<1>3. /\ E \subseteq own /\ Cardinality(own \ E) <= MaxPerUser - 1
      /\ E = {} \/ Cardinality(own \ E) = MaxPerUser - 1
      /\ \A e \in E, s \in own \ E : session[e].last <= session[s].last
  <2>1. own \in SUBSET SessionId /\ MaxPerUser \in Nat \ {0} BY <1>2
  <2>2. E \in Oldest(own, Surplus(own, MaxPerUser)) BY <1>1
  <2> HIDE DEF own
  <2> QED BY ONLY <2>1, <2>2, EvictionLoop
<1>4. /\ F \subseteq rest /\ Cardinality(rest \ F) <= MaxSessions - 1
      /\ F = {} \/ Cardinality(rest \ F) = MaxSessions - 1
      /\ \A e \in F, s \in rest \ F : session[e].last <= session[s].last
  <2>1. rest \in SUBSET SessionId /\ MaxSessions \in Nat \ {0} BY <1>2
  <2>2. F \in Oldest(rest, Surplus(rest, MaxSessions)) BY <1>1
  <2> HIDE DEF rest
  <2> QED BY ONLY <2>1, <2>2, EvictionLoop
<1>5. keep = rest \ F /\ keep \cap Of(u) = (own \ E) \ F /\ G \subseteq Live \ Pruned
  BY <1>1, <1>2
<1>6. Cardinality((own \ E) \ F) <= Cardinality(own \ E) /\ Cardinality((own \ E) \ F) \in Nat
  <2>1. IsFiniteSet(own \ E) BY <1>2, FiniteSessions
  <2>2. (own \ E) \ F \in SUBSET (own \ E) OBVIOUS
  <2> QED BY <2>1, <2>2, FS_Subset, FS_CardinalityType
<1>7. Cardinality(own \ E) \in Nat BY <1>2, FiniteSessions
<1>8. ASSUME NEW e \in F
      PROVE  Cardinality(keep) = MaxSessions - 1 /\ OldestOf(e, keep)
  BY <1>4, <1>5, <1>8 DEF OldestOf
<1>9. ASSUME NEW e \in E
      PROVE  \/ /\ session[e].user = u /\ Cardinality(keep \cap Of(u)) = MaxPerUser - 1
                /\ OldestOf(e, keep \cap Of(u))
             \/ Cardinality(keep) = MaxSessions - 1 /\ OldestOf(e, keep)
  <2>1. session[e].user = u BY <1>9, <1>1 DEF Of
  <2>2. CASE (own \ E) \cap F = {}
    <3>1. keep \cap Of(u) = own \ E BY <2>2, <1>5
    <3> QED BY <2>1, <3>1, <1>3, <1>9 DEF OldestOf
  <2>3. CASE (own \ E) \cap F # {}
    <3>1. PICK f \in (own \ E) \cap F : TRUE BY <2>3
    <3>2. session[e].last <= session[f].last BY <1>3, <1>9
    <3>3. Cardinality(keep) = MaxSessions - 1 /\ OldestOf(f, keep) BY <1>8
    <3>4. \A s \in SessionId : session[s].last \in Nat BY SMT DEF ServerTypeOK
    <3>5. e \in SessionId /\ f \in SessionId /\ keep \subseteq SessionId BY <1>2, <1>3, <1>5, <1>9
    <3> QED BY <3>2, <3>3, <3>4, <3>5, SMT DEF OldestOf
  <2> QED BY <2>2, <2>3
<1> HIDE DEF own, rest
<1>10. Cardinality(keep \cap Of(u)) <= MaxPerUser - 1
  <2>1. MaxPerUser \in Nat OBVIOUS
  <2>2. \A x, y \in Nat : x <= y /\ y <= MaxPerUser - 1 => x <= MaxPerUser - 1 BY <2>1, SMT
  <2>3. Cardinality((own \ E) \ F) <= MaxPerUser - 1 BY <1>3, <1>6, <1>7, <2>2
  <2> QED BY <2>3, <1>5
<1> QED BY <1>1, <1>4, <1>5, <1>8, <1>9, <1>10

\* The relay starts without sessions and streams.
LEMMA ServerInitInv == ServerInit => ServerInv
<1> SUFFICES ASSUME ServerInit PROVE ServerInv
  OBVIOUS
<1> USE McpServerAssumption
<1>1. ServerTypeOK BY SMT DEF ServerInit, ServerTypeOK, NoSession, NoGet
<1>2. Drawn /\ Serving /\ OpenStreamsRegistered
  BY DEF ServerInit, Drawn, Serving, OpenStreamsRegistered, NoSession, NoGet
<1>3. Live = {} /\ \A u \in User : Of(u) = {} BY DEF ServerInit, Live, Of, NoSession
<1>4. SessionsWithinLimits BY <1>3, FS_EmptySet, SMT DEF SessionsWithinLimits
<1> QED BY <1>1, <1>2, <1>4 DEF ServerInv

\* A step that adds no session, and leaves those it keeps to their users, keeps the
\* limits.
LEMMA FewerSessions ==
  ASSUME ServerInv, ids' = ids, session' \in [SessionId -> [user : User \cup {Nobody}, last : 0..MaxTime]],
         \A s \in SessionId : session'[s].user \in {session[s].user, Nobody}
  PROVE  SessionsWithinLimits' /\ Drawn'
<1> USE McpServerAssumption
<1>1. Live \in SUBSET SessionId /\ Live' \in SUBSET Live BY DEF Live
<1>2. \A u \in User : Of(u) \in SUBSET SessionId /\ Of(u)' \in SUBSET Of(u) BY <1>1 DEF Of, Live
<1>3. Cardinality(Live') <= Cardinality(Live) /\ Cardinality(Live) \in Nat /\ Cardinality(Live') \in Nat
  BY <1>1, FiniteSessions, FS_Subset
<1>4. ASSUME NEW u \in User
      PROVE  Cardinality(Of(u)') <= Cardinality(Of(u)) /\ Cardinality(Of(u)) \in Nat /\ Cardinality(Of(u)') \in Nat
  BY <1>2, FiniteSessions, FS_Subset
<1>5. SessionsWithinLimits' BY <1>3, <1>4, SMT DEF ServerInv, SessionsWithinLimits
<1>6. Drawn' BY DEF ServerInv, Drawn
<1> QED BY <1>5, <1>6

\* Initialize: what is left of the sessions, with the new one.
LEMMA InitializeKeeps ==
  ASSUME ServerInv, NEW u \in User, Initialize(u)
  PROVE  /\ \E G \in Evictions(u) : Kept = (Live \ Pruned) \ G
         /\ Live' = Kept \cup {ids + 1} /\ ids + 1 \notin Live
         /\ \A s \in Kept : session'[s] = session[s]
         /\ session'[ids + 1] = [user |-> u, last |-> now]
         /\ session' \in [SessionId -> [user : User \cup {Nobody}, last : 0..MaxTime]]
         /\ ending' \subseteq SessionId
<1> USE McpServerAssumption
<1>1. ServerTypeOK /\ Drawn BY DEF ServerInv
<1>2. PICK G \in Evictions(u) :
        /\ session' = [s \in SessionId |->
                         IF s = ids + 1 THEN [user |-> u, last |-> now]
                         ELSE IF s \in Pruned \cup G THEN NoSession ELSE session[s]]
        /\ ending' = ending \cup ToClose(Pruned \cup G)
  BY DEF Initialize
<1>3. ids + 1 \in SessionId BY <1>1, SMT DEF Initialize, SessionId, ServerTypeOK
<1>4. ids + 1 \notin Live
  <2>1. ids + 1 > ids BY <1>1, SMT DEF ServerTypeOK
  <2> QED BY <1>1, <1>3, <2>1 DEF Drawn, Live
<1>5. G \subseteq Live \ Pruned /\ Pruned \subseteq Live /\ Live \subseteq SessionId
  BY <1>1, InitializeLeaves DEF Pruned, Live
<1>6. [user |-> u, last |-> now] \in [user : User \cup {Nobody}, last : 0..MaxTime]
      /\ NoSession \in [user : User \cup {Nobody}, last : 0..MaxTime] /\ NoSession.user = Nobody
  BY <1>1, SMT DEF ServerTypeOK, NoSession
<1>7. session' \in [SessionId -> [user : User \cup {Nobody}, last : 0..MaxTime]]
  BY <1>1, <1>2, <1>6 DEF ServerTypeOK
<1>8. \A s \in SessionId \ {ids + 1} :
        session'[s] = IF s \in Pruned \cup G THEN NoSession ELSE session[s]
  BY <1>2
<1>9. session'[ids + 1] = [user |-> u, last |-> now] BY <1>2, <1>3
<1>10. Kept = (Live \ Pruned) \ G
  <2>1. \A s \in Live : s \in SessionId \ {ids + 1} /\ session[s].user # Nobody BY <1>4 DEF Live
  <2>2. \A s \in Live : session'[s].user # Nobody <=> s \notin Pruned \cup G BY <2>1, <1>6, <1>8
  <2> QED BY <2>2 DEF Kept
<1>11. Live' = Kept \cup {ids + 1}
  <2>1. \A s \in SessionId \ {ids + 1} : session'[s].user # Nobody <=> s \in Kept
    BY <1>6, <1>8, <1>10 DEF Live
  <2>2. session'[ids + 1].user = u /\ u # Nobody BY <1>9, SMT
  <2>3. ids + 1 \notin Kept /\ Kept \subseteq SessionId BY <1>4, <1>5, <1>10
  <2> QED BY <2>1, <2>2, <2>3, <1>3 DEF Live
<1>12. \A s \in Kept : session'[s] = session[s] BY <1>4, <1>5, <1>8, <1>10
<1>13. ending' \subseteq SessionId BY <1>1, <1>2, <1>5 DEF ToClose, ServerTypeOK
<1> QED BY <1>4, <1>7, <1>9, <1>10, <1>11, <1>12, <1>13

\* Initialize keeps the limits.
LEMMA InitializeStep ==
  ASSUME ServerInv, NEW u \in User, Initialize(u)
  PROVE  ServerInv'
<1> USE McpServerAssumption
<1>1. ServerTypeOK BY DEF ServerInv
<1>2. PICK G \in Evictions(u) : Kept = (Live \ Pruned) \ G BY InitializeKeeps
<1>3. /\ Live' = Kept \cup {ids + 1} /\ ids + 1 \notin Live
      /\ \A s \in Kept : session'[s] = session[s]
      /\ session'[ids + 1] = [user |-> u, last |-> now]
      /\ session' \in [SessionId -> [user : User \cup {Nobody}, last : 0..MaxTime]]
      /\ ending' \subseteq SessionId
  BY InitializeKeeps
<1>4. ids' = ids + 1 /\ ids' \in 0..MaxIds BY <1>1, SMT DEF Initialize, ServerTypeOK
<1>5. ServerTypeOK' BY <1>1, <1>3, <1>4 DEF ServerTypeOK, Initialize
<1>6. Drawn'
  <2>1. ASSUME NEW s \in SessionId, s > ids + 1 PROVE s \notin Live'
    <3>1. s > ids /\ s # ids + 1 BY <2>1, <1>1, SMT DEF ServerTypeOK, SessionId
    <3>2. s \notin Live BY <3>1 DEF ServerInv, Drawn, Live
    <3> QED BY <3>1, <3>2, <1>2, <1>3
  <2> QED BY <2>1, <1>4 DEF Drawn, Live
<1>7. Serving' /\ OpenStreamsRegistered'
  BY DEF ServerInv, Serving, OpenStreamsRegistered, Initialize
<1>8. /\ Cardinality(Kept) <= MaxSessions - 1 /\ Cardinality(Kept \cap Of(u)) <= MaxPerUser - 1
  BY <1>1, <1>2, InitializeLeaves
<1>9. Kept \subseteq Live /\ Live \subseteq SessionId BY DEF Kept, Live
<1>10. Cardinality(Live') <= MaxSessions
  <2>1. Kept \in SUBSET SessionId BY <1>9
  <2>2. IsFiniteSet(Kept) /\ Cardinality(Kept) \in Nat BY <2>1, FiniteSessions
  <2>3. Cardinality(Kept \cup {ids + 1}) = Cardinality(Kept) + 1
    BY <1>3, <1>9, <2>2, FS_AddElement
  <2> QED BY <1>3, <1>8, <2>2, <2>3, SMT
<1>11. ASSUME NEW v \in User PROVE Cardinality(Of(v)') <= MaxPerUser
  <2>1. Kept \cap Of(v) \in SUBSET SessionId /\ Of(v) \in SUBSET SessionId BY <1>9 DEF Of
  <2>2. /\ IsFiniteSet(Kept \cap Of(v)) /\ Cardinality(Kept \cap Of(v)) \in Nat
        /\ IsFiniteSet(Of(v)) /\ Cardinality(Of(v)) \in Nat
    BY <2>1, FiniteSessions
  <2>3. CASE v = u
    <3>1. Of(v)' = (Kept \cap Of(v)) \cup {ids + 1} BY <2>3, <1>3, <1>9, SMT DEF Of
    <3>2. ids + 1 \notin Kept \cap Of(v) BY <1>3, <1>9
    <3>3. Cardinality((Kept \cap Of(v)) \cup {ids + 1}) = Cardinality(Kept \cap Of(v)) + 1
      BY <3>2, <2>2, FS_AddElement
    <3> QED BY <3>1, <3>3, <2>2, <2>3, <1>8, SMT
  <2>4. CASE v # u
    <3>1. Of(v)' \in SUBSET Of(v) BY <2>4, <1>3, <1>9, SMT DEF Of
    <3>2. Cardinality(Of(v)') <= Cardinality(Of(v)) /\ Cardinality(Of(v)') \in Nat
      BY <3>1, <2>2, FS_Subset, FS_CardinalityType
    <3> QED BY <3>2, <2>2, SMT DEF ServerInv, SessionsWithinLimits
  <2> QED BY <2>3, <2>4
<1> QED BY <1>5, <1>6, <1>7, <1>10, <1>11 DEF ServerInv, SessionsWithinLimits

\* A POST, a DELETE or the sweep.
LEMMA FewerStep ==
  ASSUME ServerInv,
         \/ \E u \in User, s \in SessionId : Touch(u, s) \/ Delete(u, s)
         \/ Sweep
  PROVE  ServerInv'
<1> USE McpServerAssumption
<1>1. ServerTypeOK BY DEF ServerInv
<1>2. NoSession \in [user : User \cup {Nobody}, last : 0..MaxTime] /\ NoSession.user = Nobody
  BY SMT DEF NoSession
<1> DEFINE OnlyFewer ==
             /\ session' \in [SessionId -> [user : User \cup {Nobody}, last : 0..MaxTime]]
             /\ \A s \in SessionId : session'[s].user \in {session[s].user, Nobody}
             /\ ending' \subseteq SessionId
             /\ UNCHANGED <<now, ids, stream, closing, get, server>>
<1>3. OnlyFewer
  <2>1. ASSUME NEW u \in User, NEW s \in SessionId, Touch(u, s)
        PROVE OnlyFewer
    BY <2>1, <1>1, SMT DEF ServerTypeOK, Touch, streamVars
  <2>2. ASSUME NEW u \in User, NEW s \in SessionId, Delete(u, s)
        PROVE OnlyFewer
    BY <2>2, <1>1, <1>2 DEF ServerTypeOK, Delete, ToClose
  <2>3. CASE Sweep BY <2>3, <1>1, <1>2 DEF ServerTypeOK, Sweep, ToClose, Pruned, Live
  <2> QED BY <2>1, <2>2, <2>3
<1>4. ServerTypeOK' BY <1>1, <1>3 DEF ServerTypeOK
<1>5. SessionsWithinLimits' /\ Drawn' BY <1>3, FewerSessions
<1>6. Serving' /\ OpenStreamsRegistered'
  BY <1>3 DEF ServerInv, Serving, OpenStreamsRegistered
<1> QED BY <1>4, <1>5, <1>6 DEF ServerInv

\* A step of the streams and their handlers leaves the sessions to their users.
LEMMA StreamMoves ==
  ASSUME ServerInv, ServerTypeOK', Serving', OpenStreamsRegistered', ids' = ids,
         \A s \in SessionId : session'[s].user = session[s].user
  PROVE  ServerInv'
<1>1. session' \in [SessionId -> [user : User \cup {Nobody}, last : 0..MaxTime]] BY DEF ServerTypeOK
<1>2. SessionsWithinLimits' /\ Drawn' BY <1>1, FewerSessions
<1> QED BY <1>2 DEF ServerInv

\* The map of streams: the end of a session takes its stream, a newer stream replaces
\* it, and the end of a handler takes only its own.
LEMMA MapStep ==
  ASSUME ServerInv,
         \/ \E s \in SessionId : CloseStream(s)
         \/ \E g \in Get : Register(g) \/ Unregister(g)
         \/ Cancel
  PROVE  ServerInv'
<1> USE McpServerAssumption DEF ServerInv, sessionVars
<1>1. ASSUME NEW s \in SessionId, CloseStream(s) PROVE ServerInv'
  <2>1. ServerTypeOK' BY <1>1 DEF CloseStream, ServerTypeOK
  <2>2. Serving' BY <1>1 DEF CloseStream, Serving
  <2>3. OpenStreamsRegistered'
    <3> SUFFICES ASSUME NEW g \in Get, get[g].pc = "open", ~get[g].done
                 PROVE  stream'[get[g].s] = g \/ g \in closing'
      BY <1>1 DEF CloseStream, OpenStreamsRegistered
    <3>1. get[g].s \in SessionId BY DEF Serving
    <3>2. stream[get[g].s] = g \/ g \in closing BY DEF OpenStreamsRegistered
    <3> QED BY <3>1, <3>2, <1>1 DEF CloseStream, ServerTypeOK
  <2> QED BY <1>1, <2>1, <2>2, <2>3, StreamMoves DEF CloseStream
<1>2. ASSUME NEW g \in Get, Register(g) PROVE ServerInv'
  <2>1. get[g].s \in SessionId BY <1>2 DEF Register, Serving
  <2>2. /\ get'[g].pc = "open" /\ get'[g].s = get[g].s
        /\ \A h \in Get \ {g} : get'[h] = get[h]
    BY <1>2 DEF Register, ServerTypeOK
  <2>3. ServerTypeOK' BY <1>2, <2>1 DEF Register, ServerTypeOK
  <2>4. Serving' BY <2>1, <2>2 DEF Serving
  <2>5. OpenStreamsRegistered'
    <3> SUFFICES ASSUME NEW h \in Get, get'[h].pc = "open", ~get'[h].done
                 PROVE  stream'[get'[h].s] = h \/ h \in closing'
      BY DEF OpenStreamsRegistered
    <3>1. CASE h = g BY <3>1, <1>2, <2>1, <2>2 DEF Register, ServerTypeOK
    <3>2. CASE h # g
      <4>1. get'[h] = get[h] /\ get[h].s \in SessionId BY <3>2, <2>2 DEF Serving
      <4>2. stream[get[h].s] = h \/ h \in closing BY <3>2, <4>1 DEF OpenStreamsRegistered
      <4> QED BY <4>1, <4>2, <1>2 DEF Register, ServerTypeOK
    <3> QED BY <3>1, <3>2
  <2> QED BY <1>2, <2>3, <2>4, <2>5, StreamMoves DEF Register
<1>3. ASSUME NEW g \in Get, Unregister(g) PROVE ServerInv'
  <2>1. get[g].s \in SessionId BY <1>3 DEF Unregister, Serving
  <2>2. get'[g] = [pc |-> "ended", s |-> 0, done |-> TRUE] /\ \A h \in Get \ {g} : get'[h] = get[h]
    BY <1>3 DEF Unregister, ServerTypeOK
  <2>3. ServerTypeOK'
    <3>1. stream' \in [SessionId -> Get \cup {Nobody}]
      BY <1>3, <2>1 DEF Unregister, Unregistered, ServerTypeOK
    <3>2. get' \in [Get -> [pc : {"idle", "found", "open", "left", "ended"}, s : 0..MaxIds, done : BOOLEAN]]
      BY <1>3, SMT DEF Unregister, ServerTypeOK
    <3> QED BY <1>3, <3>1, <3>2 DEF Unregister, ServerTypeOK
  <2>4. Serving' BY <2>2, SMT DEF Serving
  <2>5. OpenStreamsRegistered'
    <3> SUFFICES ASSUME NEW h \in Get, get'[h].pc = "open", ~get'[h].done
                 PROVE  stream'[get'[h].s] = h \/ h \in closing'
      BY DEF OpenStreamsRegistered
    <3>1. h # g /\ get'[h] = get[h] /\ get[h].s \in SessionId BY <2>2, SMT DEF Serving
    <3>2. stream[get[h].s] = h \/ h \in closing BY <3>1 DEF OpenStreamsRegistered
    <3> QED BY <3>1, <3>2, <2>1, <1>3 DEF Unregister, Unregistered, ServerTypeOK
  <2> QED BY <1>3, <2>3, <2>4, <2>5, StreamMoves DEF Unregister
<1>4. CASE Cancel
  <2>1. ASSUME NEW g \in Get
        PROVE  /\ get'[g].pc = get[g].pc /\ get'[g].s = get[g].s
               /\ get[g].done => get'[g].done
               /\ (\E s \in SessionId : stream[s] = g) => get'[g].done
    BY <1>4 DEF Cancel, ServerTypeOK
  <2>2. ServerTypeOK'
    <3>1. \A g \in Get : [get[g] EXCEPT !.done = TRUE] \in
            [pc : {"idle", "found", "open", "left", "ended"}, s : 0..MaxIds, done : BOOLEAN]
      BY DEF ServerTypeOK
    <3>2. get' \in [Get -> [pc : {"idle", "found", "open", "left", "ended"}, s : 0..MaxIds, done : BOOLEAN]]
      BY <1>4, <3>1 DEF Cancel, ServerTypeOK
    <3> QED BY <1>4, <3>2 DEF Cancel, ServerTypeOK
  <2>3. Serving' BY <2>1 DEF Serving
  <2>4. OpenStreamsRegistered' BY <1>4, <2>1 DEF OpenStreamsRegistered, Serving, Cancel
  <2> QED BY <1>4, <2>2, <2>3, <2>4, StreamMoves DEF Cancel
<1> QED BY <1>1, <1>2, <1>3, <1>4

\* A GET finds its session.
LEMMA GetFindsStep ==
  ASSUME ServerInv, NEW g \in Get, NEW u \in User, NEW s \in SessionId, GetFinds(g, u, s)
  PROVE  ServerInv'
<1> USE McpServerAssumption DEF ServerInv
<1>1. /\ get' = [get EXCEPT ![g] = [pc |-> "found", s |-> s, done |-> FALSE]]
      /\ session' = [session EXCEPT ![s].last = now]
      /\ UNCHANGED <<now, ids, stream, ending, closing, server>>
  BY DEF GetFinds, streamVars
<1>2. get'[g] = [pc |-> "found", s |-> s, done |-> FALSE] /\ \A h \in Get \ {g} : get'[h] = get[h]
  BY <1>1 DEF ServerTypeOK
<1>3. ServerTypeOK'
  <2>1. s \in 0..MaxIds BY SMT DEF SessionId
  <2>2. get' \in [Get -> [pc : {"idle", "found", "open", "left", "ended"}, s : 0..MaxIds, done : BOOLEAN]]
    BY <1>1, <2>1 DEF ServerTypeOK
  <2>3. session' \in [SessionId -> [user : User \cup {Nobody}, last : 0..MaxTime]]
    BY <1>1 DEF ServerTypeOK
  <2> QED BY <1>1, <2>2, <2>3 DEF ServerTypeOK
<1>4. Serving' /\ OpenStreamsRegistered' BY <1>1, <1>2, SMT DEF Serving, OpenStreamsRegistered
<1>5. \A t \in SessionId : session'[t].user = session[t].user BY <1>1 DEF ServerTypeOK
<1> QED BY <1>1, <1>3, <1>4, <1>5, StreamMoves

\* A handler's loop ends, or its stream is closed.
LEMMA LoopStep ==
  ASSUME ServerInv, NEW g \in Get, Close(g) \/ Disconnect(g) \/ Done(g) \/ Heartbeat(g) \/ Cut(g)
  PROVE  ServerInv'
<1> USE DEF ServerInv, sessionVars
<1>1. CASE Close(g)
  <2>1. /\ get'[g].pc = get[g].pc /\ get'[g].s = get[g].s /\ get'[g].done
        /\ \A h \in Get \ {g} : get'[h] = get[h]
    BY <1>1 DEF Close, ServerTypeOK
  <2>2. ServerTypeOK' BY <1>1 DEF Close, ServerTypeOK
  <2>3. Serving' BY <2>1 DEF Serving
  <2>4. OpenStreamsRegistered' BY <1>1, <2>1 DEF Close, OpenStreamsRegistered
  <2> QED BY <1>1, <2>2, <2>3, <2>4, StreamMoves DEF Close
<1>2. CASE Disconnect(g) \/ Done(g) \/ Heartbeat(g) \/ Cut(g)
  <2>1. get[g].pc = "open" /\ Leaves(g) /\ UNCHANGED <<now, sessionVars, streamVars, server>>
    BY <1>2 DEF Disconnect, Done, Heartbeat, Cut
  <2>2. get'[g].pc = "left" /\ get'[g].s = get[g].s /\ \A h \in Get \ {g} : get'[h] = get[h]
    BY <2>1 DEF Leaves, ServerTypeOK
  <2>3. ServerTypeOK' BY <2>1 DEF Leaves, ServerTypeOK, streamVars
  <2>4. Serving' /\ OpenStreamsRegistered' BY <2>1, <2>2 DEF Serving, OpenStreamsRegistered, streamVars
  <2> QED BY <2>1, <2>3, <2>4, StreamMoves
<1> QED BY <1>1, <1>2

\* The end of the process, and time.
LEMMA ProcessMoves ==
  ASSUME ServerInv, Shutdown \/ Tick \/ UNCHANGED serverVars
  PROVE  ServerInv'
<1> USE McpServerAssumption DEF ServerInv, sessionVars, streamVars
<1>1. UNCHANGED <<sessionVars, streamVars, get>> BY DEF Shutdown, Tick, serverVars
<1>2. ServerTypeOK' BY SMT DEF Shutdown, Tick, serverVars, ServerTypeOK
<1>3. Serving' /\ OpenStreamsRegistered' BY <1>1 DEF Serving, OpenStreamsRegistered
<1> QED BY <1>1, <1>2, <1>3, StreamMoves

\* The sessions of the relay are within their limits and the streams can be reached.
THEOREM ServerInvariant == ServerSpec => []ServerInv
<1>1. ServerInv /\ [ServerNext]_serverVars => ServerInv'
  BY InitializeStep, FewerStep, MapStep, GetFindsStep, LoopStep, ProcessMoves
  DEF ServerNext, GetStep
<1> QED BY <1>1, ServerInitInv, PTL DEF ServerSpec

\* The maps keep their shape; an expired or deleted session leaves nothing behind.
THEOREM ServerTyped == ServerSpec => []ServerTypeOK
<1>1. ServerInv => ServerTypeOK BY DEF ServerInv
<1> QED BY <1>1, ServerInvariant, PTL

\* initializeAt makes room before it adds a session: neither a user nor the relay holds
\* more sessions than configured, for any number of users, sessions and streams.
THEOREM LimitsKept == ServerSpec => []SessionsWithinLimits
<1>1. ServerInv => SessionsWithinLimits BY DEF ServerInv
<1> QED BY <1>1, ServerInvariant, PTL

\* A stream that is open can be reached by whoever ends its session: it is registered
\* with it, or its handler has been told to leave.
THEOREM StreamsReachable == ServerSpec => []OpenStreamsRegistered
<1>1. ServerInv => OpenStreamsRegistered BY DEF ServerInv
<1> QED BY <1>1, ServerInvariant, PTL

\* prepareUserSlot and prepareGlobalSlot evict only for a new session, only where a limit
\* is reached, and the sessions unused the longest.
THEOREM EvictionsAreJustified == ServerSpec => EvictionsJustified
<1>1. ServerInv /\ [ServerNext]_serverVars =>
        [ids' # ids => /\ \A s \in Kept : ~Expired(s)
                       /\ \A e \in Evicted : Justified(session'[ids'].user, e)]_serverVars
  <2> SUFFICES ASSUME ServerInv, ServerNext, ids' # ids
               PROVE  /\ \A s \in Kept : ~Expired(s)
                      /\ \A e \in Evicted : Justified(session'[ids'].user, e)
    OBVIOUS
  <2>1. PICK u \in User : Initialize(u)
    <3> USE DEF ServerNext, GetStep, sessionVars
    <3> QED BY DEF Touch, Delete, GetFinds, Register, Done, Heartbeat, Cut, Unregister,
                   Disconnect, Close, CloseStream, Sweep, Cancel, Shutdown, Tick
  <2>7. \E G \in Evictions(u) : Kept = (Live \ Pruned) \ G BY <2>1, InitializeKeeps
  <2>2. PICK G \in Evictions(u) : Kept = (Live \ Pruned) \ G BY <2>7
  <2>3. session'[ids'].user = u
    <3>1. session'[ids + 1] = [user |-> u, last |-> now] BY <2>1, InitializeKeeps
    <3>2. ids' = ids + 1 BY <2>1 DEF Initialize
    <3> QED BY <3>1, <3>2, SMT
  <2>4. \A s \in Kept : ~Expired(s) BY <2>2 DEF Pruned
  <2>5. Evicted \subseteq G BY <2>2 DEF Evicted, Pruned
  <2>6. \A e \in G : Justified(u, e)
    BY <2>2, InitializeLeaves DEF Justified, ServerInv
  <2> QED BY <2>3, <2>4, <2>5, <2>6
<1> QED BY ServerInvariant, <1>1, PTL DEF ServerSpec, EvictionsJustified
================================================================================
