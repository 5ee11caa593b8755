---------------------------- MODULE Requests_proofs ----------------------------
(***************************************************************************)
(* Proofs about the checks a request passes: its key, the version gate,    *)
(* the ban and the limits of its quota. They hold for any number of        *)
(* concurrent requests, any lifetimes of the caches and any horizon.       *)
(***************************************************************************)
EXTENDS KeyAuth, VersionPolicy, AccessControl, QuotaLimits, FiniteSetTheorems, TLAPS

\* Zenon proves what a step does not ask SMT for.
USE Zenon

-----------------------------------------------------------------------------
(* The gate *)

\* The row, or its absence, says what was decided; nobody saves while the process is
\* down; and unless two saves crossed, the one between commit and assignment is alone
\* and carries the decision.
Decision ==
  /\ stored = NoRow => decided = Default
  /\ stored # NoRow => stored = decided
  /\ ~running => \A s \in Save : saving[s] = Idle
  /\ running /\ ~muddled =>
       \A s \in Save : saving[s].at = "set" =>
         saving[s].version = decided /\ \A t \in Save \ {s} : saving[t].at # "set"

VersionInv == VersionTypeOK /\ Decision /\ GateFollowsDecision

\* The gate enforces what was last decided, through restarts and failed saves
\* (saveMinimumClientVersion, migrateClientVersionPolicy).
THEOREM GateDecided == VersionSpec => []GateFollowsDecision
<1> USE VersionAssumption DEF VersionInv, VersionTypeOK, Decision, GateFollowsDecision, Setting, Idle
<1>1. ASSUME VersionInit PROVE VersionInv
  <2>1. VersionTypeOK BY <1>1 DEF VersionInit
  <2>2. Decision /\ GateFollowsDecision BY <1>1 DEF VersionInit
  <2> QED BY <2>1, <2>2
<1>2. VersionInv /\ [VersionNext]_versionVars => VersionInv'
  <2> SUFFICES ASSUME VersionInv, [VersionNext]_versionVars PROVE VersionInv'
      OBVIOUS
  <2>1. ASSUME NEW s \in Save, NEW v \in Setting, BeginSave(s, v) PROVE VersionInv'
        BY <2>1, SMT DEF BeginSave
  <2>2. ASSUME NEW s \in Save, NEW answered \in BOOLEAN, CommitVersion(s, answered)
        PROVE  VersionInv'
        BY <2>2, SMT DEF CommitVersion, RowFor, Crossing
  <2>3. ASSUME NEW s \in Save, RollBack(s) PROVE VersionInv' BY <2>3 DEF RollBack
  <2>4. ASSUME NEW s \in Save, SetMinimum(s) PROVE VersionInv' BY <2>4, SMT DEF SetMinimum
  <2>5. CASE Halt BY <2>5 DEF Halt
  <2>6. CASE Launch
    <3>1. VersionTypeOK' BY <2>6 DEF Launch
    <3>2. Decision' /\ GateFollowsDecision' BY <2>6, SMT DEF Launch
    <3> QED BY <3>1, <3>2
  <2>7. CASE UNCHANGED versionVars BY <2>7 DEF versionVars
  <2> QED BY <2>1, <2>2, <2>3, <2>4, <2>5, <2>6, <2>7 DEF VersionNext
<1> QED BY <1>1, <1>2, PTL DEF VersionSpec

-----------------------------------------------------------------------------
(* The ban *)

\* Whatever contradicts the table was read before its last change, and not longer
\* ago than a request may take.
VerdictOK ==
  /\ banCache.until <= banClock + BanTTL
  /\ banCache.banned # banned => banCache.until <= since + BanDelay + BanTTL

CheckOK(c) ==
  /\ check[c] # NoCheck => check[c].began <= banClock
  /\ check[c].at = "set" =>
       /\ check[c].began <= check[c].read /\ check[c].read <= banClock
       /\ banClock <= check[c].read + BanDelay
       /\ check[c].verdict # banned => check[c].read <= since
  /\ check[c].at = "answered" /\ check[c].verdict # banned /\ ~check[c].failed =>
       check[c].began <= since + BanDelay + BanTTL

BanInv == BanTypeOK /\ VerdictOK /\ \A c \in Check : CheckOK(c)

\* A step that gives one check a new state keeps the invariant if it does so for
\* that check.
LEMMA CheckMoves ==
  ASSUME BanInv, NEW c \in Check, CheckOK(c)', VerdictOK',
         check' \in [Check -> CheckState \cup {NoCheck}],
         \A d \in Check \ {c} : check'[d] = check[d],
         banCache' \in [banned : BOOLEAN, until : 0..(BanHorizon + BanTTL)],
         UNCHANGED <<banClock, banned, since, purge>>
  PROVE  BanInv'
<1>1. BanTypeOK' BY DEF BanInv, BanTypeOK
<1>2. ASSUME NEW d \in Check PROVE CheckOK(d)'
  <2>1. CASE d = c BY <2>1
  <2>2. CASE d # c BY <2>2 DEF BanInv, CheckOK
  <2> QED BY <2>1, <2>2
<1> QED BY <1>1, <1>2 DEF BanInv

\* The steps of isUserBanned.
LEMMA CheckStep ==
  ASSUME BanInv, NEW c \in Check,
         GetVerdict(c) \/ ReadBan(c) \/ ReadBanFails(c) \/ SetVerdict(c) \/ Answer(c)
  PROVE  BanInv'
<1> USE BanAssumption DEF BanTime
<1>1. check[c] # NoCheck => check[c] \in CheckState BY DEF BanInv, BanTypeOK
<1>2. CASE GetVerdict(c)
  <2>1. PICK at \in {"read", "answered"} :
          /\ at = "answered" => banClock < banCache.until
          /\ check' = [check EXCEPT ![c] =
               [at |-> at, began |-> banClock, read |-> 0,
                verdict |-> at = "answered" /\ banCache.banned, failed |-> FALSE]]
        BY <1>2 DEF GetVerdict
  <2> DEFINE x == [at |-> at, began |-> banClock, read |-> 0,
                   verdict |-> at = "answered" /\ banCache.banned, failed |-> FALSE]
  <2>2. x \in CheckState BY SMT DEF BanInv, BanTypeOK, CheckState
  <2>3. check'[c] = x BY <2>1 DEF BanInv, BanTypeOK
  <2>4. CheckOK(c)'
        BY <1>2, <2>1, <2>3, SMT DEF GetVerdict, CheckOK, BanInv, VerdictOK, BanTypeOK
  <2>5. check' \in [Check -> CheckState \cup {NoCheck}] /\ \A d \in Check \ {c} : check'[d] = check[d]
        BY <2>1, <2>2 DEF BanInv, BanTypeOK
  <2> QED BY <1>2, <2>4, <2>5, CheckMoves DEF GetVerdict, BanInv, BanTypeOK, VerdictOK
<1>3. CASE ReadBan(c)
  <2> DEFINE x == [at |-> "set", began |-> check[c].began, read |-> banClock,
                   verdict |-> banned, failed |-> check[c].failed]
  <2>1. check[c] \in CheckState BY <1>1, <1>3, SMT DEF ReadBan, NoCheck
  <2>2. x \in CheckState BY <2>1 DEF BanInv, BanTypeOK, CheckState
  <2>3. check'[c] = x BY <1>3, <2>1 DEF ReadBan, CheckState, BanInv, BanTypeOK
  <2>4. check' \in [Check -> CheckState \cup {NoCheck}] /\ \A d \in Check \ {c} : check'[d] = check[d]
        BY <1>3, <2>2, <2>3 DEF ReadBan, BanInv, BanTypeOK
  <2>5. CheckOK(c)'
        BY <1>3, <2>1, <2>3, SMT DEF ReadBan, CheckOK, BanInv, BanTypeOK, CheckState, NoCheck
  <2> QED BY <1>3, <2>4, <2>5, CheckMoves DEF ReadBan, BanInv, BanTypeOK, VerdictOK
<1>4. CASE ReadBanFails(c)
  <2> DEFINE x == [at |-> "answered", began |-> check[c].began, read |-> check[c].read,
                   verdict |-> check[c].verdict, failed |-> TRUE]
  <2>1. check[c] \in CheckState BY <1>1, <1>4, SMT DEF ReadBanFails, NoCheck
  <2>2. x \in CheckState BY <2>1 DEF CheckState
  <2>3. check'[c] = x BY <1>4, <2>1 DEF ReadBanFails, CheckState, BanInv, BanTypeOK
  <2>4. check' \in [Check -> CheckState \cup {NoCheck}] /\ \A d \in Check \ {c} : check'[d] = check[d]
        BY <1>4, <2>2, <2>3 DEF ReadBanFails, BanInv, BanTypeOK
  <2>5. CheckOK(c)'
        BY <1>4, <2>1, <2>3 DEF ReadBanFails, CheckOK, BanInv, BanTypeOK, CheckState, NoCheck
  <2> QED BY <1>4, <2>4, <2>5, CheckMoves DEF ReadBanFails, BanInv, BanTypeOK, VerdictOK
<1>5. CASE SetVerdict(c)
  <2> DEFINE x == [at |-> "answered", began |-> check[c].began, read |-> 0,
                   verdict |-> check[c].verdict, failed |-> check[c].failed]
  <2>1. check[c] \in CheckState BY <1>1, <1>5, SMT DEF SetVerdict, NoCheck
  <2>2. x \in CheckState BY <2>1, SMT DEF CheckState
  <2>3. check'[c] = x BY <1>5, <2>1 DEF SetVerdict, CheckState, BanInv, BanTypeOK
  <2>4. check' \in [Check -> CheckState \cup {NoCheck}] /\ \A d \in Check \ {c} : check'[d] = check[d]
        BY <1>5, <2>2, <2>3 DEF SetVerdict, BanInv, BanTypeOK
  <2>5. CheckOK(c)'
        BY <1>5, <2>1, <2>3, SMT DEF SetVerdict, CheckOK, BanInv, BanTypeOK, CheckState, NoCheck
  <2>6. banCache' \in [banned : BOOLEAN, until : 0..(BanHorizon + BanTTL)] /\ VerdictOK'
    <3>1. CASE UNCHANGED banCache BY <1>5, <3>1 DEF SetVerdict, VerdictOK, BanInv, BanTypeOK
    <3>2. CASE banCache' = [banned |-> check[c].verdict, until |-> KeptUntil]
      <4>1. banCache'.banned = check[c].verdict /\ banCache'.until = banClock + BanTTL
            BY <3>2 DEF KeptUntil
      <4>2. VerdictOK'
            BY <1>5, <2>1, <4>1, SMT DEF SetVerdict, VerdictOK, CheckOK, BanInv, BanTypeOK, CheckState
      <4>3. banCache' \in [banned : BOOLEAN, until : 0..(BanHorizon + BanTTL)]
            BY <2>1, <3>2, SMT DEF KeptUntil, BanInv, BanTypeOK, CheckState
      <4> QED BY <4>2, <4>3
    <3> QED BY <1>5, <3>1, <3>2 DEF SetVerdict
  <2> QED BY <1>5, <2>4, <2>5, <2>6, CheckMoves DEF SetVerdict
<1>6. CASE Answer(c)
  <2>1. check'[c] = NoCheck BY <1>6 DEF Answer, BanInv, BanTypeOK
  <2>2. CheckOK(c)' BY <2>1, SMT DEF CheckOK, NoCheck
  <2>3. check' \in [Check -> CheckState \cup {NoCheck}] /\ \A d \in Check \ {c} : check'[d] = check[d]
        BY <1>6 DEF Answer, BanInv, BanTypeOK
  <2> QED BY <1>6, <2>2, <2>3, CheckMoves DEF Answer, BanInv, BanTypeOK, VerdictOK
<1> QED BY <1>2, <1>3, <1>4, <1>5, <1>6

\* The console and the clock.
LEMMA BanMoves ==
  ASSUME BanInv, ChangeBan \/ PurgeVerdict \/ BanTick
  PROVE  BanInv'
<1> USE BanAssumption DEF BanTime
<1>1. CASE ChangeBan
  <2>1. BanTypeOK' BY <1>1 DEF ChangeBan, BanInv, BanTypeOK
  <2>2. VerdictOK' BY <1>1, SMT DEF ChangeBan, BanInv, BanTypeOK, VerdictOK
  <2>3. ASSUME NEW c \in Check PROVE CheckOK(c)'
        BY <1>1, SMT DEF ChangeBan, BanInv, BanTypeOK, CheckOK, CheckState, NoCheck
  <2> QED BY <2>1, <2>2, <2>3 DEF BanInv
<1>2. CASE PurgeVerdict
  <2>1. BanTypeOK'
    <3>1. banCache' \in [banned : BOOLEAN, until : 0..(BanHorizon + BanTTL)]
          BY <1>2, SMT DEF PurgeVerdict, NoVerdict
    <3> QED BY <1>2, <3>1 DEF PurgeVerdict, BanInv, BanTypeOK
  <2>2. VerdictOK'
    <3>1. banCache'.until = 0 BY <1>2 DEF PurgeVerdict, NoVerdict
    <3> QED BY <1>2, <3>1, SMT DEF PurgeVerdict, BanInv, BanTypeOK, VerdictOK
  <2>3. ASSUME NEW c \in Check PROVE CheckOK(c)'
        BY <1>2 DEF PurgeVerdict, BanInv, CheckOK
  <2> QED BY <2>1, <2>2, <2>3 DEF BanInv
<1>3. CASE BanTick
  <2>1. BanTypeOK' BY <1>3, SMT DEF BanTick, BanInv, BanTypeOK
  <2>2. VerdictOK' BY <1>3, SMT DEF BanTick, BanInv, BanTypeOK, VerdictOK
  <2>3. ASSUME NEW c \in Check PROVE CheckOK(c)'
        BY <1>3, SMT DEF BanTick, BanInv, BanTypeOK, CheckOK, CheckState, NoCheck
  <2> QED BY <2>1, <2>2, <2>3 DEF BanInv
<1> QED BY <1>1, <1>2, <1>3

\* A cached verdict is wrong for at most its lifetime and the delay of one request
\* after a change of the table (isUserBanned).
THEOREM BanTakesHold == BanSpec => []BanBounded
<1>1. ASSUME BanInit PROVE BanInv
  <2>1. BanTypeOK
    <3>1. banClock \in BanTime /\ since \in BanTime BY <1>1, BanAssumption, SMT DEF BanInit, BanTime
    <3>2. banCache \in [banned : BOOLEAN, until : 0..(BanHorizon + BanTTL)]
          BY <1>1, BanAssumption, SMT DEF BanInit, NoVerdict
    <3> QED BY <1>1, <3>1, <3>2 DEF BanInit, BanTypeOK
  <2>2. VerdictOK
    <3>1. banCache.until = 0 /\ banClock = 0 /\ since = 0 BY <1>1 DEF BanInit, NoVerdict
    <3> QED BY <3>1, BanAssumption, SMT DEF VerdictOK
  <2>3. ASSUME NEW c \in Check PROVE CheckOK(c) BY <1>1 DEF BanInit, CheckOK, NoCheck
  <2> QED BY <2>1, <2>2, <2>3 DEF BanInv
<1>2. BanInv /\ [BanNext]_banVars => BanInv'
  <2>1. ASSUME BanInv, UNCHANGED banVars PROVE BanInv'
        BY <2>1 DEF banVars, BanInv, BanTypeOK, VerdictOK, CheckOK
  <2> QED BY <2>1, CheckStep, BanMoves DEF BanNext
<1>3. BanInv => BanBounded BY DEF BanInv, CheckOK, BanBounded
<1> QED BY <1>1, <1>2, <1>3, PTL DEF BanSpec

-----------------------------------------------------------------------------
(* The key *)

\* An entry dies within its lifetime of the request that made it, and contradicts
\* the key's row for no longer than that.
EntryOK(k) ==
  /\ authCache[k].ok =>
       authCache[k].expiresAt <= clock + PositiveTTL /\ authCache[k].expiresAt <= deleted[k] + PositiveTTL
  /\ ~authCache[k].ok =>
       /\ authCache[k].expiresAt <= clock + NegativeTTL
       /\ deleted[k] # Never \/ authCache[k].expiresAt <= issued[k] + NegativeTTL

\* What a request found was so at some moment after it began.
CallOK(c) ==
  LET r == call[c]
  IN  r # NoCall =>
        /\ r.start <= clock
        /\ r.at = "put" /\ r.found => r.start <= deleted[r.key]
        /\ r.at = "put" /\ ~r.found => deleted[r.key] # Never \/ r.start <= issued[r.key]
        /\ r.at \in {"authorize", "accepted"} => r.start <= deleted[r.key] + PositiveTTL
        /\ r.at = "refused" => \/ r.key \in OrgKey \/ deleted[r.key] # Never
                               \/ r.start <= issued[r.key] + NegativeTTL
        /\ r.key \in member => r.admitted
        /\ r.at = "accepted" /\ r.key \in OrgKey => r.admitted

CacheShape ==
  /\ DOMAIN authCache \subseteq Key /\ authCache \in [DOMAIN authCache -> Entry]
  /\ IsFiniteSet(DOMAIN authCache) /\ Cardinality(DOMAIN authCache) <= MaxEntries

AuthInv ==
  /\ AuthTypeOK /\ CacheShape
  /\ \A k \in DOMAIN authCache : EntryOK(k)
  /\ \A c \in Caller : CallOK(c)

\* A step of one request keeps the invariant if it does so for that request.
LEMMA CallMoves ==
  ASSUME AuthInv, NEW c \in Caller, CallOK(c)', CacheShape',
         call' \in [Caller -> Call \cup {NoCall}],
         \A d \in Caller \ {c} : call'[d] = call[d],
         \A k \in DOMAIN authCache' : EntryOK(k)',
         UNCHANGED <<clock, issued, deleted, member>>
  PROVE  AuthInv'
<1>1. AuthTypeOK' BY DEF AuthInv, AuthTypeOK, CacheShape
<1>2. ASSUME NEW d \in Caller PROVE CallOK(d)'
  <2>1. CASE d = c BY <2>1
  <2>2. CASE d # c BY <2>2 DEF AuthInv, CallOK, Never
  <2> QED BY <2>1, <2>2
<1> QED BY <1>1, <1>2 DEF AuthInv

\* A step that leaves the cache and the rows alone leaves the entries as they were.
LEMMA EntriesStay ==
  ASSUME AuthInv, UNCHANGED <<clock, issued, deleted, authCache>>
  PROVE  CacheShape' /\ \A k \in DOMAIN authCache' : EntryOK(k)'
BY DEF AuthInv, CacheShape, EntryOK, Never

\* authCacheGet
LEMMA BeginStep ==
  ASSUME AuthInv, NEW c \in Caller, NEW k \in Key, Begin(c, k)
  PROVE  AuthInv'
<1> DEFINE x == [at |-> IF Hit(k) THEN AfterHit(k) ELSE "lookup", key |-> k, start |-> clock,
                 found |-> FALSE, admitted |-> k \in member]
<1>1. x \in Call
  <2>1. (IF Hit(k) THEN AfterHit(k) ELSE "lookup") \in {"lookup", "authorize", "refused"}
        BY DEF AfterHit
  <2>2. clock \in Time BY DEF AuthInv, AuthTypeOK
  <2>3. (k \in member) \in BOOLEAN BY SMT
  <2> HIDE DEF Hit, AfterHit
  <2> QED BY <2>1, <2>2, <2>3 DEF Call
<1>2. call'[c] = x BY DEF Begin, AuthInv, AuthTypeOK
<1>3. call' \in [Caller -> Call \cup {NoCall}] /\ \A d \in Caller \ {c} : call'[d] = call[d]
      BY <1>1 DEF Begin, AuthInv, AuthTypeOK
<1>4. CallOK(c)'
  <2>1. x.key = k /\ x.start = clock /\ (k \in member => x.admitted) OBVIOUS
  <2>2. x.at = IF Hit(k) THEN AfterHit(k) ELSE "lookup" OBVIOUS
  <2>3. Hit(k) /\ authCache[k].ok => clock <= deleted[k] + PositiveTTL
        BY KeyAuthAssumption, SMT DEF Hit, EntryOK, CacheShape, Entry, AuthInv, AuthTypeOK, Time, Never
  <2>4. Hit(k) /\ ~authCache[k].ok => deleted[k] # Never \/ clock <= issued[k] + NegativeTTL
        BY KeyAuthAssumption, SMT DEF Hit, EntryOK, CacheShape, Entry, AuthInv, AuthTypeOK, Time, Never
  <2>5. clock \in Nat BY KeyAuthAssumption, SMT DEF AuthInv, AuthTypeOK, Time
  <2> HIDE DEF x
  <2> QED BY <1>2, <2>1, <2>2, <2>3, <2>4, <2>5, SMT DEF CallOK, Begin, AfterHit, Never
<1> QED BY <1>3, <1>4, CallMoves, EntriesStay DEF Begin

\* lookupAPIKey
LEMMA LookUpStep ==
  ASSUME AuthInv, NEW c \in Caller, LookUp(c)
  PROVE  AuthInv'
<1> DEFINE x == [at |-> "put", key |-> call[c].key, start |-> call[c].start,
                 found |-> Stored(call[c].key), admitted |-> call[c].admitted]
<1>1. call[c] \in Call BY SMT DEF LookUp, AuthInv, AuthTypeOK, NoCall
<1>2. x \in Call
  <2>1. Stored(call[c].key) \in BOOLEAN BY DEF Stored
  <2> QED BY <1>1, <2>1 DEF Call
<1>3. call'[c] = x BY <1>1 DEF LookUp, AuthInv, AuthTypeOK, Call
<1>4. call' \in [Caller -> Call \cup {NoCall}] /\ \A d \in Caller \ {c} : call'[d] = call[d]
      BY <1>2, <1>3 DEF LookUp, AuthInv, AuthTypeOK
<1>5. CallOK(c)'
  <2>1. call[c].start <= clock /\ call[c].start \in Time /\ call[c].key \in Key
        /\ (call[c].key \in member => call[c].admitted)
        BY <1>1, SMT DEF AuthInv, CallOK, Call, NoCall, LookUp
  <2>2. x.at = "put" /\ x.found = Stored(call[c].key) /\ x.start = call[c].start
        /\ x.key = call[c].key /\ x.admitted = call[c].admitted
        OBVIOUS
  <2>3. Stored(call[c].key) => call[c].start <= deleted[call[c].key]
        BY <2>1, KeyAuthAssumption, SMT DEF Stored, Never, Time, AuthInv, AuthTypeOK
  <2>4. ~Stored(call[c].key) =>
          deleted[call[c].key] # Never \/ call[c].start <= issued[call[c].key]
        BY <2>1, KeyAuthAssumption, SMT DEF Stored, Never, Time, AuthInv, AuthTypeOK
  <2> HIDE DEF x
  <2> QED BY <1>3, <2>1, <2>2, <2>3, <2>4, SMT DEF CallOK, LookUp, Never
<1> QED BY <1>4, <1>5, CallMoves, EntriesStay DEF LookUp

\* authCachePut
LEMMA PutStep ==
  ASSUME AuthInv, NEW c \in Caller, Put(c)
  PROVE  AuthInv'
<1> DEFINE k == call[c].key
           x == [at |-> IF call[c].found THEN "authorize" ELSE "refused", key |-> k,
                 start |-> call[c].start, found |-> FALSE, admitted |-> call[c].admitted]
           e == [ok |-> call[c].found, expiresAt |-> Expiry(c)]
           all == IF Fits(k) THEN Kept(k) \cup {k} ELSE Kept(k)
<1>1. call[c] \in Call BY SMT DEF Put, AuthInv, AuthTypeOK, NoCall
<1>2. k \in Key /\ call[c].start \in Time /\ call[c].found \in BOOLEAN
      /\ call[c].admitted \in BOOLEAN
      BY <1>1 DEF Call
<1>3. /\ call[c].start <= clock
      /\ call[c].found => call[c].start <= deleted[k]
      /\ ~call[c].found => deleted[k] # Never \/ call[c].start <= issued[k]
      /\ k \in member => call[c].admitted
      BY <1>1, SMT DEF AuthInv, CallOK, Put, NoCall, Call
<1>4. clock \in Time /\ deleted[k] \in Nat /\ issued[k] \in Nat
      BY <1>2, KeyAuthAssumption, SMT DEF AuthInv, AuthTypeOK, Time, Never
<1>5. CallOK(c)' /\ call' \in [Caller -> Call \cup {NoCall}]
      /\ \A d \in Caller \ {c} : call'[d] = call[d]
  <2>1. x \in Call BY <1>2 DEF Call
  <2>2. call'[c] = x BY <1>1 DEF Put, AuthInv, AuthTypeOK, Call
  <2>3. x.key = k /\ x.start = call[c].start /\ x.admitted = call[c].admitted
        /\ x.at = IF call[c].found THEN "authorize" ELSE "refused"
        OBVIOUS
  <2>4. call' \in [Caller -> Call \cup {NoCall}] /\ \A d \in Caller \ {c} : call'[d] = call[d]
        BY <2>1, <2>2 DEF Put, AuthInv, AuthTypeOK
  <2>5. UNCHANGED <<clock, issued, deleted, member>> BY DEF Put
  <2> HIDE DEF x, k
  <2>6. CallOK(c)'
        BY <1>2, <1>3, <1>4, <2>2, <2>3, <2>5, KeyAuthAssumption, SMT DEF CallOK, Never, Time
  <2> QED BY <2>4, <2>6
<1>6. Kept(k) \subseteq DOMAIN authCache BY DEF Kept
<1>7. e \in Entry
      BY <1>2, <1>3, <1>4, KeyAuthAssumption, SMT DEF Entry, Expiry, Time
<1>8. authCache' = [j \in all |-> IF j = k THEN e ELSE authCache[j]] BY DEF Put
<1>9. CacheShape'
  <2>1. IsFiniteSet(Kept(k)) /\ Cardinality(Kept(k)) <= Cardinality(DOMAIN authCache)
        BY <1>6, FS_Subset DEF AuthInv, CacheShape
  <2>2. IsFiniteSet(all) /\ Cardinality(all) <= MaxEntries
    <3>1. Cardinality(Kept(k)) \in Nat /\ Cardinality(DOMAIN authCache) \in Nat
          BY <2>1, FS_CardinalityType DEF AuthInv, CacheShape
    <3>2. CASE ~Fits(k) \/ k \in Kept(k)
      <4>1. all = Kept(k) BY <3>2
      <4> QED BY <2>1, <3>1, <4>1, KeyAuthAssumption, SMT DEF AuthInv, CacheShape
    <3>3. CASE Fits(k) /\ k \notin Kept(k)
      <4>1. all = Kept(k) \cup {k} /\ Cardinality(Kept(k)) < MaxEntries BY <3>3 DEF Fits
      <4>2. IsFiniteSet(all) /\ Cardinality(all) = Cardinality(Kept(k)) + 1
            BY <2>1, <3>3, <4>1, FS_AddElement
      <4> QED BY <3>1, <4>1, <4>2, KeyAuthAssumption, SMT
    <3> QED BY <3>2, <3>3
  <2>3. DOMAIN authCache' = all BY <1>8
  <2>4. all \subseteq Key BY <1>2, <1>6 DEF AuthInv, CacheShape
  <2>5. \A j \in all : (IF j = k THEN e ELSE authCache[j]) \in Entry
        BY <1>6, <1>7 DEF AuthInv, CacheShape
  <2> HIDE DEF all, e, k
  <2>6. authCache' \in [all -> Entry] BY <1>8, <2>5
  <2> QED BY <2>2, <2>3, <2>4, <2>6 DEF CacheShape
<1>10. ASSUME NEW j \in DOMAIN authCache' PROVE EntryOK(j)'
  <2>1. UNCHANGED <<clock, issued, deleted, member>> BY DEF Put
  <2>2. CASE j = k
    <3>1. authCache'[j] = e BY <1>8, <2>2
    <3>2. e.ok = call[c].found /\ e.expiresAt = Expiry(c) OBVIOUS
    <3> HIDE DEF e, k
    <3>3. EntryOK(j)'
          BY <1>2, <1>3, <1>4, <2>1, <2>2, <3>1, <3>2, KeyAuthAssumption, SMT
          DEF EntryOK, Expiry, Time, Never
    <3> QED BY <3>3
  <2>3. CASE j # k
    <3>1. j \in DOMAIN authCache /\ authCache'[j] = authCache[j] BY <1>6, <1>8, <2>3
    <3> QED BY <2>1, <3>1 DEF AuthInv, EntryOK, Never
  <2> QED BY <2>2, <2>3
<1> QED BY <1>5, <1>9, <1>10, CallMoves DEF Put

\* authorizeOrganizationIdentity
LEMMA AuthorizeStep ==
  ASSUME AuthInv, NEW c \in Caller, Authorize(c)
  PROVE  AuthInv'
<1> DEFINE v == IF call[c].key \in OrgKey => call[c].key \in member THEN "accepted" ELSE "refused"
           x == [at |-> v, key |-> call[c].key, start |-> call[c].start,
                 found |-> call[c].found, admitted |-> call[c].admitted]
<1>1. call[c] \in Call BY SMT DEF Authorize, AuthInv, AuthTypeOK, NoCall
<1>2. x \in Call BY <1>1 DEF Call
<1>3. call'[c] = x BY <1>1 DEF Authorize, AuthInv, AuthTypeOK, Call
<1>4. call' \in [Caller -> Call \cup {NoCall}] /\ \A d \in Caller \ {c} : call'[d] = call[d]
      BY <1>2, <1>3 DEF Authorize, AuthInv, AuthTypeOK
<1>5. CallOK(c)'
  <2>1. /\ call[c].start <= clock /\ call[c].start <= deleted[call[c].key] + PositiveTTL
        /\ call[c].key \in member => call[c].admitted
        BY <1>1, SMT DEF AuthInv, CallOK, Call, NoCall, Authorize
  <2>2. x.at = v /\ x.start = call[c].start /\ x.key = call[c].key
        /\ x.admitted = call[c].admitted
        OBVIOUS
  <2> HIDE DEF x
  <2> QED BY <1>3, <2>1, <2>2, SMT DEF CallOK, Authorize, Never
<1> QED BY <1>4, <1>5, CallMoves, EntriesStay DEF Authorize

\* A request that is answered, or goes on, leaves nothing behind.
LEMMA LeaveStep ==
  ASSUME AuthInv, NEW c \in Caller, DependencyFails(c) \/ Leave(c)
  PROVE  AuthInv'
<1>1. call' = [call EXCEPT ![c] = NoCall] /\ UNCHANGED <<clock, issued, deleted, member, authCache>>
      BY DEF DependencyFails, Leave
<1>2. call' \in [Caller -> Call \cup {NoCall}] /\ \A d \in Caller \ {c} : call'[d] = call[d]
      BY <1>1 DEF AuthInv, AuthTypeOK
<1>3. CallOK(c)' BY <1>1 DEF CallOK, AuthInv, AuthTypeOK
<1> QED BY <1>1, <1>2, <1>3, CallMoves, EntriesStay

\* The console and the clock.
LEMMA KeyMoves ==
  ASSUME AuthInv,
         \/ \E k \in Key : Issue(k) \/ Revoke(k)
         \/ \E k \in OrgKey : SetMember(k)
         \/ Pass
  PROVE  AuthInv'
<1> USE KeyAuthAssumption DEF Time, Never
<1>1. ASSUME NEW k \in Key, Issue(k) PROVE AuthInv'
  <2>1. AuthTypeOK' /\ CacheShape' BY <1>1 DEF Issue, AuthInv, AuthTypeOK, CacheShape
  <2>2. ASSUME NEW j \in DOMAIN authCache' PROVE EntryOK(j)'
        BY <1>1 DEF Issue, AuthInv, AuthTypeOK, CacheShape, EntryOK, Entry
  <2>3. ASSUME NEW c \in Caller PROVE CallOK(c)'
        BY <1>1, SMT DEF Issue, AuthInv, AuthTypeOK, CallOK, Call
  <2> QED BY <2>1, <2>2, <2>3 DEF AuthInv
<1>2. ASSUME NEW k \in Key, Revoke(k) PROVE AuthInv'
  <2>1. AuthTypeOK' /\ CacheShape' BY <1>2 DEF Revoke, AuthInv, AuthTypeOK, CacheShape
  <2>2. ASSUME NEW j \in DOMAIN authCache' PROVE EntryOK(j)'
        BY <1>2, SMT DEF Revoke, AuthInv, AuthTypeOK, CacheShape, EntryOK, Entry
  <2>3. ASSUME NEW c \in Caller PROVE CallOK(c)'
        BY <1>2, SMT DEF Revoke, AuthInv, AuthTypeOK, CallOK, Call
  <2> QED BY <2>1, <2>2, <2>3 DEF AuthInv
<1>3. ASSUME NEW k \in OrgKey, SetMember(k) PROVE AuthInv'
  <2>1. ASSUME NEW c \in Caller
        PROVE  /\ call'[c] \in Call \cup {NoCall} /\ CallOK(c)'
    <3>1. CASE call[c] # NoCall /\ call[c].key = k /\ k \in member'
      <4> DEFINE x == [at |-> call[c].at, key |-> call[c].key, start |-> call[c].start,
                       found |-> call[c].found, admitted |-> TRUE]
      <4>1. call[c] \in Call BY <3>1 DEF AuthInv, AuthTypeOK
      <4>2. call'[c] = x BY <1>3, <3>1, <4>1 DEF SetMember, Call
      <4>3. x \in Call BY <4>1 DEF Call
      <4>4. x.at = call[c].at /\ x.key = call[c].key /\ x.start = call[c].start
            /\ x.found = call[c].found /\ x.admitted
            OBVIOUS
      <4>5. UNCHANGED <<clock, issued, deleted>> BY <1>3 DEF SetMember
      <4> HIDE DEF x
      <4>6. CallOK(c)' BY <3>1, <4>2, <4>4, <4>5 DEF AuthInv, CallOK
      <4> QED BY <4>2, <4>3, <4>6
    <3>2. CASE ~(call[c] # NoCall /\ call[c].key = k /\ k \in member')
      <4>1. call'[c] = call[c] /\ UNCHANGED <<clock, issued, deleted>>
            BY <1>3, <3>2 DEF SetMember
      <4>2. call[c] # NoCall /\ call[c].key \in member' => call[c].key \in member
            BY <1>3, <3>2 DEF SetMember
      <4> QED BY <4>1, <4>2 DEF AuthInv, AuthTypeOK, CallOK
    <3> QED BY <3>1, <3>2
  <2>2. AuthTypeOK' BY <1>3, <2>1 DEF SetMember, AuthInv, AuthTypeOK
  <2>3. CacheShape' /\ \A j \in DOMAIN authCache' : EntryOK(j)'
        BY <1>3, EntriesStay DEF SetMember
  <2> QED BY <2>1, <2>2, <2>3 DEF AuthInv
<1>4. CASE Pass
  <2>1. AuthTypeOK' /\ CacheShape' BY <1>4, SMT DEF Pass, AuthInv, AuthTypeOK, CacheShape
  <2>2. ASSUME NEW j \in DOMAIN authCache' PROVE EntryOK(j)'
        BY <1>4, SMT DEF Pass, AuthInv, AuthTypeOK, CacheShape, EntryOK, Entry
  <2>3. ASSUME NEW c \in Caller PROVE CallOK(c)'
        BY <1>4, SMT DEF Pass, AuthInv, AuthTypeOK, CallOK, Call
  <2> QED BY <2>1, <2>2, <2>3 DEF AuthInv
<1> QED BY <1>1, <1>2, <1>3, <1>4

\* The invariant is inductive.
THEOREM AuthInvariant == AuthSpec => []AuthInv
<1>1. ASSUME AuthInit PROVE AuthInv
  <2>1. DOMAIN authCache = {} /\ authCache \in [{} -> Entry] BY <1>1, SMT DEF AuthInit
  <2>2. CacheShape BY <2>1, FS_EmptySet, KeyAuthAssumption, SMT DEF CacheShape
  <2>3. AuthTypeOK
        BY <1>1, <2>2, KeyAuthAssumption, SMT DEF AuthInit, AuthTypeOK, CacheShape, Time, Never
  <2>4. ASSUME NEW c \in Caller PROVE CallOK(c) BY <1>1 DEF AuthInit, CallOK
  <2> QED BY <2>1, <2>2, <2>3, <2>4 DEF AuthInv
<1>2. AuthInv /\ [AuthNext]_authVars => AuthInv'
  <2>1. ASSUME AuthInv, UNCHANGED authVars PROVE AuthInv'
        BY <2>1 DEF authVars, AuthInv, AuthTypeOK, CacheShape, EntryOK, CallOK
  <2> QED BY <2>1, BeginStep, LookUpStep, PutStep, AuthorizeStep, LeaveStep, KeyMoves DEF AuthNext
<1> QED BY <1>1, <1>2, PTL DEF AuthSpec

\* A deleted key is accepted for at most PositiveTTL more (authenticateRequest computes
\* the expiry before it looks the key up), a new one refused as unknown for at most
\* NegativeTTL, and an organisation's key accepted only for a user admitted while the
\* request was authenticated (authorizeOrganizationIdentity).
THEOREM KeysTakeHold == AuthSpec => []AuthFollowsRows
<1>1. AuthInv => RevocationBounded BY SMT DEF AuthInv, CallOK, RevocationBounded, NoCall
<1>2. AuthInv => CreationBounded BY SMT DEF AuthInv, CallOK, CreationBounded, NoCall, Stored
<1>3. AuthInv => MembershipFresh BY SMT DEF AuthInv, CallOK, MembershipFresh, NoCall
<1>4. AuthInv => AuthFollowsRows BY <1>1, <1>2, <1>3 DEF AuthFollowsRows
<1> QED BY <1>4, AuthInvariant, PTL

-----------------------------------------------------------------------------
(* Cached limits *)

\* A cached answer dies with the plan it came from, and contradicts the sources for
\* no longer than its lifetime and the delay of the request that made it.
AnswerOK ==
  /\ limitCache.until <= quotaClock + QuotaTTL
  /\ limitCache.limit = "free" => limitCache.until = 0
  /\ limitCache.limit = "plan" => limitCache.until <= planEnd + QuotaDelay
  /\ \/ limitCache.limit = "override" <=> override
     \/ limitCache.until <= changed + QuotaDelay + QuotaTTL

\* What a request read was so when it read it, not longer than QuotaDelay ago.
ResolveOK(q) ==
  LET r == resolve[q]
  IN  r # NoResolve =>
        /\ r.began <= quotaClock
        /\ r.at \in {"row", "owner"} => r.limit = "free"
        /\ r.at \in {"owner", "set"} =>
             r.began <= r.read /\ r.read <= quotaClock /\ quotaClock <= r.read + QuotaDelay
        /\ r.at = "owner" /\ override => r.read <= changed
        /\ r.at = "set" =>
             /\ r.limit # "free"
             /\ r.limit = "plan" => r.read + r.ttl <= planEnd /\ r.began < planEnd
             /\ (r.limit = "override" <=> override) \/ r.read <= changed
        /\ r.at = "resolved" =>
             /\ r.limit = "free" => r.failed
             /\ r.limit = "plan" => r.began < planEnd + QuotaDelay
             /\ \/ r.failed \/ (r.limit = "override" <=> override)
                \/ r.began <= changed + QuotaDelay + QuotaTTL

LimitInv == LimitTypeOK /\ AnswerOK /\ \A q \in Resolver : ResolveOK(q)

\* The smaller of two numbers.
LEMMA MinOfTwo ==
  ASSUME NEW a \in Nat, NEW b \in Nat
  PROVE  Min({a, b}) \in Nat /\ Min({a, b}) <= a /\ Min({a, b}) <= b
<1>1. \E x \in {a, b} : \A y \in {a, b} : x <= y
  <2>1. CASE a <= b BY <2>1, SMT
  <2>2. CASE b <= a BY <2>2, SMT
  <2> QED BY <2>1, <2>2, SMT
<1>2. Min({a, b}) \in {a, b} /\ \A y \in {a, b} : Min({a, b}) <= y BY <1>1 DEF Min
<1> QED BY <1>2

\* A step of one request keeps the invariant if it does so for that request.
LEMMA ResolveMoves ==
  ASSUME LimitInv, NEW q \in Resolver, ResolveOK(q)', AnswerOK',
         resolve' \in [Resolver -> ResolveState \cup {NoResolve}],
         \A p \in Resolver \ {q} : resolve'[p] = resolve[p],
         limitCache' \in [limit : Limit, until : 0..(QuotaHorizon + QuotaTTL)],
         UNCHANGED <<quotaClock, config>>
  PROVE  LimitInv'
<1>1. LimitTypeOK' BY DEF LimitInv, LimitTypeOK, config
<1>2. ASSUME NEW p \in Resolver PROVE ResolveOK(p)'
  <2>1. CASE p = q BY <2>1
  <2>2. CASE p # q BY <2>2 DEF LimitInv, ResolveOK, config
  <2> QED BY <2>1, <2>2
<1> QED BY <1>1, <1>2 DEF LimitInv

\* A step that leaves the cache, its sources and the clock alone.
LEMMA AnswerStays ==
  ASSUME LimitInv, UNCHANGED <<quotaClock, config, limitCache>>
  PROVE  AnswerOK' /\ limitCache' \in [limit : Limit, until : 0..(QuotaHorizon + QuotaTTL)]
BY DEF LimitInv, LimitTypeOK, AnswerOK, config

\* The cache is read.
LEMMA GetLimitStep ==
  ASSUME LimitInv, NEW q \in Resolver, GetLimit(q)
  PROVE  LimitInv'
<1>1. PICK at \in {"row", "resolved"} :
        /\ at = "resolved" => quotaClock < limitCache.until
        /\ resolve' = [resolve EXCEPT ![q] =
             [at |-> at, began |-> quotaClock, read |-> 0, ttl |-> 0, failed |-> FALSE,
              limit |-> IF at = "resolved" THEN limitCache.limit ELSE "free"]]
      BY DEF GetLimit
<1> DEFINE l == IF at = "resolved" THEN limitCache.limit ELSE "free"
           x == [at |-> at, began |-> quotaClock, read |-> 0, ttl |-> 0, failed |-> FALSE,
                 limit |-> l]
<1>2. /\ quotaClock \in QuotaTime /\ changed \in Nat /\ planEnd \in Nat
      /\ limitCache.until \in Nat /\ limitCache.limit \in Limit
      BY QuotaLimitsAssumption, SMT DEF LimitInv, LimitTypeOK, QuotaTime
<1>3. x \in ResolveState
      BY <1>2, QuotaLimitsAssumption, SMT DEF ResolveState, QuotaTime, Limit
<1>4. resolve'[q] = x BY <1>1 DEF LimitInv, LimitTypeOK
<1>5. resolve' \in [Resolver -> ResolveState \cup {NoResolve}]
      /\ \A p \in Resolver \ {q} : resolve'[p] = resolve[p]
      BY <1>1, <1>3 DEF LimitInv, LimitTypeOK
<1>6. x.at = at /\ x.began = quotaClock /\ x.limit = l /\ x.failed = FALSE OBVIOUS
<1>7. UNCHANGED <<quotaClock, config, limitCache>> BY DEF GetLimit
<1> HIDE DEF x
<1>8. ResolveOK(q)'
  <2> USE QuotaLimitsAssumption DEF ResolveOK, LimitInv, AnswerOK, config, QuotaTime
  <2>1. CASE at = "row" BY <1>2, <1>4, <1>6, <1>7, <2>1, SMT
  <2>2. CASE at = "resolved" BY <1>1, <1>2, <1>4, <1>6, <1>7, <2>2, SMT
  <2> QED BY <2>1, <2>2
<1> QED BY <1>5, <1>7, <1>8, ResolveMoves, AnswerStays

\* A request between its first read and its answer, with the numbers it is judged by.
LEMMA ResolvingTypes ==
  ASSUME LimitInv, NEW q \in Resolver, resolve[q].at \in {"row", "owner", "set"}
  PROVE  /\ resolve[q] \in ResolveState /\ resolve[q] # NoResolve
         /\ resolve[q].began \in Nat /\ resolve[q].read \in Nat /\ resolve[q].ttl \in Nat
         /\ quotaClock \in QuotaTime /\ quotaClock \in Nat /\ changed \in Nat /\ planEnd \in Nat
         /\ override \in BOOLEAN
<1>1. resolve[q] \in ResolveState /\ resolve[q] # NoResolve
      BY SMT DEF LimitInv, LimitTypeOK, NoResolve
<1> QED BY <1>1, QuotaLimitsAssumption, SMT DEF LimitInv, LimitTypeOK, ResolveState, QuotaTime

\* The administrator's row is read.
LEMMA ReadRowStep ==
  ASSUME LimitInv, NEW q \in Resolver, ReadRow(q)
  PROVE  LimitInv'
<1> DEFINE r == resolve[q]
           x == IF override
                THEN [at |-> "set", began |-> r.began, read |-> quotaClock, limit |-> "override",
                      ttl |-> QuotaTTL, failed |-> r.failed]
                ELSE [at |-> "owner", began |-> r.began, read |-> quotaClock, limit |-> r.limit,
                      ttl |-> r.ttl, failed |-> r.failed]
<1>1. /\ r \in ResolveState /\ r # NoResolve /\ r.began \in Nat /\ quotaClock \in QuotaTime
      /\ quotaClock \in Nat /\ changed \in Nat /\ planEnd \in Nat /\ override \in BOOLEAN
      BY ResolvingTypes DEF ReadRow
<1>2. x \in ResolveState
      BY <1>1, QuotaLimitsAssumption, SMT DEF ResolveState, Limit
<1>3. resolve'[q] = x
  <2>1. CASE override
    <3>1. resolve'[q] = [r EXCEPT !.at = "set", !.read = quotaClock, !.limit = "override",
                                  !.ttl = QuotaTTL]
          BY <2>1 DEF ReadRow, LimitInv, LimitTypeOK
    <3> QED BY <1>1, <2>1, <3>1 DEF ResolveState
  <2>2. CASE ~override
    <3>1. resolve'[q] = [r EXCEPT !.at = "owner", !.read = quotaClock]
          BY <2>2 DEF ReadRow, LimitInv, LimitTypeOK
    <3> QED BY <1>1, <2>2, <3>1 DEF ResolveState
  <2> QED BY <2>1, <2>2
<1>4. resolve' \in [Resolver -> ResolveState \cup {NoResolve}]
      /\ \A p \in Resolver \ {q} : resolve'[p] = resolve[p]
      BY <1>2, <1>3 DEF ReadRow, LimitInv, LimitTypeOK
<1>5. UNCHANGED <<quotaClock, config, limitCache>> BY DEF ReadRow
<1>6. r.began <= quotaClock /\ r.limit = "free" BY <1>1 DEF LimitInv, ResolveOK, ReadRow
<1>7. ResolveOK(q)'
  <2>1. CASE override
    <3>1. x.at = "set" /\ x.began = r.began /\ x.read = quotaClock /\ x.limit = "override" BY <2>1
    <3> HIDE DEF x
    <3> QED BY <1>1, <1>3, <1>5, <1>6, <2>1, <3>1, QuotaLimitsAssumption, SMT DEF ResolveOK, config
  <2>2. CASE ~override
    <3>1. x.at = "owner" /\ x.began = r.began /\ x.read = quotaClock /\ x.limit = r.limit BY <2>2
    <3> HIDE DEF x
    <3> QED BY <1>1, <1>3, <1>5, <1>6, <2>2, <3>1, QuotaLimitsAssumption, SMT DEF ResolveOK, config
  <2> QED BY <2>1, <2>2
<1> QED BY <1>4, <1>5, <1>7, ResolveMoves, AnswerStays

\* The owner's plan or tier is read.
LEMMA ReadOwnerStep ==
  ASSUME LimitInv, NEW q \in Resolver, ReadOwner(q)
  PROVE  LimitInv'
<1> DEFINE r == resolve[q]
           x == IF quotaClock < planEnd
                THEN [at |-> "set", began |-> r.began, read |-> r.read, limit |-> "plan",
                      ttl |-> PlanTTL, failed |-> r.failed]
                ELSE [at |-> "set", began |-> r.began, read |-> r.read, limit |-> "tier",
                      ttl |-> QuotaTTL, failed |-> r.failed]
<1>1. /\ r \in ResolveState /\ r # NoResolve /\ r.began \in Nat /\ r.read \in Nat
      /\ quotaClock \in Nat /\ changed \in Nat /\ planEnd \in Nat /\ override \in BOOLEAN
      BY ResolvingTypes DEF ReadOwner
<1>2. quotaClock < planEnd =>
        PlanTTL \in 0..QuotaTTL /\ quotaClock + PlanTTL <= planEnd
  <2> HAVE quotaClock < planEnd
  <2>1. planEnd - quotaClock \in Nat BY <1>1, SMT
  <2>2. PlanTTL \in Nat /\ PlanTTL <= QuotaTTL /\ PlanTTL <= planEnd - quotaClock
        BY <2>1, MinOfTwo, QuotaLimitsAssumption DEF PlanTTL
  <2> HIDE DEF PlanTTL
  <2> QED BY <1>1, <2>2, QuotaLimitsAssumption, SMT
<1> HIDE DEF PlanTTL
<1>3. x \in ResolveState
      BY <1>1, <1>2, QuotaLimitsAssumption, SMT DEF ResolveState, Limit
<1>4. resolve'[q] = x
  <2>1. CASE quotaClock < planEnd
    <3>1. resolve'[q] = [r EXCEPT !.at = "set", !.limit = "plan", !.ttl = PlanTTL]
          BY <2>1 DEF ReadOwner, LimitInv, LimitTypeOK
    <3> QED BY <1>1, <2>1, <3>1 DEF ResolveState
  <2>2. CASE ~(quotaClock < planEnd)
    <3>1. resolve'[q] = [r EXCEPT !.at = "set", !.limit = "tier", !.ttl = QuotaTTL]
          BY <2>2 DEF ReadOwner, LimitInv, LimitTypeOK
    <3> QED BY <1>1, <2>2, <3>1 DEF ResolveState
  <2> QED BY <2>1, <2>2
<1>5. resolve' \in [Resolver -> ResolveState \cup {NoResolve}]
      /\ \A p \in Resolver \ {q} : resolve'[p] = resolve[p]
      BY <1>3, <1>4 DEF ReadOwner, LimitInv, LimitTypeOK
<1>6. UNCHANGED <<quotaClock, config, limitCache>> BY DEF ReadOwner
<1>7. /\ r.began <= r.read /\ r.read <= quotaClock /\ quotaClock <= r.read + QuotaDelay
      /\ override => r.read <= changed
      BY <1>1 DEF LimitInv, ResolveOK, ReadOwner
<1>8. ResolveOK(q)'
  <2>1. x.at = "set" /\ x.began = r.began /\ x.read = r.read OBVIOUS
  <2>2. CASE quotaClock < planEnd
    <3>1. x.limit = "plan" /\ x.ttl = PlanTTL BY <2>2
    <3> HIDE DEF x
    <3> QED BY <1>1, <1>2, <1>4, <1>6, <1>7, <2>1, <2>2, <3>1, QuotaLimitsAssumption, SMT
        DEF ResolveOK, config
  <2>3. CASE ~(quotaClock < planEnd)
    <3>1. x.limit = "tier" BY <2>3
    <3> HIDE DEF x
    <3> QED BY <1>1, <1>4, <1>6, <1>7, <2>1, <3>1, QuotaLimitsAssumption, SMT DEF ResolveOK, config
  <2> QED BY <2>2, <2>3
<1> QED BY <1>5, <1>6, <1>8, ResolveMoves, AnswerStays

\* A failed read gives the free limit to this request alone.
LEMMA ReadFailsStep ==
  ASSUME LimitInv, NEW q \in Resolver, ReadFails(q)
  PROVE  LimitInv'
<1> DEFINE r == resolve[q]
           x == [at |-> "resolved", began |-> r.began, read |-> 0, limit |-> r.limit,
                 ttl |-> r.ttl, failed |-> TRUE]
<1>1. r \in ResolveState /\ r # NoResolve /\ r.began \in Nat /\ quotaClock \in Nat
      BY ResolvingTypes DEF ReadFails
<1>2. x \in ResolveState BY <1>1, QuotaLimitsAssumption, SMT DEF ResolveState, QuotaTime
<1>3. resolve'[q] = x BY <1>1 DEF ReadFails, Fallback, LimitInv, LimitTypeOK, ResolveState
<1>4. resolve' \in [Resolver -> ResolveState \cup {NoResolve}]
      /\ \A p \in Resolver \ {q} : resolve'[p] = resolve[p]
      BY <1>2, <1>3 DEF ReadFails, LimitInv, LimitTypeOK
<1>5. UNCHANGED <<quotaClock, config, limitCache>> BY DEF ReadFails
<1>6. r.began <= quotaClock /\ r.limit = "free" BY <1>1 DEF LimitInv, ResolveOK, ReadFails
<1>7. x.at = "resolved" /\ x.began = r.began /\ x.limit = r.limit /\ x.failed OBVIOUS
<1> HIDE DEF x
<1>8. ResolveOK(q)' BY <1>1, <1>3, <1>5, <1>6, <1>7 DEF ResolveOK, config
<1> QED BY <1>4, <1>5, <1>8, ResolveMoves, AnswerStays

\* What was read is cached, unless that fails, and used.
LEMMA SetLimitStep ==
  ASSUME LimitInv, NEW q \in Resolver, SetLimit(q)
  PROVE  LimitInv'
<1> DEFINE r == resolve[q]
           x == [at |-> "resolved", began |-> r.began, read |-> 0, limit |-> r.limit,
                 ttl |-> 0, failed |-> r.failed]
<1>1. /\ r \in ResolveState /\ r # NoResolve /\ r.began \in Nat /\ r.read \in Nat /\ r.ttl \in Nat
      /\ quotaClock \in QuotaTime /\ quotaClock \in Nat /\ changed \in Nat /\ planEnd \in Nat
      BY ResolvingTypes DEF SetLimit
<1>2. x \in ResolveState BY <1>1, QuotaLimitsAssumption, SMT DEF ResolveState, QuotaTime
<1>3. resolve'[q] = x BY <1>1 DEF SetLimit, LimitInv, LimitTypeOK, ResolveState
<1>4. resolve' \in [Resolver -> ResolveState \cup {NoResolve}]
      /\ \A p \in Resolver \ {q} : resolve'[p] = resolve[p]
      BY <1>2, <1>3 DEF SetLimit, LimitInv, LimitTypeOK
<1>5. UNCHANGED <<quotaClock, config>> BY DEF SetLimit
<1>6. /\ r.began <= r.read /\ r.read <= quotaClock /\ quotaClock <= r.read + QuotaDelay
      /\ r.limit # "free" /\ r.ttl <= QuotaTTL /\ r.limit \in Limit
      /\ r.limit = "plan" => r.read + r.ttl <= planEnd /\ r.began < planEnd
      /\ (r.limit = "override" <=> override) \/ r.read <= changed
      BY <1>1, QuotaLimitsAssumption, SMT DEF LimitInv, ResolveOK, SetLimit, ResolveState
<1>7. x.at = "resolved" /\ x.began = r.began /\ x.limit = r.limit OBVIOUS
<1> HIDE DEF x
<1>8. ResolveOK(q)'
      BY <1>1, <1>3, <1>5, <1>6, <1>7, QuotaLimitsAssumption, SMT DEF ResolveOK, config
<1>9. AnswerOK' /\ limitCache' \in [limit : Limit, until : 0..(QuotaHorizon + QuotaTTL)]
  <2>1. CASE UNCHANGED limitCache BY <1>5, <2>1, AnswerStays
  <2>2. CASE limitCache' = [limit |-> r.limit, until |-> quotaClock + r.ttl]
    <3>1. limitCache' \in [limit : Limit, until : 0..(QuotaHorizon + QuotaTTL)]
          BY <1>1, <1>6, <2>2, QuotaLimitsAssumption, SMT DEF QuotaTime
    <3>2. limitCache'.limit = r.limit /\ limitCache'.until = quotaClock + r.ttl BY <2>2
    <3>3. AnswerOK'
          BY <1>1, <1>5, <1>6, <3>2, QuotaLimitsAssumption, SMT DEF AnswerOK, config
    <3> QED BY <3>1, <3>3
  <2> QED BY <2>1, <2>2 DEF SetLimit, LimitUntil
<1> QED BY <1>4, <1>5, <1>8, <1>9, ResolveMoves

\* The request goes on.
LEMMA UseLimitStep ==
  ASSUME LimitInv, NEW q \in Resolver, UseLimit(q)
  PROVE  LimitInv'
<1>1. resolve' \in [Resolver -> ResolveState \cup {NoResolve}] /\ resolve'[q] = NoResolve
      /\ \A p \in Resolver \ {q} : resolve'[p] = resolve[p]
      BY DEF UseLimit, LimitInv, LimitTypeOK
<1>2. UNCHANGED <<quotaClock, config, limitCache>> BY DEF UseLimit
<1>3. ResolveOK(q)' BY <1>1 DEF ResolveOK
<1> QED BY <1>1, <1>2, <1>3, ResolveMoves, AnswerStays

\* An empty cache is a cache.
LEMMA NoLimitType == NoLimit \in [limit : Limit, until : 0..(QuotaHorizon + QuotaTTL)]
<1>1. 0 \in 0..(QuotaHorizon + QuotaTTL) BY QuotaLimitsAssumption, SMT
<1> QED BY <1>1 DEF NoLimit, Limit

\* The console's changes make what was read before them old; a plan only grows; time
\* does not pass over a request that has delayed as long as it may.
LEMMA LimitMoves ==
  ASSUME LimitInv, ChangeOverride \/ BuyPlan \/ PurgeLimit \/ QuotaTick
  PROVE  LimitInv'
<1> USE QuotaLimitsAssumption
<1>1. /\ quotaClock \in Nat /\ changed \in Nat /\ planEnd \in Nat
      /\ limitCache.until \in Nat /\ limitCache.until <= quotaClock + QuotaTTL
      BY SMT DEF LimitInv, LimitTypeOK, QuotaTime, AnswerOK
<1>2. ASSUME NEW q \in Resolver, resolve[q] # NoResolve
      PROVE  resolve[q].began \in Nat /\ resolve[q].read \in Nat /\ resolve[q].ttl \in Nat
      BY <1>2, SMT DEF LimitInv, LimitTypeOK, ResolveState, QuotaTime
<1>3. CASE ChangeOverride \/ BuyPlan
  <2>1. /\ changed' = quotaClock /\ planEnd' \in Nat /\ planEnd <= planEnd'
        /\ UNCHANGED <<quotaClock, limitCache, resolve>>
        BY <1>1, <1>3, SMT DEF ChangeOverride, BuyPlan
  <2>2. LimitTypeOK'
        BY <1>3, <2>1 DEF ChangeOverride, BuyPlan, LimitInv, LimitTypeOK
  <2>3. AnswerOK' BY <1>1, <2>1, SMT DEF LimitInv, AnswerOK
  <2>4. ASSUME NEW q \in Resolver PROVE ResolveOK(q)'
    <3>1. CASE resolve[q] = NoResolve BY <2>1, <3>1 DEF ResolveOK
    <3>2. CASE resolve[q] # NoResolve
          BY <1>1, <1>2, <2>1, <3>2, SMT DEF LimitInv, ResolveOK
    <3> QED BY <3>1, <3>2
  <2> QED BY <2>2, <2>3, <2>4 DEF LimitInv
<1>4. CASE PurgeLimit
  <2>1. LimitTypeOK' BY <1>4, NoLimitType DEF PurgeLimit, LimitInv, LimitTypeOK
  <2>2. AnswerOK' BY <1>1, <1>4, SMT DEF PurgeLimit, AnswerOK, NoLimit
  <2>3. ASSUME NEW q \in Resolver PROVE ResolveOK(q)'
        BY <1>4 DEF PurgeLimit, LimitInv, ResolveOK
  <2> QED BY <2>1, <2>2, <2>3 DEF LimitInv
<1>5. CASE QuotaTick
  <2>1. quotaClock' = quotaClock + 1 /\ UNCHANGED <<config, limitCache, resolve>>
        BY <1>5 DEF QuotaTick
  <2>2. LimitTypeOK' BY <1>1, <1>5, SMT DEF QuotaTick, LimitInv, LimitTypeOK, QuotaTime, config
  <2>3. AnswerOK' BY <1>1, <2>1, SMT DEF LimitInv, AnswerOK, config
  <2>4. ASSUME NEW q \in Resolver PROVE ResolveOK(q)'
    <3>1. CASE resolve[q] = NoResolve BY <2>1, <3>1 DEF ResolveOK
    <3>2. CASE resolve[q] # NoResolve
          BY <1>1, <1>2, <1>5, <2>1, <3>2, SMT DEF QuotaTick, LimitInv, ResolveOK, config
    <3> QED BY <3>1, <3>2
  <2> QED BY <2>2, <2>3, <2>4 DEF LimitInv
<1> QED BY <1>3, <1>4, <1>5

\* The invariant is inductive.
THEOREM LimitInvariant == LimitSpec => []LimitInv
<1>1. ASSUME LimitInit PROVE LimitInv
  <2>1. LimitTypeOK
    <3>1. resolve \in [Resolver -> ResolveState \cup {NoResolve}] BY <1>1 DEF LimitInit
    <3>2. quotaClock \in QuotaTime /\ changed \in QuotaTime
          BY <1>1, QuotaLimitsAssumption, SMT DEF LimitInit, QuotaTime
    <3>3. override \in BOOLEAN /\ stale \in BOOLEAN /\ planEnd \in PlanEnds \cup {0}
          BY <1>1, Zenon DEF LimitInit
    <3>4. limitCache \in [limit : Limit, until : 0..(QuotaHorizon + QuotaTTL)]
          BY <1>1, NoLimitType DEF LimitInit
    <3> QED BY <3>1, <3>2, <3>3, <3>4 DEF LimitTypeOK
  <2>2. AnswerOK BY <1>1, QuotaLimitsAssumption, SMT DEF LimitInit, AnswerOK, NoLimit
  <2>3. ASSUME NEW q \in Resolver PROVE ResolveOK(q) BY <1>1 DEF LimitInit, ResolveOK
  <2> QED BY <2>1, <2>2, <2>3 DEF LimitInv
<1>2. LimitInv /\ [LimitNext]_limitVars => LimitInv'
  <2>1. ASSUME LimitInv, UNCHANGED limitVars PROVE LimitInv'
        BY <2>1 DEF limitVars, config, LimitInv, LimitTypeOK, AnswerOK, ResolveOK
  <2> QED BY <2>1, GetLimitStep, ReadRowStep, ReadOwnerStep, ReadFailsStep, SetLimitStep,
             UseLimitStep, LimitMoves DEF LimitNext
<1> QED BY <1>1, <1>2, PTL DEF LimitSpec

\* A cached limit does not outlive the subscription it came from (planCacheTTL).
THEOREM PlansNotOutlived == LimitSpec => []PlanNotOutlived
<1>1. LimitInv => PlanNotOutlived
      BY SMT DEF LimitInv, ResolveOK, PlanNotOutlived, Resolved, NoResolve
<1> QED BY <1>1, LimitInvariant, PTL

\* What the console changed takes hold within QuotaTTL and the delay of a request that
\* had read the rows before it, and the free limit of a failed read is not cached
\* (freeOrgQuotaLimits).
THEOREM ChangesTakeHold == LimitSpec => []ChangeTakesHold
<1>1. ASSUME LimitInv, NEW q \in Resolver, resolve[q].at = "resolved",
             resolve[q].began > changed + QuotaDelay + QuotaTTL
      PROVE  resolve[q].failed \/ (resolve[q].limit = "override" <=> override)
  <2>1. resolve[q] # NoResolve /\ resolve[q] \in ResolveState
        BY <1>1, SMT DEF LimitInv, LimitTypeOK, NoResolve
  <2>2. resolve[q].began \in Nat /\ changed \in Nat
        BY <1>1, <2>1, QuotaLimitsAssumption, SMT DEF LimitInv, LimitTypeOK, ResolveState, QuotaTime
  <2> QED BY <1>1, <2>1, <2>2, QuotaLimitsAssumption, SMT DEF LimitInv, ResolveOK
<1>2. ASSUME LimitInv, NEW q \in Resolver, Resolved(q, "free") PROVE resolve[q].failed
      BY <1>2, SMT DEF LimitInv, ResolveOK, Resolved, NoResolve
<1>3. LimitInv => ChangeTakesHold BY <1>1, <1>2 DEF ChangeTakesHold
<1> QED BY <1>3, LimitInvariant, PTL
=============================================================================
