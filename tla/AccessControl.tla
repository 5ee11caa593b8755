---------------------------- MODULE AccessControl ----------------------------
(***************************************************************************)
(* isUserBanned (access_control.go) for one user: the verdict is cached in *)
(* Redis for bannedCacheTTL; the console writes banned_users and then      *)
(* deletes the cached verdict.                                             *)
(***************************************************************************)
EXTENDS Naturals

CONSTANTS
  Check,        \* concurrent requests of the user
  BanTTL,       \* bannedCacheTTL
  BanDelay,     \* how long a request may take from its read to its write of the cache
  BanHorizon    \* bound on time

ASSUME BanAssumption == {BanTTL, BanDelay, BanHorizon} \subseteq Nat

VARIABLES
  banClock,
  banned,       \* banned_users has the user
  since,        \* when that last changed
  purge,        \* the console has yet to delete the cached verdict
  banCache,     \* banned:{user}: the verdict, and until when it is kept
  check         \* isUserBanned of each request

banVars == <<banClock, banned, since, purge, banCache, check>>

BanTime == 0..BanHorizon
NoVerdict == [banned |-> FALSE, until |-> 0]   \* keys live while banClock < until
NoCheck == [at |-> "idle"]
CheckState == [at : {"read", "set", "answered"}, began : BanTime, read : BanTime,
               verdict : BOOLEAN, failed : BOOLEAN]

\* Checks, verdicts and times keep their shape.
BanTypeOK ==
  /\ banClock \in BanTime /\ since \in BanTime
  /\ banned \in BOOLEAN /\ purge \in BOOLEAN
  /\ banCache \in [banned : BOOLEAN, until : 0..(BanHorizon + BanTTL)]
  /\ check \in [Check -> CheckState \cup {NoCheck}]

BanInit ==
  /\ banClock = 0 /\ banned = FALSE /\ since = 0 /\ purge = FALSE
  /\ banCache = NoVerdict
  /\ check = [c \in Check |-> NoCheck]

\* A live verdict answers; without one, or when Redis fails, the table is read.
GetVerdict(c) ==
  /\ check[c] = NoCheck
  /\ \E at \in {"read", "answered"} :
       /\ at = "answered" => banClock < banCache.until
       /\ check' = [check EXCEPT ![c] =
            [at |-> at, began |-> banClock, read |-> 0,
             verdict |-> at = "answered" /\ banCache.banned, failed |-> FALSE]]
  /\ UNCHANGED <<banClock, banned, since, purge, banCache>>

ReadBan(c) ==
  /\ check[c].at = "read"
  /\ check' = [check EXCEPT ![c].at = "set", ![c].verdict = banned, ![c].read = banClock]
  /\ UNCHANGED <<banClock, banned, since, purge, banCache>>

\* "DB 故障时放行": the database fails and the request passes.
ReadBanFails(c) ==
  /\ check[c].at = "read"
  /\ check' = [check EXCEPT ![c].at = "answered", ![c].failed = TRUE]
  /\ UNCHANGED <<banClock, banned, since, purge, banCache>>

\* Variant of KeptUntil: a verdict is kept without end.
KeptUntilForever == BanHorizon + BanTTL

KeptUntil == banClock + BanTTL

\* The verdict is cached, or Redis fails, and is the answer either way.
SetVerdict(c) ==
  /\ check[c].at = "set"
  /\ \/ banCache' = [banned |-> check[c].verdict, until |-> KeptUntil]
     \/ UNCHANGED banCache
  /\ check' = [check EXCEPT ![c].at = "answered", ![c].read = 0]
  /\ UNCHANGED <<banClock, banned, since, purge>>

Answer(c) ==
  /\ check[c].at = "answered"
  /\ check' = [check EXCEPT ![c] = NoCheck]
  /\ UNCHANGED <<banClock, banned, since, purge, banCache>>

-----------------------------------------------------------------------------
(* The console, and time *)

ChangeBan ==
  /\ ~purge
  /\ banned' = ~banned /\ since' = banClock /\ purge' = TRUE
  /\ UNCHANGED <<banClock, banCache, check>>

PurgeVerdict ==
  /\ purge
  /\ purge' = FALSE /\ banCache' = NoVerdict
  /\ UNCHANGED <<banClock, banned, since, check>>

BanTick ==
  /\ banClock < BanHorizon
  /\ \A c \in Check : check[c].at = "set" => banClock < check[c].read + BanDelay
  /\ banClock' = banClock + 1
  /\ UNCHANGED <<banned, since, purge, banCache, check>>

BanNext ==
  \/ \E c \in Check : \/ GetVerdict(c) \/ ReadBan(c) \/ ReadBanFails(c)
                      \/ SetVerdict(c) \/ Answer(c)
  \/ ChangeBan \/ PurgeVerdict \/ BanTick

BanSpec == BanInit /\ [][BanNext]_banVars

\* A verdict that contradicts the table comes from before the change: even when a
\* request that read the table before it writes the cache after the console deleted
\* the verdict, no request that begins BanTTL and that request's delay later is
\* answered wrongly, unless its own read failed (isUserBanned, bannedCacheTTL).
BanBounded ==
  \A c \in Check :
    check[c].at = "answered" /\ check[c].verdict # banned /\ ~check[c].failed =>
      check[c].began <= since + BanDelay + BanTTL
=============================================================================
