----------------------------- MODULE QuotaLimits -----------------------------
(***************************************************************************)
(* getOrgQuotaLimits (quota.go): the limit of an organisation's pool is    *)
(* the administrator's, else what its owner inherits: the owner's plan     *)
(* while it lasts, else the owner's tier. The answer is cached in Redis,   *)
(* and the console deletes the cached answer after it changes a source.    *)
(* getUserDailyLimit and getUserIndexBytesLimit resolve a user's limits    *)
(* the same way.                                                           *)
(***************************************************************************)
EXTENDS Naturals, FiniteSetsExt

CONSTANTS
  Resolver,      \* concurrent requests of the organisation
  QuotaTTL,      \* quotaCacheTTL
  QuotaDelay,    \* how long a request may take from its first read to its write
  PlanEnds,      \* when a plan may end
  QuotaHorizon   \* bound on time

ASSUME QuotaLimitsAssumption ==
  {QuotaTTL, QuotaDelay, QuotaHorizon} \subseteq Nat /\ PlanEnds \subseteq Nat

VARIABLES
  quotaClock,
  override,     \* org_quotas has a limit
  planEnd,      \* when the owner's plan ends; 0 without one
  changed,      \* when the console last changed either
  stale,        \* the console has yet to delete the cached answer
  limitCache,   \* quota:limit:orgq:{org}
  resolve       \* getOrgQuotaLimits of each request

limitVars == <<quotaClock, override, planEnd, changed, stale, limitCache, resolve>>

QuotaTime == 0..QuotaHorizon
\* Where a limit comes from. The pool goes with it: the organisation's own for an
\* override and for the free default, the owner's for what is inherited.
Limit == {"override", "plan", "tier", "free"}
NoLimit == [limit |-> "free", until |-> 0]   \* keys live while quotaClock < until
NoResolve == [at |-> "idle"]
ResolveState == [at : {"row", "owner", "set", "resolved"}, began : QuotaTime,
                 read : QuotaTime, limit : Limit, ttl : 0..QuotaTTL, failed : BOOLEAN]

\* Resolutions, cached limits and times keep their shape.
LimitTypeOK ==
  /\ quotaClock \in QuotaTime /\ changed \in QuotaTime /\ planEnd \in PlanEnds \cup {0}
  /\ override \in BOOLEAN /\ stale \in BOOLEAN
  /\ limitCache \in [limit : Limit, until : 0..(QuotaHorizon + QuotaTTL)]
  /\ resolve \in [Resolver -> ResolveState \cup {NoResolve}]

LimitInit ==
  /\ quotaClock = 0 /\ changed = 0 /\ stale = FALSE
  /\ override = FALSE /\ planEnd \in PlanEnds \cup {0}
  /\ limitCache = NoLimit
  /\ resolve = [q \in Resolver |-> NoResolve]

config == <<override, planEnd, changed, stale>>

GetLimit(q) ==
  /\ resolve[q] = NoResolve
  /\ \E at \in {"row", "resolved"} :
       /\ at = "resolved" => quotaClock < limitCache.until
       /\ resolve' = [resolve EXCEPT ![q] =
            [at |-> at, began |-> quotaClock, read |-> 0, ttl |-> 0, failed |-> FALSE,
             limit |-> IF at = "resolved" THEN limitCache.limit ELSE "free"]]
  /\ UNCHANGED <<quotaClock, config, limitCache>>

\* The administrator's row, or the owner is asked.
ReadRow(q) ==
  /\ resolve[q].at = "row"
  /\ resolve' = [resolve EXCEPT ![q] =
       IF override
       THEN [@ EXCEPT !.at = "set", !.read = quotaClock, !.limit = "override", !.ttl = QuotaTTL]
       ELSE [@ EXCEPT !.at = "owner", !.read = quotaClock]]
  /\ UNCHANGED <<quotaClock, config, limitCache>>

\* Variant of PlanTTL: a plan's limit is kept as long as any other.
PlanTTLFixed == QuotaTTL

\* planCacheTTL
PlanTTL == Min({QuotaTTL, planEnd - quotaClock})

\* getOrgOwnerQuotaLimits
ReadOwner(q) ==
  /\ resolve[q].at = "owner"
  /\ resolve' = [resolve EXCEPT ![q] =
       IF quotaClock < planEnd
       THEN [@ EXCEPT !.at = "set", !.limit = "plan", !.ttl = PlanTTL]
       ELSE [@ EXCEPT !.at = "set", !.limit = "tier", !.ttl = QuotaTTL]]
  /\ UNCHANGED <<quotaClock, config, limitCache>>

\* freeOrgQuotaLimits, for this request only.
Fallback(r) == [r EXCEPT !.at = "resolved", !.read = 0, !.failed = TRUE]

\* Either read fails.
ReadFails(q) ==
  /\ resolve[q].at \in {"row", "owner"}
  /\ resolve' = [resolve EXCEPT ![q] = Fallback(@)]
  /\ UNCHANGED <<quotaClock, config, limitCache>>

\* Variant of LimitUntil: an administrator's limit is kept until the console deletes it.
LimitUntilDeleted(q) ==
  IF resolve[q].limit = "override" THEN QuotaHorizon + QuotaTTL ELSE quotaClock + resolve[q].ttl

LimitUntil(q) == quotaClock + resolve[q].ttl

\* The limit is cached unless its time is up, or Redis fails, and is used either way.
SetLimit(q) ==
  /\ resolve[q].at = "set"
  /\ \/ /\ resolve[q].ttl > 0
        /\ limitCache' = [limit |-> resolve[q].limit, until |-> LimitUntil(q)]
     \/ UNCHANGED limitCache
  /\ resolve' = [resolve EXCEPT ![q].at = "resolved", ![q].read = 0, ![q].ttl = 0]
  /\ UNCHANGED <<quotaClock, config>>

UseLimit(q) ==
  /\ resolve[q].at = "resolved"
  /\ resolve' = [resolve EXCEPT ![q] = NoResolve]
  /\ UNCHANGED <<quotaClock, config, limitCache>>

-----------------------------------------------------------------------------
(* The console, and time *)

ChangeOverride ==
  /\ ~stale
  /\ override' = ~override /\ changed' = quotaClock /\ stale' = TRUE
  /\ UNCHANGED <<quotaClock, planEnd, limitCache, resolve>>

BuyPlan ==
  /\ ~stale
  /\ \E e \in PlanEnds : e > quotaClock /\ e > planEnd /\ planEnd' = e
  /\ changed' = quotaClock /\ stale' = TRUE
  /\ UNCHANGED <<quotaClock, override, limitCache, resolve>>

PurgeLimit ==
  /\ stale
  /\ stale' = FALSE /\ limitCache' = NoLimit
  /\ UNCHANGED <<quotaClock, override, planEnd, changed, resolve>>

QuotaTick ==
  /\ quotaClock < QuotaHorizon
  /\ \A q \in Resolver :
       resolve[q].at \in {"owner", "set"} => quotaClock < resolve[q].read + QuotaDelay
  /\ quotaClock' = quotaClock + 1
  /\ UNCHANGED <<config, limitCache, resolve>>

LimitNext ==
  \/ \E q \in Resolver : \/ GetLimit(q) \/ ReadRow(q) \/ ReadOwner(q) \/ ReadFails(q)
                         \/ SetLimit(q) \/ UseLimit(q)
  \/ ChangeOverride \/ BuyPlan \/ PurgeLimit \/ QuotaTick

LimitSpec == LimitInit /\ [][LimitNext]_limitVars

-----------------------------------------------------------------------------
(* Properties *)

Resolved(q, l) == resolve[q].at = "resolved" /\ resolve[q].limit = l

\* planCacheTTL "保证最终配额缓存绝不跨过订阅到期时间" (a cached limit never outlives the
\* subscription): a request that begins after the plan's end, and after the delay of
\* one that was resolving it then, is not given the plan's limit.
PlanNotOutlived ==
  \A q \in Resolver : Resolved(q, "plan") => resolve[q].began < planEnd + QuotaDelay

\* What the console changed takes hold: whichever requests read the rows before the
\* change and write the cache after the console deleted the answer, a request that
\* begins QuotaTTL and their delay later has the limit now in force, or its own reads
\* failed. No other is given the free limit: "回退到独立的 Free 组织池且不写缓存" (fall
\* back to the free pool, and do not cache).
ChangeTakesHold ==
  \A q \in Resolver :
    /\ resolve[q].at = "resolved" /\ resolve[q].began > changed + QuotaDelay + QuotaTTL =>
         \/ resolve[q].failed
         \/ resolve[q].limit = "override" <=> override
    /\ Resolved(q, "free") => resolve[q].failed
=============================================================================
