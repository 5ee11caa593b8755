---------------------------- MODULE RequestQuota ----------------------------
(***************************************************************************)
(* The daily request quota (quota.go). A member's request counts against   *)
(* the member's own limit and the organisation's pool, which the owner's   *)
(* personal requests share. checkRequestQuotaDetailed fixes the day, looks *)
(* both limits up, and only then runs the script that checks and counts:   *)
(* other requests, midnight and changes of the limits fall in between.     *)
(***************************************************************************)
EXTENDS Integers, Sums

CONSTANTS
  Member,       \* the members of the organisation
  Owner,        \* its canonical owner, who also sends personal requests
  Slot,         \* the requests being admitted at one time
  MemberLimit,  \* the limits a member may have; 0 is none
  PoolLimit,    \* the limits the pool may have; 0 is none
  LastDay, MaxChanges, MaxRequests   \* bounds

ASSUME RequestQuotaAssumption ==
  /\ Owner \notin Member /\ IsFiniteSet(Member) /\ IsFiniteSet(Slot)
  /\ MemberLimit \subseteq Nat /\ PoolLimit \subseteq Nat
  /\ {LastDay, MaxChanges, MaxRequests} \subseteq Nat

VARIABLES
  day,          \* the calendar day of the relay's clock
  memberLimit, poolLimit,  \* the limits configured
  changes,      \* changes of limits so far
  memberUsed,   \* memberUsed[m][d]: quota:used:org:<org>:<user>:<day>
  poolUsed,     \* poolUsed[d]: quota:used:<pool>:<day>
  pending,      \* what each request fixed before its script
  sent,         \* requests sent so far
  admitted,     \* history: admitted[u][d], the requests a script let through
  ceilings      \* history: the limits ever in force

limits == <<memberLimit, poolLimit, changes, ceilings>>
counters == <<memberUsed, poolUsed, admitted>>
quotaVars == <<day, limits, counters, pending, sent>>

Day == 0..LastDay
User == Member \cup {Owner}
Unread == -1      \* a pool limit not looked up yet
NoRequest == [user |-> Owner, day |-> 0, member |-> 0, pool |-> -2]
Pending == [user : User, day : Day, member : MemberLimit \cup {0}, pool : PoolLimit \cup {Unread}]

\* Limits, counters and requests keep their shape.
QuotaTypeOK ==
  /\ day \in Day /\ changes \in 0..MaxChanges /\ sent \in 0..MaxRequests
  /\ memberLimit \in [Member -> MemberLimit] /\ poolLimit \in PoolLimit
  /\ memberUsed \in [Member -> [Day -> 0..MaxRequests]]
  /\ poolUsed \in [Day -> 0..MaxRequests]
  /\ pending \in [Slot -> Pending \cup {NoRequest}]
  /\ admitted \in [User -> [Day -> 0..MaxRequests]]
  /\ ceilings \in [pool : SUBSET PoolLimit, member : [Member -> SUBSET MemberLimit]]

QuotaInit ==
  /\ day = 0 /\ changes = 0 /\ sent = 0
  /\ memberLimit \in [Member -> MemberLimit] /\ poolLimit \in PoolLimit
  /\ memberUsed = [m \in Member |-> [d \in Day |-> 0]]
  /\ poolUsed = [d \in Day |-> 0]
  /\ pending = [r \in Slot |-> NoRequest]
  /\ admitted = [u \in User |-> [d \in Day |-> 0]]
  /\ ceilings = [pool |-> {poolLimit}, member |-> [m \in Member |-> {memberLimit[m]}]]

-----------------------------------------------------------------------------
\* checkRequestQuotaDetailed fixes the day and the member's limit, which a personal
\* request does not have.
Look(r, u) ==
  /\ pending[r] = NoRequest
  /\ sent < MaxRequests /\ sent' = sent + 1
  /\ pending' = [pending EXCEPT ![r] =
       [user |-> u, day |-> day, pool |-> Unread,
        member |-> IF u = Owner THEN 0 ELSE memberLimit[u]]]
  /\ UNCHANGED <<day, limits, counters>>

\* It then looks the limit of the pool up.
LookPool(r) ==
  /\ pending[r].pool = Unread
  /\ pending' = [pending EXCEPT ![r].pool = poolLimit]
  /\ UNCHANGED <<day, limits, counters, sent>>

\* Variant of MemberFits: a member may go one beyond the limit.
MemberFitsLoosely(q) == q.member > 0 => memberUsed[q.user][q.day] <= q.member

MemberFits(q) == q.member > 0 => memberUsed[q.user][q.day] < q.member

PoolFits(q) == q.pool > 0 => poolUsed[q.day] < q.pool

\* The counters the script increments.
CountMember(q) ==
  memberUsed' = IF q.member > 0 THEN [memberUsed EXCEPT ![q.user][q.day] = @ + 1] ELSE memberUsed
CountPool(q) ==
  poolUsed' = IF q.pool > 0 THEN [poolUsed EXCEPT ![q.day] = @ + 1] ELSE poolUsed

Ready(r) == pending[r].pool >= 0

\* Variant of Reserve: the member is counted before the pool is asked.
ReserveMemberFirst(r) ==
  /\ Ready(r)
  /\ LET q == pending[r]
     IN  /\ IF MemberFits(q) THEN CountMember(q) ELSE UNCHANGED memberUsed
         /\ IF MemberFits(q) /\ PoolFits(q)
            THEN CountPool(q) /\ admitted' = [admitted EXCEPT ![q.user][q.day] = @ + 1]
            ELSE UNCHANGED <<poolUsed, admitted>>
  /\ pending' = [pending EXCEPT ![r] = NoRequest]
  /\ UNCHANGED <<day, limits, sent>>

\* reserveRequestQuota: both limits are checked before either counter moves, and a
\* refusal moves neither.
Reserve(r) ==
  /\ Ready(r)
  /\ LET q == pending[r]
     IN  IF MemberFits(q) /\ PoolFits(q)
         THEN /\ CountMember(q) /\ CountPool(q)
              /\ admitted' = [admitted EXCEPT ![q.user][q.day] = @ + 1]
         ELSE UNCHANGED counters
  /\ pending' = [pending EXCEPT ![r] = NoRequest]
  /\ UNCHANGED <<day, limits, sent>>

\* The script did not run, or the member's limit could not be looked up: the request
\* is refused as unavailable, and nothing is counted.
ReserveFails(r) ==
  /\ pending[r] # NoRequest
  /\ pending' = [pending EXCEPT ![r] = NoRequest]
  /\ UNCHANGED <<day, limits, counters, sent>>

-----------------------------------------------------------------------------
(* The console, and time *)

ChangeMember(m) ==
  /\ changes < MaxChanges /\ changes' = changes + 1
  /\ \E n \in MemberLimit \ {memberLimit[m]} :
       /\ memberLimit' = [memberLimit EXCEPT ![m] = n]
       /\ ceilings' = [ceilings EXCEPT !.member[m] = @ \cup {n}]
  /\ UNCHANGED <<day, poolLimit, counters, pending, sent>>

ChangePool ==
  /\ changes < MaxChanges /\ changes' = changes + 1
  /\ \E n \in PoolLimit \ {poolLimit} :
       poolLimit' = n /\ ceilings' = [ceilings EXCEPT !.pool = @ \cup {n}]
  /\ UNCHANGED <<day, memberLimit, counters, pending, sent>>

Midnight ==
  /\ day < LastDay /\ day' = day + 1
  /\ UNCHANGED <<limits, counters, pending, sent>>

QuotaNext ==
  \/ \E r \in Slot : \/ \E u \in User : Look(r, u)
                     \/ LookPool(r) \/ Reserve(r) \/ ReserveFails(r)
  \/ \E m \in Member : ChangeMember(m)
  \/ ChangePool \/ Midnight

QuotaSpec == QuotaInit /\ [][QuotaNext]_quotaVars

-----------------------------------------------------------------------------
(* Properties *)

\* The requests let through on a day.
Admitted(d) == SumOf([u \in User |-> admitted[u][d]])

\* On no day are more requests of a member, or of the pool as a whole, let through
\* than some limit that was in force allows, whatever requests were between looking
\* a limit up and counting when it changed or when the day did: the script checks and
\* counts in one step (reserveRequestQuotaScript).
AdmittedWithinLimits ==
  \A d \in Day :
    /\ \A m \in Member : \E n \in ceilings.member[m] : n = 0 \/ admitted[m][d] <= n
    /\ \E n \in ceilings.pool : n = 0 \/ Admitted(d) <= n

\* A refusal consumes nothing: "避免组织池拒绝后仍消耗成员额度" (checkRequestQuotaDetailed).
\* No counter of a member runs ahead of the member's admitted requests, nor the pool's
\* ahead of all of them, and a limit that was always in force has counted every one;
\* the state keeps its shape.
CountersAreAdmissions ==
  /\ QuotaTypeOK
  /\ \A d \in Day :
       /\ \A m \in Member :
            /\ memberUsed[m][d] <= admitted[m][d]
            /\ 0 \notin ceilings.member[m] => memberUsed[m][d] = admitted[m][d]
       /\ poolUsed[d] <= Admitted(d)
       /\ 0 \notin ceilings.pool => poolUsed[d] = Admitted(d)
=============================================================================
