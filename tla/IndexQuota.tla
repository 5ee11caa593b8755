----------------------------- MODULE IndexQuota -----------------------------
(***************************************************************************)
(* The daily index-byte quota (quota.go, swift_quota.go).                   *)
(*                                                                         *)
(* Before a batch of files or a part of a Swift upload goes to LCE its      *)
(* bytes are charged to the tenant's pool.  A charge has two halves that    *)
(* other callers can fall between: the limit and the pool are resolved from *)
(* PostgreSQL and its Redis cache, and a Lua script then checks the limit,  *)
(* charges what its ledger has not seen and records it, atomically.  The    *)
(* reply of a script may be lost; the client then sends the same batch or   *)
(* part again, in another batch, by another handler, or on another day.     *)
(*                                                                         *)
(* Days are the quota's calendar days.  Redis keys outlive the day they     *)
(* count by more than the days modelled here, so none expires.              *)
(***************************************************************************)
EXTENDS Integers, Sums

CONSTANTS
    Payer,       \* the tenants charged
    Pool,        \* the quota pools: organisations and the owners they inherit from
    File,        \* file identities of one root: path, content hash and size
    Part,        \* part numbers of the Swift upload job of a tenant
    Token,       \* contents a client may send for a part
    Bytes,       \* the size of each file and token
    ByteLimit,   \* the daily limits a plan may carry; 0 is unlimited
    Charger,     \* the concurrent handlers that charge
    Idle,        \* a caller that charges nothing
    Absent,      \* no token recorded for a part
    LastDate,    \* days 0 .. LastDate
    MaxReplans   \* how often a tenant's pool or limit changes

ASSUME QuotaAssumption ==
    /\ IsFiniteSet(Payer) /\ IsFiniteSet(Pool) /\ IsFiniteSet(File) /\ IsFiniteSet(Part)
    /\ Bytes \in [File \cup Token -> Nat]
    /\ ByteLimit \subseteq Nat
    /\ LastDate \in Nat
    /\ MaxReplans \in Nat
    /\ Absent \notin Token

VARIABLES
    date,        \* the calendar day of the relay's clock
    plan,        \* plan[t]: the pool and limit the database holds for a tenant
    replans,     \* changes of plan so far
    used,        \* used[p][d]: quota:indexbytes:<pool>:<day>
    seen,        \* seen[t][d]: quota:indexfiles:<tenant>:<day>:<root>
    ledger,      \* ledger[t][i]: quota:swift-parts:<tenant>:<job>, one field per part
    call,        \* call[c]: what a caller resolved and is about to charge
    inForce      \* history: inForce[p], the limits a pool has ever carried

bytesVars == <<date, plan, replans, used, seen, ledger, call, inForce>>

Date == 0 .. LastDate
Plan == [pool: Pool, limit: ByteLimit]
Total(S) == SumOf([x \in S |-> Bytes[x]])

FilesCall ==
    [kind: {"files"}, tenant: Payer, files: SUBSET File, plan: Plan, since: Date]
PartCall ==
    [kind: {"part"}, tenant: Payer, part: Part, token: Token, plan: Plan, since: Date]

\* Every variable has its type: the counters are natural numbers and no
\* part is recorded with a content no client sent.
BytesTypeOK ==
    /\ date \in Date
    /\ plan \in [Payer -> Plan]
    /\ replans \in 0 .. MaxReplans
    /\ used \in [Pool -> [Date -> Nat]]
    /\ seen \in [Payer -> [Date -> SUBSET {f \in File : Bytes[f] > 0}]]
    /\ ledger \in [Payer -> [Part -> Token \cup {Absent}]]
    /\ call \in [Charger -> {Idle} \cup FilesCall \cup PartCall]
    /\ inForce \in [Pool -> SUBSET ByteLimit]

BytesInit ==
    /\ date = 0
    /\ plan \in [Payer -> Plan]
    /\ replans = 0
    /\ used = [p \in Pool |-> [d \in Date |-> 0]]
    /\ seen = [t \in Payer |-> [d \in Date |-> {}]]
    /\ ledger = [t \in Payer |-> [i \in Part |-> Absent]]
    /\ call = [c \in Charger |-> Idle]
    /\ inForce = [p \in Pool |-> {plan[t].limit : t \in {u \in Payer : plan[u].pool = p}}]

-----------------------------------------------------------------------------
(* Resolving *)

\* chargeIndexFiles up to its script.  Empty batches and unlimited pools are
\* allowed without a script: the latter are not counted at all.
ResolveFiles(c, t, files) ==
    /\ call[c] = Idle
    /\ Total(files) > 0
    /\ plan[t].limit > 0
    /\ call' = [call EXCEPT ![c] = [kind |-> "files", tenant |-> t, files |-> files,
                                    plan |-> plan[t], since |-> date]]
    /\ UNCHANGED <<date, plan, replans, used, seen, ledger, inForce>>

\* reserveSwiftUpload: an empty part is refused; an unlimited pool is counted
\* all the same.
ResolvePart(c, t, i, token) ==
    /\ call[c] = Idle
    /\ Bytes[token] > 0
    /\ call' = [call EXCEPT ![c] = [kind |-> "part", tenant |-> t, part |-> i, token |-> token,
                                    plan |-> plan[t], since |-> date]]
    /\ UNCHANGED <<date, plan, replans, used, seen, ledger, inForce>>

-----------------------------------------------------------------------------
(* The scripts *)

Return(c) == call' = [call EXCEPT ![c] = Idle]

\* Variant of Unseen: the script records empty files too.
UnseenOrEmpty(t, d, files) == files \ seen[t][d]

\* The files of a batch that today's ledger of the root has not seen.
Unseen(t, d, files) == {f \in files : Bytes[f] > 0 /\ f \notin seen[t][d]}

\* A check of what is used rather than of what would be.
FitsBefore(p, d, n, limit) == used[p][d] <= limit

\* Whether n more bytes fit a positive limit.
Fits(p, d, n, limit) == used[p][d] + n <= limit

\* Deduplication by content instead of by part.
RecordedContent(t, i, token) == ledger[t][i] = token

\* A part that was charged before, whatever its content was.
Recorded(t, i, token) == ledger[t][i] # Absent

\* reserveFilesScript.  The day is read between resolving and the script.
ChargeFiles(c) ==
    /\ call[c] # Idle
    /\ call[c].kind = "files"
    /\ \E d \in call[c].since .. date :
          LET t == call[c].tenant
              p == call[c].plan.pool
              new == Unseen(t, d, call[c].files)
          IN  IF Fits(p, d, Total(new), call[c].plan.limit)
              THEN /\ used' = [used EXCEPT ![p][d] = @ + Total(new)]
                   /\ seen' = [seen EXCEPT ![t][d] = @ \cup new]
              ELSE UNCHANGED <<used, seen>>
    /\ Return(c)
    /\ UNCHANGED <<date, plan, replans, ledger, inForce>>

\* The script of chargeSwiftPart.  A recorded part is charged no more: the
\* same content is allowed again, other content is a conflict.
ChargePart(c) ==
    /\ call[c] # Idle
    /\ call[c].kind = "part"
    /\ \E d \in call[c].since .. date :
          LET t == call[c].tenant
              i == call[c].part
              p == call[c].plan.pool
              n == Bytes[call[c].token]
              limit == call[c].plan.limit
          IN  IF ~Recorded(t, i, call[c].token) /\ (limit = 0 \/ Fits(p, d, n, limit))
              THEN /\ used' = [used EXCEPT ![p][d] = @ + n]
                   /\ ledger' = [ledger EXCEPT ![t][i] = call[c].token]
              ELSE UNCHANGED <<used, ledger>>
    /\ Return(c)
    /\ UNCHANGED <<date, plan, replans, seen, inForce>>

\* The script never reached Redis, or the context ended first: unavailable.
ChargeFails(c) ==
    /\ call[c] # Idle
    /\ Return(c)
    /\ UNCHANGED <<date, plan, replans, used, seen, ledger, inForce>>

-----------------------------------------------------------------------------
(* The environment *)

\* An administrator, an expiring plan or a new owner changes what
\* resolveIndexBytesQuota returns for a tenant.
Replan(t) ==
    /\ replans < MaxReplans
    /\ replans' = replans + 1
    /\ \E q \in Plan \ {plan[t]} :
          /\ plan' = [plan EXCEPT ![t] = q]
          /\ inForce' = [inForce EXCEPT ![q.pool] = @ \cup {q.limit}]
    /\ UNCHANGED <<date, used, seen, ledger, call>>

NextDate ==
    /\ date < LastDate
    /\ date' = date + 1
    /\ UNCHANGED <<plan, replans, used, seen, ledger, call, inForce>>

BytesNext ==
    \/ NextDate
    \/ \E t \in Payer : Replan(t)
    \/ \E c \in Charger :
          \/ \E t \in Payer, files \in SUBSET File : ResolveFiles(c, t, files)
          \/ \E t \in Payer, i \in Part, token \in Token : ResolvePart(c, t, i, token)
          \/ ChargeFiles(c)
          \/ ChargePart(c)
          \/ ChargeFails(c)

BytesSpec == BytesInit /\ [][BytesNext]_bytesVars

-----------------------------------------------------------------------------
(* Properties *)

\* Every byte is charged once: over all pools and days, the counters hold the
\* bytes of exactly the identities in the ledgers, a file once per tenant and
\* day and a Swift part once although its retries span midnight, re-batching,
\* a lost reply or a change of pool ("a missing response never causes a
\* second reservation", swift_quota.go:137).
EveryByteOnce ==
    SumOf([x \in Pool \X Date |-> used[x[1]][x[2]]])
      = SumOf([x \in Payer \X Date |-> Total(seen[x[1]][x[2]])])
        + SumOf([x \in {y \in Payer \X Part : ledger[y[1]][y[2]] # Absent}
                   |-> Bytes[ledger[x[1]][x[2]]]])

\* What a pool has used of a day, some limit the pool has carried allows, however
\* the resolutions, changes of plan and scripts of the tenants that share it
\* interleave (the check and the increment are one script).
PoolWithinLimit ==
    \A p \in Pool, d \in Date :
        used[p][d] = 0 \/ \E n \in inForce[p] : n = 0 \/ used[p][d] <= n
=============================================================================
