------------------------------- MODULE KeyAuth -------------------------------
(***************************************************************************)
(* authenticateRequest (main.go): an API key is looked up through a        *)
(* process-wide cache of positive and negative answers, and an             *)
(* organisation key is authorised anew on every request. The console       *)
(* creates and deletes keys and changes memberships meanwhile.             *)
(***************************************************************************)
EXTENDS Naturals, FiniteSets

CONSTANTS
  Key,            \* API keys, each of one user
  OrgKey,         \* the keys that belong to an organisation
  Caller,         \* concurrent requests
  PositiveTTL, NegativeTTL,   \* authCachePositiveTTL, authCacheNegativeTTL
  MaxEntries,     \* authCacheMaxEntries
  AuthHorizon     \* bound on time

ASSUME KeyAuthAssumption ==
  OrgKey \subseteq Key /\ {PositiveTTL, NegativeTTL, MaxEntries, AuthHorizon} \subseteq Nat

VARIABLES
  clock,
  issued, deleted,  \* when a key's row was created and deleted; Never before it
  member,           \* users an organisation admits now (membership, owner and seats)
  authCache,        \* the cached keys: [ok, expiresAt]
  call              \* what each request's authentication is doing

authVars == <<clock, issued, deleted, member, authCache, call>>

Never == AuthHorizon + 1
Time == 0..AuthHorizon
Entry == [ok : BOOLEAN, expiresAt : 0..(AuthHorizon + PositiveTTL + NegativeTTL)]
NoCall == [at |-> "idle"]
\* start is the time.Now() of authenticateRequest; admitted is history: the
\* organisation admitted the user at some moment since the request began.
Call == [at : {"lookup", "put", "authorize", "accepted", "refused"},
         key : Key, start : Time, found : BOOLEAN, admitted : BOOLEAN]

\* Requests, times and the cache keep their shape, and the cache its bound.
AuthTypeOK ==
  /\ clock \in Time
  /\ issued \in [Key -> Time \cup {Never}] /\ deleted \in [Key -> Time \cup {Never}]
  /\ member \subseteq OrgKey
  /\ DOMAIN authCache \subseteq Key /\ authCache \in [DOMAIN authCache -> Entry]
  /\ Cardinality(DOMAIN authCache) <= MaxEntries
  /\ call \in [Caller -> Call \cup {NoCall}]

AuthInit ==
  /\ clock = 0
  /\ issued = [k \in Key |-> IF k \in OrgKey THEN 0 ELSE Never]  \* an organisation has its keys
  /\ deleted = [k \in Key |-> Never]
  /\ member \in SUBSET OrgKey
  /\ authCache = << >>
  /\ call = [c \in Caller |-> NoCall]

Stored(k) == issued[k] # Never /\ deleted[k] = Never

-----------------------------------------------------------------------------
(* authenticateRequest *)

Hit(k) == k \in DOMAIN authCache /\ clock <= authCache[k].expiresAt

AfterHit(k) == IF authCache[k].ok THEN "authorize" ELSE "refused"

\* authCacheGet
Begin(c, k) ==
  /\ call[c] = NoCall
  /\ call' = [call EXCEPT ![c] =
       [at |-> IF Hit(k) THEN AfterHit(k) ELSE "lookup",
        key |-> k, start |-> clock, found |-> FALSE, admitted |-> k \in member]]
  /\ UNCHANGED <<clock, issued, deleted, member, authCache>>

\* lookupAPIKey
LookUp(c) ==
  /\ call[c].at = "lookup"
  /\ call' = [call EXCEPT ![c].at = "put", ![c].found = Stored(call[c].key)]
  /\ UNCHANGED <<clock, issued, deleted, member, authCache>>

\* Variant of Expiry: a known key's lifetime counts from the moment it is cached.
ExpiryWhenPut(c) ==
  IF call[c].found THEN clock + PositiveTTL ELSE call[c].start + NegativeTTL

Expiry(c) == call[c].start + (IF call[c].found THEN PositiveTTL ELSE NegativeTTL)

\* The entries a full cache keeps to admit a new one.
Kept(k) ==
  IF k \notin DOMAIN authCache /\ Cardinality(DOMAIN authCache) >= MaxEntries
  THEN {j \in DOMAIN authCache : clock <= authCache[j].expiresAt}
  ELSE DOMAIN authCache

Fits(k) == k \in Kept(k) \/ Cardinality(Kept(k)) < MaxEntries

\* authCachePut, then the answer.
Put(c) ==
  LET k == call[c].key
      all == IF Fits(k) THEN Kept(k) \cup {k} ELSE Kept(k)
  IN  /\ call[c].at = "put"
      /\ authCache' = [j \in all |->
           IF j = k THEN [ok |-> call[c].found, expiresAt |-> Expiry(c)] ELSE authCache[j]]
      /\ call' = [call EXCEPT ![c].found = FALSE,
                              ![c].at = IF call[c].found THEN "authorize" ELSE "refused"]
      /\ UNCHANGED <<clock, issued, deleted, member>>

\* authorizeOrganizationIdentity
Authorize(c) ==
  /\ call[c].at = "authorize"
  /\ call' = [call EXCEPT ![c].at =
       IF call[c].key \in OrgKey => call[c].key \in member THEN "accepted" ELSE "refused"]
  /\ UNCHANGED <<clock, issued, deleted, member, authCache>>

\* The database fails or the five seconds pass: 503, and nothing is cached.
DependencyFails(c) ==
  /\ \/ call[c].at = "lookup"
     \/ call[c].at = "authorize" /\ call[c].key \in OrgKey
  /\ call' = [call EXCEPT ![c] = NoCall]
  /\ UNCHANGED <<clock, issued, deleted, member, authCache>>

\* The request goes on, or is answered.
Leave(c) ==
  /\ call[c].at \in {"accepted", "refused"}
  /\ call' = [call EXCEPT ![c] = NoCall]
  /\ UNCHANGED <<clock, issued, deleted, member, authCache>>

-----------------------------------------------------------------------------
(* The console, and time *)

Issue(k) ==
  /\ issued[k] = Never
  /\ issued' = [issued EXCEPT ![k] = clock]
  /\ UNCHANGED <<clock, deleted, member, authCache, call>>

Revoke(k) ==
  /\ Stored(k)
  /\ deleted' = [deleted EXCEPT ![k] = clock]
  /\ UNCHANGED <<clock, issued, member, authCache, call>>

SetMember(k) ==
  /\ member' = IF k \in member THEN member \ {k} ELSE member \cup {k}
  /\ call' = [c \in Caller |->
       IF call[c] # NoCall /\ call[c].key = k /\ k \in member'
       THEN [call[c] EXCEPT !.admitted = TRUE] ELSE call[c]]
  /\ UNCHANGED <<clock, issued, deleted, authCache>>

Pass ==
  /\ clock < AuthHorizon
  /\ clock' = clock + 1
  /\ UNCHANGED <<issued, deleted, member, authCache, call>>

-----------------------------------------------------------------------------
AuthNext ==
  \/ \E c \in Caller :
       \/ \E k \in Key : Begin(c, k)
       \/ LookUp(c) \/ Put(c) \/ Authorize(c) \/ DependencyFails(c) \/ Leave(c)
  \/ \E k \in Key : Issue(k) \/ Revoke(k)
  \/ \E k \in OrgKey : SetMember(k)
  \/ Pass

AuthSpec == AuthInit /\ [][AuthNext]_authVars

-----------------------------------------------------------------------------
(* Properties *)

\* "封禁 / 删除 / 重置 key 的撤销延迟最多 30 秒" (a revocation takes at most thirty
\* seconds): a request that begins later than PositiveTTL after the deletion of its key
\* is not accepted, whichever concurrent lookups fill the cache, and in which order.
RevocationBounded ==
  \A c \in Caller : call[c].at = "accepted" =>
    call[c].start <= deleted[call[c].key] + PositiveTTL

\* "负缓存 TTL 5s": a key refused as unknown, though its row exists, was created at
\* most NegativeTTL before the request began; a late negative answer does not hide it
\* for longer. (An organisation may still refuse its user.)
CreationBounded ==
  \A c \in Caller : call[c].at = "refused" /\ call[c].key \notin OrgKey /\ Stored(call[c].key) =>
    call[c].start <= issued[call[c].key] + NegativeTTL

\* authorizeOrganizationIdentity "故意不使用 authCache" (deliberately bypasses the cache):
\* an organisation key is accepted only for a user whom the organisation admitted at
\* some moment while the request was being authenticated.
MembershipFresh ==
  \A c \in Caller : call[c].at = "accepted" /\ call[c].key \in OrgKey => call[c].admitted

\* What changes behind the cache takes hold in the time its comments promise: the
\* deletion of a key, its creation and the memberships of an organisation, although
\* concurrent lookups read the rows before a change and fill the cache after it.
AuthFollowsRows == RevocationBounded /\ CreationBounded /\ MembershipFresh
=============================================================================
