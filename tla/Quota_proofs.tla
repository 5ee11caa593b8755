---------------------------- MODULE Quota_proofs ----------------------------
(***************************************************************************)
(* Proofs about what the quota counts: the index bytes (IndexQuota) and    *)
(* the requests (RequestQuota) of a day, for any number of handlers,       *)
(* tenants, pools and members, any sizes and limits and any horizon.       *)
(***************************************************************************)
EXTENDS RequestQuota, IndexQuota, FiniteSetTheorems, TLAPS

\* Zenon proves what a step does not ask SMT for.
USE Zenon

-----------------------------------------------------------------------------
(* Sums *)

\* What the units of a sum are.
LEMMA UnitsAre ==
  ASSUME NEW f, NEW u
  PROVE  u \in Units(f) <=> \E x \in DOMAIN f : \E i \in 1..f[x] : u = <<x, i>>
BY SMT DEF Units

\* A sum over a finite set is a natural number.
LEMMA SumFinite ==
  ASSUME NEW D, IsFiniteSet(D), NEW f \in [D -> Nat]
  PROVE  IsFiniteSet(Units(f)) /\ SumOf(f) \in Nat
<1> DEFINE at == [x \in D |-> {x} \X (1..f[x])]
           S == {{x} \X (1..f[x]) : x \in DOMAIN f}
<1>1. at \in Surjection(D, S) BY DEF Surjection
<1>2. IsFiniteSet(S) BY <1>1, FS_Surjection
<1>3. ASSUME NEW x \in D PROVE IsFiniteSet({x} \X (1..f[x]))
  <2>1. f[x] \in Int /\ 1 \in Int BY SMT
  <2>2. IsFiniteSet(1..f[x]) BY <2>1, FS_Interval
  <2>3. IsFiniteSet({x}) BY FS_Singleton
  <2> QED BY <2>2, <2>3, FS_Product
<1>4. \A T \in S : IsFiniteSet(T) BY <1>3
<1>5. IsFiniteSet(UNION S) BY <1>2, <1>4, FS_UNION
<1> QED BY <1>5, FS_CardinalityType DEF Units, SumOf

\* n numbers.
LEMMA Numbers ==
  ASSUME NEW a \in Nat, NEW n \in Nat
  PROVE  IsFiniteSet((a + 1)..(a + n)) /\ Cardinality((a + 1)..(a + n)) = n
<1>1. /\ IsFiniteSet((a + 1)..(a + n))
      /\ Cardinality((a + 1)..(a + n)) = IF a + 1 > a + n THEN 0 ELSE (a + n) - (a + 1) + 1
  BY FS_Interval, SMT
<1> QED BY <1>1, SMT

\* The units at one place.
LEMMA UnitsAt ==
  ASSUME NEW x, NEW I, IsFiniteSet(I)
  PROVE  IsFiniteSet({x} \X I) /\ Cardinality({x} \X I) = Cardinality(I)
<1>1. IsFiniteSet({x}) /\ Cardinality({x}) = 1 BY FS_Singleton
<1>2. Cardinality(I) \in Nat BY FS_CardinalityType
<1>3. IsFiniteSet({x} \X I) /\ Cardinality({x} \X I) = Cardinality({x}) * Cardinality(I)
  BY <1>1, FS_Product
<1> QED BY <1>1, <1>2, <1>3, SMT

\* Two disjoint sets of units.
LEMMA DisjointSum ==
  ASSUME NEW S, NEW T, IsFiniteSet(S), IsFiniteSet(T), S \cap T = {}
  PROVE  Cardinality(S \cup T) = Cardinality(S) + Cardinality(T)
<1>1. Cardinality(S \cap T) = 0 BY FS_EmptySet
<1>2. Cardinality(S) \in Nat /\ Cardinality(T) \in Nat BY FS_CardinalityType
<1>3. Cardinality(S \cup T) = Cardinality(S) + Cardinality(T) - Cardinality(S \cap T) BY FS_Union
<1> QED BY <1>1, <1>2, <1>3, SMT

\* One value of a sum rises.
LEMMA SumRises ==
  ASSUME NEW D, IsFiniteSet(D), NEW f \in [D -> Nat], NEW g \in [D -> Nat], NEW x \in D, NEW n \in Nat,
         g[x] = f[x] + n, \A y \in D \ {x} : g[y] = f[y]
  PROVE  SumOf(g) = SumOf(f) + n
<1> DEFINE new == {x} \X ((f[x] + 1)..(f[x] + n))
<1>1. f[x] \in Nat OBVIOUS
<1>2. IsFiniteSet(new) /\ Cardinality(new) = n BY <1>1, Numbers, UnitsAt
<1>3. ASSUME NEW u PROVE u \in Units(g) <=> u \in Units(f) \cup new
  <2>1. ASSUME NEW y \in D, NEW i \in 1..g[y], u = <<y, i>> PROVE u \in Units(f) \cup new
    <3>1. CASE i \in 1..f[y] BY <3>1, <2>1, UnitsAre
    <3>2. CASE i \notin 1..f[y]
      <4>1. y = x BY <3>2
      <4>2. i \in (f[x] + 1)..(f[x] + n) BY <3>2, <4>1, <1>1, SMT
      <4> QED BY <2>1, <4>1, <4>2
    <3> QED BY <3>1, <3>2
  <2>2. ASSUME NEW y \in D, NEW i \in 1..f[y], u = <<y, i>> PROVE u \in Units(g)
    <3>1. i \in 1..g[y] BY <1>1, SMT
    <3> QED BY <3>1, <2>2, UnitsAre
  <2>3. ASSUME u \in new PROVE u \in Units(g)
    <3>1. PICK i \in (f[x] + 1)..(f[x] + n) : u = <<x, i>> BY <2>3, SMT
    <3>2. i \in 1..g[x] BY <1>1, SMT
    <3> QED BY <3>1, <3>2, UnitsAre
  <2> HIDE DEF new
  <2> QED BY <2>1, <2>2, <2>3, UnitsAre, SMT
<1>4. Units(f) \cap new = {}
  <2> SUFFICES ASSUME NEW y \in D, NEW i \in 1..f[y], <<y, i>> \in new PROVE FALSE
    BY UnitsAre
  <2>1. y = x /\ i \in (f[x] + 1)..(f[x] + n) OBVIOUS
  <2> QED BY <2>1, <1>1, SMT
<1> HIDE DEF new
<1>5. Units(g) = Units(f) \cup new BY <1>3
<1>6. IsFiniteSet(Units(f)) BY SumFinite
<1> QED BY <1>2, <1>4, <1>5, <1>6, DisjointSum DEF SumOf

\* Sums over two disjoint sets add up.
LEMMA SumSplits ==
  ASSUME NEW D, NEW E, IsFiniteSet(D), IsFiniteSet(E), D \cap E = {},
         NEW f \in [D -> Nat], NEW g \in [E -> Nat], NEW h \in [D \cup E -> Nat],
         \A x \in D : h[x] = f[x], \A x \in E : h[x] = g[x]
  PROVE  SumOf(h) = SumOf(f) + SumOf(g)
<1>1. ASSUME NEW u PROVE u \in Units(h) <=> u \in Units(f) \cup Units(g)
  BY UnitsAre, SMT
<1>2. Units(f) \cap Units(g) = {}
  <2> SUFFICES ASSUME NEW x \in D, NEW i \in 1..f[x], <<x, i>> \in Units(g) PROVE FALSE
    BY UnitsAre, SMT
  <2>1. x \in E BY UnitsAre, SMT
  <2> QED BY <2>1
<1>3. Units(h) = Units(f) \cup Units(g) BY <1>1
<1>4. IsFiniteSet(Units(f)) /\ IsFiniteSet(Units(g)) BY SumFinite
<1> QED BY <1>2, <1>3, <1>4, DisjointSum DEF SumOf

\* A sum of nothing.
LEMMA SumOfZeros ==
  ASSUME NEW D, NEW f \in [D -> Nat], \A x \in D : f[x] = 0
  PROVE  SumOf(f) = 0
<1>1. Units(f) = {} BY UnitsAre, SMT
<1> QED BY <1>1, FS_EmptySet DEF SumOf

\* A sum of one value.
LEMMA SumOfOne ==
  ASSUME NEW x, NEW f \in [{x} -> Nat]
  PROVE  SumOf(f) = f[x]
<1>1. f[x] \in Nat OBVIOUS
<1>2. Units(f) = {x} \X (1..f[x]) BY <1>1 DEF Units
<1>3. IsFiniteSet(1..f[x]) /\ Cardinality(1..f[x]) = f[x] BY <1>1, FS_Interval, SMT
<1>4. Cardinality({x} \X (1..f[x])) = f[x] BY <1>3, UnitsAt
<1> QED BY <1>2, <1>4 DEF SumOf

\* A sum with one value more.
LEMMA SumExtends ==
  ASSUME NEW D, IsFiniteSet(D), NEW x, x \notin D, NEW E, E = D \cup {x},
         NEW f \in [D -> Nat], NEW h \in [E -> Nat], \A y \in D : h[y] = f[y]
  PROVE  SumOf(h) = SumOf(f) + h[x]
<1> DEFINE one == {x}
           g == [y \in one |-> h[x]]
<1>1. g \in [one -> Nat] /\ g[x] = h[x] /\ \A y \in one : h[y] = g[y] OBVIOUS
<1>2. SumOf(g) = h[x] BY <1>1, SumOfOne
<1>3. IsFiniteSet(one) /\ D \cap one = {} /\ h \in [D \cup one -> Nat] BY FS_Singleton
<1> HIDE DEF one, g
<1>4. SumOf(h) = SumOf(f) + SumOf(g) BY <1>1, <1>3, SumSplits, SMT
<1> QED BY <1>2, <1>4

-----------------------------------------------------------------------------
(* Index bytes of a day *)

\* A plan that is in the database or that a handler resolved has been in force.
PlansInForce ==
  /\ \A t \in Payer : plan[t].limit \in inForce[plan[t].pool]
  /\ \A c \in Charger : call[c] # Idle => call[c].plan.limit \in inForce[call[c].plan.pool]

BytesInv == BytesTypeOK /\ EveryByteOnce /\ PoolWithinLimit /\ PlansInForce

\* The three sums that EveryByteOnce compares.
Charged == [x \in Pool \X Date |-> used[x[1]][x[2]]]
Filed == [x \in Payer \X Date |-> Total(seen[x[1]][x[2]])]
Uploaded == {y \in Payer \X Part : ledger[y[1]][y[2]] # Absent}
Parted == [x \in Uploaded |-> Bytes[ledger[x[1]][x[2]]]]

\* The bytes of a set of files are a number.
LEMMA FileBytes ==
  ASSUME NEW S \in SUBSET File
  PROVE  Total(S) \in Nat
<1>1. IsFiniteSet(S) BY FS_Subset, QuotaAssumption
<1>2. [x \in S |-> Bytes[x]] \in [S -> Nat] BY QuotaAssumption
<1> QED BY <1>1, <1>2, SumFinite DEF Total

\* The bytes of two batches that share no file add up.
LEMMA MoreFiles ==
  ASSUME NEW S \in SUBSET File, NEW T \in SUBSET File, S \cap T = {}
  PROVE  Total(S \cup T) = Total(S) + Total(T)
<1>1. IsFiniteSet(S) /\ IsFiniteSet(T) BY FS_Subset, QuotaAssumption
<1> DEFINE f == [x \in S |-> Bytes[x]]
           g == [x \in T |-> Bytes[x]]
           h == [x \in S \cup T |-> Bytes[x]]
<1>2. f \in [S -> Nat] /\ g \in [T -> Nat] /\ h \in [S \cup T -> Nat] BY QuotaAssumption
<1>3. (\A x \in S : h[x] = f[x]) /\ (\A x \in T : h[x] = g[x]) OBVIOUS
<1> HIDE DEF f, g, h
<1>4. SumOf(h) = SumOf(f) + SumOf(g) BY <1>1, <1>2, <1>3, SumSplits, SMT
<1> QED BY <1>4 DEF f, g, h, Total

\* The places of the three sums are finite and their values are numbers.
LEMMA FiniteBytes ==
  ASSUME BytesTypeOK
  PROVE  /\ IsFiniteSet(Pool \X Date) /\ IsFiniteSet(Payer \X Date) /\ IsFiniteSet(Uploaded)
         /\ Charged \in [Pool \X Date -> Nat] /\ Filed \in [Payer \X Date -> Nat]
         /\ Parted \in [Uploaded -> Nat]
         /\ SumOf(Charged) \in Nat /\ SumOf(Filed) \in Nat /\ SumOf(Parted) \in Nat
<1>1. IsFiniteSet(Date) BY FS_Interval, QuotaAssumption, SMT DEF Date
<1>2. IsFiniteSet(Pool \X Date) /\ IsFiniteSet(Payer \X Date) /\ IsFiniteSet(Payer \X Part)
  BY <1>1, FS_Product, QuotaAssumption
<1>3. IsFiniteSet(Uploaded) BY <1>2, FS_Subset DEF Uploaded
<1>4. Charged \in [Pool \X Date -> Nat] BY SMT DEF Charged, BytesTypeOK
<1>5. Filed \in [Payer \X Date -> Nat]
  <2>1. ASSUME NEW x \in Payer \X Date PROVE Total(seen[x[1]][x[2]]) \in Nat
    <3>1. seen[x[1]][x[2]] \in SUBSET File BY SMT DEF BytesTypeOK
    <3> QED BY <3>1, FileBytes
  <2> QED BY <2>1 DEF Filed
<1>6. Parted \in [Uploaded -> Nat]
  <2>1. ASSUME NEW x \in Uploaded PROVE Bytes[ledger[x[1]][x[2]]] \in Nat
    <3>1. ledger[x[1]][x[2]] \in Token BY SMT DEF Uploaded, BytesTypeOK
    <3> QED BY <3>1, QuotaAssumption
  <2> QED BY <2>1 DEF Parted
<1> QED BY <1>2, <1>3, <1>4, <1>5, <1>6, SumFinite

\* Nothing is charged and nothing recorded.
LEMMA BytesInitInv == BytesInit => BytesInv
<1> SUFFICES ASSUME BytesInit PROVE BytesInv
  OBVIOUS
<1>1. BytesTypeOK
  <2>1. inForce \in [Pool -> SUBSET ByteLimit] BY SMT DEF BytesInit, Plan
  <2>2. date \in Date /\ replans \in 0..MaxReplans BY QuotaAssumption, SMT DEF BytesInit, Date
  <2> QED BY <2>1, <2>2 DEF BytesInit, BytesTypeOK
<1>2. PlansInForce BY DEF BytesInit, PlansInForce, Plan
<1>3. PoolWithinLimit BY DEF BytesInit, PoolWithinLimit
<1>4. EveryByteOnce
  <2>1. \A x \in Pool \X Date : Charged[x] = 0 BY DEF BytesInit, Charged
  <2>2. Total({}) = 0
    <3> DEFINE f == [x \in {} |-> Bytes[x]]
    <3>1. f \in [{} -> Nat] /\ \A x \in {} : f[x] = 0 OBVIOUS
    <3> HIDE DEF f
    <3>2. SumOf(f) = 0 BY <3>1, SumOfZeros
    <3> QED BY <3>2 DEF f, Total
  <2>3. \A x \in Payer \X Date : Filed[x] = 0 BY <2>2 DEF BytesInit, Filed
  <2>4. Uploaded = {} BY DEF BytesInit, Uploaded
  <2>5. SumOf(Charged) = 0 /\ SumOf(Filed) = 0 /\ SumOf(Parted) = 0
    BY <1>1, <2>1, <2>3, <2>4, FiniteBytes, SumOfZeros
  <2> QED BY <2>5, SMT DEF EveryByteOnce, Charged, Filed, Parted, Uploaded
<1> QED BY <1>1, <1>2, <1>3, <1>4 DEF BytesInv

\* A step that charges nothing keeps every sum and every limit met.
LEMMA NothingCharged ==
  ASSUME BytesInv, BytesTypeOK', PlansInForce', UNCHANGED <<used, seen, ledger>>,
         \A p \in Pool : inForce[p] \subseteq inForce'[p]
  PROVE  BytesInv'
<1>1. EveryByteOnce' BY DEF BytesInv, EveryByteOnce, Total
<1>2. PoolWithinLimit' BY DEF BytesInv, PoolWithinLimit
<1> QED BY <1>1, <1>2 DEF BytesInv

\* A handler that returns charges for nobody.
LEMMA Returned ==
  ASSUME BytesInv, NEW c \in Charger, Return(c), UNCHANGED <<plan, inForce>>
  PROVE  /\ call' \in [Charger -> {Idle} \cup FilesCall \cup PartCall]
         /\ PlansInForce'
<1>1. call' \in [Charger -> {Idle} \cup FilesCall \cup PartCall] BY DEF BytesInv, BytesTypeOK, Return
<1>2. \A x \in Charger : call'[x] # Idle => call'[x] = call[x] BY DEF BytesInv, BytesTypeOK, Return
<1> QED BY <1>1, <1>2 DEF BytesInv, PlansInForce

\* A call names the plan, the tenant and the day it was resolved for.
LEMMA Calls ==
  ASSUME BytesInv, NEW c \in Charger, call[c] # Idle
  PROVE  /\ call[c].tenant \in Payer /\ call[c].plan \in Plan /\ call[c].since \in Date
         /\ call[c].plan.pool \in Pool /\ call[c].plan.limit \in Nat
         /\ call[c].plan.limit \in inForce[call[c].plan.pool]
         /\ call[c].since .. date \subseteq Date
         /\ call[c].kind = "files" => call[c].files \in SUBSET File
         /\ call[c].kind = "part" => call[c].part \in Part /\ call[c].token \in Token
<1>1. call[c] \in FilesCall \/ call[c] \in PartCall BY DEF BytesInv, BytesTypeOK
<1>2. /\ call[c].tenant \in Payer /\ call[c].plan \in Plan /\ call[c].since \in Date
      /\ call[c].kind = "files" => call[c].files \in SUBSET File
      /\ call[c].kind = "part" => call[c].part \in Part /\ call[c].token \in Token
  BY <1>1 DEF FilesCall, PartCall
<1>3. call[c].plan.pool \in Pool /\ call[c].plan.limit \in Nat
  BY <1>2, QuotaAssumption DEF Plan
<1>4. call[c].since .. date \subseteq Date
  BY <1>2, QuotaAssumption, SMT DEF Date, BytesInv, BytesTypeOK
<1> QED BY <1>2, <1>3, <1>4 DEF BytesInv, PlansInForce

\* chargeIndexFiles and reserveSwiftUpload read the plan that is in force.
LEMMA ResolveStep ==
  ASSUME BytesInv, NEW c \in Charger, NEW t \in Payer,
         \/ \E files \in SUBSET File : ResolveFiles(c, t, files)
         \/ \E i \in Part, token \in Token : ResolvePart(c, t, i, token)
  PROVE  BytesInv'
<1>1. PICK x \in FilesCall \cup PartCall :
        x.plan = plan[t] /\ call' = [call EXCEPT ![c] = x]
  <2>1. plan[t] \in Plan /\ date \in Date BY DEF BytesInv, BytesTypeOK
  <2>2. ASSUME NEW files \in SUBSET File, ResolveFiles(c, t, files)
        PROVE  \E x \in FilesCall \cup PartCall : x.plan = plan[t] /\ call' = [call EXCEPT ![c] = x]
    <3> DEFINE x == [kind |-> "files", tenant |-> t, files |-> files, plan |-> plan[t],
                     since |-> date]
    <3>1. x \in FilesCall BY <2>1 DEF FilesCall
    <3>2. x.plan = plan[t] OBVIOUS
    <3>3. call' = [call EXCEPT ![c] = x] BY <2>2 DEF ResolveFiles
    <3> HIDE DEF x
    <3> QED BY <3>1, <3>2, <3>3
  <2>3. ASSUME NEW i \in Part, NEW token \in Token, ResolvePart(c, t, i, token)
        PROVE  \E x \in FilesCall \cup PartCall : x.plan = plan[t] /\ call' = [call EXCEPT ![c] = x]
    <3> DEFINE x == [kind |-> "part", tenant |-> t, part |-> i, token |-> token, plan |-> plan[t],
                     since |-> date]
    <3>1. x \in PartCall BY <2>1 DEF PartCall
    <3>2. x.plan = plan[t] OBVIOUS
    <3>3. call' = [call EXCEPT ![c] = x] BY <2>3 DEF ResolvePart
    <3> HIDE DEF x
    <3> QED BY <3>1, <3>2, <3>3
  <2> QED BY <2>2, <2>3
<1>2. UNCHANGED <<date, plan, replans, used, seen, ledger, inForce>> BY DEF ResolveFiles, ResolvePart
<1>3. call' \in [Charger -> {Idle} \cup FilesCall \cup PartCall]
  BY <1>1 DEF BytesInv, BytesTypeOK
<1>4. call'[c] = x /\ \A y \in Charger \ {c} : call'[y] = call[y]
  BY <1>1 DEF BytesInv, BytesTypeOK
<1>5. BytesTypeOK' BY <1>2, <1>3 DEF BytesInv, BytesTypeOK
<1>6. PlansInForce' BY <1>1, <1>2, <1>4, SMT DEF BytesInv, PlansInForce
<1> QED BY <1>2, <1>5, <1>6, NothingCharged

\* A pool is charged n more bytes of a day: its counter, and the sum of all counters,
\* rise by n, and the limit that the script compared was met.
LEMMA Charges ==
  ASSUME BytesInv, NEW p \in Pool, NEW d \in Date, NEW n \in Nat, NEW limit \in inForce[p],
         limit = 0 \/ Fits(p, d, n, limit),
         used' = [used EXCEPT ![p][d] = @ + n], UNCHANGED inForce
  PROVE  /\ used' \in [Pool -> [Date -> Nat]]
         /\ PoolWithinLimit'
         /\ SumOf(Charged)' = SumOf(Charged) + n
<1>1. ASSUME NEW q \in Pool, NEW e \in Date
      PROVE  /\ used[q][e] \in Nat
             /\ used'[q][e] = IF q = p /\ e = d THEN used[p][d] + n ELSE used[q][e]
  BY DEF BytesInv, BytesTypeOK
<1>2. used' \in [Pool -> [Date -> Nat]] BY SMT DEF BytesInv, BytesTypeOK
<1>3. PoolWithinLimit'
  <2> SUFFICES ASSUME NEW q \in Pool, NEW e \in Date
               PROVE  used'[q][e] = 0 \/ \E m \in inForce[q] : m = 0 \/ used'[q][e] <= m
    BY DEF PoolWithinLimit
  <2>1. CASE q = p /\ e = d BY <1>1, <2>1 DEF Fits
  <2>2. CASE ~(q = p /\ e = d) BY <1>1, <2>2, SMT DEF BytesInv, PoolWithinLimit
  <2> QED BY <2>1, <2>2
<1>4. SumOf(Charged)' = SumOf(Charged) + n
  <2> DEFINE g == [x \in Pool \X Date |-> used'[x[1]][x[2]]]
  <2>1. g \in [Pool \X Date -> Nat] BY <1>2
  <2>2. <<p, d>> \in Pool \X Date OBVIOUS
  <2>3. g[<<p, d>>] = Charged[<<p, d>>] + n BY <1>1, <2>2, SMT DEF Charged
  <2>4. \A y \in (Pool \X Date) \ {<<p, d>>} : g[y] = Charged[y] BY <1>1, SMT DEF Charged
  <2>5. IsFiniteSet(Pool \X Date) /\ Charged \in [Pool \X Date -> Nat]
    BY FiniteBytes DEF BytesInv
  <2>6. Charged' = g BY DEF Charged
  <2> HIDE DEF g
  <2>7. SumOf(g) = SumOf(Charged) + n BY <2>1, <2>2, <2>3, <2>4, <2>5, SumRises, SMT
  <2> QED BY <2>6, <2>7
<1> QED BY <1>2, <1>3, <1>4

\* reserveFilesScript charges the files that today's ledger has not seen, and records them.
LEMMA ChargeFilesStep ==
  ASSUME BytesInv, NEW c \in Charger, ChargeFiles(c)
  PROVE  BytesInv'
<1> DEFINE t == call[c].tenant
           p == call[c].plan.pool
           limit == call[c].plan.limit
<1>1. call[c] # Idle /\ call[c].kind = "files" /\ Return(c)
      /\ UNCHANGED <<date, plan, replans, ledger, inForce>>
  BY DEF ChargeFiles
<1>2. /\ t \in Payer /\ p \in Pool /\ limit \in inForce[p] /\ call[c].since .. date \subseteq Date
      /\ call[c].files \in SUBSET File
  BY <1>1, Calls
<1>3. PICK d \in call[c].since .. date :
        LET new == Unseen(t, d, call[c].files)
        IN  IF Fits(p, d, Total(new), limit)
            THEN /\ used' = [used EXCEPT ![p][d] = @ + Total(new)]
                 /\ seen' = [seen EXCEPT ![t][d] = @ \cup new]
            ELSE UNCHANGED <<used, seen>>
  BY DEF ChargeFiles
<1>4. d \in Date BY <1>2
<1>5. call' \in [Charger -> {Idle} \cup FilesCall \cup PartCall] /\ PlansInForce'
  BY <1>1, Returned
<1> DEFINE new == Unseen(t, d, call[c].files)
<1>6. new \in SUBSET {f \in File : Bytes[f] > 0} /\ new \cap seen[t][d] = {}
  BY <1>2 DEF Unseen
<1>7. /\ seen[t][d] \in SUBSET {f \in File : Bytes[f] > 0} /\ seen[t][d] \in SUBSET File
      /\ new \in SUBSET File
  BY <1>2, <1>4, <1>6, SMT DEF BytesInv, BytesTypeOK
<1>8. CASE ~Fits(p, d, Total(new), limit)
  <2>1. UNCHANGED <<used, seen>> BY <1>3, <1>8
  <2>2. BytesTypeOK' BY <1>1, <1>5, <2>1 DEF BytesInv, BytesTypeOK
  <2> QED BY <1>1, <1>5, <2>1, <2>2, NothingCharged
<1>9. CASE Fits(p, d, Total(new), limit)
  <2>1. used' = [used EXCEPT ![p][d] = @ + Total(new)] /\ seen' = [seen EXCEPT ![t][d] = @ \cup new]
    BY <1>3, <1>9
  <2> HIDE DEF new, t, p, limit
  <2>2. Total(new) \in Nat BY <1>7, FileBytes
  <2>3. /\ used' \in [Pool -> [Date -> Nat]] /\ PoolWithinLimit'
        /\ SumOf(Charged)' = SumOf(Charged) + Total(new)
    BY <1>1, <1>2, <1>4, <1>9, <2>1, <2>2, Charges
  <2>4. seen' \in [Payer -> [Date -> SUBSET {f \in File : Bytes[f] > 0}]]
    BY <1>2, <1>4, <1>6, <1>7, <2>1 DEF BytesInv, BytesTypeOK
  <2>5. BytesTypeOK' BY <1>1, <1>5, <2>3, <2>4 DEF BytesInv, BytesTypeOK
  <2>6. ASSUME NEW u \in Payer, NEW e \in Date
        PROVE  seen'[u][e] = IF u = t /\ e = d THEN seen[t][d] \cup new ELSE seen[u][e]
    BY <1>2, <1>4, <2>1 DEF BytesInv, BytesTypeOK
  <2>7. SumOf(Filed)' = SumOf(Filed) + Total(new)
    <3> DEFINE g == [x \in Payer \X Date |-> Total(seen'[x[1]][x[2]])]
    <3>1. Filed' = g BY DEF Filed, Total
    <3>2. g \in [Payer \X Date -> Nat]
      <4>1. ASSUME NEW x \in Payer \X Date PROVE Total(seen'[x[1]][x[2]]) \in Nat
        <5>1. seen'[x[1]][x[2]] \in SUBSET File BY <2>4
        <5> QED BY <5>1, FileBytes
      <4> QED BY <4>1
    <3>3. <<t, d>> \in Payer \X Date BY <1>2, <1>4
    <3>4. g[<<t, d>>] = Filed[<<t, d>>] + Total(new)
      <4>1. Total(seen[t][d] \cup new) = Total(seen[t][d]) + Total(new)
        BY <1>6, <1>7, MoreFiles
      <4>2. g[<<t, d>>] = Total(seen'[t][d]) BY <3>3
      <4>3. Filed[<<t, d>>] = Total(seen[t][d]) BY <3>3 DEF Filed
      <4>4. seen'[t][d] = seen[t][d] \cup new BY <1>2, <1>4, <2>6
      <4> QED BY <4>1, <4>2, <4>3, <4>4
    <3>5. ASSUME NEW y \in (Payer \X Date) \ {<<t, d>>} PROVE g[y] = Filed[y]
      <4>1. seen'[y[1]][y[2]] = seen[y[1]][y[2]] BY <2>6, SMT
      <4> QED BY <4>1 DEF Filed
    <3>6. IsFiniteSet(Payer \X Date) /\ Filed \in [Payer \X Date -> Nat] BY FiniteBytes DEF BytesInv
    <3> HIDE DEF g
    <3>7. SumOf(g) = SumOf(Filed) + Total(new) BY <2>2, <3>2, <3>3, <3>4, <3>5, <3>6, SumRises, SMT
    <3> QED BY <3>1, <3>7
  <2>8. SumOf(Parted)' = SumOf(Parted) BY <1>1 DEF Parted, Uploaded
  <2>9. EveryByteOnce'
    <3>1. SumOf(Charged) = SumOf(Filed) + SumOf(Parted)
      BY DEF BytesInv, EveryByteOnce, Charged, Filed, Parted, Uploaded
    <3>2. SumOf(Charged) \in Nat /\ SumOf(Filed) \in Nat /\ SumOf(Parted) \in Nat
      BY FiniteBytes DEF BytesInv
    <3>3. SumOf(Charged)' = SumOf(Filed)' + SumOf(Parted)'
      BY <2>2, <2>3, <2>7, <2>8, <3>1, <3>2, SMT
    <3> QED BY <3>3 DEF EveryByteOnce, Charged, Filed, Parted, Uploaded
  <2> QED BY <1>5, <2>3, <2>5, <2>9 DEF BytesInv
<1> QED BY <1>8, <1>9

\* The script of chargeSwiftPart charges a part that is not recorded, and records it.
LEMMA ChargePartStep ==
  ASSUME BytesInv, NEW c \in Charger, ChargePart(c)
  PROVE  BytesInv'
<1> DEFINE t == call[c].tenant
           i == call[c].part
           p == call[c].plan.pool
           token == call[c].token
           limit == call[c].plan.limit
<1>1. call[c] # Idle /\ call[c].kind = "part" /\ Return(c)
      /\ UNCHANGED <<date, plan, replans, seen, inForce>>
  BY DEF ChargePart
<1>2. /\ t \in Payer /\ p \in Pool /\ limit \in inForce[p] /\ call[c].since .. date \subseteq Date
      /\ i \in Part /\ token \in Token
  BY <1>1, Calls
<1>3. PICK d \in call[c].since .. date :
        IF ~Recorded(t, i, token) /\ (limit = 0 \/ Fits(p, d, Bytes[token], limit))
        THEN /\ used' = [used EXCEPT ![p][d] = @ + Bytes[token]]
             /\ ledger' = [ledger EXCEPT ![t][i] = token]
        ELSE UNCHANGED <<used, ledger>>
  BY DEF ChargePart
<1>4. d \in Date BY <1>2
<1>5. call' \in [Charger -> {Idle} \cup FilesCall \cup PartCall] /\ PlansInForce'
  BY <1>1, Returned
<1> DEFINE fits == ~Recorded(t, i, token) /\ (limit = 0 \/ Fits(p, d, Bytes[token], limit))
<1>6. CASE ~fits
  <2>1. UNCHANGED <<used, ledger>> BY <1>3, <1>6
  <2>2. BytesTypeOK' BY <1>1, <1>5, <2>1 DEF BytesInv, BytesTypeOK
  <2> QED BY <1>1, <1>5, <2>1, <2>2, NothingCharged
<1>7. CASE fits
  <2>1. /\ used' = [used EXCEPT ![p][d] = @ + Bytes[token]] /\ ledger' = [ledger EXCEPT ![t][i] = token]
        /\ ledger[t][i] = Absent /\ (limit = 0 \/ Fits(p, d, Bytes[token], limit))
    BY <1>3, <1>7 DEF Recorded
  <2> HIDE DEF t, i, p, token, limit, fits
  <2>2. Bytes[token] \in Nat /\ token # Absent BY <1>2, QuotaAssumption
  <2>3. /\ used' \in [Pool -> [Date -> Nat]] /\ PoolWithinLimit'
        /\ SumOf(Charged)' = SumOf(Charged) + Bytes[token]
    BY <1>1, <1>2, <1>4, <2>1, <2>2, Charges
  <2>4. ledger' \in [Payer -> [Part -> Token \cup {Absent}]]
    BY <1>2, <2>1 DEF BytesInv, BytesTypeOK
  <2>5. BytesTypeOK' BY <1>1, <1>5, <2>3, <2>4 DEF BytesInv, BytesTypeOK
  <2>6. ASSUME NEW u \in Payer, NEW j \in Part
        PROVE  ledger'[u][j] = IF u = t /\ j = i THEN token ELSE ledger[u][j]
    BY <1>2, <2>1 DEF BytesInv, BytesTypeOK
  <2>7. SumOf(Parted)' = SumOf(Parted) + Bytes[token]
    <3> DEFINE x0 == <<t, i>>
               more == [x \in Uploaded \cup {x0} |-> IF x = x0 THEN Bytes[token] ELSE Parted[x]]
    <3>1. x0 \in Payer \X Part /\ x0 \notin Uploaded BY <1>2, <2>1 DEF Uploaded
    <3>2. Uploaded' = Uploaded \cup {x0}
      <4>1. ASSUME NEW y \in Payer \X Part PROVE y \in Uploaded' <=> y \in Uploaded \/ y = x0
        BY <2>2, <2>6, SMT DEF Uploaded
      <4>2. Uploaded' \subseteq Payer \X Part /\ Uploaded \subseteq Payer \X Part BY DEF Uploaded
      <4> HIDE DEF x0
      <4> QED BY <3>1, <4>1, <4>2
    <3>3. IsFiniteSet(Uploaded) /\ Parted \in [Uploaded -> Nat] BY FiniteBytes DEF BytesInv
    <3>4. Parted' = more
      <4>1. ASSUME NEW y \in Uploaded' PROVE Bytes[ledger'[y[1]][y[2]]] = more[y]
        <5>1. CASE y = x0
          <6>1. ledger'[y[1]][y[2]] = token BY <1>2, <2>6, <5>1
          <6> QED BY <3>2, <5>1, <6>1
        <5>2. CASE y # x0
          <6>1. y \in Uploaded BY <3>2, <5>2
          <6>2. ledger'[y[1]][y[2]] = ledger[y[1]][y[2]] BY <2>6, <5>2, <6>1, SMT DEF Uploaded
          <6>3. more[y] = Parted[y] BY <5>2, <6>1
          <6> QED BY <6>1, <6>2, <6>3 DEF Parted
        <5> QED BY <5>1, <5>2
      <4>2. Parted' = [x \in Uploaded' |-> Bytes[ledger'[x[1]][x[2]]]] BY DEF Parted
      <4> QED BY <3>2, <4>1, <4>2
    <3>5. more \in [Uploaded' -> Nat] BY <2>2, <3>2, <3>3
    <3>6. (\A x \in Uploaded : more[x] = Parted[x]) /\ more[x0] = Bytes[token] BY <3>1
    <3> HIDE DEF x0, more
    <3>7. SumOf(more) = SumOf(Parted) + more[x0] BY <3>1, <3>2, <3>3, <3>5, <3>6, SumExtends, SMT
    <3> QED BY <3>4, <3>6, <3>7
  <2>8. SumOf(Filed)' = SumOf(Filed) BY <1>1 DEF Filed, Total
  <2>9. EveryByteOnce'
    <3>1. SumOf(Charged) = SumOf(Filed) + SumOf(Parted)
      BY DEF BytesInv, EveryByteOnce, Charged, Filed, Parted, Uploaded
    <3>2. SumOf(Charged) \in Nat /\ SumOf(Filed) \in Nat /\ SumOf(Parted) \in Nat
      BY FiniteBytes DEF BytesInv
    <3>3. SumOf(Charged)' = SumOf(Filed)' + SumOf(Parted)'
      BY <2>2, <2>3, <2>7, <2>8, <3>1, <3>2, SMT
    <3> QED BY <3>3 DEF EveryByteOnce, Charged, Filed, Parted, Uploaded
  <2> QED BY <1>5, <2>3, <2>5, <2>9 DEF BytesInv
<1> QED BY <1>6, <1>7

\* A failed call, midnight and a change of plan charge nothing; a new plan adds to the
\* limits its pool has carried.
LEMMA FreeStep ==
  ASSUME BytesInv,
         \/ \E c \in Charger : ChargeFails(c)
         \/ NextDate
         \/ \E t \in Payer : Replan(t)
  PROVE  BytesInv'
<1>1. ASSUME NEW c \in Charger, ChargeFails(c) PROVE BytesInv'
  <2>1. Return(c) /\ UNCHANGED <<date, plan, replans, used, seen, ledger, inForce>>
    BY <1>1 DEF ChargeFails
  <2>2. call' \in [Charger -> {Idle} \cup FilesCall \cup PartCall] /\ PlansInForce'
    BY <2>1, Returned
  <2>3. BytesTypeOK' BY <2>1, <2>2 DEF BytesInv, BytesTypeOK
  <2> QED BY <2>1, <2>2, <2>3, NothingCharged
<1>2. CASE NextDate
  <2>1. date' \in Date BY <1>2, QuotaAssumption, SMT DEF NextDate, Date, BytesInv, BytesTypeOK
  <2>2. UNCHANGED <<plan, replans, used, seen, ledger, call, inForce>> BY <1>2 DEF NextDate
  <2>3. BytesTypeOK' /\ PlansInForce'
    BY <2>1, <2>2 DEF BytesInv, BytesTypeOK, PlansInForce
  <2> QED BY <2>2, <2>3, NothingCharged
<1>3. ASSUME NEW t \in Payer, Replan(t) PROVE BytesInv'
  <2>1. PICK q \in Plan \ {plan[t]} :
          /\ plan' = [plan EXCEPT ![t] = q]
          /\ inForce' = [inForce EXCEPT ![q.pool] = @ \cup {q.limit}]
    BY <1>3 DEF Replan
  <2>2. q.pool \in Pool /\ q.limit \in ByteLimit BY DEF Plan
  <2>3. /\ UNCHANGED <<date, used, seen, ledger, call>> /\ replans' \in 0..MaxReplans
    BY <1>3, QuotaAssumption, SMT DEF Replan, BytesInv, BytesTypeOK
  <2>4. plan' \in [Payer -> Plan] /\ inForce' \in [Pool -> SUBSET ByteLimit]
    BY <2>1, <2>2 DEF BytesInv, BytesTypeOK
  <2>5. BytesTypeOK' BY <2>3, <2>4 DEF BytesInv, BytesTypeOK
  <2>6. (\A p \in Pool : inForce[p] \subseteq inForce'[p]) /\ q.limit \in inForce'[q.pool]
    BY <2>1, <2>2 DEF BytesInv, BytesTypeOK
  <2>7. \A u \in Payer : plan[u].pool \in Pool BY DEF BytesInv, BytesTypeOK, Plan
  <2>8. \A c \in Charger : call[c] # Idle => call[c].plan.pool \in Pool BY Calls
  <2>9. \A u \in Payer : plan'[u] = IF u = t THEN q ELSE plan[u]
    BY <2>1 DEF BytesInv, BytesTypeOK
  <2>10. PlansInForce'
    <3>1. ASSUME NEW u \in Payer PROVE plan'[u].limit \in inForce'[plan'[u].pool]
      BY <2>6, <2>7, <2>9 DEF BytesInv, PlansInForce
    <3>2. ASSUME NEW c \in Charger, call'[c] # Idle
          PROVE  call'[c].plan.limit \in inForce'[call'[c].plan.pool]
      BY <2>3, <2>6, <2>8, <3>2 DEF BytesInv, PlansInForce
    <3> QED BY <3>1, <3>2 DEF PlansInForce
  <2> QED BY <2>3, <2>5, <2>6, <2>10, NothingCharged
<1> QED BY <1>1, <1>2, <1>3

\* The charges, the ledgers and the limits in every reachable state.
THEOREM BytesInvariant == BytesSpec => []BytesInv
<1>1. ASSUME BytesInv, UNCHANGED bytesVars PROVE BytesInv'
  <2>1. UNCHANGED <<date, plan, replans, used, seen, ledger, call, inForce>> BY <1>1 DEF bytesVars
  <2>2. BytesTypeOK' /\ PlansInForce' BY <1>1, <2>1 DEF BytesInv, BytesTypeOK, PlansInForce
  <2> QED BY <1>1, <2>1, <2>2, NothingCharged
<1>2. BytesInv /\ [BytesNext]_bytesVars => BytesInv'
  BY <1>1, ResolveStep, ChargeFilesStep, ChargePartStep, FreeStep DEF BytesNext
<1> QED BY <1>2, BytesInitInv, PTL DEF BytesSpec

\* The counters, ledgers and calls have their types: no part is recorded with a content
\* that no client sent, and no empty file is recorded.
THEOREM BytesTyped == BytesSpec => []BytesTypeOK
<1>1. BytesInv => BytesTypeOK BY DEF BytesInv
<1> QED BY <1>1, BytesInvariant, PTL

\* The counters of all pools and days hold each recorded file and part once, whatever
\* is sent again, in whatever batch, day or pool (reserveFilesScript, chargeSwiftPart).
THEOREM BytesChargedOnce == BytesSpec => []EveryByteOnce
<1>1. BytesInv => EveryByteOnce BY DEF BytesInv
<1> QED BY <1>1, BytesInvariant, PTL

\* No pool uses more of a day than some limit it has carried, for any number of
\* handlers, tenants that share it and changes of plan.
THEOREM PoolsWithinLimits == BytesSpec => []PoolWithinLimit
<1>1. BytesInv => PoolWithinLimit BY DEF BytesInv
<1> QED BY <1>1, BytesInvariant, PTL

-----------------------------------------------------------------------------
(* Requests of a day *)

\* The requests between Look and the end of their script.
InFlight == {r \in Slot : pending[r] # NoRequest}

\* What a request fixed before its script was a limit in force.
FixedLimits ==
  \A r \in InFlight :
    LET q == pending[r]
    IN  /\ q.user = Owner => q.member = 0
        /\ q.user # Owner => q.member \in ceilings.member[q.user]
        /\ q.pool \in ceilings.pool \cup {Unread}

\* The limits configured are among those that were in force, and a request is let
\* through at most once.
Counting ==
  /\ poolLimit \in ceilings.pool
  /\ \A m \in Member : memberLimit[m] \in ceilings.member[m]
  /\ \A d \in Day :
       /\ Admitted(d) + Cardinality(InFlight) <= sent
       /\ \A u \in User : admitted[u][d] + Cardinality(InFlight) <= sent

RequestInv == CountersAreAdmissions /\ AdmittedWithinLimits /\ FixedLimits /\ Counting

\* Only finitely many requests are let through or under way.
LEMMA FinitelyMany ==
  ASSUME QuotaTypeOK
  PROVE  /\ IsFiniteSet(InFlight) /\ Cardinality(InFlight) \in Nat /\ IsFiniteSet(User)
         /\ \A d \in Day : Admitted(d) \in Nat
<1>1. IsFiniteSet(InFlight) BY FS_Subset, RequestQuotaAssumption DEF InFlight
<1>2. IsFiniteSet(User) BY FS_AddElement, RequestQuotaAssumption DEF User
<1>3. ASSUME NEW d \in Day PROVE Admitted(d) \in Nat
  <2>1. [u \in User |-> admitted[u][d]] \in [User -> Nat] BY SMT DEF QuotaTypeOK
  <2> QED BY <1>2, <2>1, SumFinite DEF Admitted
<1> QED BY <1>1, <1>2, <1>3, FS_CardinalityType

\* A request that leaves its slot is one less under way.
LEMMA Leaves ==
  ASSUME QuotaTypeOK, NEW r \in Slot, pending[r] # NoRequest,
         pending' = [pending EXCEPT ![r] = NoRequest]
  PROVE  Cardinality(InFlight') = Cardinality(InFlight) - 1
<1>1. InFlight' = InFlight \ {r} BY DEF InFlight, QuotaTypeOK
<1>2. r \in InFlight BY DEF InFlight
<1> QED BY <1>1, <1>2, FinitelyMany, FS_RemoveElement

\* One more request of a user on a day is one more of all that day's.
LEMMA OneMore ==
  ASSUME QuotaTypeOK, NEW u \in User, NEW d \in Day,
         admitted' = [admitted EXCEPT ![u][d] = @ + 1]
  PROVE  /\ Admitted(d)' = Admitted(d) + 1
         /\ \A e \in Day \ {d} : Admitted(e)' = Admitted(e)
<1>1. ASSUME NEW v \in User, NEW e \in Day
      PROVE  /\ admitted[v][e] \in Nat
             /\ admitted'[v][e] = IF v = u /\ e = d THEN admitted[u][d] + 1 ELSE admitted[v][e]
  BY <1>1, SMT DEF QuotaTypeOK
<1>2. Admitted(d)' = Admitted(d) + 1
  <2> DEFINE f == [v \in User |-> admitted[v][d]]
             g == [v \in User |-> admitted'[v][d]]
  <2>1. f \in [User -> Nat] /\ g \in [User -> Nat] BY <1>1, SMT
  <2>2. g[u] = f[u] + 1 /\ \A v \in User \ {u} : g[v] = f[v] BY <1>1, SMT
  <2> HIDE DEF f, g
  <2>3. SumOf(g) = SumOf(f) + 1 BY <2>1, <2>2, FinitelyMany, SumRises, SMT
  <2> QED BY <2>3 DEF f, g, Admitted
<1>3. ASSUME NEW e \in Day \ {d} PROVE Admitted(e)' = Admitted(e)
  <2>1. [v \in User |-> admitted'[v][e]] = [v \in User |-> admitted[v][e]] BY <1>1, SMT
  <2> QED BY <2>1 DEF Admitted
<1> QED BY <1>2, <1>3

\* Nothing is counted yet.
LEMMA QuotaInitInv == QuotaInit => RequestInv
<1> SUFFICES ASSUME QuotaInit PROVE RequestInv
  OBVIOUS
<1> USE RequestQuotaAssumption
<1>1. QuotaTypeOK
  <2>1. NoRequest \in Pending \cup {NoRequest} OBVIOUS
  <2>2. memberUsed \in [Member -> [Day -> 0..MaxRequests]] /\ poolUsed \in [Day -> 0..MaxRequests]
    BY SMT DEF QuotaInit
  <2>3. admitted \in [User -> [Day -> 0..MaxRequests]] BY SMT DEF QuotaInit
  <2>4. ceilings \in [pool : SUBSET PoolLimit, member : [Member -> SUBSET MemberLimit]]
    BY DEF QuotaInit
  <2>5. pending \in [Slot -> Pending \cup {NoRequest}] BY DEF QuotaInit
  <2>6. day \in Day /\ changes \in 0..MaxChanges /\ sent \in 0..MaxRequests
    BY SMT DEF QuotaInit, Day
  <2> QED BY <2>2, <2>3, <2>4, <2>5, <2>6 DEF QuotaTypeOK, QuotaInit
<1>2. ASSUME NEW d \in Day PROVE Admitted(d) = 0
  <2>1. [u \in User |-> admitted[u][d]] \in [User -> Nat] BY DEF QuotaInit
  <2>2. \A u \in User : [v \in User |-> admitted[v][d]][u] = 0 BY DEF QuotaInit
  <2> QED BY <2>1, <2>2, SumOfZeros DEF Admitted
<1>3. InFlight = {} BY DEF InFlight, QuotaInit
<1>4. Cardinality(InFlight) = 0 /\ \A d \in Day : Admitted(d) = 0 BY <1>2, <1>3, FS_EmptySet
<1>5. \A u \in User, d \in Day : admitted[u][d] = 0 BY DEF QuotaInit
<1>6. Member \subseteq User BY DEF User
<1>7. AdmittedWithinLimits
  <2>1. \A m \in Member : memberLimit[m] \in ceilings.member[m] /\ memberLimit[m] \in Nat
    BY DEF QuotaInit
  <2>2. poolLimit \in ceilings.pool /\ poolLimit \in Nat BY DEF QuotaInit
  <2>3. \A m \in Member, d \in Day : admitted[m][d] <= memberLimit[m] BY <2>1, <1>5, <1>6, SMT
  <2>4. \A d \in Day : Admitted(d) <= poolLimit BY <2>2, <1>4, SMT
  <2> QED BY <2>1, <2>2, <2>3, <2>4 DEF AdmittedWithinLimits
<1>8. CountersAreAdmissions
  BY <1>1, <1>4, <1>5, <1>6, SMT DEF CountersAreAdmissions, QuotaInit
<1>9. FixedLimits BY <1>3 DEF FixedLimits
<1>10. Counting BY <1>4, <1>5, SMT DEF Counting, QuotaInit
<1> QED BY <1>7, <1>8, <1>9, <1>10 DEF RequestInv

\* Steps that count nothing keep what is said of the counters.
LEMMA NothingCounted ==
  ASSUME UNCHANGED counters
  PROVE  \A d \in Day : Admitted(d)' = Admitted(d)
BY DEF counters, Admitted

\* A request starts with limits in force.
LEMMA LookStep ==
  ASSUME RequestInv, NEW r \in Slot, NEW u \in User, Look(r, u)
  PROVE  RequestInv'
<1> USE RequestQuotaAssumption
<1> DEFINE q == [user |-> u, day |-> day, pool |-> Unread,
                 member |-> IF u = Owner THEN 0 ELSE memberLimit[u]]
<1>1. QuotaTypeOK BY DEF RequestInv, CountersAreAdmissions
<1>2. q \in Pending BY <1>1 DEF QuotaTypeOK, Pending, User
<1>3. q # NoRequest BY SMT DEF NoRequest, Unread
<1>4. pending' = [pending EXCEPT ![r] = q] BY DEF Look
<1> HIDE DEF q
<1>5. QuotaTypeOK'
  <2>1. pending' \in [Slot -> Pending \cup {NoRequest}] BY <1>1, <1>2, <1>4 DEF QuotaTypeOK
  <2>2. sent' \in 0..MaxRequests BY <1>1, SMT DEF QuotaTypeOK, Look
  <2> QED BY <1>1, <2>1, <2>2 DEF QuotaTypeOK, Look, limits, counters
<1>6. InFlight' = InFlight \cup {r} /\ r \notin InFlight
  BY <1>1, <1>3, <1>4, SMT DEF InFlight, QuotaTypeOK, Look
<1>7. Cardinality(InFlight') = Cardinality(InFlight) + 1
  BY <1>1, <1>6, FinitelyMany, FS_AddElement
<1>8. \A d \in Day : Admitted(d)' = Admitted(d) BY NothingCounted DEF Look
<1>9. Counting'
  BY <1>1, <1>7, <1>8, FinitelyMany, SMT DEF RequestInv, Counting, Look, limits, counters, QuotaTypeOK
<1>10. FixedLimits'
  <2>1. q.user = u /\ q.pool = Unread /\ q.member = IF u = Owner THEN 0 ELSE memberLimit[u] BY DEF q
  <2>2. u # Owner => q.member \in ceilings.member[u]
    BY <2>1 DEF RequestInv, Counting, User
  <2>3. ASSUME NEW p \in InFlight'
        PROVE  pending'[p] = IF p = r THEN q ELSE pending[p]
    BY <1>1, <1>4, <2>3 DEF QuotaTypeOK, InFlight
  <2> QED BY <1>6, <2>1, <2>2, <2>3, SMT DEF RequestInv, FixedLimits, Look, limits
<1>11. AdmittedWithinLimits' /\ CountersAreAdmissions'
  BY <1>5, <1>8 DEF RequestInv, AdmittedWithinLimits, CountersAreAdmissions, Look, limits, counters
<1> QED BY <1>9, <1>10, <1>11 DEF RequestInv

\* The pool's limit is looked up.
LEMMA LookPoolStep ==
  ASSUME RequestInv, NEW r \in Slot, LookPool(r)
  PROVE  RequestInv'
<1> USE RequestQuotaAssumption
<1>1. QuotaTypeOK BY DEF RequestInv, CountersAreAdmissions
<1>2. pending[r] # NoRequest /\ pending[r] \in Pending
  BY <1>1, SMT DEF LookPool, NoRequest, Unread, QuotaTypeOK
<1>3. pending'[r] = [pending[r] EXCEPT !.pool = poolLimit] /\ \A p \in Slot \ {r} : pending'[p] = pending[p]
  BY <1>1 DEF LookPool, QuotaTypeOK
<1>4. pending'[r] \in Pending /\ pending'[r] # NoRequest
  <2>1. poolLimit \in PoolLimit /\ poolLimit \in Nat BY <1>1 DEF QuotaTypeOK
  <2>2. pending'[r] \in Pending /\ pending'[r].pool = poolLimit BY <1>2, <1>3, <2>1 DEF Pending
  <2>3. NoRequest.pool = -2 BY DEF NoRequest
  <2> QED BY <2>1, <2>2, <2>3, SMT
<1>5. QuotaTypeOK'
  <2>1. pending' \in [Slot -> Pending \cup {NoRequest}] BY <1>1, <1>2, <1>3, <1>4 DEF QuotaTypeOK, LookPool
  <2> QED BY <1>1, <2>1 DEF QuotaTypeOK, LookPool, limits, counters
<1>6. InFlight' = InFlight BY <1>2, <1>3, <1>4 DEF InFlight
<1>8. \A d \in Day : Admitted(d)' = Admitted(d) BY NothingCounted DEF LookPool
<1>9. Counting' BY <1>6, <1>8 DEF RequestInv, Counting, LookPool, limits, counters
<1>10. FixedLimits'
  <2>1. /\ pending'[r].user = pending[r].user /\ pending'[r].member = pending[r].member
        /\ pending'[r].pool = poolLimit
    BY <1>2, <1>3 DEF Pending
  <2>2. InFlight \subseteq Slot /\ r \in InFlight BY <1>2 DEF InFlight
  <2> QED BY <1>3, <1>6, <2>1, <2>2, SMT DEF RequestInv, FixedLimits, Counting, LookPool, limits
<1>11. AdmittedWithinLimits' /\ CountersAreAdmissions'
  BY <1>5, <1>8 DEF RequestInv, AdmittedWithinLimits, CountersAreAdmissions, LookPool, limits, counters
<1> QED BY <1>9, <1>10, <1>11 DEF RequestInv

\* What a request that may run its script has fixed.
LEMMA ReadyFixed ==
  ASSUME RequestInv, NEW r \in Slot, Ready(r)
  PROVE  /\ pending[r] # NoRequest /\ pending[r] \in Pending
         /\ pending[r].pool \in ceilings.pool /\ pending[r].pool \in Nat
         /\ pending[r].member \in Nat
         /\ pending[r].user = Owner => pending[r].member = 0
         /\ pending[r].user # Owner =>
              pending[r].user \in Member /\ pending[r].member \in ceilings.member[pending[r].user]
<1> USE RequestQuotaAssumption
<1>1. pending[r] \in Pending \cup {NoRequest}
  BY DEF RequestInv, CountersAreAdmissions, QuotaTypeOK
<1>2. pending[r] # NoRequest BY SMT DEF Ready, NoRequest
<1>3. r \in InFlight BY <1>2 DEF InFlight
<1>4. pending[r].pool # Unread BY SMT DEF Ready, Unread
<1>5. pending[r].member \in Nat /\ pending[r].pool \in Nat /\ pending[r].user \in User
  <2>1. pending[r].member \in MemberLimit \cup {0} /\ pending[r].pool \in PoolLimit \cup {Unread}
    BY <1>1, <1>2 DEF Pending
  <2>2. pending[r].user \in User BY <1>1, <1>2 DEF Pending
  <2>3. pending[r].pool \in PoolLimit BY <2>1, <1>4
  <2>4. MemberLimit \cup {0} \subseteq Nat /\ PoolLimit \subseteq Nat BY SMT
  <2> QED BY <2>1, <2>2, <2>3, <2>4
<1> QED BY <1>1, <1>2, <1>3, <1>4, <1>5 DEF RequestInv, FixedLimits, User

\* A request that leaves without being counted.
LEMMA RefusedStep ==
  ASSUME RequestInv, NEW r \in Slot, pending[r] # NoRequest,
         pending' = [pending EXCEPT ![r] = NoRequest],
         UNCHANGED <<day, limits, counters, sent>>
  PROVE  RequestInv'
<1> USE RequestQuotaAssumption
<1>1. QuotaTypeOK BY DEF RequestInv, CountersAreAdmissions
<1>2. QuotaTypeOK' BY <1>1 DEF QuotaTypeOK, limits, counters
<1>3. Cardinality(InFlight') = Cardinality(InFlight) - 1 BY <1>1, Leaves
<1>4. \A d \in Day : Admitted(d)' = Admitted(d) BY NothingCounted
<1>5. Counting'
  BY <1>1, <1>3, <1>4, FinitelyMany, SMT DEF RequestInv, Counting, limits, counters, QuotaTypeOK
<1>6. FixedLimits'
  <2>1. \A p \in InFlight' : p \in InFlight /\ pending'[p] = pending[p] BY <1>1 DEF InFlight, QuotaTypeOK
  <2> QED BY <2>1 DEF RequestInv, FixedLimits, limits
<1>7. AdmittedWithinLimits' /\ CountersAreAdmissions'
  BY <1>2, <1>4 DEF RequestInv, AdmittedWithinLimits, CountersAreAdmissions, limits, counters
<1> QED BY <1>5, <1>6, <1>7 DEF RequestInv

\* A request let through: the member's counter and the pool's were below the limits it
\* fixed, which were in force, and rise with the requests let through.
LEMMA AdmittedStep ==
  ASSUME RequestInv, NEW r \in Slot, Ready(r), Reserve(r),
         MemberFits(pending[r]), PoolFits(pending[r])
  PROVE  RequestInv'
<1> USE RequestQuotaAssumption
<1>1. QuotaTypeOK BY DEF RequestInv, CountersAreAdmissions
<1>2. PICK q \in Pending : q = pending[r] BY ReadyFixed
<1>3. /\ q # NoRequest /\ q.pool \in ceilings.pool /\ q.pool \in Nat /\ q.member \in Nat
      /\ q.user = Owner => q.member = 0
      /\ q.user # Owner => q.user \in Member /\ q.member \in ceilings.member[q.user]
  BY <1>2, ReadyFixed
<1>4. q.user \in User /\ q.day \in Day BY DEF Pending
<1>5. /\ pending' = [pending EXCEPT ![r] = NoRequest]
      /\ admitted' = [admitted EXCEPT ![q.user][q.day] = @ + 1]
      /\ CountMember(q) /\ CountPool(q) /\ UNCHANGED <<day, limits, sent>>
  BY <1>2 DEF Reserve
<1>6. /\ q.member > 0 => memberUsed[q.user][q.day] < q.member
      /\ q.pool > 0 => poolUsed[q.day] < q.pool
  BY <1>2 DEF MemberFits, PoolFits
<1>7. r \in InFlight BY <1>2, <1>3 DEF InFlight
<1>8. Cardinality(InFlight') = Cardinality(InFlight) - 1 /\ Cardinality(InFlight) \in Nat
  BY <1>1, <1>2, <1>3, <1>5, Leaves, FinitelyMany
<1>9. /\ admitted[q.user][q.day] \in Nat /\ Admitted(q.day) \in Nat
      /\ Cardinality(InFlight) >= 1
      /\ admitted[q.user][q.day] < MaxRequests /\ Admitted(q.day) < MaxRequests
  <2>1. Cardinality(InFlight) >= 1
    BY <1>1, <1>7, <1>8, FinitelyMany, FS_EmptySet, SMT
  <2>2. admitted[q.user][q.day] \in Nat /\ Admitted(q.day) \in Nat
    BY <1>1, <1>4, FinitelyMany, SMT DEF QuotaTypeOK
  <2>3. /\ sent \in 0..MaxRequests
        /\ admitted[q.user][q.day] + Cardinality(InFlight) <= sent
        /\ Admitted(q.day) + Cardinality(InFlight) <= sent
    BY <1>1, <1>4 DEF QuotaTypeOK, RequestInv, Counting
  <2> QED BY <2>1, <2>2, <2>3, <1>8, SMT
<1>10. /\ Admitted(q.day)' = Admitted(q.day) + 1
      /\ \A e \in Day \ {q.day} : Admitted(e)' = Admitted(e)
  BY <1>1, <1>4, <1>5, <1>9, OneMore
<1>11. \A u \in User, d \in Day :
         admitted'[u][d] = IF u = q.user /\ d = q.day THEN admitted[u][d] + 1 ELSE admitted[u][d]
  BY <1>1, <1>4, <1>5 DEF QuotaTypeOK
<1>12. \A m \in Member, d \in Day :
         memberUsed'[m][d] = IF m = q.user /\ d = q.day /\ q.member > 0
                             THEN memberUsed[m][d] + 1 ELSE memberUsed[m][d]
  BY <1>1, <1>2, <1>3, <1>4, <1>5 DEF QuotaTypeOK, CountMember
<1>13. \A d \in Day : poolUsed'[d] = IF d = q.day /\ q.pool > 0 THEN poolUsed[d] + 1 ELSE poolUsed[d]
  BY <1>1, <1>2, <1>3, <1>4, <1>5 DEF QuotaTypeOK, CountPool
<1>14. \A d \in Day :
         /\ \A m \in Member : /\ m \in User /\ memberUsed[m][d] \in 0..MaxRequests
                              /\ admitted[m][d] \in 0..MaxRequests
                              /\ memberUsed[m][d] <= admitted[m][d]
                              /\ 0 \notin ceilings.member[m] => memberUsed[m][d] = admitted[m][d]
         /\ poolUsed[d] \in 0..MaxRequests /\ Admitted(d) \in Nat /\ poolUsed[d] <= Admitted(d)
         /\ 0 \notin ceilings.pool => poolUsed[d] = Admitted(d)
  BY <1>1, FinitelyMany, SMT DEF RequestInv, CountersAreAdmissions, QuotaTypeOK, User
<1>15. QuotaTypeOK'
  <2>1. pending' \in [Slot -> Pending \cup {NoRequest}] BY <1>1, <1>5 DEF QuotaTypeOK
  <2>2. admitted' \in [User -> [Day -> 0..MaxRequests]]
    <3>1. admitted[q.user][q.day] + 1 \in 0..MaxRequests BY <1>9, SMT
    <3> QED BY <3>1, <1>1, <1>4, <1>5 DEF QuotaTypeOK
  <2>3. memberUsed' \in [Member -> [Day -> 0..MaxRequests]]
    <3>1. CASE q.member > 0
      <4>1. q.user \in Member BY <1>2, <1>3, <3>1, SMT
      <4>2. memberUsed[q.user][q.day] + 1 \in 0..MaxRequests BY <4>1, <1>4, <1>9, <1>14, SMT
      <4> QED BY <3>1, <4>1, <4>2, <1>1, <1>4, <1>5 DEF QuotaTypeOK, CountMember
    <3>2. CASE ~(q.member > 0) BY <3>2, <1>1, <1>5 DEF QuotaTypeOK, CountMember
    <3> QED BY <3>1, <3>2
  <2>4. poolUsed' \in [Day -> 0..MaxRequests]
    <3>1. poolUsed[q.day] + 1 \in 0..MaxRequests BY <1>4, <1>9, <1>14, SMT
    <3> QED BY <3>1, <1>1, <1>4, <1>5 DEF QuotaTypeOK, CountPool
  <2> QED BY <1>1, <1>5, <2>1, <2>2, <2>3, <2>4 DEF QuotaTypeOK, limits
<1>16. ceilings' = ceilings BY <1>5 DEF limits
<1>17. CountersAreAdmissions'
  <2>1. ASSUME NEW d \in Day, NEW m \in Member
        PROVE  /\ memberUsed'[m][d] <= admitted'[m][d]
               /\ 0 \notin ceilings.member[m] => memberUsed'[m][d] = admitted'[m][d]
    BY <1>2, <1>3, <1>11, <1>12, <1>14, SMT
  <2>2. ASSUME NEW d \in Day
        PROVE  /\ poolUsed'[d] <= Admitted(d)'
               /\ 0 \notin ceilings.pool => poolUsed'[d] = Admitted(d)'
    BY <1>2, <1>3, <1>10, <1>13, <1>14, SMT
  <2> QED BY <1>15, <1>16, <2>1, <2>2 DEF CountersAreAdmissions
<1>18. AdmittedWithinLimits'
  <2>1. ASSUME NEW d \in Day, NEW m \in Member
        PROVE  \E n \in ceilings.member[m] : n = 0 \/ admitted'[m][d] <= n
    <3>1. CASE m = q.user /\ d = q.day /\ q.member > 0 /\ 0 \notin ceilings.member[m]
      <4>1. q.member \in ceilings.member[m] BY <1>2, <1>3, <3>1
      <4>2. admitted'[m][d] <= q.member BY <3>1, <1>2, <1>3, <1>6, <1>11, <1>14, SMT
      <4> QED BY <4>1, <4>2
    <3>2. CASE m = q.user /\ q.member = 0
      <4>1. m # Owner BY RequestQuotaAssumption
      <4> QED BY <3>2, <4>1, <1>2, <1>3
    <3>3. CASE ~(m = q.user /\ d = q.day)
      BY <3>3, <1>11, <1>14, SMT DEF RequestInv, AdmittedWithinLimits
    <3> QED BY <3>1, <3>2, <3>3, <1>2, <1>3, SMT
  <2>2. ASSUME NEW d \in Day
        PROVE  \E n \in ceilings.pool : n = 0 \/ Admitted(d)' <= n
    <3>1. CASE d = q.day /\ q.pool > 0 /\ 0 \notin ceilings.pool
      <4>1. Admitted(d)' <= q.pool BY <3>1, <1>2, <1>3, <1>6, <1>10, <1>14, SMT
      <4> QED BY <4>1, <1>2, <1>3
    <3>2. CASE q.pool = 0 BY <3>2, <1>2, <1>3
    <3>3. CASE d # q.day BY <3>3, <1>10 DEF RequestInv, AdmittedWithinLimits
    <3> QED BY <3>1, <3>2, <3>3, <1>2, <1>3, SMT
  <2> QED BY <1>16, <2>1, <2>2 DEF AdmittedWithinLimits
<1>19. Counting'
  <2>1. sent' = sent /\ poolLimit' = poolLimit /\ memberLimit' = memberLimit BY <1>5 DEF limits
  <2>2. ASSUME NEW d \in Day PROVE Admitted(d)' + Cardinality(InFlight') <= sent
    <3>1. Admitted(d) \in Nat /\ sent \in Nat /\ Admitted(d) + Cardinality(InFlight) <= sent
      BY <1>1, <1>14, SMT DEF RequestInv, Counting, QuotaTypeOK
    <3> QED BY <3>1, <1>8, <1>10, SMT
  <2>3. ASSUME NEW d \in Day, NEW u \in User PROVE admitted'[u][d] + Cardinality(InFlight') <= sent
    <3>1. admitted[u][d] \in Nat /\ sent \in Nat /\ admitted[u][d] + Cardinality(InFlight) <= sent
      BY <1>1, SMT DEF RequestInv, Counting, QuotaTypeOK
    <3> QED BY <3>1, <1>8, <1>11, SMT
  <2> QED BY <1>16, <2>1, <2>2, <2>3 DEF RequestInv, Counting
<1>20. FixedLimits'
  <2>1. \A p \in InFlight' : p \in InFlight /\ pending'[p] = pending[p]
    BY <1>1, <1>5 DEF InFlight, QuotaTypeOK
  <2> QED BY <2>1, <1>16 DEF RequestInv, FixedLimits
<1> QED BY <1>17, <1>18, <1>19, <1>20 DEF RequestInv

\* The console adds a limit to those that were in force.
LEMMA ChangeStep ==
  ASSUME RequestInv, ChangePool \/ \E m \in Member : ChangeMember(m)
  PROVE  RequestInv'
<1> USE RequestQuotaAssumption
<1>1. QuotaTypeOK BY DEF RequestInv, CountersAreAdmissions
<1>2. /\ UNCHANGED <<day, counters, pending, sent>> /\ changes' \in 0..MaxChanges
      /\ ceilings' \in [pool : SUBSET PoolLimit, member : [Member -> SUBSET MemberLimit]]
      /\ memberLimit' \in [Member -> MemberLimit] /\ poolLimit' \in PoolLimit
      /\ ceilings.pool \subseteq ceilings'.pool /\ poolLimit' \in ceilings'.pool
      /\ \A m \in Member : /\ ceilings.member[m] \subseteq ceilings'.member[m]
                           /\ memberLimit'[m] \in ceilings'.member[m]
  <2>1. CASE ChangePool
    <3>1. PICK n \in PoolLimit \ {poolLimit} :
            poolLimit' = n /\ ceilings' = [ceilings EXCEPT !.pool = @ \cup {n}]
      BY <2>1 DEF ChangePool
    <3>2. /\ UNCHANGED <<day, counters, pending, sent, memberLimit>> /\ changes' \in 0..MaxChanges
      BY <1>1, <2>1, SMT DEF ChangePool, QuotaTypeOK
    <3>3. /\ ceilings' \in [pool : SUBSET PoolLimit, member : [Member -> SUBSET MemberLimit]]
          /\ ceilings'.pool = ceilings.pool \cup {n} /\ ceilings'.member = ceilings.member
      BY <1>1, <3>1 DEF QuotaTypeOK
    <3>4. \A m \in Member : memberLimit[m] \in ceilings.member[m]
      BY DEF RequestInv, Counting
    <3>5. memberLimit \in [Member -> MemberLimit]
      BY <1>1 DEF QuotaTypeOK
    <3> QED BY <3>1, <3>2, <3>3, <3>4, <3>5
  <2>2. CASE \E m \in Member : ChangeMember(m)
    <3>1. PICK m \in Member : ChangeMember(m) BY <2>2
    <3>2. PICK n \in MemberLimit \ {memberLimit[m]} :
            /\ memberLimit' = [memberLimit EXCEPT ![m] = n]
            /\ ceilings' = [ceilings EXCEPT !.member[m] = @ \cup {n}]
      BY <3>1 DEF ChangeMember
    <3>3. /\ UNCHANGED <<day, counters, pending, sent, poolLimit>> /\ changes' \in 0..MaxChanges
      BY <1>1, <3>1, SMT DEF ChangeMember, QuotaTypeOK
    <3>4. /\ ceilings' \in [pool : SUBSET PoolLimit, member : [Member -> SUBSET MemberLimit]]
          /\ ceilings'.pool = ceilings.pool
          /\ ceilings'.member = [ceilings.member EXCEPT ![m] = @ \cup {n}]
      BY <1>1, <3>2 DEF QuotaTypeOK
    <3>5. \A k \in Member : /\ ceilings.member[k] \subseteq ceilings'.member[k]
                            /\ memberLimit'[k] \in ceilings'.member[k]
      BY <1>1, <3>2, <3>4 DEF QuotaTypeOK, RequestInv, Counting
    <3> QED BY <1>1, <3>2, <3>3, <3>4, <3>5 DEF QuotaTypeOK, RequestInv, Counting
  <2> QED BY <2>1, <2>2
<1>3. QuotaTypeOK' BY <1>1, <1>2 DEF QuotaTypeOK, counters
<1>4. \A d \in Day : Admitted(d)' = Admitted(d) BY <1>2, NothingCounted
<1>5. InFlight' = InFlight BY <1>2 DEF InFlight
<1>6. CountersAreAdmissions'
  BY <1>2, <1>3, <1>4 DEF RequestInv, CountersAreAdmissions, counters
<1>7. AdmittedWithinLimits'
  <2>1. ASSUME NEW d \in Day
        PROVE  /\ \A m \in Member : \E n \in ceilings'.member[m] : n = 0 \/ admitted'[m][d] <= n
               /\ \E n \in ceilings'.pool : n = 0 \/ Admitted(d)' <= n
    <3>1. admitted' = admitted /\ Admitted(d)' = Admitted(d) BY <1>2, <1>4 DEF counters
    <3>2. /\ \A m \in Member : \E n \in ceilings.member[m] : n = 0 \/ admitted[m][d] <= n
          /\ \E n \in ceilings.pool : n = 0 \/ Admitted(d) <= n
      BY DEF RequestInv, AdmittedWithinLimits
    <3> QED BY <1>2, <3>1, <3>2
  <2> QED BY <2>1 DEF AdmittedWithinLimits
<1>8. FixedLimits'
  <2>1. ASSUME NEW r \in InFlight PROVE pending[r].user # Owner => pending[r].user \in Member
    BY <1>1 DEF InFlight, QuotaTypeOK, Pending, User
  <2> QED BY <1>2, <1>5, <2>1 DEF RequestInv, FixedLimits
<1>9. Counting' BY <1>2, <1>4, <1>5 DEF RequestInv, Counting, counters
<1> QED BY <1>6, <1>7, <1>8, <1>9 DEF RequestInv

\* The counters and what they are compared with, in every reachable state.
THEOREM RequestInvariant == QuotaSpec => []RequestInv
<1>1. RequestInv /\ [QuotaNext]_quotaVars => RequestInv'
  <2> SUFFICES ASSUME RequestInv, [QuotaNext]_quotaVars PROVE RequestInv'
    OBVIOUS
  <2>1. ASSUME NEW r \in Slot, Reserve(r) PROVE RequestInv'
    <3>1. CASE MemberFits(pending[r]) /\ PoolFits(pending[r])
      BY <2>1, <3>1, AdmittedStep DEF Reserve
    <3>2. CASE ~(MemberFits(pending[r]) /\ PoolFits(pending[r]))
      <4>1. pending[r] # NoRequest BY <2>1, ReadyFixed DEF Reserve
      <4> QED BY <2>1, <3>2, <4>1, RefusedStep DEF Reserve
    <3> QED BY <3>1, <3>2
  <2>2. ASSUME NEW r \in Slot, ReserveFails(r) PROVE RequestInv'
    BY <2>2, RefusedStep DEF ReserveFails
  <2>3. CASE Midnight \/ UNCHANGED quotaVars
    <3>1. UNCHANGED <<limits, counters, pending, sent>> /\ (day' \in Day \/ day' = day)
      BY <2>3, RequestQuotaAssumption, SMT
      DEF Midnight, quotaVars, Day, RequestInv, CountersAreAdmissions, QuotaTypeOK
    <3>2. \A d \in Day : Admitted(d)' = Admitted(d) BY <3>1, NothingCounted
    <3>3. InFlight' = InFlight BY <3>1 DEF InFlight
    <3>4. QuotaTypeOK'
      BY <3>1 DEF RequestInv, CountersAreAdmissions, QuotaTypeOK, limits, counters
    <3>5. CountersAreAdmissions' /\ AdmittedWithinLimits'
      BY <3>1, <3>2, <3>4
      DEF RequestInv, CountersAreAdmissions, AdmittedWithinLimits, limits, counters
    <3>6. FixedLimits' /\ Counting'
      BY <3>1, <3>2, <3>3 DEF RequestInv, FixedLimits, Counting, limits, counters
    <3> QED BY <3>5, <3>6 DEF RequestInv
  <2> QED BY <2>1, <2>2, <2>3, LookStep, LookPoolStep, ChangeStep DEF QuotaNext
<1> QED BY <1>1, QuotaInitInv, PTL DEF QuotaSpec

\* No member and no pool is admitted more requests of a day than some limit it has
\* carried, however the requests, refusals, lost replies and changes of limit
\* interleave (reserveRequestScript checks and counts at once).
THEOREM AdmissionsWithinLimits == QuotaSpec => []AdmittedWithinLimits
<1>1. RequestInv => AdmittedWithinLimits BY DEF RequestInv
<1> QED BY <1>1, RequestInvariant, PTL

\* The counters in Redis are the requests that were let through: one that is refused, or
\* whose script failed, is not counted, and one that is counted is counted for its
\* member and its pool.
THEOREM CountersFollowAdmissions == QuotaSpec => []CountersAreAdmissions
<1>1. RequestInv => CountersAreAdmissions BY DEF RequestInv
<1> QED BY <1>1, RequestInvariant, PTL
=============================================================================
