\* Two concurrent requests at each stage; a personal and an organisation's key with
\* room for one in the cache; clocks that let every cached answer expire; three
\* requests over midnight and one change of a limit.
SPECIFICATION Spec
CONSTANTS
    Key = {k1, k2}
    OrgKey = {k2}
    Caller = {r1, r2}
    PositiveTTL = 1
    NegativeTTL = 0
    MaxEntries = 1
    AuthHorizon = 2
    Version = {v1, v2}
    Off = Off
    NoRow = NoRow
    Default = v1
    Save = {r1, r2}
    Check = {r1, r2}
    BanTTL = 1
    BanDelay = 1
    BanHorizon = 3
    Resolver = {r1, r2}
    QuotaTTL = 2
    QuotaDelay = 1
    PlanEnds = {2}
    QuotaHorizon = 4
    Member = {m1, m2}
    Owner = owner
    Slot = {r1, r2}
    MemberLimit = {0, 1}
    PoolLimit = {0, 1, 2}
    LastDay = 1
    MaxChanges = 1
    MaxRequests = 3
SYMMETRY Symmetry
INVARIANTS
    AuthFollowsRows
    GateFollowsDecision
    BanBounded
    PlanNotOutlived
    
    AdmittedWithinLimits
    
CHECK_DEADLOCK FALSE
