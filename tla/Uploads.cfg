\* Two uploads, a completion and a deletion worker of one tenant; two uploads that
\* charge for two tenants, which may share a pool, over midnight and a change of plan.
SPECIFICATION UploadsSpec
CONSTANTS
    tenant = tenant
    job = job
    star = star
    up1 = up1
    up2 = up2
    complete = complete
    worker = worker
    Op = {up1, up2, complete, worker}
    Tenant = {tenant}
    Resource = {job}
    AnyResource = star
    OpTenant <- MCTenant
    OpResource <- MCResource
    OpKind <- MCKind
    RenewInterval = 3
    Duration = 12
    MaxDelay = 1
    MaxUploads = 1
    FastFail = FALSE
    Payer = {t1, t2}
    Pool = {org, owner}
    empty = empty
    large = large
    first = first
    second = second
    File = {empty, large}
    Part = {p0}
    Token = {first, second}
    Bytes <- MCBytes
    ByteLimit = {0, 3}
    Charger = {up1, up2}
    Idle = Idle
    Absent = Absent
    LastDate = 1
    MaxReplans = 1
SYMMETRY Symmetry
INVARIANTS
    
    
    UploadCap
    BytesTypeOK
    EveryByteOnce
    PoolWithinLimit
