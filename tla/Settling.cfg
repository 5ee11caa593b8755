\* One deletion, one change of configuration or one publication, with two workers or
\* processes for the first two.
SPECIFICATION SettlingSpec
CONSTANTS
    None = None
    Root = {r1}
    Deletion = {d1}
    Worker = {w1, w2}
    DeletionAttempt = {a1, a2, a3}
    DeletionAttempts = 2
    MaxContent = 1
    MaxRetries = 1
    DeletionFaults = 2
    Op = {o1}
    Proc = {p1, p2}
    Attempt = {a1, a2}
    MaxAttempts = 1
    MaxRecoveries = 0
    MaxFaults = 1
    Path = {f}
    Version = {1}
    Job = {j1}
    NoIndexJob = NoIndexJob
    Handler = {h1}
    JobFaults = 2
INVARIANT SnapshotsUseModel
PROPERTIES DeletionSettles ConfigSettles PublicationSettles
CHECK_DEADLOCK FALSE
