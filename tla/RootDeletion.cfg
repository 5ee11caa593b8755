\* Two deletions of one root, two workers and three faults; direct operations on two
\* roots with two failed steps.
SPECIFICATION DeletionSpec
CONSTANTS
    None = None
    Root = {r1}
    Deletion = {d1, d2}
    Worker = {w1, w2}
    Attempt = {a1, a2, a3, a4}
    MaxAttempts = 2
    MaxContent = 2
    MaxRetries = 1
    MaxFaults = 3
    AdminRoot = {w1, w2}
    MaxPublished = 2
    AdminFaults = 2
SYMMETRY Symmetry
INVARIANTS
    SnapshotAgrees
    CallsBounded
    
PROPERTY OnlyAskedContentDeleted
CHECK_DEADLOCK FALSE
