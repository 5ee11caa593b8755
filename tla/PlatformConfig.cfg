\* Two changes prepared against the same or successive versions, by one process, with
\* late commits, a recovery and two faults.
SPECIFICATION Spec
CONSTANTS
    None = None
    Op = {o1, o2}
    Proc = {p1}
    Attempt = {a1, a2, a3}
    MaxAttempts = 2
    MaxRecoveries = 1
    MaxFaults = 2
SYMMETRY Symmetry
INVARIANTS OutcomeIsCloud CommitsBounded
