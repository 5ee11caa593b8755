\* Client: three concurrent calls, two sessions, two faults. Log: two requests and
\* two failures.
SPECIFICATION HandlingSpec
CONSTANTS
    Caller = {c1, c2, c3}
    Session = {s1, s2}
    None = None
    MaxCalls = 3
    MaxFaults = 2
    Request = {r1, r2}
    LogFaults = 2
INVARIANTS
    SessionsAccounted
    DetailWithCompletion
    NoWriteAfterDrain
PROPERTIES  ResultStays RowsSettle
CHECK_DEADLOCK FALSE
