\* Two users with two slots each of two in all, three sessions, two streams, and a
\* clock that lets a session expire.
CONSTANTS
    User = {u1, u2}
    Get = {g1, g2}
    Nobody = Nobody
    MaxPerUser = 2
    MaxSessions = 2
    TTL = 1
    MaxIds = 3
    MaxTime = 2
SPECIFICATION ServerFairSpec
INVARIANTS ServerTypeOK  OpenStreamsRegistered
PROPERTIES EvictionsJustified StreamsEnd
CHECK_DEADLOCK FALSE
