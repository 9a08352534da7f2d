\* Three URLs over a cap of two, a log of four records, a restart, retention,
\* failed and late writes.
CONSTANTS
    URLs = {u1, u2, u3}
    Unusable = Unusable
    MaxURLs = 2
    MaxVisits = 4
    MaxInflight = 1
    MaxCrashes = 1
SPECIFICATION FairSpec
INVARIANTS
    TypeOK
    CountsMatchLog
    StaleForAReason
PROPERTIES
    NoClimbing
    CountsArrive
CHECK_DEADLOCK FALSE
