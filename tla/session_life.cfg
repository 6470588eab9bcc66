SPECIFICATION FairSpec
CHECK_DEADLOCK FALSE
CONSTANTS
    h1 = h1
    h2 = h2
    r1 = r1
    r2 = r2
    Handlers = {h1, h2}
    Replicas = {r1, r2}
    Nobody = nobody
    MaxSpent = 2
INVARIANTS
    TypeOK
    NothingUnlisted
PROPERTIES
    NoticeOnce
    DrainWindowHolds
    Reconciled
