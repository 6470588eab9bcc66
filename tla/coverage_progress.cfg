SPECIFICATION FairSpec
CHECK_DEADLOCK FALSE
CONSTANTS
    w1 = w1
    w2 = w2
    b1 = b1
    b2 = b2
    Ids = {1, 2}
    WriteSets = {{1, 2}}
    Writers = {w1, w2}
    Builders = {b1, b2}
    Operator = op
    Nobody = nobody
    Page = 1
    Limit = 1
    MaxWrites = 1
    MaxDisturb = 1
    MaxStalls = 0
    MaxLost = 1
    MaxFences = 2
INVARIANTS
    CertifiedBaseCovers
    ActiveIsReservations
PROPERTIES
    Converges
