SPECIFICATION Spec
SYMMETRY Interchangeable
CHECK_DEADLOCK FALSE
CONSTANTS
    w1 = w1
    w2 = w2
    b1 = b1
    b2 = b2
    Ids = {1}
    WriteSets = {{1}}
    Writers = {w1, w2}
    Builders = {b1, b2}
    Operator = op
    Nobody = nobody
    Page = 1
    Limit = 1
    MaxWrites = 2
    MaxDisturb = 1
    MaxStalls = 0
    MaxLost = 1
    MaxFences = 0
PROPERTIES
    CertifiedWhileIdle
