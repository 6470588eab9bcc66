SPECIFICATION Spec
CHECK_DEADLOCK FALSE
CONSTANTS
    w1 = w1
    w2 = w2
    Consumers = {w1}
    Mergers = {w2}
    Sweeper = Sweeper
    Nobody = Nobody
    Guarded = FALSE
    Handles = TRUE
    Delays = {TRUE, FALSE}
    MaxAttempts = 1
    MaxEdits = 1
    MaxAsks = 1
    MaxGates = 0
    MaxStalls = 1
    MaxLost = 1
    MaxFaults = 1
    MaxQueue = 1
INVARIANTS
    TypeOK
    DelayedWakesTracked
PROPERTIES
    KeepsThePromise
