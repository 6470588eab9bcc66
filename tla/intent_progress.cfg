SPECIFICATION FairSpec
CHECK_DEADLOCK FALSE
CONSTANTS
    w1 = w1
    w2 = w2
    Consumers = {w1}
    Mergers = {}
    Sweeper = Sweeper
    Nobody = Nobody
    Guarded = TRUE
    Handles = FALSE
    Delays = {TRUE, FALSE}
    MaxAttempts = 1
    MaxEdits = 2
    MaxAsks = 0
    MaxGates = 1
    MaxStalls = 1
    MaxLost = 1
    MaxFaults = 1
    MaxQueue = 1
INVARIANTS
    FailedOnlyByMishaps
PROPERTIES
    EmbargoKept
    EveryIntentSettles
