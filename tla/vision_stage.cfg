SPECIFICATION FairSpec
CHECK_DEADLOCK FALSE
CONSTANTS
    NWorkers = 2
    NMembers = 2
    GroupSize = 1
    MaxAttempts = 1
    MaxDisturb = 1
INVARIANTS
    TypeOK
    AttemptBudget
    ResultsKept
    FreezeJustified
PROPERTIES
    SupersededNeverWrites
    VisionEnds
