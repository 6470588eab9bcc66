SPECIFICATION Spec
CHECK_DEADLOCK FALSE
CONSTANTS
    NWorkers = 2
    NMembers = 1
    GroupSize = 1
    MaxAttempts = 1
    MaxDisturb = 2
PROPERTIES
    RefusedWithoutResult
