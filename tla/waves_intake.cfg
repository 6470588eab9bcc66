SPECIFICATION FairSpec
CHECK_DEADLOCK FALSE
CONSTANTS
    NSessions = 1
    NItems = 2
    NSources = 2
    MaxPage = 2
    RegisterMaxPage = 2
    Leaving = {1}
    Finalizing = {1}
    MaxDisturb = 1
    Declarations = {0, 1, 2}
INVARIANTS
    CountsMatchRows
    AdmittedAreMembers
PROPERTIES
    StoppedStaysStopped
    AbandonedSessionsEnd
