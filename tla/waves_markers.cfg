SPECIFICATION FairSpec
CHECK_DEADLOCK FALSE
CONSTANTS
    NSessions = 2
    NItems = 1
    NSources = 1
    MaxPage = 2
    RegisterMaxPage = 1
    Leaving = {}
    Finalizing = {}
    MaxDisturb = 0
    Declarations = {1}
PROPERTIES
    MarkersImmutable
