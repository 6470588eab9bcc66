SPECIFICATION FairSpec
CHECK_DEADLOCK FALSE
CONSTANTS
    NSessions = 2
    NItems = 1
    NSources = 1
    MaxPage = 2
    RegisterMaxPage = 1
    Leaving = {2}
    Finalizing = {}
    MaxDisturb = 1
    Declarations = {0, 1}
INVARIANTS
    TypeOK
    FrozenManifestExact
    LinearChain
    CompletionJustified
    VisionReleaseCurrent
PROPERTIES
    FrozenIsFinal
    ChainSpec
    WavesComplete
