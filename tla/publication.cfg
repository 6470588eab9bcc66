SPECIFICATION FairSpec
CHECK_DEADLOCK FALSE
CONSTANTS
    Workers = {1, 2}
    Nobody = 0
    people = "people"
    search = "search"
    vector = "vector"
    Scopes <- MCScopes
    Prerequisites <- MCPrerequisites
    Optional = {"vector"}
    NPages = 2
    MaxDisturb = 2
INVARIANTS
    TypeOK
    CompletionCovers
    ReceiptsMatchProofs
    BuiltInOrder
PROPERTIES
    WrittenOnce
    WaveCompletes
