CONSTANTS
    Clients = {c1, c2, c3}
    Nobody = Nobody
    BlockRoom = 1
    MayDie = TRUE
SPECIFICATION FairSpec
INVARIANTS
    TypeOK
    AcceptedIsKept
    NothingInvented
    MemoryContinuesFile
    ReadsAreKept
PROPERTIES
    FileIsAppendOnly
    EveryRequestEnds
