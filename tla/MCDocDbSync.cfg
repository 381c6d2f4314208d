CONSTANTS
    Ns = {prod}
    NoNs = NoNs
    MaxForwards = 3
    Sync = {r1, r2}
    Documents = 3
    ChunkSize = 2
    MaxFaults = 2
SPECIFICATION FairSpec
INVARIANTS
    TypeOK
    ProgressIsBacked
    IInv
    PortRecovers
PROPERTIES
    SyncEnds
