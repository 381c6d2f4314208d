CONSTANTS
    Client <- Mixed
    Major <- MixedMajor
    Minor <- MixedMinor
    Indexes = 2
    NoTable = NoTable
    MaxFaults = 1
    MaxDeletes = 1
SPECIFICATION FairSpec
INVARIANTS
    TypeOK
    OneCreator
    EnsuredIsOfItsVersion
    SettledHasIndexes
    IInv
PROPERTIES
    EnsureConverges
