CONSTANTS
    Client <- Same
    Major <- SameMajor
    Minor <- SameMinor
    Indexes = 1
    NoTable = NoTable
    MaxFaults = 1
    MaxDeletes = 0
SPECIFICATION Spec
INVARIANTS
    UpToDateHasIndexes
