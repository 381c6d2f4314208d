CONSTANTS
    c1 = c1
    c2 = c2
    g = g
    drive = drive
    folder = folder
    Caller = {c1, c2}
    Group = {g}
    Name = {drive, folder}
    Goal <- MCGoal
    MaxFaults = 1
    MaxRemoves = 1
SPECIFICATION FairSpec
INVARIANTS
    TypeOK
    FolderIsAtPath
    OneFolderPerPath
    IInv
PROPERTIES
    ImplementsPathTree
    CallsEnd
