CONSTANTS
    Ns <- DocDbNamespaces
    NoNs = NoNs
    MaxForwards = 2
    Sync = {r1}
    Documents = 1
    ChunkSize = 2
    MaxFaults = 0
SPECIFICATION Spec
INVARIANTS
    DocumentsGoToTheirNamespace
