CONSTANTS
    Writer = {w1, w2}
    k1 = k1
    k2 = k2
    o1 = o1
    o2 = o2
    o3 = o3
    v1 = v1
    v2 = v2
    v3 = v3
    Key = {k1, k2}
    Owner = {o1, o2, o3}
    Val = {v1, v2, v3}
    Doc <- MCDoc
    Sync = {r1, r2}
    NoVal = NoVal
SPECIFICATION Spec
SYMMETRY Symmetry
INVARIANTS
    TypeOK
    TrustedIsReadable
    SyncedIsCurrent
    IInv
PROPERTIES
    ImplementsTable
