CONSTANTS
    Pkg <- OneServiceNames
    Profile <- OneService
    Ns <- MCNs
    Secret <- MCSecret
    Stmt <- MCStmt
    StmtNeeds <- MCStmtNeeds
    Repeats <- MCRepeats
    Postgres = "postgresql"
    Task = {t1, t2}
    Sock = {s1, s2}
    NoSock = NoSock
    Namespaces0 <- Prod
    Flaky = {"status", "logs"}
    MaxFaults = 1
SPECIFICATION Spec
SYMMETRY Symmetry
INVARIANTS
    TypeOK
    ShownInstalledIsReal
    PendingIsInFlight
    OneWaiterPerRelease
    SecretsInPlace
PROPERTIES
    RequestsAdvance
    ImplementsRollout
