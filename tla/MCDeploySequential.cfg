CONSTANTS
    Pkg <- SequentialNames
    Profile <- Sequential
    Ns <- MCNs
    Secret <- MCSecret
    Stmt <- MCStmt
    StmtNeeds <- MCStmtNeeds
    Repeats <- MCRepeats
    Postgres = "postgresql"
    Task = {t1}
    Sock = {s1}
    NoSock = NoSock
    Namespaces0 <- Prod
    Flaky = {}
    MaxFaults = 1
SPECIFICATION FairSpec
INVARIANTS
    InstallIsComplete
    QuietPageIsRight
    DatabaseInPlace
    IInv
PROPERTIES
    InstallCompletes
