CONSTANTS
    Pkg <- MixedNames
    Profile <- Mixed
    Ns <- MCNs
    Secret <- MCSecret
    Stmt <- MCStmt
    StmtNeeds <- MCStmtNeeds
    Repeats <- MCRepeats
    Postgres = "postgresql"
    Task = {t1, t2}
    Sock = {s1}
    NoSock = NoSock
    Namespaces0 <- Prod
    Flaky = {"logs"}
    MaxFaults = 1
SPECIFICATION FairSpec
PROPERTIES
    RequestsEnd
    ImplementsRollout
