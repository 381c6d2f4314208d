CONSTANTS
    Pkg <- GatewayNames
    Profile <- Gateway
    Ns <- MCNs
    Secret <- MCSecret
    Stmt <- MCStmt
    StmtNeeds <- MCStmtNeeds
    Repeats <- MCRepeats
    Postgres = "postgresql"
    Task = {t1}
    Sock = {s1}
    NoSock = NoSock
    Namespaces0 <- NoNamespace
    Flaky = {}
    MaxFaults = 0
SPECIFICATION FairSpec
PROPERTIES
    KongCreatesItsNamespace
