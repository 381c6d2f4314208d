CONSTANTS
    Conf <- MCConf
    NoConf = NoConf
    Valid <- MCValid
    StartConf = "gg"
    Ctx <- MCCtx
    NoCtx = NoCtx
    ContextName <- MCContextName
    ProxyPort <- MCProxyPort
    Port <- MCPort
    Task = {t1, t2}
    Patient = TRUE
    MaxFaults = 0
    MaxRestarts = 0
SPECIFICATION Spec
SYMMETRY Symmetry
INVARIANTS
    AsyncFollows
