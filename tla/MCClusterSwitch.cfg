CONSTANTS
    Conf <- MCConf
    NoConf = NoConf
    Valid <- MCValid
    StartConf = "gg"
    Ctx <- MCCtx
    NoCtx = NoCtx
    ContextName <- MCContextName
    ProxyPort <- MCProxyPort
    Port <- MCPort
    Task = {t1, t2}
    Patient = TRUE
    MaxFaults = 1
    MaxRestarts = 1
SPECIFICATION FairSpec
INVARIANTS
    TypeOK
    TargetsFollow
    IInv
PROPERTIES
    SwitchServes
