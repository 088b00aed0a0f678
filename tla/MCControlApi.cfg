\* Three requests, any database, any signal, either build.
SPECIFICATION FairSpec
CONSTANTS
    Requests = {r1, r2, r3}
    ParamTokens <- MCParamTokens
    MaxChanges = 3
INVARIANTS
    ReadyMeansDatabase
PROPERTIES
    BootSettles
    RequestsEnd
CHECK_DEADLOCK FALSE
