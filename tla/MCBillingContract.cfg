\* The same calls: the key of the first is empty, which the contract refuses.
SPECIFICATION CallSpec
CONSTANTS
    r1 = r1
    r2 = r2
    r3 = r3
    r4 = r4
    Requests = {r1, r2, r3, r4}
    Target <- MCTarget
    DefaultTimeout = 1
    TimeoutEnv <- MCTimeoutEnv
    DrainTime = 5
    maxRequestBody = 2
INVARIANTS
    ContractIsEnforced
CHECK_DEADLOCK FALSE
