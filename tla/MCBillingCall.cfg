\* Four calls to a billing process that may stop, be stopped or fail.
SPECIFICATION CallFairSpec
CONSTANTS
    r1 = r1
    r2 = r2
    r3 = r3
    r4 = r4
    Requests = {r1, r2, r3, r4}
    Target <- MCTarget
    DefaultTimeout = 1
    TimeoutEnv <- MCTimeoutEnv
    DrainTime = 5
    maxRequestBody = 2
INVARIANTS
    LossesHaveAReason
    NothingTakenForDone
    LimitIsExact
    ContractIsServed
PROPERTIES
    DrainIsNotCut
    SignalEndsProcess
    CallReturns
    DrainServesCalls
CHECK_DEADLOCK FALSE
