\* Two processes, three rows, any failure, one stop.
SPECIFICATION Spec
CONSTANTS
    w1 = w1
    w2 = w2
    t1 = t1
    t2 = t2
    Events = {1, 2, 3}
    EventType <- MCTypeMixed
    Workers = {w1, w2}
    Ticks = {t1, t2}
    WorkerOf <- MCTwoProcesses
    BATCH_SIZE = 2
    MAX_ATTEMPTS = 2
    BASE_BACKOFF = 1
    MAX_BACKOFF = 30
    TableColumns <- MCQueryColumns
    DbFaults <- MCAllFaults
    MaxFaults = 2
    MaxStops = 1
    MaxAge = 0
INVARIANTS
    TypeOK
    OneOwner
    SnapshotCurrent
    FailedWhenExhausted
    HandlerRunsBounded
    KnownEventsFailOnFaultsOnly
    OrphansBounded
PROPERTIES
    AttemptsGrow
    ImplementsLedger
