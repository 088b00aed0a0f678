\* The constants of main.ts in units of 30 s: 60 + 120 + 240 + 480 s.
SPECIFICATION FairSpec
CONSTANTS
    w1 = w1
    w2 = w2
    t1 = t1
    t2 = t2
    Events = {2, 3}
    EventType <- MCTypeMixed
    Workers = {w1}
    Ticks = {t1, t2}
    WorkerOf <- MCOverlap
    BATCH_SIZE = 1
    MAX_ATTEMPTS = 5
    BASE_BACKOFF = 1
    MAX_BACKOFF = 30
    TableColumns <- MCQueryColumns
    DbFaults <- MCHarmlessFaults
    MaxFaults = 1
    MaxStops = 0
    MaxAge = 30
INVARIANTS
    FailedAfterSchedule
    DoneIsFinal
PROPERTIES
    TypeDecidesOutcome
