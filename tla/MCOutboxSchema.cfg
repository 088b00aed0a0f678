\* The table as the Prisma schema creates it.
SPECIFICATION FairSpec
CONSTANTS
    w1 = w1
    w2 = w2
    t1 = t1
    t2 = t2
    Events = {1, 2}
    EventType <- MCTypeMixed
    Workers = {w1}
    Ticks = {t1, t2}
    WorkerOf <- MCOverlap
    BATCH_SIZE = 2
    MAX_ATTEMPTS = 2
    BASE_BACKOFF = 1
    MAX_BACKOFF = 30
    TableColumns <- MCSchemaColumns
    DbFaults <- MCNoFaults
    MaxFaults = 0
    MaxStops = 0
    MaxAge = 0
PROPERTIES
    EveryEventSettles
