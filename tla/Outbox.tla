------------------------------- MODULE Outbox -------------------------------
(***************************************************************************)
(* The PostgreSQL outbox and the worker processes that drain it            *)
(* (apps/worker/src/main.ts, apps/worker/src/handlers.ts and the table     *)
(* OutboxEvent of packages/database/prisma/schema.prisma).                 *)
(*                                                                         *)
(* A worker fires tick() from an interval timer and does not wait for the  *)
(* previous call, so one process may have several ticks in flight; several *)
(* processes may run against one database.  A tick claims a batch of due   *)
(* rows in one transaction, runs the handler of each row, and marks the    *)
(* row DONE or schedules its retry.  Every database call is a point where  *)
(* ticks interleave, and where the call may fail with or without having    *)
(* been applied.                                                           *)
(*                                                                         *)
(* An event is a number, its rank in the order of created_at.  Time is     *)
(* relative: delay[e] is how much is left until nextRunAt, 0 when due.     *)
(***************************************************************************)
EXTENDS Integers, FiniteSets

CONSTANTS
    Events,         \* the rows producers may insert, by rank of created_at
    EventType,      \* the eventType of each row
    Workers,        \* worker processes
    Ticks,          \* tick() calls that can be in flight at one time
    WorkerOf,       \* the process each tick runs in
    BATCH_SIZE,     \* main.ts, the LIMIT of a claim
    MAX_ATTEMPTS,   \* main.ts, the attempt after which a row is FAILED
    BASE_BACKOFF,   \* main.ts, the 30 s of the backoff, in units of time
    MAX_BACKOFF,    \* main.ts, MAX_BACKOFF_MS, in units of time
    TableColumns,   \* the column names the deployed table has
    DbFaults,       \* the database failures this instance suffers
    MaxFaults,      \* bound: how many database failures in all
    MaxStops,       \* bound: how many times a process stops
    MaxAge          \* bound: where the history variable age saturates

HandlerTypes == {"request.completed", "request.failed", "billing.settled",
                 "payment.credited", "refund.completed",
                 "provider.health_changed"}

\* The columns the hand-written SELECT of claimBatch names.
ClaimColumns == {"id", "status", "next_run_at", "created_at"}

\* A call fails before it is applied, or ("...Ack") after: it was applied and
\* only the answer is lost.
FaultKinds == {"select", "claim", "claimAck", "markDone", "markDoneAck",
               "markFailed", "markFailedAck"}

NoEvent == 0

ASSUME EventsAssumption == Events \subseteq Nat \ {NoEvent}
ASSUME TicksAssumption == WorkerOf \in [Ticks -> Workers]
ASSUME FiniteAssumption == IsFiniteSet(Ticks)
ASSUME BatchAssumption == BATCH_SIZE \in Nat \ {0}
ASSUME AttemptsAssumption == MAX_ATTEMPTS \in Nat \ {0}
ASSUME BackoffAssumption == /\ BASE_BACKOFF \in Nat
                            /\ MAX_BACKOFF \in Nat
                            /\ \A n \in 0..MAX_ATTEMPTS : 2^n \in Nat
ASSUME BoundsAssumption == /\ DbFaults \subseteq FaultKinds
                           /\ MaxFaults \in Nat
                           /\ MaxStops \in Nat
                           /\ MaxAge \in Nat

VARIABLES
    status, attempts, delay, doneAt,   \* the table, one entry per event
    pc,         \* where each tick is
    locked,     \* rows each tick's open claim transaction has locked
    held,       \* rows of the claimed batch not yet marked
    seen,       \* the attempts column as findMany returned it
    cur,        \* the row the loop is at
    proc,       \* state of each process
    runs, age,  \* history: handler completions, time since the first failure
    faults, stops   \* counters behind MaxFaults and MaxStops

table == <<status, attempts, delay, doneAt>>
ticks == <<pc, locked, held, seen, cur>>
history == <<runs, age>>
vars == <<table, ticks, proc, history, faults, stops>>

-----------------------------------------------------------------------------
(* The rows *)

Statuses == {"ABSENT", "PENDING", "PROCESSING", "DONE", "FAILED"}

Least(m, n) == IF m <= n THEN m ELSE n

\* Mutant: the exponent is the attempts before the failure.
BackoffFromOldAttempts(n) == Least(BASE_BACKOFF * 2^(n - 1), MAX_BACKOFF)

\* Math.min(30_000 * 2 ** attempts, MAX_BACKOFF_MS)
Backoff(n) == Least(BASE_BACKOFF * 2^n, MAX_BACKOFF)

\* Mutant: FOR UPDATE SKIP LOCKED is missing.
ClaimableUnlocked == {e \in Events : status[e] = "PENDING" /\ delay[e] = 0}

\* Mutant: the WHERE clause asks for whatever is not being processed.
ClaimableUnlessProcessing ==
    {e \in Events : /\ status[e] \in {"PENDING", "DONE", "FAILED"}
                    /\ delay[e] = 0
                    /\ \A t \in Ticks : e \notin locked[t]}

\* The rows the WHERE clause selects and SKIP LOCKED leaves.
Claimable == {e \in Events : /\ status[e] = "PENDING"
                             /\ delay[e] = 0
                             /\ \A t \in Ticks : e \notin locked[t]}

\* Mutant: no LIMIT.
OldestUnlimited(S) == S

\* ORDER BY created_at LIMIT BATCH_SIZE
Oldest(S) == {e \in S : Cardinality({f \in S : f < e}) < BATCH_SIZE}

\* Mutant: the limit is compared with > instead of >=.
RowFailedOneMore(e, n) ==
    /\ attempts' = [attempts EXCEPT ![e] = n]
    /\ status' = [status EXCEPT ![e] = IF n > MAX_ATTEMPTS THEN "FAILED"
                                                           ELSE "PENDING"]
    /\ delay' = [delay EXCEPT ![e] = Backoff(n)]
    /\ UNCHANGED doneAt

\* Mutant: the retry is scheduled without writing attempts.
RowFailedUncounted(e, n) ==
    /\ status' = [status EXCEPT ![e] = IF n >= MAX_ATTEMPTS THEN "FAILED"
                                                            ELSE "PENDING"]
    /\ delay' = [delay EXCEPT ![e] = Backoff(n)]
    /\ UNCHANGED <<attempts, doneAt>>

\* Mutant: the database increments what the tick has incremented already.
RowFailedCountsTwice(e, n) ==
    /\ attempts' = [attempts EXCEPT ![e] = n + 1]
    /\ status' = [status EXCEPT ![e] = IF n >= MAX_ATTEMPTS THEN "FAILED"
                                                            ELSE "PENDING"]
    /\ delay' = [delay EXCEPT ![e] = Backoff(n)]
    /\ UNCHANGED doneAt

\* The update of markFailed, from the attempts the tick saw when it claimed.
RowFailed(e, n) ==
    /\ attempts' = [attempts EXCEPT ![e] = n]
    /\ \/ /\ n >= MAX_ATTEMPTS
          /\ status' = [status EXCEPT ![e] = "FAILED"]
          /\ UNCHANGED delay
       \/ /\ n < MAX_ATTEMPTS
          /\ status' = [status EXCEPT ![e] = "PENDING"]
          /\ delay' = [delay EXCEPT ![e] = Backoff(n)]
    /\ UNCHANGED doneAt

RowDone(e) ==
    /\ status' = [status EXCEPT ![e] = "DONE"]
    /\ doneAt' = [doneAt EXCEPT ![e] = TRUE]
    /\ UNCHANGED <<attempts, delay>>

Fault(kind) == /\ kind \in DbFaults
               /\ faults < MaxFaults
               /\ faults' = faults + 1

-----------------------------------------------------------------------------
Init == /\ status = [e \in Events |-> "ABSENT"]
        /\ attempts = [e \in Events |-> 0]
        /\ delay = [e \in Events |-> 0]
        /\ doneAt = [e \in Events |-> FALSE]
        /\ pc = [t \in Ticks |-> "idle"]
        /\ locked = [t \in Ticks |-> {}]
        /\ held = [t \in Ticks |-> {}]
        /\ seen = [t \in Ticks |-> [e \in Events |-> 0]]
        /\ cur = [t \in Ticks |-> NoEvent]
        /\ proc = [w \in Workers |-> "up"]
        /\ runs = [e \in Events |-> 0]
        /\ age = [e \in Events |-> 0]
        /\ faults = 0
        /\ stops = 0

\* A business transaction of another service commits its event; rows may
\* become visible in another order than their created_at.
Insert(e) == /\ status[e] = "ABSENT"
             /\ status' = [status EXCEPT ![e] = "PENDING"]
             /\ UNCHANGED <<attempts, delay, doneAt, ticks, proc, history,
                            faults, stops>>

\* setInterval calls tick() whether or not an earlier call has returned.
TickFires(t) == /\ proc[WorkerOf[t]] = "up"
                /\ pc[t] = "idle"
                /\ pc' = [pc EXCEPT ![t] = "claiming"]
                /\ UNCHANGED <<table, locked, held, seen, cur, proc, history,
                               faults, stops>>

\* The SELECT ... FOR UPDATE SKIP LOCKED finds rows and locks them.
SelectDue(t) == /\ pc[t] = "claiming"
                /\ ClaimColumns \subseteq TableColumns
                /\ Claimable # {}
                /\ locked' = [locked EXCEPT ![t] = Oldest(Claimable)]
                /\ pc' = [pc EXCEPT ![t] = "locked"]
                /\ UNCHANGED <<table, held, seen, cur, proc, history, faults,
                               stops>>

\* It finds none: claimBatch returns [] and the tick ends.
SelectNothing(t) == /\ pc[t] = "claiming"
                    /\ ClaimColumns \subseteq TableColumns
                    /\ Claimable = {}
                    /\ pc' = [pc EXCEPT ![t] = "idle"]
                    /\ UNCHANGED <<table, locked, held, seen, cur, proc,
                                   history, faults, stops>>

\* The query throws, always when it names a column the table has not; tick()
\* logs the error and ends.
SelectFails(t) == /\ pc[t] = "claiming"
                  /\ IF ClaimColumns \subseteq TableColumns
                     THEN Fault("select")
                     ELSE UNCHANGED faults
                  /\ pc' = [pc EXCEPT ![t] = "idle"]
                  /\ UNCHANGED <<table, locked, held, seen, cur, proc,
                                 history, stops>>

\* Mutant: updateMany without its where.
BatchProcessingAll(t) ==
    /\ status' = [e \in Events |-> IF status[e] = "ABSENT" THEN "ABSENT"
                                                           ELSE "PROCESSING"]
    /\ locked' = [locked EXCEPT ![t] = {}]
    /\ UNCHANGED <<attempts, delay, doneAt>>

\* updateMany and findMany under the row locks, and the commit.
BatchProcessing(t) ==
    /\ status' = [e \in Events |-> IF e \in locked[t] THEN "PROCESSING"
                                                      ELSE status[e]]
    /\ locked' = [locked EXCEPT ![t] = {}]
    /\ UNCHANGED <<attempts, delay, doneAt>>

ClaimCommits(t) ==
    /\ pc[t] = "locked"
    /\ BatchProcessing(t)
    /\ held' = [held EXCEPT ![t] = locked[t]]
    /\ seen' = [seen EXCEPT ![t] = [e \in Events |->
                    IF e \in locked[t] THEN attempts[e] ELSE 0]]
    /\ pc' = [pc EXCEPT ![t] = "loop"]
    /\ UNCHANGED <<cur, proc, history, faults, stops>>

\* The transaction fails or times out and is rolled back.
ClaimAborts(t) == /\ pc[t] = "locked"
                  /\ Fault("claim")
                  /\ locked' = [locked EXCEPT ![t] = {}]
                  /\ pc' = [pc EXCEPT ![t] = "idle"]
                  /\ UNCHANGED <<table, held, seen, cur, proc, history, stops>>

\* The commit is applied but $transaction rejects: the tick ends without
\* knowing its batch.
ClaimAckLost(t) == /\ pc[t] = "locked"
                   /\ Fault("claimAck")
                   /\ BatchProcessing(t)
                   /\ pc' = [pc EXCEPT ![t] = "idle"]
                   /\ UNCHANGED <<held, seen, cur, proc, history, stops>>

-----------------------------------------------------------------------------
(* The loop of processBatch: findMany gives the batch in no defined order *)

HandlerSucceeds(t, e) == /\ pc[t] = "loop"
                         /\ e \in held[t]
                         /\ EventType[e] \in HandlerTypes
                         /\ cur' = [cur EXCEPT ![t] = e]
                         /\ pc' = [pc EXCEPT ![t] = "handled"]
                         /\ runs' = [runs EXCEPT ![e] = @ + 1]
                         /\ UNCHANGED <<table, locked, held, seen, proc, age,
                                        faults, stops>>

\* unknown outbox event type
HandlerThrows(t, e) == /\ pc[t] = "loop"
                       /\ e \in held[t]
                       /\ EventType[e] \notin HandlerTypes
                       /\ cur' = [cur EXCEPT ![t] = e]
                       /\ pc' = [pc EXCEPT ![t] = "failing"]
                       /\ UNCHANGED <<table, locked, held, seen, proc,
                                      history, faults, stops>>

\* The tick is through with the row it is at and takes the next.
NextRow(t) == /\ held' = [held EXCEPT ![t] = @ \ {cur[t]}]
              /\ seen' = [seen EXCEPT ![t][cur[t]] = 0]
              /\ cur' = [cur EXCEPT ![t] = NoEvent]
              /\ pc' = [pc EXCEPT ![t] = "loop"]
              /\ UNCHANGED <<locked, proc, history, stops>>

MarkDone(t) == /\ pc[t] = "handled"
               /\ RowDone(cur[t])
               /\ NextRow(t)
               /\ UNCHANGED faults

\* The update throws inside the try block: the event counts as failed.
MarkDoneFails(t) == /\ pc[t] = "handled"
                    /\ Fault("markDone")
                    /\ pc' = [pc EXCEPT ![t] = "failing"]
                    /\ UNCHANGED <<table, locked, held, seen, cur, proc,
                                   history, stops>>

MarkDoneAckLost(t) == /\ pc[t] = "handled"
                      /\ Fault("markDoneAck")
                      /\ RowDone(cur[t])
                      /\ pc' = [pc EXCEPT ![t] = "failing"]
                      /\ UNCHANGED <<locked, held, seen, cur, proc, history,
                                     stops>>

MarkFailed(t) == /\ pc[t] = "failing"
                 /\ RowFailed(cur[t], seen[t][cur[t]] + 1)
                 /\ NextRow(t)
                 /\ UNCHANGED faults

\* An exception of markFailed leaves the catch block and the loop: the rest of
\* the batch is given up with the row.
BatchDropped(T) ==
    /\ pc' = [t \in Ticks |-> IF t \in T THEN "idle" ELSE pc[t]]
    /\ held' = [t \in Ticks |-> IF t \in T THEN {} ELSE held[t]]
    /\ seen' = [t \in Ticks |-> IF t \in T THEN [e \in Events |-> 0]
                                           ELSE seen[t]]
    /\ cur' = [t \in Ticks |-> IF t \in T THEN NoEvent ELSE cur[t]]

MarkFailedFails(t) == /\ pc[t] = "failing"
                      /\ Fault("markFailed")
                      /\ BatchDropped({t})
                      /\ UNCHANGED <<table, locked, proc, history, stops>>

MarkFailedAckLost(t) == /\ pc[t] = "failing"
                        /\ Fault("markFailedAck")
                        /\ RowFailed(cur[t], seen[t][cur[t]] + 1)
                        /\ BatchDropped({t})
                        /\ UNCHANGED <<locked, proc, history, stops>>

TickEnds(t) == /\ pc[t] = "loop"
               /\ held[t] = {}
               /\ pc' = [pc EXCEPT ![t] = "idle"]
               /\ UNCHANGED <<table, locked, held, seen, cur, proc, history,
                              faults, stops>>

-----------------------------------------------------------------------------
(* Time and the life of a process *)

TimePasses == /\ \E e \in Events : delay[e] > 0
              /\ delay' = [e \in Events |-> IF delay[e] > 0 THEN delay[e] - 1
                                                            ELSE 0]
              /\ age' = [e \in Events |->
                            IF attempts[e] > 0 THEN Least(age[e] + 1, MaxAge)
                                               ELSE age[e]]
              /\ UNCHANGED <<status, attempts, doneAt, ticks, proc, runs,
                             faults, stops>>

\* SIGINT or SIGTERM: the timer is cleared; ticks in flight go on while the
\* client disconnects.  A second signal finds running = false and returns.
Shutdown(w) == /\ proc[w] = "up"
               /\ stops < MaxStops
               /\ stops' = stops + 1
               /\ proc' = [proc EXCEPT ![w] = "stopping"]
               /\ UNCHANGED <<table, ticks, history, faults>>

TicksOf(w) == {t \in Ticks : WorkerOf[t] = w}

\* The ticks of the process vanish; the database rolls their open
\* transactions back.
Killed(w) == /\ BatchDropped(TicksOf(w))
             /\ locked' = [t \in Ticks |-> IF t \in TicksOf(w) THEN {}
                                                              ELSE locked[t]]
             /\ proc' = [proc EXCEPT ![w] = "down"]
             /\ UNCHANGED <<table, history, faults>>

\* process.exit(0) once $disconnect has resolved.
Exit(w) == /\ proc[w] = "stopping"
           /\ Killed(w)
           /\ UNCHANGED stops

Crash(w) == /\ proc[w] \in {"up", "stopping"}
            /\ stops < MaxStops
            /\ stops' = stops + 1
            /\ Killed(w)

Start(w) == /\ proc[w] = "down"
            /\ proc' = [proc EXCEPT ![w] = "up"]
            /\ UNCHANGED <<table, ticks, history, faults, stops>>

-----------------------------------------------------------------------------
\* What one tick does once it has fired.
TickSteps(t) == \/ SelectDue(t)
                \/ SelectNothing(t)
                \/ SelectFails(t)
                \/ ClaimCommits(t)
                \/ ClaimAborts(t)
                \/ ClaimAckLost(t)
                \/ \E e \in Events : HandlerSucceeds(t, e)
                \/ \E e \in Events : HandlerThrows(t, e)
                \/ MarkDone(t)
                \/ MarkDoneFails(t)
                \/ MarkDoneAckLost(t)
                \/ MarkFailed(t)
                \/ MarkFailedFails(t)
                \/ MarkFailedAckLost(t)
                \/ TickEnds(t)

Next == \/ \E e \in Events : Insert(e)
        \/ \E t \in Ticks : TickFires(t)
        \/ \E t \in Ticks : TickSteps(t)
        \/ TimePasses
        \/ \E w \in Workers : Shutdown(w)
        \/ \E w \in Workers : Exit(w)
        \/ \E w \in Workers : Crash(w)
        \/ \E w \in Workers : Start(w)

Spec == Init /\ [][Next]_vars

\* The timer keeps firing, the database answers every call, the clock moves
\* on, a stopping process exits and the supervisor restarts it.  Producers,
\* signals and crashes get no fairness.
Fairness == /\ \A t \in Ticks : WF_vars(TickFires(t)) /\ WF_vars(TickSteps(t))
            /\ WF_vars(TimePasses)
            /\ \A w \in Workers : WF_vars(Exit(w)) /\ WF_vars(Start(w))

FairSpec == Spec /\ Fairness

-----------------------------------------------------------------------------
(* Properties *)

TypeOK == /\ status \in [Events -> Statuses]
          /\ attempts \in [Events -> 0..MAX_ATTEMPTS]
          /\ delay \in [Events -> Nat]
          /\ doneAt \in [Events -> BOOLEAN]
          /\ pc \in [Ticks -> {"idle", "claiming", "locked", "loop",
                               "handled", "failing"}]
          /\ locked \in [Ticks -> SUBSET Events]
          /\ held \in [Ticks -> SUBSET Events]
          /\ seen \in [Ticks -> [Events -> 0..MAX_ATTEMPTS]]
          /\ cur \in [Ticks -> Events \cup {NoEvent}]
          /\ proc \in [Workers -> {"up", "stopping", "down"}]
          /\ runs \in [Events -> Nat]
          /\ age \in [Events -> Nat]
          /\ faults \in 0..MaxFaults
          /\ stops \in 0..MaxStops

\* A row is in the hands of at most one tick, from the lock of its claim to
\* its mark, however many ticks and processes run; an open claim has only
\* PENDING rows, and a batch only PROCESSING rows (or the one the tick itself
\* has just marked DONE without hearing of it).
OneOwner == \A t \in Ticks :
    /\ \A e \in locked[t] : status[e] = "PENDING"
    /\ \A e \in held[t] : \/ status[e] = "PROCESSING"
                          \/ status[e] = "DONE" /\ pc[t] = "failing" /\ cur[t] = e
    /\ \A u \in Ticks \ {t} :
          (locked[t] \cup held[t]) \cap (locked[u] \cup held[u]) = {}

\* markFailed writes "the attempts I read when I claimed" plus one, not an
\* increment in the database: what a tick read is still what the row has for
\* as long as the row is in its batch.
SnapshotCurrent == \A t \in Ticks : \A e \in held[t] : seen[t][e] = attempts[e]

\* A row is FAILED exactly when its attempts are used up.
FailedWhenExhausted ==
    \A e \in Events : status[e] = "FAILED" <=> attempts[e] = MAX_ATTEMPTS

\* At-least-once has a ceiling: whatever fails, stops or overlaps, the handler
\* of an event completes at most MAX_ATTEMPTS times, and never more than once
\* beyond the recorded attempts.
HandlerRunsBounded == \A e \in Events : /\ runs[e] <= attempts[e] + 1
                                        /\ runs[e] <= MAX_ATTEMPTS

\* Unless the answer of markDone can be lost, a row that has been DONE stays
\* DONE; no failure of anything else reopens it.
DoneIsFinal == "markDoneAck" \notin DbFaults =>
                  \A e \in Events : doneAt[e] <=> status[e] = "DONE"

\* The rows nobody will ever look at again: claimed, and in no batch.
Orphans == {e \in Events : /\ status[e] = "PROCESSING"
                           /\ \A t \in Ticks : e \notin held[t]}

\* How much one failure can cost: a database failure strands at most the batch
\* of one tick, a stopped process at most the batches of its own ticks (n is
\* any number of ticks that no process exceeds), and without either every
\* PROCESSING row is in some tick's batch.
OrphansBounded ==
    \A n \in 0..Cardinality(Ticks) :
        (\A w \in Workers : Cardinality(TicksOf(w)) <= n) =>
            Cardinality(Orphans) <= BATCH_SIZE * (faults + stops * n)

\* A handler that never throws is charged an attempt only for a database
\* failure, so without MAX_ATTEMPTS failures no known event ends FAILED.
KnownEventsFailOnFaultsOnly ==
    \A e \in Events : EventType[e] \in HandlerTypes => attempts[e] <= faults

\* The retries really are spread out: by the time a row is FAILED at least
\* MaxAge has passed since its first failed attempt, for any MaxAge up to the
\* sum of the backoffs.
FailedAfterSchedule == \A e \in Events : status[e] = "FAILED" => age[e] >= MaxAge

\* Attempts only grow, one at a time, and FAILED is left by nobody: no tick
\* writes a row back from an outdated copy.
AttemptsGrow == [][\A e \in Events :
                      /\ attempts'[e] \in {attempts[e], attempts[e] + 1}
                      /\ status[e] = "FAILED" => status'[e] = "FAILED"]_vars

\* Every event that reaches the table is eventually DONE or FAILED.
EveryEventSettles == \A e \in Events :
    status[e] = "PENDING" ~> status[e] \in {"DONE", "FAILED"}

\* The outcome is decided by the event's type: a known event ends DONE, an
\* unknown one FAILED after its retries.
TypeDecidesOutcome == \A e \in Events : status[e] = "PENDING" ~>
    [](status[e] = IF EventType[e] \in HandlerTypes THEN "DONE" ELSE "FAILED")

-----------------------------------------------------------------------------
(* The inductive invariant: the parts of the argument that the properties     *)
(* above do not say themselves                                                *)

\* What a tick has in its hands, by where it is.
Control == \A t \in Ticks :
    /\ pc[t] # "locked" => locked[t] = {}
    /\ pc[t] \in {"idle", "claiming", "locked"} => held[t] = {}
    /\ pc[t] \in {"handled", "failing"} => cur[t] \in held[t]

\* Handler completions against attempts: the one completion an attempt can be
\* short of belongs to the row its tick is at, or to a row that is not waiting.
Counting == \A e \in Events :
    /\ runs[e] <= attempts[e] + 1
    /\ status[e] \in {"ABSENT", "PENDING", "FAILED"} => runs[e] <= attempts[e]
    /\ \A t \in Ticks :
          e \in held[t] /\ ~(pc[t] \in {"handled", "failing"} /\ cur[t] = e)
              => runs[e] <= attempts[e]

IInv == /\ TypeOK
        /\ Control
        /\ OneOwner
        /\ SnapshotCurrent
        /\ FailedWhenExhausted
        /\ Counting

-----------------------------------------------------------------------------
(* The contract: batches, locks, time and processes are hidden *)

Ledger == INSTANCE EventLedger WITH
              Consumers <- Ticks, MaxTries <- MAX_ATTEMPTS,
              state <- status, tries <- attempts, owned <- held

\* Every step of the outbox is a step of the ledger or leaves it unchanged:
\* between its claim and its mark a row changes only by the hand of the tick
\* that claimed it, and every failure it reports costs exactly one attempt.
ImplementsLedger == Ledger!Spec
=============================================================================
