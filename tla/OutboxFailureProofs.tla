------------------------ MODULE OutboxFailureProofs -------------------------
(***************************************************************************)
(* What failures, stops and time can and cannot do to the rows of the      *)
(* outbox.  Each theorem has an invariant of its own on top of the IInv of *)
(* OutboxProofs.                                                           *)
(***************************************************************************)
EXTENDS OutboxProofs, FiniteSetTheorems

USE EventsAssumption, TicksAssumption, AttemptsAssumption, BoundsAssumption
    DEF NoEvent, Statuses

-----------------------------------------------------------------------------
(* What is DONE stays DONE *)

\* Without the lost answer of markDone no row of a batch is DONE.
Final == "markDoneAck" \notin DbFaults =>
            /\ \A e \in Events : doneAt[e] <=> status[e] = "DONE"
            /\ \A t \in Ticks : \A e \in held[t] : status[e] = "PROCESSING"

\* What marks a row in the step of one tick, the rest of the table unchanged.
LEMMA FinalMark ==
    ASSUME IInv, Final, "markDoneAck" \notin DbFaults, NEW t \in Ticks,
           pc[t] \in {"handled", "failing"},
           \A e \in Events \ {cur[t]} : status'[e] = status[e] /\ doneAt'[e] = doneAt[e],
           doneAt'[cur[t]] <=> status'[cur[t]] = "DONE",
           \A u \in Ticks : held'[u] \subseteq held[u] \ {cur[t]}
    PROVE  Final'
<1>1. cur[t] \in held[t] /\ cur[t] \in Events
  BY FailingRow
<1>2. \A u \in Ticks : held[u] \subseteq Events
  BY DEF IInv, TypeOK
<1> QED
  BY <1>1, <1>2 DEF Final

LEMMA FinalNext == IInv /\ Final /\ [Next]_vars => Final'
<1> SUFFICES ASSUME IInv, Final, [Next]_vars, "markDoneAck" \notin DbFaults
             PROVE  Final'
  BY DEF Final
<1>1. ASSUME UNCHANGED <<status, doneAt>>, \A t \in Ticks : held'[t] \subseteq held[t]
      PROVE  Final'
  BY <1>1 DEF Final
<1>2. ASSUME NEW e \in Events, Insert(e) PROVE Final'
  BY <1>2 DEF Insert, ticks, IInv, TypeOK, Final
<1>3. ASSUME NEW t \in Ticks, ClaimCommits(t) PROVE Final'
  BY <1>3 DEF ClaimCommits, BatchProcessing, IInv, TypeOK, OneOwner, Final
<1>4. ASSUME NEW t \in Ticks, ClaimAckLost(t) PROVE Final'
  BY <1>4 DEF ClaimAckLost, BatchProcessing, IInv, TypeOK, OneOwner, Final
<1>5. ASSUME NEW t \in Ticks, MarkDone(t) PROVE Final'
  <2>1. /\ cur[t] \in Events
        /\ \A u \in Ticks \ {t} : cur[t] \notin held[u]
    BY <1>5, FailingRow DEF MarkDone, IInv, OneOwner
  <2>2. \A u \in Ticks : held'[u] \subseteq held[u] \ {cur[t]}
    BY <1>5, <2>1 DEF MarkDone, NextRow, IInv, TypeOK
  <2>3. /\ status' = [status EXCEPT ![cur[t]] = "DONE"]
        /\ doneAt' = [doneAt EXCEPT ![cur[t]] = TRUE]
    BY <1>5 DEF MarkDone, RowDone
  <2>4. /\ \A e \in Events \ {cur[t]} : status'[e] = status[e] /\ doneAt'[e] = doneAt[e]
        /\ doneAt'[cur[t]] <=> status'[cur[t]] = "DONE"
    BY <2>1, <2>3 DEF IInv, TypeOK
  <2> QED
    BY <1>5, <2>2, <2>4, FinalMark DEF MarkDone
<1>6. ASSUME NEW t \in Ticks, MarkFailed(t) \/ MarkFailedAckLost(t) PROVE Final'
  <2>1. pc[t] = "failing" /\ RowFailed(cur[t], seen[t][cur[t]] + 1)
    BY <1>6 DEF MarkFailed, MarkFailedAckLost
  <2>2. /\ cur[t] \in Events /\ cur[t] \in held[t]
        /\ \A u \in Ticks \ {t} : cur[t] \notin held[u]
    BY <2>1, FailingRow DEF IInv, OneOwner
  <2>3. /\ status' = [status EXCEPT ![cur[t]] =
               IF attempts[cur[t]] + 1 = MAX_ATTEMPTS THEN "FAILED" ELSE "PENDING"]
        /\ doneAt' = doneAt
    BY <2>1, RowFailedEffect
  <2>4. \A u \in Ticks : held'[u] \subseteq held[u] \ {cur[t]}
    BY <1>6, <2>2 DEF MarkFailed, MarkFailedAckLost, NextRow, BatchDropped, IInv, TypeOK
  <2>5. ~doneAt[cur[t]] /\ status'[cur[t]] # "DONE"
    BY <2>2, <2>3 DEF Final, IInv, TypeOK
  <2>6. \A e \in Events \ {cur[t]} : status'[e] = status[e] /\ doneAt'[e] = doneAt[e]
    BY <2>3 DEF IInv, TypeOK
  <2>7. doneAt'[cur[t]] <=> status'[cur[t]] = "DONE"
    BY <2>3, <2>5
  <2> QED
    BY <2>1, <2>4, <2>6, <2>7, FinalMark
<1>7. ASSUME NEW t \in Ticks, TickSteps(t) PROVE Final'
  <2>1. CASE \/ SelectDue(t) \/ SelectNothing(t) \/ SelectFails(t) \/ ClaimAborts(t)
             \/ \E e \in Events : HandlerSucceeds(t, e) \/ HandlerThrows(t, e)
             \/ MarkDoneFails(t) \/ MarkFailedFails(t) \/ TickEnds(t)
    <3>1. UNCHANGED <<status, doneAt>> /\ \A u \in Ticks : held'[u] \subseteq held[u]
      BY <2>1 DEF SelectDue, SelectNothing, SelectFails, ClaimAborts, HandlerSucceeds,
                  HandlerThrows, MarkDoneFails, MarkFailedFails, TickEnds, BatchDropped, table
    <3> QED
      BY <1>1, <3>1
  <2>2. ~MarkDoneAckLost(t)
    BY DEF MarkDoneAckLost, Fault
  <2> QED
    BY <1>3, <1>4, <1>5, <1>6, <1>7, <2>1, <2>2 DEF TickSteps
<1>8. CASE \/ \E t \in Ticks : TickFires(t)
           \/ TimePasses
           \/ \E w \in Workers : Shutdown(w) \/ Exit(w) \/ Crash(w) \/ Start(w)
           \/ UNCHANGED vars
  <2>1. UNCHANGED <<status, doneAt>> /\ \A u \in Ticks : held'[u] \subseteq held[u]
    BY <1>8 DEF TickFires, TimePasses, Shutdown, Exit, Crash, Start, Killed, BatchDropped,
                table, ticks, vars
  <2> QED
    BY <1>1, <2>1
<1> QED
  BY <1>2, <1>7, <1>8 DEF Next

\* Only the lost answer of markDone reopens a row that was DONE.
THEOREM DoneStaysDone == Spec => []DoneIsFinal
<1>1. Init => Final
  BY DEF Init, Final
<1>2. Final => DoneIsFinal
  BY DEF Final, DoneIsFinal
<1> QED
  BY <1>1, <1>2, FinalNext, Inductive, PTL DEF Spec

\* A known event has been charged for failures only, and a tick that is about
\* to charge one has a failure more to show for it.
Charged == /\ KnownEventsFailOnFaultsOnly
           /\ \A t \in Ticks : pc[t] = "failing" /\ EventType[cur[t]] \in HandlerTypes =>
                               attempts[cur[t]] < faults

\* No attempt is written, and no tick but those of T comes to "failing".
LEMMA ChargedQuiet ==
    ASSUME IInv, Charged, attempts' = attempts, faults' \in Nat, faults <= faults',
           \A t \in Ticks : pc'[t] = "failing" /\ EventType[cur'[t]] \in HandlerTypes =>
                             \/ pc[t] = "failing" /\ cur'[t] = cur[t]
                             \/ faults < faults' /\ cur'[t] \in Events
    PROVE  Charged'
<1>1. faults \in Nat /\ attempts \in [Events -> Nat]
  BY DEF IInv, TypeOK
<1>2. \A e \in Events : EventType[e] \in HandlerTypes => attempts[e] <= faults
  BY DEF Charged, KnownEventsFailOnFaultsOnly
<1>3. KnownEventsFailOnFaultsOnly'
  BY <1>1, <1>2 DEF KnownEventsFailOnFaultsOnly
<1>4. ASSUME NEW t \in Ticks, pc'[t] = "failing", EventType[cur'[t]] \in HandlerTypes
      PROVE  attempts'[cur'[t]] < faults'
  <2>1. CASE pc[t] = "failing" /\ cur'[t] = cur[t]
    <3>1. cur[t] \in Events /\ attempts[cur[t]] < faults
      BY <1>4, <2>1, FailingRow DEF Charged
    <3>2. attempts[cur[t]] \in Nat /\ attempts'[cur'[t]] = attempts[cur[t]]
      BY <1>1, <2>1, <3>1
    <3> QED
      BY <1>1, <3>1, <3>2
  <2>2. CASE faults < faults' /\ cur'[t] \in Events
    <3>1. attempts[cur'[t]] \in Nat /\ attempts'[cur'[t]] = attempts[cur'[t]]
      BY <1>1, <2>2
    <3>2. attempts[cur'[t]] <= faults
      BY <1>2, <1>4, <2>2
    <3> QED
      BY <1>1, <2>2, <3>1, <3>2
  <2> QED
    BY <1>4, <2>1, <2>2
<1> QED
  BY <1>3, <1>4 DEF Charged

LEMMA ChargedNext == IInv /\ Charged /\ [Next]_vars => Charged'
<1> SUFFICES ASSUME IInv, Charged, [Next]_vars PROVE Charged'
  OBVIOUS
<1>1. faults \in Nat /\ \A t \in Ticks : cur[t] \in Events \union {NoEvent}
  BY DEF IInv, TypeOK
<1>2. ASSUME NEW t \in Ticks, MarkFailed(t) \/ MarkFailedAckLost(t) PROVE Charged'
  <2>1. pc[t] = "failing" /\ RowFailed(cur[t], seen[t][cur[t]] + 1)
    BY <1>2 DEF MarkFailed, MarkFailedAckLost
  <2>2. /\ cur[t] \in Events
        /\ attempts' = [attempts EXCEPT ![cur[t]] = attempts[cur[t]] + 1]
    BY <2>1, FailingRow, RowFailedEffect
  <2>3. faults' \in Nat /\ faults <= faults'
    BY <1>1, <1>2 DEF MarkFailed, MarkFailedAckLost, Fault
  <2>4. attempts \in [Events -> Nat]
    BY DEF IInv, TypeOK
  <2>5. ASSUME NEW e \in Events, EventType[e] \in HandlerTypes PROVE attempts'[e] <= faults'
    <3>1. CASE e = cur[t]
      <4>1. attempts[e] < faults
        BY <2>1, <2>5, <3>1 DEF Charged
      <4> QED
        BY <1>1, <2>2, <2>3, <2>4, <3>1, <4>1
    <3>2. CASE e # cur[t]
      <4>1. attempts[e] <= faults /\ attempts'[e] = attempts[e]
        BY <2>2, <2>4, <2>5, <3>2 DEF Charged, KnownEventsFailOnFaultsOnly
      <4> QED
        BY <1>1, <2>3, <2>4, <4>1
    <3> QED
      BY <3>1, <3>2
  <2>6. ASSUME NEW u \in Ticks, pc'[u] = "failing", EventType[cur'[u]] \in HandlerTypes
        PROVE  attempts'[cur'[u]] < faults'
    <3>1. pc[u] = "failing" /\ cur'[u] = cur[u] /\ u # t
      BY <1>2, <2>6 DEF MarkFailed, MarkFailedAckLost, NextRow, BatchDropped, IInv, TypeOK
    <3>2. cur[u] \in held[u] /\ cur[t] \in held[t] /\ cur[u] \in Events
      BY <2>1, <3>1, FailingRow
    <3>3. cur[u] # cur[t]
      BY <3>1, <3>2 DEF IInv, OneOwner
    <3>4. attempts'[cur[u]] = attempts[cur[u]] /\ attempts[cur[u]] < faults
      BY <2>2, <2>4, <2>6, <3>1, <3>2, <3>3 DEF Charged
    <3>5. attempts[cur[u]] \in Nat /\ attempts'[cur'[u]] = attempts[cur[u]]
      BY <2>4, <3>1, <3>2, <3>4
    <3> QED
      BY <1>1, <2>3, <3>4, <3>5
  <2> QED
    BY <2>5, <2>6 DEF Charged, KnownEventsFailOnFaultsOnly
<1>3. ASSUME NEW t \in Ticks, NEW e \in Events, HandlerThrows(t, e) PROVE Charged'
  <2>1. \A u \in Ticks : pc'[u] = "failing" /\ EventType[cur'[u]] \in HandlerTypes =>
                           pc[u] = "failing" /\ cur'[u] = cur[u]
    BY <1>3 DEF HandlerThrows, IInv, TypeOK
  <2> QED
    BY <1>1, <1>3, <2>1, ChargedQuiet DEF HandlerThrows, table
<1>4. ASSUME NEW t \in Ticks, MarkDoneFails(t) \/ MarkDoneAckLost(t) PROVE Charged'
  <2>1. /\ attempts' = attempts /\ faults' = faults + 1
        /\ cur' = cur /\ pc[t] = "handled" /\ pc' = [pc EXCEPT ![t] = "failing"]
    BY <1>4 DEF MarkDoneFails, MarkDoneAckLost, RowDone, Fault, table
  <2>2. cur[t] \in Events
    BY <2>1, FailingRow
  <2> QED
    BY <1>1, <2>1, <2>2, ChargedQuiet DEF IInv, TypeOK
<1>5. ASSUME NEW t \in Ticks,
             \/ SelectDue(t) \/ SelectNothing(t) \/ SelectFails(t) \/ ClaimCommits(t)
             \/ ClaimAborts(t) \/ ClaimAckLost(t) \/ MarkDone(t) \/ MarkFailedFails(t)
             \/ TickEnds(t) \/ TickFires(t)
             \/ \E e \in Events : HandlerSucceeds(t, e)
      PROVE  Charged'
  <2>1. attempts' = attempts /\ faults' \in {faults, faults + 1}
    BY <1>5 DEF SelectDue, SelectNothing, SelectFails, ClaimCommits, ClaimAborts, ClaimAckLost,
                MarkDone, MarkFailedFails, TickEnds, TickFires, HandlerSucceeds,
                BatchProcessing, RowDone, Fault, table
  <2>2. \A u \in Ticks : pc'[u] = "failing" => pc[u] = "failing" /\ cur'[u] = cur[u]
    BY <1>5 DEF SelectDue, SelectNothing, SelectFails, ClaimCommits, ClaimAborts, ClaimAckLost,
                MarkDone, MarkFailedFails, TickEnds, TickFires, HandlerSucceeds,
                NextRow, BatchDropped, IInv, TypeOK
  <2> QED
    BY <1>1, <2>1, <2>2, ChargedQuiet
<1>6. CASE \/ \E e \in Events : Insert(e)
           \/ TimePasses
           \/ \E w \in Workers : Shutdown(w) \/ Exit(w) \/ Crash(w) \/ Start(w)
           \/ UNCHANGED vars
  <2>1. attempts' = attempts /\ faults' = faults
    BY <1>6 DEF Insert, TimePasses, Shutdown, Exit, Crash, Start, Killed, table, vars
  <2>2. \A u \in Ticks : pc'[u] = "failing" => pc[u] = "failing" /\ cur'[u] = cur[u]
    BY <1>6 DEF Insert, TimePasses, Shutdown, Exit, Crash, Start, Killed, BatchDropped,
                ticks, vars, IInv, TypeOK
  <2> QED
    BY <1>1, <2>1, <2>2, ChargedQuiet
<1> QED
  BY <1>2, <1>3, <1>4, <1>5, <1>6 DEF Next, TickSteps

\* An event whose handler never throws ends FAILED only through MAX_ATTEMPTS
\* failures of the database.
THEOREM KnownEventsFailOnFaults == Spec => []KnownEventsFailOnFaultsOnly
<1>1. Init => Charged
  BY DEF Init, Charged, KnownEventsFailOnFaultsOnly
<1>2. Charged => KnownEventsFailOnFaultsOnly
  BY DEF Charged
<1> QED
  BY <1>1, <1>2, ChargedNext, Inductive, PTL DEF Spec

-----------------------------------------------------------------------------
(* The schedule of the retries *)

\* W[n] is what the retries before the n-th attempt wait in all.
Schedule(W) == /\ W \in [1..MAX_ATTEMPTS -> Nat]
               /\ W[1] = 0
               /\ \A n \in 1..(MAX_ATTEMPTS - 1) : W[n + 1] = W[n] + Backoff(n)

\* A row is claimed when it is due, and stays due in the hands of the tick.
HandsDue == \A t \in Ticks : \A e \in locked[t] \union held[t] : delay[e] = 0

\* The time since the first failure and the wait that is left make up the
\* waits before the next attempt, as far as age can count them.
Paced(W) == \A e \in Events :
    /\ age[e] <= MaxAge
    /\ attempts[e] < MAX_ATTEMPTS =>
           age[e] + delay[e] >= Least(W[attempts[e] + 1], MaxAge)
    /\ attempts[e] = MAX_ATTEMPTS => age[e] >= Least(W[MAX_ATTEMPTS], MaxAge)

LEMMA HandsDueNext == IInv /\ HandsDue /\ [Next]_vars => HandsDue'
<1> SUFFICES ASSUME IInv, HandsDue, [Next]_vars PROVE HandsDue'
  OBVIOUS
<1>1. ASSUME UNCHANGED delay,
             \A t \in Ticks : locked'[t] \union held'[t] \subseteq locked[t] \union held[t]
      PROVE  HandsDue'
  BY <1>1 DEF HandsDue
<1>2. ASSUME NEW t \in Ticks, SelectDue(t) PROVE HandsDue'
  <2>1. \A e \in Oldest(Claimable) : delay[e] = 0
    BY OldestSubset DEF Claimable
  <2>2. delay' = delay /\ held' = held /\ locked' = [locked EXCEPT ![t] = Oldest(Claimable)]
    BY <1>2 DEF SelectDue, table
  <2> QED
    BY <2>1, <2>2 DEF HandsDue, IInv, TypeOK
<1>3. ASSUME NEW t \in Ticks, MarkFailed(t) \/ MarkFailedAckLost(t) PROVE HandsDue'
  <2>1. pc[t] = "failing" /\ RowFailed(cur[t], seen[t][cur[t]] + 1)
    BY <1>3 DEF MarkFailed, MarkFailedAckLost
  <2>2. cur[t] \in held[t] /\ cur[t] \in Events /\ locked[t] = {}
    BY <2>1, FailingRow DEF IInv, Control
  <2>3. \A u \in Ticks \ {t} : cur[t] \notin locked[u] \union held[u]
    BY <2>2 DEF IInv, OneOwner
  <2>4. \A e \in Events \ {cur[t]} : delay'[e] = delay[e]
    BY <2>1 DEF RowFailed, IInv, TypeOK
  <2>5. \A u \in Ticks : locked'[u] \union held'[u]
                             \subseteq (locked[u] \union held[u]) \ {cur[t]}
    BY <1>3, <2>2, <2>3 DEF MarkFailed, MarkFailedAckLost, NextRow, BatchDropped, IInv, TypeOK
  <2>6. \A u \in Ticks : locked[u] \union held[u] \subseteq Events
    BY DEF IInv, TypeOK
  <2> QED
    BY <2>4, <2>5, <2>6 DEF HandsDue
<1>4. CASE TimePasses
  <2>1. /\ \A e \in Events : delay[e] = 0 => delay'[e] = 0
        /\ locked' = locked /\ held' = held
    BY <1>4 DEF TimePasses, ticks
  <2> QED
    BY <2>1 DEF HandsDue, IInv, TypeOK
<1>5. ASSUME NEW t \in Ticks, ClaimCommits(t) PROVE HandsDue'
  <2>1. UNCHANGED delay /\ locked' = [locked EXCEPT ![t] = {}]
        /\ held' = [held EXCEPT ![t] = locked[t]]
    BY <1>5 DEF ClaimCommits, BatchProcessing
  <2>2. \A u \in Ticks : locked'[u] \union held'[u] \subseteq locked[u] \union held[u]
    BY <2>1 DEF IInv, TypeOK
  <2> QED
    BY <1>1, <2>1, <2>2
<1>6. ASSUME NEW t \in Ticks,
             \/ TickFires(t) \/ SelectNothing(t) \/ SelectFails(t) \/ ClaimAborts(t)
             \/ ClaimAckLost(t) \/ MarkDone(t) \/ MarkDoneFails(t) \/ MarkDoneAckLost(t)
             \/ MarkFailedFails(t) \/ TickEnds(t)
             \/ \E e \in Events : HandlerSucceeds(t, e) \/ HandlerThrows(t, e)
      PROVE  HandsDue'
  <2>1. UNCHANGED delay
    BY <1>6 DEF TickFires, SelectNothing, SelectFails, ClaimAborts, ClaimAckLost, MarkDone,
                MarkDoneFails, MarkDoneAckLost, MarkFailedFails, TickEnds, HandlerSucceeds,
                HandlerThrows, BatchProcessing, RowDone, table
  <2>2. \A u \in Ticks : locked'[u] \subseteq locked[u] /\ held'[u] \subseteq held[u]
    <3>1. locked' = locked \/ locked' = [locked EXCEPT ![t] = {}]
      <4>1. CASE ClaimAborts(t) \/ ClaimAckLost(t)
        BY <4>1 DEF ClaimAborts, ClaimAckLost, BatchProcessing
      <4>2. CASE ~(ClaimAborts(t) \/ ClaimAckLost(t))
        BY <1>6, <4>2 DEF TickFires, SelectNothing, SelectFails, MarkDone, MarkDoneFails,
                          MarkDoneAckLost, MarkFailedFails, TickEnds, HandlerSucceeds,
                          HandlerThrows, NextRow
      <4> QED
        BY <4>1, <4>2
    <3>2. \A u \in Ticks : held'[u] \subseteq held[u]
      <4>1. CASE MarkDone(t) \/ MarkFailedFails(t)
        BY <4>1 DEF MarkDone, MarkFailedFails, NextRow, BatchDropped, IInv, TypeOK
      <4>2. CASE ~(MarkDone(t) \/ MarkFailedFails(t))
        BY <1>6, <4>2 DEF TickFires, SelectNothing, SelectFails, ClaimAborts, ClaimAckLost,
                          MarkDoneFails, MarkDoneAckLost, TickEnds, HandlerSucceeds,
                          HandlerThrows
      <4> QED
        BY <4>1, <4>2
    <3> QED
      BY <3>1, <3>2 DEF IInv, TypeOK
  <2> QED
    BY <1>1, <2>1, <2>2
<1>7. CASE \/ \E e \in Events : Insert(e)
           \/ \E w \in Workers : Shutdown(w) \/ Exit(w) \/ Crash(w) \/ Start(w)
           \/ UNCHANGED vars
  <2>1. UNCHANGED delay
    BY <1>7 DEF Insert, Shutdown, Exit, Crash, Start, Killed, table, vars
  <2>2. \A u \in Ticks : locked'[u] \subseteq locked[u] /\ held'[u] \subseteq held[u]
    BY <1>7 DEF Insert, Shutdown, Exit, Crash, Start, Killed, BatchDropped, ticks, vars
  <2> QED
    BY <1>1, <2>1, <2>2
<1> QED
  BY <1>2, <1>3, <1>4, <1>5, <1>6, <1>7 DEF Next, TickSteps

LEMMA PacedNext ==
    ASSUME NEW W, Schedule(W), IInv, HandsDue, Paced(W), [Next]_vars
    PROVE  Paced(W)'
<1>1. /\ attempts \in [Events -> 0..MAX_ATTEMPTS] /\ delay \in [Events -> Nat]
      /\ age \in [Events -> Nat]
  BY DEF IInv, TypeOK
<1>2. ASSUME UNCHANGED <<attempts, delay, age>> PROVE Paced(W)'
  BY <1>2 DEF Paced
<1>3. ASSUME NEW t \in Ticks, MarkFailed(t) \/ MarkFailedAckLost(t) PROVE Paced(W)'
  <2> DEFINE r == cur[t]
             n == attempts[r] + 1
  <2>1. pc[t] = "failing" /\ RowFailed(r, seen[t][r] + 1) /\ age' = age
    BY <1>3 DEF MarkFailed, MarkFailedAckLost, NextRow, history
  <2>2. r \in held[t] /\ r \in Events /\ seen[t][r] + 1 = n /\ n \in 1..MAX_ATTEMPTS
    BY <2>1, FailingRow
  <2>3. delay[r] = 0
    BY <2>2 DEF HandsDue
  <2>4. age[r] <= MaxAge /\ age[r] >= Least(W[n], MaxAge)
    <3>1. attempts[r] < MAX_ATTEMPTS /\ age[r] \in Nat
      <4>1. attempts[r] \in 0..MAX_ATTEMPTS /\ age[r] \in Nat
        BY <1>1, <2>2
      <4> QED
        BY <2>2, <4>1
    <3>2. age[r] <= MaxAge /\ age[r] + delay[r] >= Least(W[n], MaxAge)
      BY <2>2, <3>1 DEF Paced
    <3>3. age[r] + delay[r] = age[r]
      BY <2>3, <3>1
    <3> QED
      BY <3>2, <3>3
  <2>5. W[n] \in Nat /\ Backoff(n) \in Nat
    BY <2>2, BackoffType DEF Schedule
  <2>6. RowFailed(r, n)
    BY <2>1, <2>2
  <2> HIDE DEF r, n
  <2>7. \A e \in Events \ {r} : attempts'[e] = attempts[e] /\ delay'[e] = delay[e]
    BY <1>1, <2>6 DEF RowFailed
  <2>8. attempts'[r] = n
    BY <1>1, <2>2, <2>6 DEF RowFailed
  <2>9. n < MAX_ATTEMPTS => delay'[r] = Backoff(n) /\ W[n + 1] = W[n] + Backoff(n)
    BY <1>1, <2>2, <2>6 DEF RowFailed, Schedule
  <2>10. n = MAX_ATTEMPTS => age[r] >= Least(W[MAX_ATTEMPTS], MaxAge)
    BY <2>4
  <2>11. n < MAX_ATTEMPTS => age[r] + delay'[r] >= Least(W[n + 1], MaxAge)
    BY <1>1, <2>2, <2>4, <2>5, <2>9 DEF Least
  <2> QED
    BY <2>1, <2>4, <2>7, <2>8, <2>10, <2>11 DEF Paced
<1>4. CASE TimePasses
  <2> SUFFICES ASSUME NEW e \in Events
               PROVE  /\ age'[e] <= MaxAge
                      /\ attempts'[e] < MAX_ATTEMPTS =>
                             age'[e] + delay'[e] >= Least(W[attempts'[e] + 1], MaxAge)
                      /\ attempts'[e] = MAX_ATTEMPTS =>
                             age'[e] >= Least(W[MAX_ATTEMPTS], MaxAge)
    BY DEF Paced
  <2> DEFINE a == attempts[e]
             d == delay[e]
             x == age[e]
  <2>1. /\ attempts'[e] = a
        /\ delay'[e] = IF d > 0 THEN d - 1 ELSE 0
        /\ age'[e] = IF a > 0 THEN Least(x + 1, MaxAge) ELSE x
    BY <1>4 DEF TimePasses
  <2>2. a \in 0..MAX_ATTEMPTS /\ d \in Nat /\ x \in Nat /\ W[MAX_ATTEMPTS] \in Nat
    BY <1>1 DEF Schedule
  <2>3. a < MAX_ATTEMPTS => W[a + 1] \in Nat
    BY <2>2 DEF Schedule
  <2>4. /\ x <= MaxAge
        /\ a < MAX_ATTEMPTS => x + d >= Least(W[a + 1], MaxAge)
        /\ a = MAX_ATTEMPTS => x >= Least(W[MAX_ATTEMPTS], MaxAge)
    BY DEF Paced
  <2>5. W[1] = 0
    BY DEF Schedule
  <2> HIDE DEF a, d, x
  <2>6. CASE a = 0
    BY <2>1, <2>2, <2>4, <2>5, <2>6 DEF Least
  <2>7. CASE a > 0
    BY <2>1, <2>2, <2>3, <2>4, <2>7 DEF Least
  <2> QED
    BY <2>2, <2>6, <2>7
<1>5. ASSUME NEW t \in Ticks,
             \/ TickFires(t) \/ SelectDue(t) \/ SelectNothing(t) \/ SelectFails(t)
             \/ ClaimCommits(t) \/ ClaimAborts(t) \/ ClaimAckLost(t) \/ MarkDone(t)
             \/ MarkDoneFails(t) \/ MarkDoneAckLost(t) \/ MarkFailedFails(t) \/ TickEnds(t)
             \/ \E e \in Events : HandlerSucceeds(t, e) \/ HandlerThrows(t, e)
      PROVE  Paced(W)'
  <2>1. UNCHANGED <<attempts, delay, age>>
    BY <1>5 DEF TickFires, SelectDue, SelectNothing, SelectFails, ClaimCommits, ClaimAborts,
                ClaimAckLost, MarkDone, MarkDoneFails, MarkDoneAckLost, MarkFailedFails,
                TickEnds, HandlerSucceeds, HandlerThrows, BatchProcessing, RowDone, NextRow,
                table, history
  <2> QED
    BY <1>2, <2>1
<1>6. CASE \/ \E e \in Events : Insert(e)
           \/ \E w \in Workers : Shutdown(w) \/ Exit(w) \/ Crash(w) \/ Start(w)
           \/ UNCHANGED vars
  <2>1. UNCHANGED <<attempts, delay, age>>
    BY <1>6 DEF Insert, Shutdown, Exit, Crash, Start, Killed, table, history, vars
  <2> QED
    BY <1>2, <2>1
<1> QED
  BY <1>3, <1>4, <1>5, <1>6 DEF Next, TickSteps

\* A row is not FAILED before all the waits of its schedule have passed, for
\* any backoffs and however the failures, the ticks and the clock interleave.
THEOREM FailedOnSchedule ==
    ASSUME NEW CONSTANT W, Schedule(W), MaxAge <= W[MAX_ATTEMPTS]
    PROVE  Spec => []FailedAfterSchedule
<1>1. Init => HandsDue /\ Paced(W)
  <2> SUFFICES ASSUME Init PROVE HandsDue /\ Paced(W)
    OBVIOUS
  <2>1. HandsDue
    BY DEF Init, HandsDue
  <2>2. \A e \in Events : age[e] = 0 /\ attempts[e] = 0 /\ delay[e] = 0
    BY DEF Init
  <2> QED
    BY <2>1, <2>2 DEF Paced, Schedule, Least
<1>2. IInv /\ HandsDue /\ Paced(W) /\ [Next]_vars => HandsDue' /\ Paced(W)'
  BY HandsDueNext, PacedNext
<1>3. IInv /\ Paced(W) => FailedAfterSchedule
  <2> SUFFICES ASSUME IInv, Paced(W), NEW e \in Events, status[e] = "FAILED"
               PROVE  age[e] >= MaxAge
    BY DEF FailedAfterSchedule
  <2>1. attempts[e] = MAX_ATTEMPTS
    BY DEF IInv, FailedWhenExhausted
  <2>2. age[e] >= Least(W[MAX_ATTEMPTS], MaxAge)
    BY <2>1 DEF Paced
  <2>3. W[MAX_ATTEMPTS] \in Nat /\ age[e] \in Nat
    BY DEF Schedule, IInv, TypeOK
  <2> QED
    BY <2>2, <2>3 DEF Least
<1> QED
  BY <1>1, <1>2, <1>3, Inductive, PTL DEF Spec

\* The same with the MAX_ATTEMPTS of main.ts: four waits lie between the first
\* attempt and the fifth, 60 + 120 + 240 + 480 s with its other constants.
COROLLARY FailedAfterFourWaits ==
    ASSUME MAX_ATTEMPTS = 5,
           MaxAge <= Backoff(1) + Backoff(2) + Backoff(3) + Backoff(4)
    PROVE  Spec => []FailedAfterSchedule
<1> DEFINE W == [n \in 1..5 |-> IF n = 1 THEN 0
                           ELSE IF n = 2 THEN Backoff(1)
                           ELSE IF n = 3 THEN Backoff(1) + Backoff(2)
                           ELSE IF n = 4 THEN Backoff(1) + Backoff(2) + Backoff(3)
                           ELSE Backoff(1) + Backoff(2) + Backoff(3) + Backoff(4)]
<1>1. Backoff(1) \in Nat /\ Backoff(2) \in Nat /\ Backoff(3) \in Nat /\ Backoff(4) \in Nat
  BY BackoffType
<1>2. W \in [1..5 -> Nat]
  BY <1>1
<1>3. /\ W[1] = 0 /\ W[2] = W[1] + Backoff(1) /\ W[3] = W[2] + Backoff(2)
      /\ W[4] = W[3] + Backoff(3) /\ W[5] = W[4] + Backoff(4)
  BY <1>1
<1>4. W[5] = Backoff(1) + Backoff(2) + Backoff(3) + Backoff(4)
  OBVIOUS
<1> HIDE DEF W
<1>5. \A n \in 1..4 : n = 1 \/ n = 2 \/ n = 3 \/ n = 4
  OBVIOUS
<1>6. Schedule(W)
  BY <1>2, <1>3, <1>5 DEF Schedule
<1> QED
  BY <1>4, <1>6, FailedOnSchedule

-----------------------------------------------------------------------------
(* The size of a batch *)

\* How many rows of S are older than e.
Rank(S, e) == Cardinality({f \in S : f < e})

\* Only finitely many rows can be older than a row.
LEMMA OlderFinite ==
    ASSUME NEW S \in SUBSET Nat, NEW e \in Nat
    PROVE  {f \in S : f < e} \in SUBSET S /\ IsFiniteSet({f \in S : f < e})
<1> DEFINE A == {f \in S : f < e}
<1>1. A \in SUBSET S
  OBVIOUS
<1>2. A \in SUBSET Nat
  BY <1>1
<1>3. \A f \in A : f <= e
  <2>1. \A f \in A : f \in Nat /\ f < e
    BY <1>2
  <2> HIDE DEF A
  <2> QED
    BY <2>1
<1> HIDE DEF A
<1>4. IsFiniteSet(A)
  BY <1>2, <1>3, FS_BoundedSetOfNaturals
<1> QED
  BY <1>1, <1>4 DEF A

\* Fewer of them are in a part of S.
LEMMA RankType ==
    ASSUME NEW S \in SUBSET Nat, NEW T \in SUBSET S, NEW e \in Nat
    PROVE  /\ Rank(S, e) \in Nat /\ Rank(T, e) \in Nat
           /\ Rank(T, e) <= Rank(S, e)
<1> DEFINE A == {f \in S : f < e}
           B == {f \in T : f < e}
<1>1. IsFiniteSet(A)
  BY OlderFinite
<1>2. B \in SUBSET A
  OBVIOUS
<1>3. Rank(S, e) = Cardinality(A) /\ Rank(T, e) = Cardinality(B)
  BY DEF Rank
<1> HIDE DEF A, B
<1>4. IsFiniteSet(B) /\ Cardinality(B) <= Cardinality(A)
  BY <1>1, <1>2, FS_Subset
<1>5. Cardinality(A) \in Nat /\ Cardinality(B) \in Nat
  BY <1>1, <1>4, FS_CardinalityType
<1> QED
  BY <1>3, <1>4, <1>5

\* No two rows of S have the same rank.
LEMMA RankInjective ==
    ASSUME NEW S \in SUBSET Nat, NEW e \in S, NEW f \in S, Rank(S, e) = Rank(S, f)
    PROVE  e = f
<1>1. ASSUME NEW x \in S, NEW y \in S, x < y PROVE Rank(S, x) # Rank(S, y)
  <2> DEFINE A == {g \in S : g < x}
             B == {g \in S : g < y}
  <2>1. x \in Nat /\ y \in Nat
    OBVIOUS
  <2>2. IsFiniteSet(B)
    BY <2>1, OlderFinite
  <2>3. \A g \in S : g < x => g < y
    BY <1>1
  <2>4. A \in SUBSET B
    BY <2>3
  <2>5. x \in B /\ x \notin A
    BY <1>1, <2>1
  <2>6. Rank(S, x) = Cardinality(A) /\ Rank(S, y) = Cardinality(B)
    BY DEF Rank
  <2> HIDE DEF A, B
  <2>7. Cardinality(A) # Cardinality(B)
    BY <2>2, <2>4, <2>5, FS_Subset
  <2> QED
    BY <2>6, <2>7
<1>2. e \in Nat /\ f \in Nat
  OBVIOUS
<1> QED
  BY <1>1, <1>2

\* What the LIMIT leaves is within the limit, and so is any part of it.
LEMMA OldestIdempotent ==
    ASSUME NEW S \in SUBSET Nat
    PROVE  Oldest(Oldest(S)) = Oldest(S)
<1>1. \A e \in Oldest(S) : Rank(Oldest(S), e) <= Rank(S, e) /\ Rank(S, e) < BATCH_SIZE
  <2>1. Oldest(S) \in SUBSET S
    BY OldestSubset
  <2>2. \A e \in Oldest(S) : Rank(Oldest(S), e) <= Rank(S, e)
    BY <2>1, RankType
  <2>3. \A e \in Oldest(S) : Rank(S, e) < BATCH_SIZE
    BY DEF Oldest, Rank
  <2> QED
    BY <2>2, <2>3
<1>2. \A e \in Oldest(S) : Rank(S, e) \in Nat /\ Rank(Oldest(S), e) \in Nat
  BY RankType, OldestSubset
<1>3. \A e \in Oldest(S) : Rank(Oldest(S), e) < BATCH_SIZE
  BY <1>1, <1>2, BatchAssumption
<1> QED
  BY <1>3 DEF Oldest, Rank

LEMMA PartOfBatch ==
    ASSUME NEW S \in SUBSET Nat, Oldest(S) = S, NEW T \in SUBSET S
    PROVE  Oldest(T) = T
<1>1. ASSUME NEW e \in T PROVE Rank(T, e) < BATCH_SIZE
  <2>1. Rank(S, e) < BATCH_SIZE
    BY DEF Oldest, Rank
  <2>2. Rank(T, e) <= Rank(S, e) /\ Rank(T, e) \in Nat /\ Rank(S, e) \in Nat
    BY RankType
  <2> QED
    BY <2>1, <2>2, BatchAssumption
<1> QED
  BY <1>1 DEF Oldest, Rank

\* The batches of n ticks have at most n * BATCH_SIZE rows: a row is told by
\* the tick that has it and its rank in the batch.
LEMMA BatchesBound ==
    ASSUME NEW T, IsFiniteSet(T), NEW h \in [T -> SUBSET Nat],
           \A t \in T : Oldest(h[t]) = h[t]
    PROVE  LET U == UNION {h[t] : t \in T}
           IN  /\ IsFiniteSet(U)
               /\ Cardinality(U) <= Cardinality(T) * BATCH_SIZE
<1> DEFINE U == UNION {h[t] : t \in T}
           tick(e) == CHOOSE t \in T : e \in h[t]
           place == [e \in U |-> <<tick(e), Rank(h[tick(e)], e)>>]
           P == T \X (0..(BATCH_SIZE - 1))
<1>1. \A e \in U : tick(e) \in T /\ e \in h[tick(e)] /\ h[tick(e)] \in SUBSET Nat
  OBVIOUS
<1> HIDE DEF tick
<1>2. ASSUME NEW e \in U PROVE Rank(h[tick(e)], e) \in 0..(BATCH_SIZE - 1)
  <2>1. Rank(h[tick(e)], e) < BATCH_SIZE
    BY <1>1 DEF Oldest, Rank
  <2>2. Rank(h[tick(e)], e) \in Nat
    BY <1>1, RankType
  <2> QED
    BY <2>1, <2>2, BatchAssumption
<1>3. place \in [U -> P]
  BY <1>1, <1>2
<1>4. ASSUME NEW e \in U, NEW f \in U, place[e] = place[f] PROVE e = f
  <2>1. tick(e) = tick(f) /\ Rank(h[tick(e)], e) = Rank(h[tick(e)], f)
    BY <1>4
  <2>2. e \in h[tick(e)] /\ f \in h[tick(e)] /\ h[tick(e)] \in SUBSET Nat
    BY <1>1, <2>1
  <2> QED
    BY <2>1, <2>2, RankInjective
<1> HIDE DEF U, place, P
<1>5. place \in Injection(U, P)
  BY <1>3, <1>4 DEF Injection, IsInjective
<1>6. IsFiniteSet(0..(BATCH_SIZE - 1)) /\ Cardinality(0..(BATCH_SIZE - 1)) = BATCH_SIZE
  BY BatchAssumption, FS_Interval
<1>7. IsFiniteSet(P) /\ Cardinality(P) = Cardinality(T) * BATCH_SIZE
  BY <1>6, FS_Product DEF P
<1> QED
  BY <1>5, <1>7, FS_Injection DEF U

-----------------------------------------------------------------------------
(* Stranded rows *)

\* Every claim and every batch is what a LIMIT leaves.
Batches == \A t \in Ticks : /\ Oldest(locked[t]) = locked[t]
                            /\ Oldest(held[t]) = held[t]

Stopping == {w \in Workers : proc[w] = "stopping"}

\* No process has more than n ticks.
TicksAtMost(n) == n \in Nat /\ \A w \in Workers : Cardinality(TicksOf(w)) <= n

\* A process that has been told to stop and still runs has its part of the
\* budget left: its rows are stranded when it exits, which is not counted.
Budget(n) == BATCH_SIZE * (faults + (stops - Cardinality(Stopping)) * n)

Stranded(n) == /\ IsFiniteSet(Stopping) /\ Cardinality(Stopping) <= stops
               /\ IsFiniteSet(Orphans) /\ Cardinality(Orphans) <= Budget(n)

AllStranded == \A n \in Nat : TicksAtMost(n) => Stranded(n)

LEMMA BatchesNext == IInv /\ Batches /\ [Next]_vars => Batches'
<1> SUFFICES ASSUME IInv, Batches, [Next]_vars PROVE Batches'
  OBVIOUS
<1>1. \A t \in Ticks : locked[t] \in SUBSET Nat /\ held[t] \in SUBSET Nat
  BY DEF IInv, TypeOK
<1>2. Oldest({}) = {}
  BY DEF Oldest
<1>3. ASSUME \A t \in Ticks : /\ locked'[t] = locked[t] \/ locked'[t] = {}
                              /\ held'[t] \subseteq held[t] \/ held'[t] = locked[t]
      PROVE  Batches'
  <2> SUFFICES ASSUME NEW t \in Ticks
               PROVE  Oldest(locked'[t]) = locked'[t] /\ Oldest(held'[t]) = held'[t]
    BY DEF Batches, Oldest
  <2>1. Oldest(locked[t]) = locked[t] /\ Oldest(held[t]) = held[t]
    BY DEF Batches
  <2>2. held'[t] \subseteq held[t] => Oldest(held'[t]) = held'[t]
    BY <1>1, <2>1, PartOfBatch
  <2> QED
    BY <1>2, <1>3, <2>1, <2>2
<1>4. ASSUME NEW t \in Ticks, SelectDue(t) PROVE Batches'
  <2>1. Claimable \in SUBSET Nat
    BY DEF Claimable
  <2>2. Oldest(Oldest(Claimable)) = Oldest(Claimable)
    BY <2>1, OldestIdempotent
  <2>3. held' = held /\ locked' = [locked EXCEPT ![t] = Oldest(Claimable)]
    BY <1>4 DEF SelectDue
  <2>4. \A u \in Ticks : locked'[u] \in {locked[u], Oldest(Claimable)}
    BY <2>3 DEF IInv, TypeOK
  <2> HIDE DEF Batches
  <2>5. \A u \in Ticks : Oldest(locked'[u]) = locked'[u] /\ Oldest(held'[u]) = held'[u]
    BY <2>2, <2>3, <2>4 DEF Batches
  <2> QED
    BY <2>5 DEF Batches, Oldest
<1>5. ASSUME NEW t \in Ticks, ClaimCommits(t) PROVE Batches'
  <2>1. /\ locked' = [locked EXCEPT ![t] = {}]
        /\ held' = [held EXCEPT ![t] = locked[t]]
    BY <1>5 DEF ClaimCommits, BatchProcessing
  <2>2. \A u \in Ticks : /\ locked'[u] = locked[u] \/ locked'[u] = {}
                         /\ held'[u] \subseteq held[u] \/ held'[u] = locked[u]
    BY <2>1 DEF IInv, TypeOK
  <2> QED
    BY <1>3, <2>2
<1>6. ASSUME NEW t \in Ticks,
             MarkDone(t) \/ MarkFailed(t) \/ MarkFailedFails(t) \/ MarkFailedAckLost(t)
      PROVE  Batches'
  <2>1. /\ locked' = locked
        /\ \A u \in Ticks : held'[u] \subseteq held[u]
    <3>1. CASE MarkDone(t) \/ MarkFailed(t)
      BY <3>1 DEF MarkDone, MarkFailed, NextRow, IInv, TypeOK
    <3>2. CASE MarkFailedFails(t) \/ MarkFailedAckLost(t)
      BY <3>2 DEF MarkFailedFails, MarkFailedAckLost, BatchDropped
    <3> QED
      BY <1>6, <3>1, <3>2
  <2> QED
    BY <1>3, <2>1
<1>7. ASSUME NEW t \in Ticks, ClaimAborts(t) \/ ClaimAckLost(t) PROVE Batches'
  <2>1. held' = held /\ locked' = [locked EXCEPT ![t] = {}]
    BY <1>7 DEF ClaimAborts, ClaimAckLost, BatchProcessing
  <2>2. \A u \in Ticks : locked'[u] = locked[u] \/ locked'[u] = {}
    BY <2>1 DEF IInv, TypeOK
  <2> QED
    BY <1>3, <2>1, <2>2
<1>8. ASSUME \/ \E t \in Ticks :
                   \/ TickFires(t) \/ SelectNothing(t) \/ SelectFails(t)
                   \/ \E e \in Events : HandlerSucceeds(t, e) \/ HandlerThrows(t, e)
                   \/ MarkDoneFails(t) \/ MarkDoneAckLost(t) \/ TickEnds(t)
             \/ \E e \in Events : Insert(e)
             \/ TimePasses
             \/ \E w \in Workers : Shutdown(w) \/ Start(w)
             \/ UNCHANGED vars
      PROVE  Batches'
  <2>1. held' = held /\ locked' = locked
    BY <1>8 DEF TickFires, SelectNothing, SelectFails, HandlerSucceeds, HandlerThrows,
                MarkDoneFails, MarkDoneAckLost, TickEnds, Insert, TimePasses, Shutdown, Start,
                ticks, vars
  <2> QED
    BY <1>3, <2>1
<1>9. ASSUME NEW w \in Workers, Exit(w) \/ Crash(w) PROVE Batches'
  <2>1. \A t \in Ticks : /\ locked'[t] = locked[t] \/ locked'[t] = {}
                         /\ held'[t] \subseteq held[t]
    BY <1>9 DEF Exit, Crash, Killed, BatchDropped
  <2> QED
    BY <1>3, <2>1
<1> QED
  BY <1>4, <1>5, <1>6, <1>7, <1>8, <1>9 DEF Next, TickSteps

\* Ticks that lose their rows add no more of them to the orphans than their
\* batches can have.
LEMMA OrphansGrow ==
    ASSUME IInv, IsFiniteSet(Orphans), NEW T \in SUBSET Ticks,
           NEW h \in [T -> SUBSET Events], \A t \in T : Oldest(h[t]) = h[t],
           Orphans' \subseteq Orphans \union UNION {h[t] : t \in T}
    PROVE  /\ IsFiniteSet(Orphans')
           /\ Cardinality(Orphans') <= Cardinality(Orphans) + Cardinality(T) * BATCH_SIZE
<1> DEFINE U == UNION {h[t] : t \in T}
<1>1. IsFiniteSet(T)
  BY FiniteAssumption, FS_Subset
<1>2. h \in [T -> SUBSET Nat]
  OBVIOUS
<1>3. IsFiniteSet(U) /\ Cardinality(U) <= Cardinality(T) * BATCH_SIZE
  BY <1>1, <1>2, BatchesBound
<1> HIDE DEF U
<1>4. /\ IsFiniteSet(Orphans \union U)
      /\ Cardinality(Orphans \union U) =
             Cardinality(Orphans) + Cardinality(U) - Cardinality(Orphans \intersect U)
  BY <1>3, FS_Union
<1>5. IsFiniteSet(Orphans \intersect U)
  BY FS_Intersection
<1>6. Orphans' \in SUBSET (Orphans \union U)
  BY DEF U
<1>7. IsFiniteSet(Orphans') /\ Cardinality(Orphans') <= Cardinality(Orphans \union U)
  BY <1>4, <1>6, FS_Subset
<1>8. /\ Cardinality(Orphans) \in Nat /\ Cardinality(U) \in Nat /\ Cardinality(T) \in Nat
      /\ Cardinality(Orphans \intersect U) \in Nat /\ Cardinality(Orphans') \in Nat
  BY <1>1, <1>3, <1>5, <1>7, FS_CardinalityType
<1>9. Cardinality(T) * BATCH_SIZE \in Nat
  BY <1>8, BatchAssumption
<1> HIDE DEF Orphans
<1> QED
  BY <1>3, <1>4, <1>7, <1>8, <1>9

\* The budget as the failures, and the stops that have taken effect, are counted.
LEMMA BudgetCounts ==
    ASSUME NEW b \in Nat, NEW n \in Nat, NEW f \in Nat, NEW x \in Nat, NEW k \in Nat
    PROVE  /\ b * (f + x * n) \in Nat
           /\ b * ((f + 1) + x * n) = b * (f + x * n) + b
           /\ b * (f + (x + 1 + k) * n) >= b * (f + x * n) + n * b
<1>1. x * n \in Nat /\ k * n \in Nat /\ n * b \in Nat
  OBVIOUS
<1>2. b * (f + x * n) \in Nat
  BY <1>1
<1>3. b * ((f + 1) + x * n) = b * (f + x * n) + b
  BY <1>1
<1>4. (x + 1 + k) * n = x * n + n + k * n
  OBVIOUS
<1>5. b * (f + (x * n + n + k * n)) = b * (f + x * n) + n * b + b * (k * n)
  BY <1>1
<1>6. b * (k * n) \in Nat
  BY <1>1
<1> QED
  BY <1>1, <1>2, <1>3, <1>4, <1>5, <1>6

\* Only a lost answer of a claim, a failing markFailed or the end of a process
\* leaves rows in nobody's hands.
LEMMA NoNewOrphans ==
    ASSUME IInv, NEW t \in Ticks,
           \/ TickFires(t) \/ SelectDue(t) \/ SelectNothing(t) \/ SelectFails(t)
           \/ ClaimCommits(t) \/ ClaimAborts(t)
           \/ \E e \in Events : HandlerSucceeds(t, e) \/ HandlerThrows(t, e)
           \/ MarkDone(t) \/ MarkDoneFails(t) \/ MarkDoneAckLost(t) \/ MarkFailed(t)
           \/ TickEnds(t)
    PROVE  Orphans' \subseteq Orphans
<1>1. ASSUME status' = status, held' = held PROVE Orphans' \subseteq Orphans
  BY <1>1 DEF Orphans
<1>2. CASE ClaimCommits(t)
  <2>1. /\ status' = [e \in Events |-> IF e \in locked[t] THEN "PROCESSING" ELSE status[e]]
        /\ held' = [held EXCEPT ![t] = locked[t]] /\ held[t] = {}
    BY <1>2 DEF ClaimCommits, BatchProcessing, IInv, Control
  <2>2. ASSUME NEW e \in Events, status'[e] = "PROCESSING", \A u \in Ticks : e \notin held'[u]
        PROVE  status[e] = "PROCESSING" /\ \A u \in Ticks : e \notin held[u]
    BY <2>1, <2>2 DEF IInv, TypeOK
  <2> QED
    BY <2>2 DEF Orphans
<1>3. CASE MarkDone(t) \/ MarkDoneAckLost(t)
  <2>1. RowDone(cur[t]) /\ pc[t] = "handled"
    BY <1>3 DEF MarkDone, MarkDoneAckLost
  <2>2. held' = held \/ held' = [held EXCEPT ![t] = held[t] \ {cur[t]}]
    BY <1>3 DEF MarkDone, MarkDoneAckLost, NextRow
  <2>3. ASSUME NEW e \in Events, status'[e] = "PROCESSING", \A u \in Ticks : e \notin held'[u]
        PROVE  status[e] = "PROCESSING" /\ \A u \in Ticks : e \notin held[u]
    BY <2>1, <2>2, <2>3 DEF RowDone, IInv, TypeOK
  <2> QED
    BY <2>3 DEF Orphans
<1>4. CASE MarkFailed(t)
  <2>1. pc[t] = "failing" /\ RowFailed(cur[t], seen[t][cur[t]] + 1)
    BY <1>4 DEF MarkFailed
  <2>2. status' = [status EXCEPT ![cur[t]] =
               IF attempts[cur[t]] + 1 = MAX_ATTEMPTS THEN "FAILED" ELSE "PENDING"]
    BY <2>1, RowFailedEffect
  <2>3. held' = [held EXCEPT ![t] = held[t] \ {cur[t]}]
    BY <1>4 DEF MarkFailed, NextRow
  <2>4. ASSUME NEW e \in Events, status'[e] = "PROCESSING", \A u \in Ticks : e \notin held'[u]
        PROVE  status[e] = "PROCESSING" /\ \A u \in Ticks : e \notin held[u]
    BY <2>2, <2>3, <2>4 DEF IInv, TypeOK
  <2> QED
    BY <2>4 DEF Orphans
<1>5. CASE \/ TickFires(t) \/ SelectDue(t) \/ SelectNothing(t) \/ SelectFails(t)
           \/ ClaimAborts(t) \/ MarkDoneFails(t) \/ TickEnds(t)
           \/ \E e \in Events : HandlerSucceeds(t, e) \/ HandlerThrows(t, e)
  BY <1>1, <1>5 DEF TickFires, SelectDue, SelectNothing, SelectFails, ClaimAborts,
                    MarkDoneFails, TickEnds, HandlerSucceeds, HandlerThrows, table
<1> QED
  BY <1>2, <1>3, <1>4, <1>5

LEMMA StrandedNext ==
    ASSUME IInv, Batches, NEW n, TicksAtMost(n), Stranded(n), [Next]_vars
    PROVE  Stranded(n)'
<1> DEFINE k == Cardinality(Stopping)
           x == stops - k
<1>1. /\ n \in Nat /\ k \in Nat /\ stops \in Nat /\ faults \in Nat /\ x \in Nat
      /\ BATCH_SIZE \in Nat /\ Cardinality(Orphans) \in Nat
  <2>1. n \in Nat /\ k \in Nat /\ Cardinality(Orphans) \in Nat
    BY FS_CardinalityType DEF Stranded, TicksAtMost
  <2>2. stops \in Nat /\ faults \in Nat /\ k <= stops
    BY DEF IInv, TypeOK, Stranded
  <2> QED
    BY <2>1, <2>2, BatchAssumption
<1>2. Cardinality(Orphans) <= Budget(n) /\ Budget(n) = BATCH_SIZE * (faults + x * n)
  BY DEF Stranded, Budget
<1>3. IsFiniteSet(Stopping) /\ k <= stops /\ IsFiniteSet(Orphans)
  BY DEF Stranded
<1> HIDE DEF x, k
<1>4. /\ Budget(n) \in Nat
      /\ BATCH_SIZE * ((faults + 1) + x * n) = Budget(n) + BATCH_SIZE
      /\ BATCH_SIZE * (faults + x * n) = Budget(n)
      /\ \A j \in Nat : BATCH_SIZE * (faults + (x + 1 + j) * n) >= Budget(n) + n * BATCH_SIZE
  BY <1>1, <1>2, BudgetCounts
\* A step that counts no stop: the budget grows by what a failure may strand.
<1>5. ASSUME UNCHANGED <<proc, stops>>, faults' \in {faults, faults + 1},
             IsFiniteSet(Orphans'),
             Cardinality(Orphans') <= Cardinality(Orphans)
                 + (IF faults' = faults THEN 0 ELSE BATCH_SIZE)
      PROVE  Stranded(n)'
  <2>1. Stopping' = Stopping /\ Budget(n)' = BATCH_SIZE * (faults' + x * n)
    BY <1>5 DEF Stopping, Budget, x, k
  <2>2. Cardinality(Orphans') \in Nat
    BY <1>5, FS_CardinalityType
  <2>3. Cardinality(Orphans') <= Budget(n)'
    BY <1>1, <1>2, <1>4, <1>5, <2>1, <2>2
  <2> QED
    BY <1>3, <1>5, <2>1, <2>3 DEF Stranded, k
<1>6. ASSUME UNCHANGED <<proc, stops>>, faults' \in {faults, faults + 1},
             Orphans' \subseteq Orphans
      PROVE  Stranded(n)'
  <2>1. IsFiniteSet(Orphans') /\ Cardinality(Orphans') <= Cardinality(Orphans)
    BY <1>3, <1>6, FS_Subset
  <2>2. Cardinality(Orphans') \in Nat
    BY <2>1, FS_CardinalityType
  <2>3. Cardinality(Orphans') <= Cardinality(Orphans)
            + (IF faults' = faults THEN 0 ELSE BATCH_SIZE)
    BY <1>1, <2>1, <2>2
  <2> QED
    BY <1>5, <1>6, <2>1, <2>3
\* One tick loses its rows to a failure of the database.
<1>7. ASSUME NEW t \in Ticks, NEW S \in SUBSET Events, Oldest(S) = S,
             UNCHANGED <<proc, stops>>, faults' = faults + 1,
             Orphans' \subseteq Orphans \union S
      PROVE  Stranded(n)'
  <2> DEFINE h == [u \in {t} |-> S]
  <2>1. h \in [{t} -> SUBSET Events] /\ h[t] = S /\ UNION {h[u] : u \in {t}} = S
    OBVIOUS
  <2>2. {t} \in SUBSET Ticks /\ \A u \in {t} : Oldest(h[u]) = h[u]
    BY <1>7, <2>1
  <2> HIDE DEF h
  <2>3. Orphans' \subseteq Orphans \union UNION {h[u] : u \in {t}}
    BY <1>7, <2>1
  <2>4. /\ IsFiniteSet(Orphans')
        /\ Cardinality(Orphans') <= Cardinality(Orphans) + Cardinality({t}) * BATCH_SIZE
    BY <1>3, <2>1, <2>2, <2>3, OrphansGrow
  <2>5. Cardinality({t}) * BATCH_SIZE = BATCH_SIZE
    <3>1. Cardinality({t}) = 1
      BY FS_Singleton
    <3> QED
      BY <1>1, <3>1
  <2>6. faults' # faults
    BY <1>1, <1>7
  <2> QED
    BY <1>5, <1>7, <2>4, <2>5, <2>6
<1>8. ASSUME NEW t \in Ticks, ClaimAckLost(t) PROVE Stranded(n)'
  <2>1. /\ status' = [e \in Events |-> IF e \in locked[t] THEN "PROCESSING" ELSE status[e]]
        /\ held' = held /\ UNCHANGED <<proc, stops>> /\ faults' = faults + 1
    BY <1>8 DEF ClaimAckLost, BatchProcessing, Fault
  <2>2. Orphans' \subseteq Orphans \union locked[t]
    BY <2>1 DEF Orphans
  <2>3. locked[t] \in SUBSET Events /\ Oldest(locked[t]) = locked[t]
    BY DEF IInv, TypeOK, Batches
  <2> QED
    BY <1>7, <2>1, <2>2, <2>3
<1>9. ASSUME NEW t \in Ticks, MarkFailedFails(t) \/ MarkFailedAckLost(t) PROVE Stranded(n)'
  <2>1. /\ pc[t] = "failing" /\ UNCHANGED <<proc, stops>> /\ faults' = faults + 1
        /\ \A u \in Ticks \ {t} : held'[u] = held[u]
    BY <1>9 DEF MarkFailedFails, MarkFailedAckLost, BatchDropped, Fault
  <2>2. \A e \in Events : status'[e] = "PROCESSING" => status[e] = "PROCESSING"
    <3>1. CASE MarkFailedFails(t)
      BY <3>1 DEF MarkFailedFails, table
    <3>2. CASE MarkFailedAckLost(t)
      <4>1. RowFailed(cur[t], seen[t][cur[t]] + 1)
        BY <3>2 DEF MarkFailedAckLost
      <4>2. status' = [status EXCEPT ![cur[t]] =
                 IF attempts[cur[t]] + 1 = MAX_ATTEMPTS THEN "FAILED" ELSE "PENDING"]
        BY <2>1, <4>1, RowFailedEffect
      <4> QED
        BY <4>2 DEF IInv, TypeOK
    <3> QED
      BY <1>9, <3>1, <3>2
  <2>3. Orphans' \subseteq Orphans \union held[t]
    BY <2>1, <2>2 DEF Orphans
  <2>4. held[t] \in SUBSET Events /\ Oldest(held[t]) = held[t]
    BY DEF IInv, TypeOK, Batches
  <2> QED
    BY <1>7, <2>1, <2>3, <2>4
<1>10. ASSUME NEW t \in Ticks, TickFires(t) \/ TickSteps(t) PROVE Stranded(n)'
  <2>1. UNCHANGED <<proc, stops>> /\ faults' \in {faults, faults + 1}
    BY <1>10 DEF TickFires, TickSteps, SelectDue, SelectNothing, SelectFails, ClaimCommits,
                 ClaimAborts, ClaimAckLost, HandlerSucceeds, HandlerThrows, MarkDone,
                 MarkDoneFails, MarkDoneAckLost, MarkFailed, MarkFailedFails,
                 MarkFailedAckLost, TickEnds, NextRow, Fault
  <2>2. CASE ~(ClaimAckLost(t) \/ MarkFailedFails(t) \/ MarkFailedAckLost(t))
    <3>1. Orphans' \subseteq Orphans
      BY <1>10, <2>2, NoNewOrphans DEF TickSteps
    <3> QED
      BY <1>6, <2>1, <3>1
  <2> QED
    BY <1>8, <1>9, <2>2
<1>11. CASE \/ \E e \in Events : Insert(e)
            \/ TimePasses
            \/ UNCHANGED vars
  <2>1. UNCHANGED <<proc, stops, faults, held>>
    BY <1>11 DEF Insert, TimePasses, ticks, vars
  <2>2. \A e \in Events : status'[e] = "PROCESSING" => status[e] = "PROCESSING"
    BY <1>11 DEF Insert, TimePasses, table, vars, IInv, TypeOK
  <2>3. Orphans' \subseteq Orphans
    BY <2>1, <2>2 DEF Orphans
  <2> QED
    BY <1>6, <2>1, <2>3
<1>12. ASSUME NEW w \in Workers, Start(w) PROVE Stranded(n)'
  <2>1. /\ proc[w] = "down" /\ proc' = [proc EXCEPT ![w] = "up"]
        /\ UNCHANGED <<status, held, stops, faults>>
    BY <1>12 DEF Start, table, ticks
  <2>2. Stopping' = Stopping /\ Orphans' = Orphans
    BY <2>1 DEF Stopping, Orphans, IInv, TypeOK
  <2> QED
    BY <2>1, <2>2 DEF Stranded, Budget
<1>13. ASSUME NEW w \in Workers, Shutdown(w) PROVE Stranded(n)'
  <2>1. /\ proc[w] = "up" /\ proc' = [proc EXCEPT ![w] = "stopping"]
        /\ stops' = stops + 1 /\ UNCHANGED <<status, held, faults>>
    BY <1>13 DEF Shutdown, table, ticks
  <2>2. Stopping' = Stopping \union {w} /\ w \notin Stopping /\ Orphans' = Orphans
    BY <2>1 DEF Stopping, Orphans, IInv, TypeOK
  <2>3. IsFiniteSet(Stopping') /\ Cardinality(Stopping') = k + 1
    BY <1>3, <2>2, FS_AddElement DEF k
  <2>4. stops' - Cardinality(Stopping') = x /\ Cardinality(Stopping') <= stops'
    BY <1>1, <1>3, <2>1, <2>3 DEF x
  <2>5. Budget(n)' = Budget(n)
    BY <1>2, <2>1, <2>4 DEF Budget
  <2> QED
    BY <1>2, <1>3, <2>2, <2>3, <2>4, <2>5 DEF Stranded
\* All ticks of one process lose their rows; the stop has not been paid for.
<1>14. ASSUME NEW w \in Workers, Exit(w) \/ Crash(w) PROVE Stranded(n)'
  <2> DEFINE T == TicksOf(w)
             h == [t \in T |-> held[t]]
  <2>1. /\ proc' = [proc EXCEPT ![w] = "down"] /\ UNCHANGED <<status, faults>>
        /\ \A t \in Ticks \ T : held'[t] = held[t]
    BY <1>14 DEF Exit, Crash, Killed, BatchDropped, table, TicksOf
  <2>2. \/ w \in Stopping /\ stops' \in {stops, stops + 1}
        \/ w \notin Stopping /\ stops' = stops + 1
    BY <1>14 DEF Exit, Crash, Stopping
  <2>3. Stopping' = Stopping \ {w}
    BY <2>1 DEF Stopping, IInv, TypeOK
  <2>4. /\ IsFiniteSet(Stopping')
        /\ Cardinality(Stopping') = IF w \in Stopping THEN k - 1 ELSE k
    BY <1>3, <2>3, FS_RemoveElement DEF k
  <2>5. Cardinality(Stopping') \in Nat
    BY <2>4, FS_CardinalityType
  <2>6. /\ Cardinality(Stopping') <= stops'
        /\ \E j \in {0, 1} : stops' - Cardinality(Stopping') = x + 1 + j
    BY <1>1, <1>3, <2>2, <2>4, <2>5 DEF x
  <2>7. T \in SUBSET Ticks /\ h \in [T -> SUBSET Events]
        /\ \A t \in T : h[t] = held[t] /\ Oldest(h[t]) = h[t]
    BY DEF IInv, TypeOK, Batches, TicksOf
  <2> HIDE DEF T, h
  <2>8. Orphans' \subseteq Orphans \union UNION {h[t] : t \in T}
    BY <2>1, <2>7 DEF Orphans
  <2>9. /\ IsFiniteSet(Orphans')
        /\ Cardinality(Orphans') <= Cardinality(Orphans) + Cardinality(T) * BATCH_SIZE
    BY <1>3, <2>7, <2>8, OrphansGrow
  <2>10. Cardinality(T) * BATCH_SIZE <= n * BATCH_SIZE
    <3>1. IsFiniteSet(T) /\ Cardinality(T) <= n
      BY <2>7, FiniteAssumption, FS_Subset DEF TicksAtMost, T
    <3>2. Cardinality(T) \in Nat
      BY <3>1, FS_CardinalityType
    <3> QED
      BY <1>1, <3>1, <3>2
  <2>11. Budget(n)' >= Budget(n) + n * BATCH_SIZE /\ Budget(n)' \in Nat
    <3>1. PICK j \in Nat : stops' - Cardinality(Stopping') = x + 1 + j
      BY <2>6
    <3>2. Budget(n)' = BATCH_SIZE * (faults + (x + 1 + j) * n)
      BY <2>1, <3>1 DEF Budget
    <3> QED
      BY <1>1, <1>4, <3>2
  <2>12. Cardinality(Orphans') <= Budget(n)'
    <3>1. Cardinality(T) \in Nat /\ Cardinality(Orphans') \in Nat
      BY <2>7, <2>9, FiniteAssumption, FS_Subset, FS_CardinalityType
    <3>2. Cardinality(T) * BATCH_SIZE \in Nat /\ n * BATCH_SIZE \in Nat
      BY <1>1, <3>1
    <3> QED
      BY <1>1, <1>2, <1>4, <2>9, <2>10, <2>11, <3>1, <3>2
  <2> QED
    BY <2>4, <2>6, <2>9, <2>12 DEF Stranded
<1> QED
  BY <1>10, <1>11, <1>12, <1>13, <1>14 DEF Next

\* A failure of the database strands at most one batch, a process that stops
\* at most the batches of its own ticks, and nothing else strands a row: for
\* any number of rows, ticks, processes and failures.
THEOREM OrphansStayBounded == Spec => []OrphansBounded
<1>1. Init => Batches /\ AllStranded
  <2> SUFFICES ASSUME Init PROVE Batches /\ AllStranded
    OBVIOUS
  <2>1. Batches
    BY DEF Init, Batches, Oldest
  <2>2. Stopping = {} /\ Orphans = {} /\ faults = 0 /\ stops = 0
    BY DEF Init, Stopping, Orphans
  <2>3. IsFiniteSet({}) /\ Cardinality({}) = 0
    BY FS_EmptySet
  <2>4. \A n \in Nat : Budget(n) = 0
    BY <2>2, <2>3, BatchAssumption DEF Budget
  <2> QED
    BY <2>1, <2>2, <2>3, <2>4 DEF AllStranded, Stranded
<1>2. IInv /\ Batches /\ AllStranded /\ [Next]_vars => Batches' /\ AllStranded'
  <2> SUFFICES ASSUME IInv, Batches, AllStranded, [Next]_vars
               PROVE  Batches' /\ AllStranded'
    OBVIOUS
  <2>1. Batches'
    BY BatchesNext
  <2>2. ASSUME NEW n \in Nat, TicksAtMost(n) PROVE Stranded(n)'
    BY <2>2, StrandedNext DEF AllStranded
  <2> QED
    BY <2>1, <2>2 DEF AllStranded, TicksAtMost, TicksOf
<1>3. IInv /\ AllStranded => OrphansBounded
  <2> SUFFICES ASSUME IInv, AllStranded, NEW n \in Nat, TicksAtMost(n)
               PROVE  Cardinality(Orphans) <= BATCH_SIZE * (faults + stops * n)
    <3>1. Cardinality(Ticks) \in Nat
      BY FiniteAssumption, FS_CardinalityType
    <3> QED
      BY <3>1 DEF OrphansBounded, TicksAtMost
  <2> DEFINE k == Cardinality(Stopping)
  <2>1. Stranded(n)
    BY DEF AllStranded
  <2>2. k \in Nat /\ Cardinality(Orphans) \in Nat
    BY <2>1, FS_CardinalityType DEF Stranded
  <2>3. k <= stops /\ stops \in Nat /\ faults \in Nat /\ BATCH_SIZE \in Nat
    BY <2>1, BatchAssumption DEF Stranded, IInv, TypeOK
  <2>4. Cardinality(Orphans) <= BATCH_SIZE * (faults + (stops - k) * n)
    BY <2>1 DEF Stranded, Budget
  <2> HIDE DEF k
  <2>5. (stops - k) * n <= stops * n /\ (stops - k) * n \in Nat /\ stops * n \in Nat
    BY <2>2, <2>3
  <2>6. BATCH_SIZE * (faults + (stops - k) * n) <= BATCH_SIZE * (faults + stops * n)
    BY <2>3, <2>5
  <2>7. /\ BATCH_SIZE * (faults + (stops - k) * n) \in Nat
        /\ BATCH_SIZE * (faults + stops * n) \in Nat
    BY <2>3, <2>5
  <2> QED
    BY <2>2, <2>4, <2>6, <2>7
<1> QED
  BY <1>1, <1>2, <1>3, Inductive, PTL DEF Spec
=============================================================================
