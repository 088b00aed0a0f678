---------------------------- MODULE OutboxProofs ----------------------------
(***************************************************************************)
(* The safety of the outbox for every number of rows, ticks, processes and *)
(* failures.  One lemma per action, or per group of actions with the same  *)
(* effect, shows that it preserves IInv; the theorems follow from          *)
(* Spec => []IInv.                                                         *)
(***************************************************************************)
EXTENDS Outbox, TLAPS

USE EventsAssumption, TicksAssumption, AttemptsAssumption, BoundsAssumption
    DEF NoEvent, Statuses

-----------------------------------------------------------------------------
(* Helpers *)

\* A backoff is a natural number: min(30 s * 2^n, 15 min).
LEMMA BackoffType == ASSUME NEW n \in 0..MAX_ATTEMPTS PROVE Backoff(n) \in Nat
<1>1. /\ 2^n \in Nat
      /\ BASE_BACKOFF \in Nat
      /\ MAX_BACKOFF \in Nat
  BY BackoffAssumption
<1>2. BASE_BACKOFF * 2^n \in Nat
  BY <1>1
<1> QED
  BY <1>1, <1>2 DEF Backoff, Least

\* ORDER BY and LIMIT choose among the rows they are given.
LEMMA OldestSubset == ASSUME NEW S PROVE Oldest(S) \subseteq S
  BY DEF Oldest

\* A row a tick is about to write back has an attempt left, and the count the
\* tick read when it claimed is the count in the table.
LEMMA FailingRow ==
    ASSUME IInv, NEW t \in Ticks, pc[t] \in {"handled", "failing"}
    PROVE  /\ cur[t] \in held[t]
           /\ cur[t] \in Events
           /\ status[cur[t]] \in {"PROCESSING", "DONE"}
           /\ seen[t][cur[t]] = attempts[cur[t]]
           /\ attempts[cur[t]] + 1 \in 1..MAX_ATTEMPTS
<1>1. cur[t] \in held[t] /\ cur[t] \in Events
  BY DEF IInv, TypeOK, Control
<1>2. status[cur[t]] \in {"PROCESSING", "DONE"}
  BY <1>1 DEF IInv, OneOwner
<1>3. seen[t][cur[t]] = attempts[cur[t]]
  BY <1>1 DEF IInv, SnapshotCurrent
<1>4. attempts[cur[t]] # MAX_ATTEMPTS
  BY <1>1, <1>2 DEF IInv, FailedWhenExhausted
<1>5. attempts[cur[t]] \in 0..MAX_ATTEMPTS
  BY <1>1 DEF IInv, TypeOK
<1> QED
  BY <1>1, <1>2, <1>3, <1>4, <1>5

-----------------------------------------------------------------------------
(* Each action preserves the inductive invariant *)

LEMMA InitInv == Init => IInv
  BY DEF Init, IInv, TypeOK, Control, OneOwner, SnapshotCurrent,
         FailedWhenExhausted, Counting

LEMMA InsertInv ==
    ASSUME IInv, NEW e \in Events, Insert(e)
    PROVE  IInv'
<1> USE DEF Insert, ticks, history
<1>1. TypeOK'
  BY DEF IInv, TypeOK
<1>2. Control'
  BY DEF IInv, Control
<1>3. OneOwner'
  BY DEF IInv, TypeOK, OneOwner
<1>4. SnapshotCurrent'
  BY DEF IInv, SnapshotCurrent
<1>5. FailedWhenExhausted'
  BY DEF IInv, TypeOK, FailedWhenExhausted
<1>6. Counting'
  BY DEF IInv, TypeOK, Counting
<1> QED
  BY <1>1, <1>2, <1>3, <1>4, <1>5, <1>6 DEF IInv

\* Actions that only move a tick that has nothing in its hands, or not its row.
LEMMA TickMovesInv ==
    ASSUME IInv, NEW t \in Ticks,
           \/ TickFires(t)
           \/ SelectNothing(t)
           \/ SelectFails(t)
           \/ MarkDoneFails(t)
           \/ TickEnds(t)
    PROVE  IInv'
<1>1. CASE TickFires(t)
  BY <1>1 DEF TickFires, IInv, TypeOK, Control, OneOwner, SnapshotCurrent,
              FailedWhenExhausted, Counting, table, history
<1>2. CASE SelectNothing(t)
  BY <1>2 DEF SelectNothing, IInv, TypeOK, Control, OneOwner, SnapshotCurrent,
              FailedWhenExhausted, Counting, table, history
<1>3. CASE SelectFails(t)
  BY <1>3 DEF SelectFails, Fault, IInv, TypeOK, Control, OneOwner,
              SnapshotCurrent, FailedWhenExhausted, Counting, table, history
<1>4. CASE MarkDoneFails(t)
  BY <1>4 DEF MarkDoneFails, Fault, IInv, TypeOK, Control, OneOwner,
              SnapshotCurrent, FailedWhenExhausted, Counting, table, history
<1>5. CASE TickEnds(t)
  BY <1>5 DEF TickEnds, IInv, TypeOK, Control, OneOwner, SnapshotCurrent,
              FailedWhenExhausted, Counting, table, history
<1> QED
  BY <1>1, <1>2, <1>3, <1>4, <1>5

\* The claim locks only rows that are PENDING and locked by no other tick; no
\* batch has a PENDING row, so no other tick has them in its hands at all.
LEMMA SelectDueInv ==
    ASSUME IInv, NEW t \in Ticks, SelectDue(t)
    PROVE  IInv'
<1> DEFINE S == Oldest(Claimable)
<1>1. \A e \in S : /\ e \in Events
                   /\ status[e] = "PENDING"
                   /\ \A u \in Ticks : e \notin locked[u]
  BY OldestSubset DEF Claimable
<1>2. \A e \in S : \A u \in Ticks : e \notin held[u]
  BY <1>1 DEF IInv, OneOwner
<1>3. /\ locked' = [locked EXCEPT ![t] = S]
      /\ pc' = [pc EXCEPT ![t] = "locked"]
      /\ pc[t] = "claiming"
      /\ UNCHANGED <<table, held, seen, cur, proc, history, faults, stops>>
  BY DEF SelectDue
<1> HIDE DEF S
<1>4. TypeOK'
  BY <1>1, <1>3 DEF IInv, TypeOK, table, history
<1>5. Control'
  BY <1>3 DEF IInv, TypeOK, Control
<1>6. OneOwner'
  <2> SUFFICES ASSUME NEW u \in Ticks
               PROVE  /\ \A e \in locked'[u] : status'[e] = "PENDING"
                      /\ \A e \in held'[u] :
                            \/ status'[e] = "PROCESSING"
                            \/ /\ status'[e] = "DONE"
                               /\ pc'[u] = "failing"
                               /\ cur'[u] = e
                      /\ \A v \in Ticks \ {u} :
                            (locked'[u] \cup held'[u])
                                \cap (locked'[v] \cup held'[v]) = {}
    BY DEF OneOwner
  <2>1. \A e \in locked'[u] : status'[e] = "PENDING"
    BY <1>1, <1>3 DEF IInv, TypeOK, OneOwner, table
  <2>2. held[t] = {}
    BY <1>3 DEF IInv, Control
  <2>3. \A e \in held'[u] : \/ status'[e] = "PROCESSING"
                            \/ status'[e] = "DONE" /\ pc'[u] = "failing" /\ cur'[u] = e
    BY <1>3, <2>2 DEF IInv, TypeOK, OneOwner, table
  <2>4. \A v \in Ticks \ {u} :
          (locked'[u] \cup held'[u]) \cap (locked'[v] \cup held'[v]) = {}
    BY <1>1, <1>2, <1>3, <2>2 DEF IInv, TypeOK, OneOwner
  <2> QED
    BY <2>1, <2>3, <2>4
<1>7. SnapshotCurrent'
  BY <1>3 DEF IInv, SnapshotCurrent, table
<1>8. FailedWhenExhausted'
  BY <1>3 DEF IInv, FailedWhenExhausted, table
<1>9. Counting'
  BY <1>3 DEF IInv, TypeOK, Counting, table, history
<1> QED
  BY <1>4, <1>5, <1>6, <1>7, <1>8, <1>9 DEF IInv

LEMMA ClaimCommitsInv ==
    ASSUME IInv, NEW t \in Ticks, ClaimCommits(t)
    PROVE  IInv'
<1> USE DEF ClaimCommits, BatchProcessing, history
<1>1. TypeOK'
  BY DEF IInv, TypeOK
<1>2. Control'
  BY DEF IInv, TypeOK, Control
<1>3. OneOwner'
  BY DEF IInv, TypeOK, Control, OneOwner
<1>4. SnapshotCurrent'
  BY DEF IInv, TypeOK, SnapshotCurrent
<1>5. FailedWhenExhausted'
  BY DEF IInv, TypeOK, OneOwner, FailedWhenExhausted
<1>6. Counting'
  BY DEF IInv, TypeOK, OneOwner, Counting
<1> QED
  BY <1>1, <1>2, <1>3, <1>4, <1>5, <1>6 DEF IInv

LEMMA ClaimAbortsInv ==
    ASSUME IInv, NEW t \in Ticks, ClaimAborts(t)
    PROVE  IInv'
<1> USE DEF ClaimAborts, Fault, table, history
<1>1. TypeOK'
  BY DEF IInv, TypeOK
<1>2. Control'
  BY DEF IInv, TypeOK, Control
<1>3. OneOwner'
  BY DEF IInv, TypeOK, Control, OneOwner
<1>4. SnapshotCurrent' /\ FailedWhenExhausted'
  BY DEF IInv, SnapshotCurrent, FailedWhenExhausted
<1>5. Counting'
  BY DEF IInv, TypeOK, Counting
<1> QED
  BY <1>1, <1>2, <1>3, <1>4, <1>5 DEF IInv

LEMMA ClaimAckLostInv ==
    ASSUME IInv, NEW t \in Ticks, ClaimAckLost(t)
    PROVE  IInv'
<1> USE DEF ClaimAckLost, BatchProcessing, Fault, history
<1>1. TypeOK'
  BY DEF IInv, TypeOK
<1>2. Control'
  BY DEF IInv, TypeOK, Control
<1>3. OneOwner'
  BY DEF IInv, TypeOK, Control, OneOwner
<1>4. SnapshotCurrent'
  BY DEF IInv, SnapshotCurrent
<1>5. FailedWhenExhausted'
  BY DEF IInv, TypeOK, OneOwner, FailedWhenExhausted
<1>6. Counting'
  BY DEF IInv, TypeOK, OneOwner, Counting
<1> QED
  BY <1>1, <1>2, <1>3, <1>4, <1>5, <1>6 DEF IInv

-----------------------------------------------------------------------------

LEMMA HandlerSucceedsInv ==
    ASSUME IInv, NEW t \in Ticks, NEW e \in Events, HandlerSucceeds(t, e)
    PROVE  IInv'
<1> USE DEF HandlerSucceeds, table
<1>1. TypeOK'
  BY DEF IInv, TypeOK
<1>2. Control'
  BY DEF IInv, TypeOK, Control
<1>3. OneOwner'
  BY DEF IInv, TypeOK, OneOwner
<1>4. SnapshotCurrent' /\ FailedWhenExhausted'
  BY DEF IInv, SnapshotCurrent, FailedWhenExhausted
<1>5. Counting'
  \* The row was claimed and not yet run in this batch, so its completions did
  \* not exceed its attempts; no other tick has it.
  <2>1. /\ runs[e] <= attempts[e]
        /\ status[e] = "PROCESSING"
        /\ \A u \in Ticks \ {t} : e \notin held[u]
    BY DEF IInv, TypeOK, OneOwner, Counting
  <2> QED
    BY <2>1 DEF IInv, TypeOK, Counting
<1> QED
  BY <1>1, <1>2, <1>3, <1>4, <1>5 DEF IInv

LEMMA HandlerThrowsInv ==
    ASSUME IInv, NEW t \in Ticks, NEW e \in Events, HandlerThrows(t, e)
    PROVE  IInv'
<1> USE DEF HandlerThrows, table, history
<1>1. TypeOK'
  BY DEF IInv, TypeOK
<1>2. Control'
  BY DEF IInv, TypeOK, Control
<1>3. OneOwner'
  BY DEF IInv, TypeOK, OneOwner
<1>4. SnapshotCurrent' /\ FailedWhenExhausted'
  BY DEF IInv, SnapshotCurrent, FailedWhenExhausted
<1>5. Counting'
  BY DEF IInv, TypeOK, Counting
<1> QED
  BY <1>1, <1>2, <1>3, <1>4, <1>5 DEF IInv

LEMMA MarkDoneInv ==
    ASSUME IInv, NEW t \in Ticks, MarkDone(t)
    PROVE  IInv'
<1>1. /\ cur[t] \in held[t]
      /\ cur[t] \in Events
      /\ status[cur[t]] \in {"PROCESSING", "DONE"}
      /\ attempts[cur[t]] # MAX_ATTEMPTS
  BY FailingRow DEF MarkDone
<1> USE DEF MarkDone, RowDone, NextRow, history
<1>2. TypeOK'
  BY <1>1 DEF IInv, TypeOK
<1>3. Control'
  BY DEF IInv, TypeOK, Control
<1>4. OneOwner'
  BY <1>1 DEF IInv, TypeOK, OneOwner
<1>5. SnapshotCurrent'
  BY DEF IInv, TypeOK, SnapshotCurrent
<1>6. FailedWhenExhausted'
  BY <1>1 DEF IInv, TypeOK, FailedWhenExhausted
<1>7. Counting'
  BY <1>1 DEF IInv, TypeOK, OneOwner, Counting
<1> QED
  BY <1>2, <1>3, <1>4, <1>5, <1>6, <1>7 DEF IInv

LEMMA MarkDoneAckLostInv ==
    ASSUME IInv, NEW t \in Ticks, MarkDoneAckLost(t)
    PROVE  IInv'
<1>1. /\ cur[t] \in held[t]
      /\ cur[t] \in Events
      /\ attempts[cur[t]] # MAX_ATTEMPTS
  BY FailingRow DEF MarkDoneAckLost
<1> USE DEF MarkDoneAckLost, Fault, RowDone, history
<1>2. TypeOK'
  <2>1. faults' \in 0..MaxFaults
    BY DEF IInv, TypeOK
  <2>2. status' \in [Events -> Statuses] /\ doneAt' \in [Events -> BOOLEAN]
    BY <1>1 DEF IInv, TypeOK
  <2> QED
    BY <2>1, <2>2 DEF IInv, TypeOK
<1>3. Control'
  BY DEF IInv, TypeOK, Control
<1>4. OneOwner'
  BY <1>1 DEF IInv, TypeOK, OneOwner
<1>5. SnapshotCurrent'
  BY DEF IInv, TypeOK, SnapshotCurrent
<1>6. FailedWhenExhausted'
  BY <1>1 DEF IInv, TypeOK, FailedWhenExhausted
<1>7. Counting'
  BY <1>1 DEF IInv, TypeOK, OneOwner, Counting
<1> QED
  BY <1>2, <1>3, <1>4, <1>5, <1>6, <1>7 DEF IInv

-----------------------------------------------------------------------------
(* markFailed *)

\* What the row update of markFailed leaves in the table.
LEMMA RowFailedEffect ==
    ASSUME IInv, NEW t \in Ticks, pc[t] = "failing",
           RowFailed(cur[t], seen[t][cur[t]] + 1)
    PROVE  /\ attempts' = [attempts EXCEPT ![cur[t]] = attempts[cur[t]] + 1]
           /\ status' = [status EXCEPT ![cur[t]] =
                  IF attempts[cur[t]] + 1 = MAX_ATTEMPTS THEN "FAILED"
                                                         ELSE "PENDING"]
           /\ attempts' \in [Events -> 0..MAX_ATTEMPTS]
           /\ delay' \in [Events -> Nat]
           /\ doneAt' = doneAt
<1> DEFINE n == attempts[cur[t]] + 1
<1>1. /\ n \in 1..MAX_ATTEMPTS
      /\ cur[t] \in Events
      /\ seen[t][cur[t]] + 1 = n
  BY FailingRow
<1>2. Backoff(n) \in Nat
  BY <1>1, BackoffType
<1>3. attempts \in [Events -> 0..MAX_ATTEMPTS] /\ delay \in [Events -> Nat]
  BY DEF IInv, TypeOK
<1>4. RowFailed(cur[t], n)
  BY <1>1
<1> HIDE DEF n
<1>5. n >= MAX_ATTEMPTS <=> n = MAX_ATTEMPTS
  BY <1>1
<1>6. /\ attempts' = [attempts EXCEPT ![cur[t]] = n]
      /\ status' = [status EXCEPT ![cur[t]] =
                       IF n = MAX_ATTEMPTS THEN "FAILED" ELSE "PENDING"]
      /\ delay' \in {delay, [delay EXCEPT ![cur[t]] = Backoff(n)]}
      /\ doneAt' = doneAt
  <2>1. n < MAX_ATTEMPTS <=> n # MAX_ATTEMPTS
    BY <1>1
  <2>2. CASE n = MAX_ATTEMPTS
    <3>1. /\ attempts' = [attempts EXCEPT ![cur[t]] = n]
          /\ status' = [status EXCEPT ![cur[t]] = "FAILED"]
          /\ delay' = delay
          /\ doneAt' = doneAt
      BY Zenon, <1>4, <2>1, <2>2 DEF RowFailed
    <3> QED
      BY <2>2, <3>1
  <2>3. CASE n # MAX_ATTEMPTS
    BY <1>4, <1>5, <2>3 DEF RowFailed
  <2> QED
    BY <2>2, <2>3
<1>7. attempts' \in [Events -> 0..MAX_ATTEMPTS] /\ delay' \in [Events -> Nat]
  BY <1>1, <1>2, <1>3, <1>6
<1> QED
  BY <1>6, <1>7 DEF n

LEMMA MarkFailedInv ==
    ASSUME IInv, NEW t \in Ticks, MarkFailed(t)
    PROVE  IInv'
<1> DEFINE e == cur[t]
<1>1. /\ e \in held[t]
      /\ e \in Events
      /\ attempts[e] + 1 \in 1..MAX_ATTEMPTS
      /\ status[e] \in {"PROCESSING", "DONE"}
  BY FailingRow DEF MarkFailed
<1>2. /\ attempts' = [attempts EXCEPT ![e] = attempts[e] + 1]
      /\ status' = [status EXCEPT ![e] =
             IF attempts[e] + 1 = MAX_ATTEMPTS THEN "FAILED" ELSE "PENDING"]
      /\ attempts' \in [Events -> 0..MAX_ATTEMPTS]
      /\ delay' \in [Events -> Nat]
      /\ doneAt' = doneAt
  BY RowFailedEffect DEF MarkFailed
<1>3. /\ NextRow(t)
      /\ UNCHANGED faults
      /\ pc[t] = "failing"
  BY DEF MarkFailed
<1>4. \A u \in Ticks \ {t} : e \notin locked[u] /\ e \notin held[u]
  BY <1>1 DEF IInv, OneOwner
<1> USE DEF NextRow, history
<1>5. TypeOK'
  BY <1>1, <1>2, <1>3 DEF IInv, TypeOK
<1>6. Control'
  BY <1>3 DEF IInv, TypeOK, Control
<1>7. OneOwner'
  BY <1>1, <1>2, <1>3, <1>4 DEF IInv, TypeOK, Control, OneOwner
<1>8. SnapshotCurrent'
  BY <1>1, <1>2, <1>3, <1>4 DEF IInv, TypeOK, SnapshotCurrent
<1>9. FailedWhenExhausted'
  BY <1>1, <1>2 DEF IInv, TypeOK, FailedWhenExhausted
<1>10. Counting'
  BY <1>1, <1>2, <1>3, <1>4 DEF IInv, TypeOK, Counting
<1> QED
  BY <1>5, <1>6, <1>7, <1>8, <1>9, <1>10 DEF IInv

\* Ticks that let go of everything, in a step that leaves the table alone.
LEMMA DropInv ==
    ASSUME IInv, NEW T \in SUBSET Ticks, BatchDropped(T),
           \A t \in Ticks : locked'[t] = locked[t] \/ locked'[t] = {},
           \A t \in T : locked'[t] = {},
           UNCHANGED <<table, runs>>, TypeOK'
    PROVE  IInv'
<1> USE DEF BatchDropped, table
<1>1. \A t \in Ticks : \/ t \in T /\ held'[t] = {} /\ pc'[t] = "idle"
                       \/ /\ t \notin T
                          /\ held'[t] = held[t]
                          /\ pc'[t] = pc[t]
                          /\ cur'[t] = cur[t]
                          /\ seen'[t] = seen[t]
  OBVIOUS
<1>2. Control'
  BY <1>1 DEF IInv, Control
<1>3. OneOwner'
  BY <1>1 DEF IInv, OneOwner
<1>4. SnapshotCurrent'
  BY <1>1 DEF IInv, SnapshotCurrent
<1>5. FailedWhenExhausted'
  BY DEF IInv, FailedWhenExhausted
<1>6. Counting'
  BY <1>1 DEF IInv, Counting
<1> QED
  BY <1>2, <1>3, <1>4, <1>5, <1>6 DEF IInv

LEMMA MarkFailedFailsInv ==
    ASSUME IInv, NEW t \in Ticks, MarkFailedFails(t)
    PROVE  IInv'
<1>1. BatchDropped({t}) /\ UNCHANGED <<table, runs>>
  BY DEF MarkFailedFails, history
<1>2. locked' = locked /\ locked[t] = {}
  BY DEF MarkFailedFails, IInv, Control
<1>3. TypeOK'
  BY DEF MarkFailedFails, BatchDropped, Fault, table, history, IInv, TypeOK
<1> QED
  BY <1>1, <1>2, <1>3, DropInv

LEMMA MarkFailedAckLostInv ==
    ASSUME IInv, NEW t \in Ticks, MarkFailedAckLost(t)
    PROVE  IInv'
<1> DEFINE e == cur[t]
<1>1. /\ e \in held[t]
      /\ e \in Events
      /\ attempts[e] + 1 \in 1..MAX_ATTEMPTS
      /\ status[e] \in {"PROCESSING", "DONE"}
  BY FailingRow DEF MarkFailedAckLost
<1>2. /\ attempts' = [attempts EXCEPT ![e] = attempts[e] + 1]
      /\ status' = [status EXCEPT ![e] =
             IF attempts[e] + 1 = MAX_ATTEMPTS THEN "FAILED" ELSE "PENDING"]
      /\ attempts' \in [Events -> 0..MAX_ATTEMPTS]
      /\ delay' \in [Events -> Nat]
      /\ doneAt' = doneAt
  BY RowFailedEffect DEF MarkFailedAckLost
<1>3. /\ BatchDropped({t})
      /\ UNCHANGED <<locked, proc, history, stops>>
      /\ Fault("markFailedAck")
      /\ pc[t] = "failing"
  BY DEF MarkFailedAckLost
<1>4. \A u \in Ticks \ {t} : e \notin locked[u] /\ e \notin held[u]
  BY <1>1 DEF IInv, OneOwner
<1>5. \A u \in Ticks : \/ u = t /\ held'[u] = {} /\ pc'[u] = "idle"
                       \/ /\ u # t
                          /\ held'[u] = held[u]
                          /\ pc'[u] = pc[u]
                          /\ cur'[u] = cur[u]
                          /\ seen'[u] = seen[u]
  BY <1>3 DEF BatchDropped
<1>6. TypeOK'
  BY <1>1, <1>2, <1>3 DEF BatchDropped, Fault, history, IInv, TypeOK
<1>7. Control'
  BY <1>3, <1>5 DEF IInv, Control
<1>8. OneOwner'
  <2>1. locked' = locked
    BY <1>3
  <2>2. \A f \in Events \ {e} : status'[f] = status[f]
    BY <1>1, <1>2 DEF IInv, TypeOK
  <2>3. \A u \in Ticks : \A f \in locked[u] : f \in Events /\ f # e
    BY <1>1, <1>3, <1>4 DEF IInv, TypeOK, Control
  <2>4. \A u \in Ticks : \A f \in held'[u] : u # t /\ f \in Events /\ f # e
    BY <1>4, <1>5 DEF IInv, TypeOK
  <2>5. \A u \in Ticks : held'[u] \subseteq held[u]
    BY <1>5
  <2>6. \A u \in Ticks : \A f \in locked'[u] : status'[f] = "PENDING"
    <3>1. \A u \in Ticks : \A f \in locked[u] : status[f] = "PENDING"
      BY DEF IInv, OneOwner
    <3> QED
      BY <2>1, <2>2, <2>3, <3>1
  <2>7. \A u \in Ticks : \A f \in held'[u] :
           \/ status'[f] = "PROCESSING"
           \/ status'[f] = "DONE" /\ pc'[u] = "failing" /\ cur'[u] = f
    <3>1. \A u \in Ticks : \A f \in held[u] :
             \/ status[f] = "PROCESSING"
             \/ status[f] = "DONE" /\ pc[u] = "failing" /\ cur[u] = f
      BY DEF IInv, OneOwner
    <3> QED
      BY <1>5, <2>2, <2>4, <3>1
  <2>8. \A u \in Ticks : \A v \in Ticks \ {u} :
           (locked'[u] \cup held'[u]) \cap (locked'[v] \cup held'[v]) = {}
    BY <2>1, <2>5 DEF IInv, OneOwner
  <2> QED
    BY <2>6, <2>7, <2>8 DEF OneOwner
<1>9. SnapshotCurrent'
  <2>1. \A u \in Ticks : \A f \in held'[u] : /\ f \in held[u]
                                            /\ seen'[u] = seen[u]
    BY <1>5
  <2>2. \A u \in Ticks : \A f \in held'[u] : f \in Events /\ f # e
    BY <1>4, <1>5 DEF IInv, TypeOK
  <2>3. \A f \in Events \ {e} : attempts'[f] = attempts[f]
    BY <1>1, <1>2 DEF IInv, TypeOK
  <2>4. \A u \in Ticks : \A f \in held[u] : seen[u][f] = attempts[f]
    BY DEF IInv, SnapshotCurrent
  <2>5. \A u \in Ticks : \A f \in held'[u] : seen'[u][f] = attempts'[f]
    BY <2>1, <2>2, <2>3, <2>4
  <2> QED
    BY <2>5 DEF SnapshotCurrent
<1>10. FailedWhenExhausted'
  BY <1>1, <1>2 DEF IInv, TypeOK, FailedWhenExhausted
<1>11. Counting'
  <2>1. runs' = runs /\ runs[e] <= attempts[e] + 1
    BY <1>1, <1>3 DEF IInv, Counting, history
  <2>2. \A f \in Events : attempts[f] \in Nat /\ runs[f] \in Nat
    BY DEF IInv, TypeOK
  <2>3. runs'[e] <= attempts'[e]
    BY <1>1, <1>2, <2>1, <2>2 DEF IInv, TypeOK
  <2>4. \A f \in Events \ {e} : attempts'[f] = attempts[f] /\ status'[f] = status[f]
    BY <1>1, <1>2 DEF IInv, TypeOK
  <2>5. SUFFICES ASSUME NEW f \in Events
                 PROVE  /\ runs'[f] <= attempts'[f] + 1
                        /\ status'[f] \in {"ABSENT", "PENDING", "FAILED"}
                              => runs'[f] <= attempts'[f]
                        /\ \A u \in Ticks :
                              /\ f \in held'[u]
                              /\ ~(/\ pc'[u] \in {"handled", "failing"}
                                   /\ cur'[u] = f)
                              => runs'[f] <= attempts'[f]
    BY DEF Counting
  <2>6. CASE f = e
    <3>1. attempts'[e] \in Nat
      BY <1>1, <1>2
    <3>2. runs'[e] \in Nat
      BY <1>1, <2>1, <2>2
    <3>3. runs'[e] <= attempts'[e] + 1
      BY <2>3, <3>1, <3>2
    <3> QED
      BY <2>3, <2>6, <3>3
  <2>7. CASE f # e
    BY <1>5, <2>1, <2>4, <2>7 DEF IInv, Counting
  <2> QED
    BY <2>6, <2>7
<1> QED
  BY <1>6, <1>7, <1>8, <1>9, <1>10, <1>11 DEF IInv

-----------------------------------------------------------------------------
(* Time and processes *)

LEMMA TimePassesInv ==
    ASSUME IInv, TimePasses
    PROVE  IInv'
<1> USE DEF TimePasses, ticks
<1>1. TypeOK'
  BY DEF Least, IInv, TypeOK
<1>2. Control' /\ OneOwner' /\ SnapshotCurrent'
  BY DEF IInv, Control, OneOwner, SnapshotCurrent
<1>3. FailedWhenExhausted' /\ Counting'
  BY DEF IInv, FailedWhenExhausted, Counting
<1> QED
  BY <1>1, <1>2, <1>3 DEF IInv

LEMMA ProcessMovesInv ==
    ASSUME IInv, NEW w \in Workers, Shutdown(w) \/ Start(w)
    PROVE  IInv'
<1>1. UNCHANGED <<table, ticks, history>>
  BY DEF Shutdown, Start
<1>2. TypeOK'
  <2>1. faults' = faults /\ stops' \in 0..MaxStops
    BY DEF Shutdown, Start, IInv, TypeOK
  <2>2. proc' \in [Workers -> {"up", "stopping", "down"}]
    BY DEF Shutdown, Start, IInv, TypeOK
  <2> QED
    BY <1>1, <2>1, <2>2 DEF table, ticks, history, IInv, TypeOK
<1>3. Control' /\ OneOwner' /\ SnapshotCurrent'
  BY <1>1 DEF table, ticks, IInv, Control, OneOwner, SnapshotCurrent
<1>4. FailedWhenExhausted' /\ Counting'
  BY <1>1 DEF table, ticks, history, IInv, FailedWhenExhausted, Counting
<1> QED
  BY <1>2, <1>3, <1>4 DEF IInv

LEMMA ProcessDiesInv ==
    ASSUME IInv, NEW w \in Workers, Exit(w) \/ Crash(w)
    PROVE  IInv'
<1> DEFINE T == TicksOf(w)
<1>1. Killed(w) /\ stops' \in 0..MaxStops
  BY DEF Exit, Crash, IInv, TypeOK
<1>2. BatchDropped(T) /\ UNCHANGED <<table, runs>>
  BY <1>1 DEF Killed, history
<1>3. \A t \in Ticks : locked'[t] = IF t \in T THEN {} ELSE locked[t]
  BY <1>1 DEF Killed
<1>4. TypeOK'
  BY <1>1 DEF Killed, BatchDropped, table, history, IInv, TypeOK
<1> HIDE DEF T
<1>5. T \subseteq Ticks
  BY DEF T, TicksOf
<1> QED
  BY <1>2, <1>3, <1>4, <1>5, DropInv

LEMMA NextInv == IInv /\ [Next]_vars => IInv'
<1> SUFFICES ASSUME IInv, [Next]_vars PROVE IInv'
  OBVIOUS
<1>1. CASE \E e \in Events : Insert(e)
  BY <1>1, InsertInv
<1>2. CASE \E t \in Ticks : TickFires(t)
  BY <1>2, TickMovesInv
<1>3. ASSUME NEW t \in Ticks, TickSteps(t) PROVE IInv'
  BY <1>3, TickMovesInv, SelectDueInv, ClaimCommitsInv, ClaimAbortsInv,
     ClaimAckLostInv, HandlerSucceedsInv, HandlerThrowsInv, MarkDoneInv,
     MarkDoneAckLostInv, MarkFailedInv, MarkFailedFailsInv,
     MarkFailedAckLostInv DEF TickSteps
<1>4. CASE TimePasses
  BY <1>4, TimePassesInv
<1>5. CASE \E w \in Workers : Shutdown(w) \/ Start(w)
  BY <1>5, ProcessMovesInv
<1>6. CASE \E w \in Workers : Exit(w) \/ Crash(w)
  BY <1>6, ProcessDiesInv
<1>7. CASE UNCHANGED vars
  BY <1>7 DEF vars, table, ticks, history, IInv, TypeOK, Control, OneOwner,
              SnapshotCurrent, FailedWhenExhausted, Counting
<1> QED
  BY <1>1, <1>2, <1>3, <1>4, <1>5, <1>6, <1>7 DEF Next

-----------------------------------------------------------------------------
(* The theorems *)

\* Everything below rests on this: IInv holds in every reachable state.
THEOREM Inductive == Spec => []IInv
<1>1. Init => IInv
  BY InitInv
<1>2. IInv /\ [Next]_vars => IInv'
  BY NextInv
<1> QED
  BY <1>1, <1>2, PTL DEF Spec

\* Types: no attempts counter leaves 0..MAX_ATTEMPTS, no status is invented.
THEOREM TypeCorrect == Spec => []TypeOK
<1>1. IInv => TypeOK
  BY DEF IInv
<1> QED
  BY <1>1, Inductive, PTL

\* FOR UPDATE SKIP LOCKED and the status column together make a tick the only
\* owner of its rows, for any number of processes and overlapping ticks.
THEOREM Ownership == Spec => []OneOwner
<1>1. IInv => OneOwner
  BY DEF IInv
<1> QED
  BY <1>1, Inductive, PTL

\* The attempts a tick read with its claim are never out of date.
THEOREM SnapshotsStayCurrent == Spec => []SnapshotCurrent
<1>1. IInv => SnapshotCurrent
  BY DEF IInv
<1> QED
  BY <1>1, Inductive, PTL

\* FAILED and "no attempt left" are one condition.
THEOREM FailedMeansExhausted == Spec => []FailedWhenExhausted
<1>1. IInv => FailedWhenExhausted
  BY DEF IInv
<1> QED
  BY <1>1, Inductive, PTL

\* At most MAX_ATTEMPTS completions of the handler of one event, whatever
\* fails or stops.
THEOREM RunsBounded == Spec => []HandlerRunsBounded
<1>1. IInv => HandlerRunsBounded
  <2> SUFFICES ASSUME IInv, NEW e \in Events
               PROVE  runs[e] <= attempts[e] + 1 /\ runs[e] <= MAX_ATTEMPTS
    BY DEF HandlerRunsBounded
  <2>1. runs[e] \in Nat /\ attempts[e] \in 0..MAX_ATTEMPTS
    BY DEF IInv, TypeOK
  <2>2. runs[e] <= attempts[e] + 1
    BY DEF IInv, Counting
  <2>3. CASE status[e] = "FAILED"
    <3>1. runs[e] <= attempts[e]
      BY <2>3 DEF IInv, Counting
    <3> QED
      BY <3>1, <2>1, <2>2
  <2>4. CASE status[e] # "FAILED"
    <3>1. attempts[e] # MAX_ATTEMPTS
      BY <2>4 DEF IInv, FailedWhenExhausted
    <3> QED
      BY <3>1, <2>1, <2>2
  <2> QED
    BY <2>3, <2>4
<1> QED
  BY <1>1, Inductive, PTL

-----------------------------------------------------------------------------
(* Action properties *)

\* No step writes a row back from an outdated copy: attempts go up by one or
\* stay, and FAILED is never left.
THEOREM AttemptsOnlyGrow == Spec => AttemptsGrow
<1> DEFINE Grow == \A e \in Events :
                      /\ attempts'[e] \in {attempts[e], attempts[e] + 1}
                      /\ status[e] = "FAILED" => status'[e] = "FAILED"
<1>1. IInv /\ [Next]_vars => [Grow]_vars
  <2> SUFFICES ASSUME IInv, [Next]_vars PROVE Grow
    OBVIOUS
  <2>1. CASE UNCHANGED <<status, attempts>>
    BY <2>1
  <2>2. CASE \E e \in Events : Insert(e)
    BY <2>2 DEF Insert, IInv, TypeOK
  <2>3. ASSUME NEW t \in Ticks, ClaimCommits(t) \/ ClaimAckLost(t) PROVE Grow
    BY <2>3 DEF ClaimCommits, ClaimAckLost, BatchProcessing, IInv, TypeOK, OneOwner
  <2>4. ASSUME NEW t \in Ticks, MarkDone(t) \/ MarkDoneAckLost(t) PROVE Grow
    <3>1. status[cur[t]] \in {"PROCESSING", "DONE"} /\ RowDone(cur[t])
      BY <2>4, FailingRow DEF MarkDone, MarkDoneAckLost
    <3> QED
      BY <3>1 DEF RowDone, IInv, TypeOK
  <2>5. ASSUME NEW t \in Ticks, MarkFailed(t) \/ MarkFailedAckLost(t) PROVE Grow
    <3>1. pc[t] = "failing" /\ RowFailed(cur[t], seen[t][cur[t]] + 1)
      BY <2>5 DEF MarkFailed, MarkFailedAckLost
    <3>2. status[cur[t]] \in {"PROCESSING", "DONE"} /\ cur[t] \in Events
      BY <3>1, FailingRow
    <3>3. /\ attempts' = [attempts EXCEPT ![cur[t]] = attempts[cur[t]] + 1]
          /\ status' = [status EXCEPT ![cur[t]] =
                 IF attempts[cur[t]] + 1 = MAX_ATTEMPTS THEN "FAILED"
                                                        ELSE "PENDING"]
      BY <3>1, RowFailedEffect
    <3> QED
      BY <3>2, <3>3 DEF IInv, TypeOK
  <2>6. ASSUME NEW t \in Ticks, TickSteps(t) PROVE Grow
    <3>1. CASE \/ ClaimCommits(t)
               \/ ClaimAckLost(t)
               \/ MarkDone(t)
               \/ MarkDoneAckLost(t)
               \/ MarkFailed(t)
               \/ MarkFailedAckLost(t)
      BY <3>1, <2>3, <2>4, <2>5
    <3>2. CASE \/ SelectDue(t)
               \/ SelectNothing(t)
               \/ SelectFails(t)
               \/ ClaimAborts(t)
               \/ \E e \in Events : HandlerSucceeds(t, e) \/ HandlerThrows(t, e)
               \/ MarkDoneFails(t)
               \/ MarkFailedFails(t)
               \/ TickEnds(t)
      <4>1. UNCHANGED <<status, attempts>>
        BY <3>2 DEF SelectDue, SelectNothing, SelectFails, ClaimAborts,
                    HandlerSucceeds, HandlerThrows, MarkDoneFails,
                    MarkFailedFails, TickEnds, table
      <4> QED
        BY <4>1, <2>1
    <3> QED
      BY <2>6, <3>1, <3>2 DEF TickSteps
  <2>7. CASE \/ \E t \in Ticks : TickFires(t)
             \/ TimePasses
             \/ \E w \in Workers : Shutdown(w) \/ Exit(w) \/ Crash(w) \/ Start(w)
             \/ UNCHANGED vars
    <3>1. UNCHANGED <<status, attempts>>
      BY <2>7 DEF TickFires, TimePasses, Shutdown, Exit, Crash, Start, Killed,
                  table, vars
    <3> QED
      BY <3>1, <2>1
  <2> QED
    BY <2>2, <2>6, <2>7 DEF Next
<1>2. Spec => [][Grow]_vars
  BY <1>1, Inductive, PTL DEF Spec
<1> QED
  BY <1>2 DEF AttemptsGrow

-----------------------------------------------------------------------------
(* The outbox implements the ledger of EventLedger: each step is a step of  *)
(* the ledger or leaves its three variables unchanged                        *)

LEMMA InitRefines == Init => Ledger!Init
  BY DEF Init, Ledger!Init

LEMMA InsertRefines ==
    ASSUME NEW e \in Events, Insert(e)
    PROVE  Ledger!Publish(e)
  BY DEF Insert, Ledger!Publish, ticks

\* A claim that commits delivers the rows it had locked, with or without the
\* tick hearing of it.
LEMMA ClaimRefines ==
    ASSUME IInv, NEW t \in Ticks, ClaimCommits(t) \/ ClaimAckLost(t)
    PROVE  Ledger!Deliver(t, locked[t]) /\ locked[t] \in SUBSET Events
<1>1. /\ \A e \in locked[t] : status[e] = "PENDING"
      /\ locked[t] \in SUBSET Events
      /\ held \in [Ticks -> SUBSET Events]
  BY DEF IInv, TypeOK, OneOwner
<1>2. BatchProcessing(t) /\ pc[t] = "locked"
  BY DEF ClaimCommits, ClaimAckLost
<1>3. held[t] = {}
  BY <1>2 DEF IInv, Control
<1>4. held' = [held EXCEPT ![t] = held[t] \cup locked[t]] \/ held' = held
  BY <1>1, <1>3 DEF ClaimCommits, ClaimAckLost
<1> QED
  BY <1>1, <1>2, <1>4 DEF BatchProcessing, Ledger!Deliver

LEMMA MarkDoneRefines ==
    ASSUME IInv, NEW t \in Ticks, MarkDone(t) \/ MarkDoneAckLost(t)
    PROVE  Ledger!Settle(t, cur[t]) /\ cur[t] \in Events
<1>1. pc[t] = "handled" /\ RowDone(cur[t])
  BY DEF MarkDone, MarkDoneAckLost
<1>2. cur[t] \in held[t] /\ cur[t] \in Events
  BY <1>1, FailingRow
<1>3. status[cur[t]] = "PROCESSING"
  BY <1>1, <1>2 DEF IInv, OneOwner
<1>4. held' = [held EXCEPT ![t] = held[t] \ {cur[t]}] \/ held' = held
  BY DEF MarkDone, MarkDoneAckLost, NextRow
<1> QED
  BY <1>1, <1>2, <1>3, <1>4 DEF RowDone, Ledger!Settle

LEMMA MarkFailedRefines ==
    ASSUME IInv, NEW t \in Ticks, MarkFailed(t) \/ MarkFailedAckLost(t)
    PROVE  Ledger!SendBack(t, cur[t]) /\ cur[t] \in Events
<1>1. pc[t] = "failing" /\ RowFailed(cur[t], seen[t][cur[t]] + 1)
  BY DEF MarkFailed, MarkFailedAckLost
<1>2. /\ cur[t] \in held[t]
      /\ cur[t] \in Events
      /\ attempts[cur[t]] + 1 \in 1..MAX_ATTEMPTS
  BY <1>1, FailingRow
<1>3. attempts[cur[t]] < MAX_ATTEMPTS
  <2>1. attempts[cur[t]] \in 0..MAX_ATTEMPTS
    BY <1>2 DEF IInv, TypeOK
  <2> QED
    BY <1>2, <2>1
<1>4. /\ attempts' = [attempts EXCEPT ![cur[t]] = attempts[cur[t]] + 1]
      /\ status' = [status EXCEPT ![cur[t]] =
             IF attempts[cur[t]] + 1 = MAX_ATTEMPTS THEN "FAILED" ELSE "PENDING"]
  BY <1>1, RowFailedEffect
<1>5. \E S \in {held[t] \ {cur[t]}, {}} : held' = [held EXCEPT ![t] = S]
  <2>1. CASE MarkFailed(t)
    BY <2>1 DEF MarkFailed, NextRow
  <2>2. CASE MarkFailedAckLost(t)
    <3>1. held' = [u \in Ticks |-> IF u \in {t} THEN {} ELSE held[u]]
      BY <2>2 DEF MarkFailedAckLost, BatchDropped
    <3>2. held \in [Ticks -> SUBSET Events]
      BY DEF IInv, TypeOK
    <3>3. held' = [held EXCEPT ![t] = {}]
      BY <3>1, <3>2
    <3> QED
      BY <3>3
  <2> QED
    BY <2>1, <2>2
<1> QED
  BY <1>2, <1>3, <1>4, <1>5 DEF Ledger!SendBack

\* A tick that gives its batch up, or a process that stops, lets go.
LEMMA DropRefines ==
    ASSUME NEW T \in SUBSET Ticks, BatchDropped(T), UNCHANGED table
    PROVE  Ledger!LetGo(T)
  BY DEF BatchDropped, table, Ledger!LetGo

LEMMA OtherStepsRefine ==
    ASSUME \/ \E t \in Ticks : \/ TickFires(t)
                               \/ SelectDue(t)
                               \/ SelectNothing(t)
                               \/ SelectFails(t)
                               \/ ClaimAborts(t)
                               \/ \E e \in Events : HandlerSucceeds(t, e)
                               \/ \E e \in Events : HandlerThrows(t, e)
                               \/ MarkDoneFails(t)
                               \/ TickEnds(t)
           \/ TimePasses
           \/ \E w \in Workers : Shutdown(w) \/ Start(w)
           \/ UNCHANGED vars
    PROVE  UNCHANGED Ledger!ledger
  BY DEF TickFires, SelectDue, SelectNothing, SelectFails, ClaimAborts,
         HandlerSucceeds, HandlerThrows, MarkDoneFails, TickEnds, TimePasses,
         Shutdown, Start, vars, table, ticks, Ledger!ledger

LEMMA StepRefines == IInv /\ [Next]_vars => [Ledger!Next]_(Ledger!ledger)
<1> SUFFICES ASSUME IInv, [Next]_vars
             PROVE  Ledger!Next \/ UNCHANGED Ledger!ledger
  OBVIOUS
<1>1. CASE \E e \in Events : Insert(e)
  BY <1>1, InsertRefines DEF Ledger!Next
<1>2. ASSUME NEW t \in Ticks, TickSteps(t)
      PROVE  Ledger!Next \/ UNCHANGED Ledger!ledger
  <2>1. CASE ClaimCommits(t) \/ ClaimAckLost(t)
    BY <2>1, ClaimRefines DEF Ledger!Next
  <2>2. CASE MarkDone(t) \/ MarkDoneAckLost(t)
    BY <2>2, MarkDoneRefines DEF Ledger!Next
  <2>3. CASE MarkFailed(t) \/ MarkFailedAckLost(t)
    BY <2>3, MarkFailedRefines DEF Ledger!Next
  <2>4. CASE MarkFailedFails(t)
    <3>1. BatchDropped({t}) /\ UNCHANGED table
      BY <2>4 DEF MarkFailedFails
    <3>2. Ledger!LetGo({t})
      BY <3>1, DropRefines
    <3> QED
      BY <3>2 DEF Ledger!Next
  <2> QED
    BY <1>2, <2>1, <2>2, <2>3, <2>4, OtherStepsRefine DEF TickSteps
<1>3. ASSUME NEW w \in Workers, Exit(w) \/ Crash(w)
      PROVE  Ledger!Next
  <2> DEFINE T == TicksOf(w)
  <2>1. BatchDropped(T) /\ UNCHANGED table /\ T \in SUBSET Ticks
    BY <1>3 DEF Exit, Crash, Killed, TicksOf
  <2> HIDE DEF T
  <2>2. Ledger!LetGo(T)
    BY <2>1, DropRefines
  <2> QED
    BY <2>1, <2>2 DEF Ledger!Next
<1> QED
  BY <1>1, <1>2, <1>3, OtherStepsRefine DEF Next

\* The outbox keeps the promise of the ledger: rows are settled or sent back
\* only by the tick that claimed them, and every failure costs one attempt.
THEOREM Refinement == Spec => ImplementsLedger
<1>1. Init => Ledger!Init
  BY InitRefines
<1>2. IInv /\ [Next]_vars => [Ledger!Next]_(Ledger!ledger)
  BY StepRefines
<1>3. Spec => Ledger!Spec
  BY <1>1, <1>2, Inductive, PTL DEF Spec, Ledger!Spec
<1> QED
  BY <1>3 DEF ImplementsLedger
=============================================================================
