------------------------------ MODULE MCOutbox ------------------------------
(***************************************************************************)
(* Small instances of Outbox for TLC.                                      *)
(***************************************************************************)
EXTENDS Outbox, TLC

CONSTANTS w1, w2, t1, t2

\* The second event has a type no handler is registered for.
MCTypeMixed == [e \in Events |-> IF e = 2 THEN "order.unknown"
                                          ELSE "payment.credited"]

\* Two processes with one tick each; one process whose ticks overlap.
MCTwoProcesses == (t1 :> w1) @@ (t2 :> w2)
MCOverlap == (t1 :> w1) @@ (t2 :> w1)

\* The names the SELECT uses, and those `prisma db push` gives the table:
\* the model maps the table's name but none of its fields.
MCQueryColumns == {"id", "event_type", "status", "attempts", "next_run_at",
                   "created_at"}
MCSchemaColumns == {"id", "eventType", "payload", "status", "attempts",
                    "nextRunAt", "lastError", "createdAt", "doneAt"}

MCNoFaults == {}
MCAllFaults == FaultKinds
\* Failures after which the row is still in the table to be claimed again.
MCHarmlessFaults == {"select", "claim", "markDone"}

=============================================================================
