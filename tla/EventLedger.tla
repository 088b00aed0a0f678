---------------------------- MODULE EventLedger ----------------------------
(***************************************************************************)
(* What the outbox promises to whoever inserts an event: a ledger of       *)
(* deliveries.  Consumers take events that are waiting; while an event is  *)
(* taken only its consumer settles it or sends it back, and every time it  *)
(* is sent back is counted, up to MaxTries.  A consumer may let go of what *)
(* it has taken (it stopped, or it lost the answer to a call): the ledger  *)
(* does not promise that such an event is ever delivered again.            *)
(*                                                                         *)
(* Nothing is said of batches, locks, polling, backoff, time or processes. *)
(***************************************************************************)
EXTENDS Integers

CONSTANTS Events, Consumers, MaxTries

VARIABLES state, tries, owned

ledger == <<state, tries, owned>>

Init == /\ state = [e \in Events |-> "ABSENT"]
        /\ tries = [e \in Events |-> 0]
        /\ owned = [c \in Consumers |-> {}]

Publish(e) == /\ state[e] = "ABSENT"
              /\ state' = [state EXCEPT ![e] = "PENDING"]
              /\ UNCHANGED <<tries, owned>>

\* The consumer gets all of S, or marks S as taken and never hears of it.
Deliver(c, S) ==
    /\ \A e \in S : state[e] = "PENDING"
    /\ state' = [e \in Events |-> IF e \in S THEN "PROCESSING" ELSE state[e]]
    /\ \/ owned' = [owned EXCEPT ![c] = @ \cup S]
       \/ UNCHANGED owned
    /\ UNCHANGED tries

\* The event is done; its consumer keeps it until it has heard so.
Settle(c, e) == /\ e \in owned[c]
                /\ state[e] = "PROCESSING"
                /\ state' = [state EXCEPT ![e] = "DONE"]
                /\ \/ owned' = [owned EXCEPT ![c] = @ \ {e}]
                   \/ UNCHANGED owned
                /\ UNCHANGED tries

\* The consumer reports a failure, and is left with its other events or none.
SendBack(c, e) ==
    /\ e \in owned[c]
    /\ tries[e] < MaxTries
    /\ tries' = [tries EXCEPT ![e] = @ + 1]
    /\ state' = [state EXCEPT ![e] =
                    IF tries[e] + 1 = MaxTries THEN "FAILED" ELSE "PENDING"]
    /\ \E S \in {owned[c] \ {e}, {}} : owned' = [owned EXCEPT ![c] = S]

\* Consumers that stop, or give their batch up.
LetGo(C) == /\ owned' = [c \in Consumers |-> IF c \in C THEN {} ELSE owned[c]]
            /\ UNCHANGED <<state, tries>>

Next == \/ \E e \in Events : Publish(e)
        \/ \E c \in Consumers, S \in SUBSET Events : Deliver(c, S)
        \/ \E c \in Consumers, e \in Events : Settle(c, e) \/ SendBack(c, e)
        \/ \E C \in SUBSET Consumers : LetGo(C)

Spec == Init /\ [][Next]_ledger
=============================================================================
