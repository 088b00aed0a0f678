--------------------------- MODULE MCBillingCall ---------------------------
(***************************************************************************)
(* Four calls, one for each way through the server: a body of the size of  *)
(* the limit, one beyond it, a settlement without the id of a reservation, *)
(* and a GET.  The caller has left the idempotency key of the first empty. *)
(* A unit of time is the 3 s of the client, of which the 15 s that billing *)
(* drains are five, and the variable is set to "3000", which lacks the     *)
(* unit ParseDuration asks for.                                            *)
(***************************************************************************)
EXTENDS BillingCall, TLC

CONSTANTS r1, r2, r3, r4

MCReservation == [idempotencyKey |-> "empty", userId |-> "otherText",
                  apiKeyId |-> "otherText", requestId |-> "digits",
                  amountMicros |-> "digits"]
MCSettlement == [idempotencyKey |-> "otherText", amountMicros |-> "digits",
                 priceVersionId |-> "otherText", usageSource |-> "usageSource",
                 parserVersion |-> "otherText", estimated |-> "boolean"]
MCRelease == [idempotencyKey |-> "otherText", reason |-> "empty"]

MCTarget ==
    (r1 :> [op |-> "reservations", id |-> <<"res1">>, body |-> MCReservation, size |-> 2])
 @@ (r2 :> [op |-> "release", id |-> <<"res1">>, body |-> MCRelease, size |-> 3])
 @@ (r3 :> [op |-> "settle", id |-> <<"">>, body |-> MCSettlement, size |-> 1])
 @@ (r4 :> [op |-> "wallet", id |-> <<"user1">>, body |-> << >>, size |-> 0])

MCTimeoutEnv == [set |-> TRUE, parses |-> FALSE, value |-> 3000]
=============================================================================
