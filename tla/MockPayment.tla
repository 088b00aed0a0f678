---------------------------- MODULE MockPayment ----------------------------
(***************************************************************************)
(* MockPaymentProvider (packages/payment/src/mock.ts) between a shop that  *)
(* creates payments and a channel that notifies about them.  The provider  *)
(* is one object in one process; its maps die with the process.            *)
(*                                                                         *)
(* A raw notification is the sequence of its fields between the dots.  The *)
(* channel delivers any notification it has sent any number of times, in   *)
(* any order, whole or cut off inside its last two fields.  An amount is   *)
(* the sequence of its digits, and nothing in the code asks whether what   *)
(* arrived is all of them.                                                 *)
(***************************************************************************)
EXTENDS Integers, Sequences
LOCAL INSTANCE SequencesExt

CONSTANTS
    Orders,         \* order numbers, without a dot in them
    RefundNos,      \* refund numbers
    Amount,         \* the digits of each order's amount in micros
    NoPayment,      \* the map has no entry
    MaxPayments,    \* bound: createPayment calls per process
    MaxRestarts     \* bound: restarts of the process

ASSUME BoundsAssumption == MaxPayments \in Nat /\ MaxRestarts \in Nat
ASSUME AmountAssumption == Amount \in [Orders -> Seq(0..9)]

\* An entry of this.paid.
Payments == [id : Nat, amount : Seq(0..9)]

ASSUME NoPaymentAssumption == NoPayment \notin Payments

VARIABLES
    seq,            \* this.seq
    paid,           \* this.paid
    refunded,       \* this.refunded
    attempts,       \* history: the order and id of every qrCodeContent given out
    sent,           \* the notifications of the channel so far
    verified,       \* history: the notifications this process returned
    restarts        \* restarts so far

paymentVars == <<seq, paid, refunded, attempts, sent, verified, restarts>>

PaymentInit ==
    /\ seq = 0
    /\ paid = [o \in Orders |-> NoPayment]
    /\ refunded = {}
    /\ attempts = {}
    /\ sent = {}
    /\ verified = {}
    /\ restarts = 0

\* Mutant: the counter is read for the id and not advanced.
SeqUnchanged(n) == n

\* ++this.seq: once for the payment, once for the attempt, once for prepayId.
SeqAfterCreate(n) == n + 3

CreatePayment(o) ==
    /\ seq < 3 * MaxPayments
    /\ seq' = SeqAfterCreate(seq)
    /\ attempts' = attempts \union {[order |-> o, id |-> seq + 1]}
    /\ UNCHANGED <<paid, refunded, sent, verified, restarts>>

\* The payer pays what the code in qrCodeContent names.
Notify(a) ==
    /\ sent' = sent \union {<<"mock", a.order, a.id, Amount[a.order]>>}
    /\ UNCHANGED <<seq, paid, refunded, attempts, verified, restarts>>

\* How a notification may arrive: without its amount, or with any beginning of
\* it, the empty one and the whole one included.
Deliveries(raw) ==
    {<<raw[1], raw[2], raw[3]>>} \union
    {<<raw[1], raw[2], raw[3], digits>> : digits \in Prefixes(raw[4])}

\* parts.length !== 4 || parts[0] !== 'mock' throws.
Accepts(raw) == Len(raw) = 4 /\ raw[1] = "mock"

\* Mutant: the id is the counter's, not the one in the notification.
EntryOfCounter(raw) == [id |-> seq, amount |-> raw[4]]

Entry(raw) == [id |-> raw[3], amount |-> raw[4]]

VerifyNotification(raw) ==
    /\ Accepts(raw)
    /\ paid' = [paid EXCEPT ![raw[2]] = Entry(raw)]
    /\ verified' = verified \union {raw}
    /\ UNCHANGED <<seq, refunded, attempts, sent, restarts>>

VerifyThrows(raw) ==
    /\ ~Accepts(raw)
    /\ UNCHANGED paymentVars

\* Mutant: a refund drops the order's payment.
PaidAfterRefund(o) == [paid EXCEPT ![o] = NoPayment]

\* refund looks at the refund number only and leaves the payment alone.
AfterRefund(o) == paid

Refund(n, o) ==
    /\ refunded' = refunded \union {n}
    /\ paid' = AfterRefund(o)
    /\ UNCHANGED <<seq, attempts, sent, verified, restarts>>

Restart ==
    /\ restarts < MaxRestarts
    /\ restarts' = restarts + 1
    /\ seq' = 0
    /\ paid' = [o \in Orders |-> NoPayment]
    /\ refunded' = {}
    /\ verified' = {}
    /\ UNCHANGED <<attempts, sent>>

PaymentNext ==
    \/ \E o \in Orders : CreatePayment(o)
    \/ \E a \in attempts : Notify(a)
    \/ \E raw \in sent : \E r \in Deliveries(raw) : VerifyNotification(r)
    \/ \E raw \in sent : \E r \in Deliveries(raw) : VerifyThrows(r)
    \/ \E n \in RefundNos, o \in Orders : Refund(n, o)
    \/ Restart

PaymentSpec == PaymentInit /\ [][PaymentNext]_paymentVars

\* queryPayment: the answer for an order.
QueryPayment(o) ==
    IF paid[o] = NoPayment THEN [status |-> "PENDING"]
    ELSE [status |-> "PAID", id |-> paid[o].id, amount |-> paid[o].amount]

-----------------------------------------------------------------------------

PaymentTypeOK ==
    /\ seq \in {3 * n : n \in 0..MaxPayments}
    /\ paid \in [Orders -> Payments \union {NoPayment}]
    /\ refunded \subseteq RefundNos
    /\ attempts \subseteq [order : Orders, id : Nat]
    /\ \A raw \in sent : \E a \in attempts :
          raw = <<"mock", a.order, a.id, Amount[a.order]>>
    /\ restarts \in 0..MaxRestarts

\* types.ts:5 and the unique index of schema.prisma: a payment id belongs to
\* one order, however often payments are created and retried.  The counter is
\* in memory: after a restart ids are given out again.
PaymentIdsUnique ==
    restarts = 0 => \A a, b \in attempts : a.id = b.id => a.order = b.order

\* queryPayment and verifyNotification are consistent within the process
\* (mock.ts:7): an order is PAID exactly when a notification about it was
\* returned, and the id and the amount are those of one and the same.
QueryAgreesWithNotifications ==
    \A o \in Orders :
        LET returned == {<<raw[3], raw[4]>> : raw \in {v \in verified : v[2] = o}}
            answer == QueryPayment(o)
        IN  IF answer.status = "PAID" THEN <<answer.id, answer.amount>> \in returned
                                      ELSE returned = {}

\* Every payment the provider reports was asked for: the channel cannot make
\* an order PAID with an id no createPayment gave out for it, and what a refund,
\* a late or a cut off notification leaves of the amount begins as the order's
\* own.  It may be less: mock.ts:41 counts the fields and does not look into
\* them, so an amount that was cut off, even to nothing, is taken for the amount
\* paid, and can be what another order costs.
PaidWasCreated ==
    \A o \in Orders : QueryPayment(o).status = "PAID" =>
        /\ [order |-> o, id |-> QueryPayment(o).id] \in attempts
        /\ QueryPayment(o).amount \in Prefixes(Amount[o])

\* A paid order turns PENDING again by nothing but a restart, in particular
\* not by a refund or a late notification of another attempt.
PaidIsKept ==
    [][\A o \in Orders :
          QueryPayment(o).status = "PAID" =>
             QueryPayment(o)'.status = "PAID" \/ restarts' > restarts]_paymentVars
=============================================================================
