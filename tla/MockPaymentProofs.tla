------------------------- MODULE MockPaymentProofs -------------------------
(***************************************************************************)
(* What the mock provider promises within a process, for any orders,       *)
(* amounts and number of payments, and, but for the uniqueness of ids, of  *)
(* restarts.                                                               *)
(***************************************************************************)
EXTENDS MockPayment, TLAPS

LOCAL INSTANCE SequencesExt

\* A beginning of an amount is a text of digits again.
LEMMA BeginningIsText ==
    ASSUME NEW text \in Seq(0..9), NEW digits \in Prefixes(text)
    PROVE  digits \in Seq(0..9)
<1>1. PICK k \in 0..Len(text) : digits = SubSeq(text, 1, k)
  BY DEF Prefixes
<1> QED
  BY <1>1

\* What can arrive: a notification of a payment given out, with a beginning of
\* its order's amount.
LEMMA DeliveryShape ==
    ASSUME PaymentTypeOK, NEW raw \in sent, NEW r \in Deliveries(raw), Accepts(r)
    PROVE  \E a \in attempts : \E digits \in Prefixes(Amount[a.order]) :
              r = <<"mock", a.order, a.id, digits>>
<1>1. PICK a \in attempts : raw = <<"mock", a.order, a.id, Amount[a.order]>>
  BY DEF PaymentTypeOK
<1>2. /\ raw[1] = "mock" /\ raw[2] = a.order /\ raw[3] = a.id
      /\ raw[4] = Amount[a.order]
  BY <1>1
<1>3. r # <<raw[1], raw[2], raw[3]>>
  BY DEF Accepts
<1>4. PICK digits \in Prefixes(raw[4]) : r = <<raw[1], raw[2], raw[3], digits>>
  BY <1>3 DEF Deliveries
<1> QED
  BY <1>2, <1>4

\* Everything known about the state after a notification was returned.
LEMMA Verified ==
    ASSUME PaymentTypeOK, NEW raw \in sent, NEW r \in Deliveries(raw), VerifyNotification(r)
    PROVE  \E a \in attempts : \E amount \in Seq(0..9) :
              /\ a.order \in Orders /\ a.id \in Nat
              /\ amount \in Prefixes(Amount[a.order])
              /\ r[2] = a.order /\ r[3] = a.id /\ r[4] = amount
              /\ paid' = [paid EXCEPT ![a.order] = [id |-> a.id, amount |-> amount]]
<1>1. PICK a \in attempts : \E amount \in Prefixes(Amount[a.order]) :
         r = <<"mock", a.order, a.id, amount>>
  BY DeliveryShape DEF VerifyNotification
<1>2. PICK amount \in Prefixes(Amount[a.order]) : r = <<"mock", a.order, a.id, amount>>
  BY <1>1
<1>3. a.order \in Orders /\ a.id \in Nat
  BY DEF PaymentTypeOK
<1>4. amount \in Seq(0..9)
  BY <1>3, AmountAssumption, BeginningIsText
<1>5. /\ r[2] = a.order /\ r[3] = a.id /\ r[4] = amount
      /\ paid' = [paid EXCEPT ![r[2]] = [id |-> r[3], amount |-> r[4]]]
  BY <1>2 DEF VerifyNotification, Entry
<1> QED
  BY <1>2, <1>3, <1>4, <1>5

\* Every variable keeps its type, and every notification sent names a payment
\* that was given out with the amount of its order.
THEOREM TypeCorrect == PaymentSpec => []PaymentTypeOK
<1>1. PaymentInit => PaymentTypeOK
  BY BoundsAssumption DEF PaymentInit, PaymentTypeOK
<1>2. PaymentTypeOK /\ [PaymentNext]_paymentVars => PaymentTypeOK'
  <2> SUFFICES ASSUME PaymentTypeOK, [PaymentNext]_paymentVars PROVE PaymentTypeOK'
    OBVIOUS
  <2>1. ASSUME NEW o \in Orders, CreatePayment(o) PROVE PaymentTypeOK'
    <3>1. PICK n \in 0..MaxPayments : seq = 3 * n
      BY DEF PaymentTypeOK
    <3>2. n + 1 \in 0..MaxPayments /\ seq' = 3 * (n + 1) /\ seq + 1 \in Nat
      BY <2>1, <3>1, BoundsAssumption DEF CreatePayment, SeqAfterCreate
    <3>3. attempts \subseteq attempts' /\ attempts' \subseteq [order : Orders, id : Nat]
      BY <2>1, <3>2 DEF CreatePayment, PaymentTypeOK
    <3> QED
      BY <2>1, <3>2, <3>3 DEF CreatePayment, PaymentTypeOK
  <2>2. ASSUME NEW a \in attempts, Notify(a) PROVE PaymentTypeOK'
    BY <2>2 DEF Notify, PaymentTypeOK
  <2>3. ASSUME NEW raw \in sent, NEW r \in Deliveries(raw), VerifyNotification(r)
        PROVE  PaymentTypeOK'
    <3>1. PICK a \in attempts, amount \in Seq(0..9) :
             /\ a.order \in Orders /\ a.id \in Nat
             /\ paid' = [paid EXCEPT ![a.order] = [id |-> a.id, amount |-> amount]]
      BY <2>3, Verified
    <3>2. [id |-> a.id, amount |-> amount] \in Payments
      BY <3>1 DEF Payments
    <3>3. paid' \in [Orders -> Payments \union {NoPayment}]
      BY <3>1, <3>2 DEF PaymentTypeOK
    <3> QED
      BY <2>3, <3>3 DEF VerifyNotification, PaymentTypeOK
  <2>4. ASSUME NEW raw \in sent, NEW r \in Deliveries(raw), VerifyThrows(r)
        PROVE  PaymentTypeOK'
    BY <2>4 DEF VerifyThrows, paymentVars, PaymentTypeOK
  <2>5. ASSUME NEW n \in RefundNos, NEW o \in Orders, Refund(n, o) PROVE PaymentTypeOK'
    BY <2>5 DEF Refund, AfterRefund, PaymentTypeOK
  <2>6. CASE Restart
    BY <2>6, BoundsAssumption DEF Restart, PaymentTypeOK
  <2>7. CASE UNCHANGED paymentVars
    BY <2>7 DEF paymentVars, PaymentTypeOK
  <2> QED
    BY <2>1, <2>2, <2>3, <2>4, <2>5, <2>6, <2>7 DEF PaymentNext
<1> QED
  BY <1>1, <1>2, PTL DEF PaymentSpec

\* Within a process an order is PAID exactly when a notification about it was
\* returned, and queryPayment repeats the id and the amount of one of them.
THEOREM QueryAgrees == PaymentSpec => []QueryAgreesWithNotifications
<1> DEFINE Returned(o) == {<<raw[3], raw[4]>> : raw \in {v \in verified : v[2] = o}}
           Agrees(o) == IF paid[o] = NoPayment THEN Returned(o) = {}
                        ELSE <<paid[o].id, paid[o].amount>> \in Returned(o)
<1>1. QueryAgreesWithNotifications <=> \A o \in Orders : Agrees(o)
  BY DEF QueryAgreesWithNotifications, QueryPayment
<1>2. PaymentInit => QueryAgreesWithNotifications
  BY <1>1 DEF PaymentInit
<1>3. PaymentTypeOK /\ QueryAgreesWithNotifications /\ [PaymentNext]_paymentVars
         => QueryAgreesWithNotifications'
  <2> SUFFICES ASSUME PaymentTypeOK, \A o \in Orders : Agrees(o), [PaymentNext]_paymentVars,
                      NEW p \in Orders
               PROVE  Agrees(p)'
    BY <1>1 DEF QueryAgreesWithNotifications, QueryPayment
  <2>1. ASSUME paid' = paid, verified' = verified PROVE Agrees(p)'
    BY <2>1
  <2>2. ASSUME NEW raw \in sent, NEW r \in Deliveries(raw), VerifyNotification(r)
        PROVE  Agrees(p)'
    <3>1. PICK a \in attempts, amount \in Seq(0..9) :
             /\ a.order \in Orders /\ a.id \in Nat
             /\ amount \in Prefixes(Amount[a.order])
             /\ r[2] = a.order /\ r[3] = a.id /\ r[4] = amount
             /\ paid' = [paid EXCEPT ![a.order] = [id |-> a.id, amount |-> amount]]
      BY <2>2, Verified
    <3>2. verified' = verified \union {r}
      BY <2>2 DEF VerifyNotification
    <3>3. CASE p = a.order
      <4>1. paid'[p] = [id |-> a.id, amount |-> amount]
        BY <3>1, <3>3 DEF PaymentTypeOK
      <4>2. paid'[p] # NoPayment
        BY <3>1, <4>1, NoPaymentAssumption DEF Payments
      <4>3. <<a.id, amount>> \in Returned(p)'
        BY <3>1, <3>2, <3>3
      <4> QED
        BY <4>1, <4>2, <4>3
    <3>4. CASE p # a.order
      <4>1. paid'[p] = paid[p]
        BY <3>1, <3>4 DEF PaymentTypeOK
      <4>2. Returned(p)' = Returned(p)
        BY <3>1, <3>2, <3>4
      <4> QED
        BY <4>1, <4>2
    <3> QED
      BY <3>3, <3>4
  <2>3. CASE Restart
    BY <2>3 DEF Restart
  <2> QED
    BY <2>1, <2>2, <2>3
    DEF PaymentNext, CreatePayment, Notify, VerifyThrows, Refund, AfterRefund, paymentVars
<1> QED
  BY <1>2, <1>3, TypeCorrect, PTL DEF PaymentSpec

\* An order is PAID only with an id that createPayment gave out for it,
\* and with a beginning of the order's own amount, which is all that a channel
\* that cuts notifications off lets one say.
THEOREM PaidIsCreated == PaymentSpec => []PaidWasCreated
<1> DEFINE Created(o) == paid[o] # NoPayment =>
                            /\ [order |-> o, id |-> paid[o].id] \in attempts
                            /\ paid[o].amount \in Prefixes(Amount[o])
<1>1. PaidWasCreated <=> \A o \in Orders : Created(o)
  BY DEF PaidWasCreated, QueryPayment
<1>2. PaymentInit => PaidWasCreated
  BY <1>1 DEF PaymentInit
<1>3. PaymentTypeOK /\ PaidWasCreated /\ [PaymentNext]_paymentVars => PaidWasCreated'
  <2> SUFFICES ASSUME PaymentTypeOK, \A o \in Orders : Created(o), [PaymentNext]_paymentVars,
                      NEW p \in Orders
               PROVE  Created(p)'
    BY <1>1 DEF PaidWasCreated, QueryPayment
  <2>1. ASSUME paid' = paid, attempts \subseteq attempts' PROVE Created(p)'
    BY <2>1
  <2>2. ASSUME NEW raw \in sent, NEW r \in Deliveries(raw), VerifyNotification(r)
        PROVE  Created(p)'
    <3>1. PICK a \in attempts, amount \in Seq(0..9) :
             /\ a.order \in Orders /\ a.id \in Nat
             /\ amount \in Prefixes(Amount[a.order])
             /\ paid' = [paid EXCEPT ![a.order] = [id |-> a.id, amount |-> amount]]
      BY <2>2, Verified
    <3>2. attempts' = attempts
      BY <2>2 DEF VerifyNotification
    <3>3. CASE p = a.order
      <4>1. a = [order |-> p, id |-> a.id]
        BY <3>3 DEF PaymentTypeOK
      <4>2. paid'[p].id = a.id /\ paid'[p].amount = amount
        BY <3>1, <3>3 DEF PaymentTypeOK
      <4> QED
        BY <3>1, <3>2, <3>3, <4>1, <4>2
    <3>4. CASE p # a.order
      BY <3>1, <3>2, <3>4 DEF PaymentTypeOK
    <3> QED
      BY <3>3, <3>4
  <2>3. CASE Restart
    BY <2>3 DEF Restart
  <2> QED
    BY <2>1, <2>2, <2>3
    DEF PaymentNext, CreatePayment, Notify, VerifyThrows, Refund, AfterRefund, paymentVars
<1> QED
  BY <1>2, <1>3, TypeCorrect, PTL DEF PaymentSpec

\* Until the first restart a payment id belongs to one order: the ids given
\* out stay at or below the counter.
THEOREM IdsUnique == PaymentSpec => []PaymentIdsUnique
<1> DEFINE Below == restarts = 0 => \A a \in attempts : a.id <= seq
<1>1. PaymentInit => Below /\ PaymentIdsUnique
  BY DEF PaymentInit, PaymentIdsUnique
<1>2. PaymentTypeOK /\ Below /\ PaymentIdsUnique /\ [PaymentNext]_paymentVars
         => (Below /\ PaymentIdsUnique)'
  <2> SUFFICES ASSUME PaymentTypeOK, Below, PaymentIdsUnique, [PaymentNext]_paymentVars
               PROVE  (Below /\ PaymentIdsUnique)'
    OBVIOUS
  <2>1. seq \in Nat
    BY BoundsAssumption DEF PaymentTypeOK
  <2>2. \A a \in attempts : a.id \in Nat
    BY DEF PaymentTypeOK
  <2>3. ASSUME NEW o \in Orders, CreatePayment(o) PROVE (Below /\ PaymentIdsUnique)'
    <3>1. /\ attempts' = attempts \union {[order |-> o, id |-> seq + 1]}
          /\ seq' = seq + 3
          /\ restarts' = restarts
      BY <2>3 DEF CreatePayment, SeqAfterCreate
    <3> QED
      BY <2>1, <2>2, <3>1 DEF PaymentIdsUnique
  <2>4. CASE Restart
    <3>1. restarts' # 0
      BY <2>4, BoundsAssumption DEF Restart, PaymentTypeOK
    <3> QED
      BY <3>1 DEF PaymentIdsUnique
  <2>5. ASSUME seq' = seq, attempts' = attempts, restarts' = restarts
        PROVE  (Below /\ PaymentIdsUnique)'
    BY <2>5 DEF PaymentIdsUnique
  <2> QED
    BY <2>3, <2>4, <2>5
    DEF PaymentNext, Notify, VerifyNotification, VerifyThrows, Refund, paymentVars
<1> QED
  BY <1>1, <1>2, TypeCorrect, PTL DEF PaymentSpec

\* Nothing but a restart makes a paid order PENDING again.
THEOREM PaidStaysPaid == PaymentSpec => PaidIsKept
<1> DEFINE Kept(o) == paid[o] # NoPayment => paid'[o] # NoPayment \/ restarts' > restarts
<1>1. PaymentTypeOK /\ [PaymentNext]_paymentVars => \A o \in Orders : Kept(o)
  <2> SUFFICES ASSUME PaymentTypeOK, [PaymentNext]_paymentVars, NEW p \in Orders PROVE Kept(p)
    OBVIOUS
  <2>1. ASSUME paid' = paid PROVE Kept(p)
    BY <2>1
  <2>2. ASSUME NEW raw \in sent, NEW r \in Deliveries(raw), VerifyNotification(r)
        PROVE  Kept(p)
    <3>1. PICK a \in attempts, amount \in Seq(0..9) :
             /\ a.order \in Orders /\ a.id \in Nat
             /\ paid' = [paid EXCEPT ![a.order] = [id |-> a.id, amount |-> amount]]
      BY <2>2, Verified
    <3>2. [id |-> a.id, amount |-> amount] # NoPayment
      BY <3>1, NoPaymentAssumption DEF Payments
    <3> QED
      BY <3>1, <3>2 DEF PaymentTypeOK
  <2>3. CASE Restart
    BY <2>3, BoundsAssumption DEF Restart, PaymentTypeOK
  <2> QED
    BY <2>1, <2>2, <2>3
    DEF PaymentNext, CreatePayment, Notify, VerifyThrows, Refund, AfterRefund, paymentVars
<1>2. PaymentTypeOK /\ [PaymentNext]_paymentVars =>
         [\A o \in Orders :
             QueryPayment(o).status = "PAID" =>
                QueryPayment(o)'.status = "PAID" \/ restarts' > restarts]_paymentVars
  BY <1>1 DEF QueryPayment
<1> QED
  BY <1>2, TypeCorrect, PTL DEF PaymentSpec, PaidIsKept
=============================================================================
