---------------------------- MODULE MCSmallParts ----------------------------
(***************************************************************************)
(* The parts of the repository that nothing calls yet: three functions,    *)
(* each called once (Select, ParseKey and formatMicroCNY), and the payment *)
(* mock.  They share nothing, so three of them are held at the simplest    *)
(* value, or at the start, while the fourth varies.                        *)
(*                                                                         *)
(* Four deployments, two of them of one priority, and every list of up to  *)
(* four candidates; one filter refuses the best, another the worst, so     *)
(* that equals are left.  Two orders, one of which costs what is left of   *)
(* the other's amount when that is cut off.                                *)
(***************************************************************************)
EXTENDS Router, ApiKey, MoneyFormat, MockPayment, SequencesExt, TLC

CONSTANTS d1, d2, d3, d4, o1, o2

MCPriority == (d1 :> 3) @@ (d2 :> 1) @@ (d3 :> 1) @@ (d4 :> -1)
MCFilters == << {d2, d3, d4}, {d1, d2, d3} >>
MCInputs == SeqOf(Deployments, 4)

\* Two buffers, and every text of up to four pieces.
MCHexOf == (0 :> "00") @@ (1 :> "01")
MCRaws == SeqOf({KeyPrefix, "", "00", "01"}, 4)

\* Around zero, around a cent, around a yuan, and what utils.test.ts has.
MCAmounts == UNION {{s * (a - 1), s * a, s * (a + 1)} :
                       s \in {-1, 1}, a \in {0, 5000, 9999, 10000, 100000, 999999,
                                             1000000, 1500000, 1567890, 12500000}}

MCAmount == (o1 :> <<1, 2>>) @@ (o2 :> <<1>>)

MCInit == /\ Init /\ KeyInit /\ MoneyInit /\ PaymentInit
          /\ \/ text = << >> /\ micros = 0
             \/ candidates = << >> /\ micros = 0
             \/ candidates = << >> /\ text = << >>

\* No function is called any more once there are payments.
MCNext ==
    \/ /\ seq = 0 /\ restarts = 0 /\ refunded = {}
       /\ UNCHANGED paymentVars
       /\ \/ Next /\ UNCHANGED <<keyVars, moneyVars>>
          \/ Parse /\ UNCHANGED <<vars, moneyVars>>
          \/ Show /\ UNCHANGED <<vars, keyVars>>
    \/ /\ candidates = << >> /\ text = << >> /\ micros = 0
       /\ pc = "loop" /\ parsed = {} /\ shown = {}
       /\ PaymentNext
       /\ UNCHANGED <<vars, keyVars, moneyVars>>

MCSpec == MCInit /\ [][MCNext]_<<vars, keyVars, moneyVars, paymentVars>>
=============================================================================
