---------------------------- MODULE MoneyFormat ----------------------------
(***************************************************************************)
(* formatMicroCNY of apps/web/src/lib/utils.ts: the amount that is shown   *)
(* for a number of micro-CNY, as a sign, yuan and two digits.              *)
(***************************************************************************)
EXTENDS Integers

CONSTANTS
    Amounts         \* amounts of micro-CNY that may have to be shown

ASSUME AmountsAssumption == Amounts \subseteq Int

VARIABLES
    micros,         \* the argument of formatMicroCNY
    shown           \* its answer, once there is one: a set of at most one

moneyVars == <<micros, shown>>

\* Mutant: the fraction is cut to two digits without being padded to six.
UnpaddedCents(fraction) ==
    LET zeros == CHOOSE n \in 0..5 : /\ fraction \div 10^(5-n) # 0 \/ n = 5
                                     /\ n > 0 => fraction \div 10^(6-n) = 0
        digit(i) == (fraction \div 10^(6-i)) % 10
    IN  <<digit(zeros + 1), IF zeros = 5 THEN 0 ELSE digit(zeros + 2)>>

\* toString().padStart(6, '0').slice(0, 2): the first two of six digits.
Cents(fraction) == <<(fraction \div 100000) % 10, (fraction \div 10000) % 10>>

formatMicroCNY(m) ==
    LET abs == IF m < 0 THEN -m ELSE m
    IN  [minus |-> m < 0,
         yuan |-> abs \div 1000000,
         cents |-> Cents(abs % 1000000)]

MoneyInit == /\ micros \in Amounts
             /\ shown = {}

Show == /\ shown = {}
        /\ shown' = {formatMicroCNY(micros)}
        /\ UNCHANGED micros

MoneySpec == MoneyInit /\ [][Show]_moneyVars

-----------------------------------------------------------------------------

\* The sum of what is shown, in micro-CNY.
Worth(s) == 10000 * (100 * s.yuan + 10 * s.cents[1] + s.cents[2])

\* "截断到分": the magnitude that is shown is the largest number of cents not
\* above the amount's, and the sign is the amount's.
ShownIsTruncated ==
    \A s \in shown :
       IF s.minus THEN micros < 0 /\ -micros - 10000 < Worth(s) /\ Worth(s) <= -micros
                  ELSE micros >= 0 /\ micros - 10000 < Worth(s) /\ Worth(s) <= micros
=============================================================================
