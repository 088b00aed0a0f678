--------------------------- MODULE FunctionProofs ---------------------------
(***************************************************************************)
(* The pure functions for all their arguments: Select returns the first    *)
(* best allowed candidate, ParseKey takes apart what GenerateKey puts      *)
(* together and nothing else, formatMicroCNY truncates to cents.           *)
(***************************************************************************)
EXTENDS Router, ApiKey, MoneyFormat, SequenceTheorems, TLAPS

-----------------------------------------------------------------------------
(* Candidates *)

\* The loop's test of a candidate is the caller's.
LEMMA PassesIsAllowed ==
    \A j \in 1..Len(candidates) : Passes(candidates[j]) <=> j \in Allowed
BY DEF Passes, Allowed

\* The candidates have integer priorities.
LEMMA PriorityType ==
    ASSUME TypeOK
    PROVE  /\ Len(candidates) \in Nat
           /\ \A j \in 1..Len(candidates) : PriorityAt(j) \in Int
<1>1. candidates \in Seq(Deployments)
  BY InputsAssumption DEF TypeOK
<1>2. Len(candidates) \in Nat /\ \A j \in 1..Len(candidates) : candidates[j] \in Deployments
  BY <1>1
<1> QED
  BY <1>2, PriorityAssumption DEF PriorityAt

\* The loop invariant holds in every reachable state: whatever Select has
\* passed, *best is the first best of it.
THEOREM Inductive == Spec => []IInv
<1>1. Init => IInv
  <2> SUFFICES ASSUME Init PROVE IInv
    OBVIOUS
  <2>1. Len(candidates) \in Nat
    BY InputsAssumption DEF Init
  <2>2. TypeOK
    BY <2>1 DEF Init, TypeOK
  <2>3. {j \in Allowed : j < i} = {}
    BY <2>1 DEF Init, Allowed
  <2> QED
    BY <2>2, <2>3 DEF Init, IInv, LoopInv, IsChoice
<1>2. IInv /\ [Next]_vars => IInv'
  <2> SUFFICES ASSUME IInv, [Next]_vars PROVE IInv'
    OBVIOUS
  <2>1. TypeOK /\ LoopInv
    BY DEF IInv
  <2>2. Len(candidates) \in Nat /\ \A j \in 1..Len(candidates) : PriorityAt(j) \in Int
    BY <2>1, PriorityType
  <2>3. i \in Nat /\ best \in Nat /\ best <= Len(candidates)
    BY <2>1, <2>2 DEF TypeOK
  <2> DEFINE Seen == {j \in Allowed : j < i}
             Seen1 == {j \in Allowed : j < i + 1}
  <2>4. Seen1 \subseteq 1..Len(candidates) /\ Seen \subseteq Seen1
        /\ \A j \in Seen1 : j = i \/ j \in Seen
    BY <2>2, <2>3 DEF Allowed
  <2>5. IsChoice(best, Seen)
    BY <2>1 DEF LoopInv
  <2>6. CASE Skip
    <3>1. i \in 1..Len(candidates) /\ i \notin Allowed
      BY <2>1, <2>6, PassesIsAllowed DEF Skip, TypeOK
    <3>2. Seen1 = Seen
      BY <3>1, <2>4
    <3>3. Allowed' = Allowed
      BY <2>6 DEF Skip, Allowed
    <3>4. TypeOK'
      BY <2>1, <2>2, <2>3, <3>1, <2>6 DEF Skip, TypeOK
    <3>5. IsChoice(best, {j \in Allowed : j < i})'
      BY <2>5, <2>6, <3>2, <3>3 DEF Skip, IsChoice, PriorityAt
    <3> QED
      BY <2>6, <3>4, <3>5 DEF Skip, IInv, LoopInv
  <2>7. CASE Compare
    <3>1. i \in 1..Len(candidates) /\ i \in Allowed
      BY <2>1, <2>7, PassesIsAllowed DEF Compare, TypeOK
    <3>2. i \in Seen1 /\ i \notin Seen
      BY <3>1, <2>3
    <3>3. Better(candidates[i]) <=> best = 0 \/ PriorityAt(i) > PriorityAt(best)
      BY DEF Better, PriorityAt
    <3>4. \A j \in Seen : j < i /\ j \in Nat
      BY <2>4
    <3> HIDE DEF Seen, Seen1
    <3>5. IsChoice(best', Seen1)
      <4>1. CASE Better(candidates[i])
        <5>1. best' = i /\ i # 0
          BY <2>7, <4>1, <3>1 DEF Compare
        <5>2. \A j \in Seen : PriorityAt(j) < PriorityAt(i)
          <6>1. CASE best = 0
            BY <2>5, <6>1 DEF IsChoice
          <6>2. CASE best # 0
            <7>1. best \in Seen /\ \A j \in Seen : PriorityAt(j) <= PriorityAt(best)
              BY <2>5, <6>2 DEF IsChoice
            <7>2. PriorityAt(i) > PriorityAt(best)
              BY <3>3, <4>1, <6>2
            <7>3. /\ best \in 1..Len(candidates)
                  /\ \A j \in Seen : j \in 1..Len(candidates)
              BY <2>4, <7>1
            <7> QED
              BY <2>2, <3>1, <7>1, <7>2, <7>3
          <6> QED
            BY <6>1, <6>2
        <5>3. \A j \in Seen1 : PriorityAt(j) <= PriorityAt(i)
          BY <2>2, <2>4, <3>1, <5>2
        <5>4. \A j \in Seen1 : PriorityAt(j) = PriorityAt(i) => i <= j
          BY <2>2, <2>4, <3>1, <5>2
        <5> QED
          BY <3>2, <5>1, <5>3, <5>4 DEF IsChoice
      <4>2. CASE ~Better(candidates[i])
        <5>1. best' = best /\ best # 0
          BY <2>7, <4>2, <3>3 DEF Compare
        <5>2. /\ best \in Seen
              /\ \A j \in Seen : PriorityAt(j) <= PriorityAt(best)
              /\ \A j \in Seen : PriorityAt(j) = PriorityAt(best) => best <= j
          BY <2>5, <5>1 DEF IsChoice
        <5>3. PriorityAt(i) <= PriorityAt(best) /\ best < i
          BY <2>2, <2>3, <2>4, <3>1, <3>3, <3>4, <4>2, <5>1, <5>2
        <5>4. \A j \in Seen1 : PriorityAt(j) <= PriorityAt(best)
          BY <2>4, <5>2, <5>3
        <5>5. \A j \in Seen1 : PriorityAt(j) = PriorityAt(best) => best <= j
          BY <2>3, <2>4, <5>2, <5>3
        <5> QED
          BY <2>4, <5>1, <5>2, <5>4, <5>5 DEF IsChoice
      <4> QED
        BY <4>1, <4>2
    <3> USE DEF Seen1
    <3>6. TypeOK'
      BY <2>1, <2>2, <2>3, <3>1, <2>7 DEF Compare, TypeOK
    <3>7. IsChoice(best, {j \in Allowed : j < i})'
      BY <2>7, <3>5 DEF Compare, Allowed, IsChoice, PriorityAt
    <3> QED
      BY <2>7, <3>6, <3>7 DEF Compare, IInv, LoopInv
  <2>8. CASE Return
    <3>1. TypeOK' /\ i = Len(candidates) + 1
      BY <2>1, <2>2, <2>3, <2>8 DEF Return, TypeOK
    <3>2. IsChoice(best, {j \in Allowed : j < i})'
      BY <2>5, <2>8 DEF Return, Allowed, IsChoice, PriorityAt
    <3> QED
      BY <2>8, <3>1, <3>2 DEF Return, IInv, LoopInv
  <2>9. CASE UNCHANGED vars
    BY <2>1, <2>9 DEF vars, IInv, TypeOK, LoopInv, Allowed, IsChoice, PriorityAt
  <2> QED
    BY <2>6, <2>7, <2>8, <2>9 DEF Next
<1> QED
  BY <1>1, <1>2, PTL DEF Spec

\* Select returns the first candidate of the highest priority among the
\* allowed ones, and ErrNoCandidate exactly when there is none.
THEOREM SelectIsCorrect == Spec => []SelectsFirstBest
<1>1. IInv => SelectsFirstBest
  <2> SUFFICES ASSUME IInv, pc = "done" PROVE IsChoice(best, Allowed)
    BY DEF SelectsFirstBest
  <2>1. Len(candidates) \in Nat
    BY PriorityType DEF IInv
  <2>2. {j \in Allowed : j < i} = Allowed
    BY <2>1 DEF IInv, LoopInv, Allowed
  <2> QED
    BY <2>2 DEF IInv, LoopInv
<1> QED
  BY <1>1, Inductive, PTL

-----------------------------------------------------------------------------
(* Keys *)

\* A text of three pieces is the prefix, when that is the first of them, and
\* the other two.
LEMMA ThreePieces ==
    ASSUME NEW S, NEW raw \in Seq(S), Len(raw) = 3, raw[1] = KeyPrefix
    PROVE  raw = <<KeyPrefix>> \o <<raw[2], raw[3]>>
<1> DEFINE halves == <<raw[2], raw[3]>>
           prefix == <<KeyPrefix>>
<1>1. halves \in Seq(S) /\ Len(halves) = 2 /\ halves[1] = raw[2] /\ halves[2] = raw[3]
  OBVIOUS
<1>2. prefix \in Seq(S) /\ Len(prefix) = 1 /\ prefix[1] = raw[1]
  OBVIOUS
<1> HIDE DEF halves, prefix
<1>3. /\ prefix \o halves \in Seq(S)
      /\ Len(prefix \o halves) = Len(prefix) + Len(halves)
      /\ \A n \in 1..(Len(prefix) + Len(halves)) : (prefix \o halves)[n] =
            IF n <= Len(prefix) THEN prefix[n] ELSE halves[n - Len(prefix)]
  BY <1>1, <1>2, ConcatProperties, Zenon
<1>4. \A n \in 1..Len(raw) : raw[n] = (prefix \o halves)[n]
  BY <1>1, <1>2, <1>3
<1>5. Len(raw) = Len(prefix \o halves)
  BY <1>1, <1>2, <1>3
<1>6. raw = prefix \o halves
  BY <1>3, <1>4, <1>5, SeqEqual, Zenon
<1> QED
  BY <1>6 DEF prefix, halves

\* What ParseKey accepts is the prefix and the two halves it returns.
LEMMA AcceptedIsWhole ==
    ASSUME NEW S, NEW raw \in Seq(S), ParseKey(raw) # ErrInvalidKey
    PROVE  raw = <<KeyPrefix>> \o ParseKey(raw)
<1>1. HasPrefix(raw) /\ TwoParts(Tail(raw)) /\ ParseKey(raw) = <<raw[2], raw[3]>>
  BY DEF ParseKey
<1>2. Len(raw) >= 2 /\ raw[1] = KeyPrefix
  BY <1>1 DEF HasPrefix
<1>3. raw # << >>
  BY <1>2
<1>4. Len(Tail(raw)) = 2
  BY <1>1, Zenon DEF TwoParts
<1>5. Len(Tail(raw)) = Len(raw) - 1
  BY <1>3, HeadTailProperties, Zenon
<1>6. Len(raw) = 3
  BY <1>4, <1>5, LenProperties, SMT
<1> QED
  BY <1>1, <1>2, <1>6, ThreePieces, Zenon

\* What GenerateKey hands out ParseKey takes apart again.
LEMMA HandedOutParses ==
    ASSUME NEW id \in Bytes, NEW secret \in Bytes
    PROVE  ParseKey(GenerateKey(id, secret).fullKey)
              = <<GenerateKey(id, secret).publicID, GenerateKey(id, secret).secret>>
<1> DEFINE a == HexOf[id]
           b == HexOf[secret]
           raw == GenerateKey(id, secret).fullKey
           S == {KeyPrefix, a, b}
<1>1. a # "" /\ b # ""
  BY HexAssumption
<1>2. /\ raw = <<KeyPrefix, a, b>>
      /\ GenerateKey(id, secret).publicID = a /\ GenerateKey(id, secret).secret = b
  BY DEF GenerateKey
<1> HIDE DEF a, b
<1>3. raw \in Seq(S) /\ Len(raw) = 3 /\ raw[1] = KeyPrefix /\ raw[2] = a /\ raw[3] = b
  BY <1>2
<1> HIDE DEF raw, S
<1>4. raw # << >>
  BY <1>3
<1>5. /\ Len(Tail(raw)) = Len(raw) - 1
      /\ \A n \in 1..Len(Tail(raw)) : Tail(raw)[n] = raw[n + 1]
  BY <1>3, <1>4, HeadTailProperties, Zenon
<1>6. Len(Tail(raw)) = 2 /\ Tail(raw)[1] = raw[2] /\ Tail(raw)[2] = raw[3]
  <2> DEFINE rest == Tail(raw)
  <2>1. Len(rest) = 2 /\ \A n \in 1..Len(rest) : rest[n] = raw[n + 1]
    BY <1>3, <1>5
  <2> HIDE DEF rest
  <2>2. Len(rest) = 2 /\ rest[1] = raw[2] /\ rest[2] = raw[3]
    BY <2>1, SMT
  <2> QED
    BY <2>2 DEF rest
<1>7. TwoParts(Tail(raw))
  BY <1>1, <1>3, <1>6, Zenon DEF TwoParts
<1>8. HasPrefix(raw)
  BY <1>3 DEF HasPrefix
<1>9. ParseKey(raw) = <<a, b>>
  BY <1>3, <1>7, <1>8 DEF ParseKey
<1> QED
  BY <1>2, <1>9 DEF raw

\* The format is unambiguous for any buffers, any injective encoding without
\* the separator, and any texts.
THEOREM KeysParse == KeySpec => []KeysAreUnambiguous
<1> DEFINE S == STRING \union {KeyPrefix}
           Inv == text \in Seq(S) /\ parsed \subseteq {ParseKey(text)}
<1>1. KeyInit => Inv
  <2> SUFFICES ASSUME KeyInit PROVE text \in Seq(S)
    BY DEF KeyInit
  <2>1. CASE text \in Raws
    BY <2>1, RawsAssumption
  <2>2. ASSUME NEW id \in Bytes, NEW secret \in Bytes,
               text = GenerateKey(id, secret).fullKey
        PROVE  text \in Seq(S)
    <3>1. KeyPrefix \in S /\ HexOf[id] \in S /\ HexOf[secret] \in S
      BY HexAssumption
    <3>2. text = <<KeyPrefix, HexOf[id], HexOf[secret]>>
      BY <2>2 DEF GenerateKey
    <3> HIDE DEF S
    <3> QED
      BY <3>1, <3>2
  <2> QED
    BY <2>1, <2>2 DEF KeyInit, HandedOut
<1>2. Inv /\ [Parse]_keyVars => Inv'
  BY DEF Parse, keyVars
<1>3. Inv => KeysAreUnambiguous
  <2> SUFFICES ASSUME Inv, NEW answer \in parsed
               PROVE  /\ answer # ErrInvalidKey => text = <<KeyPrefix>> \o answer
                      /\ \A id, secret \in Bytes :
                            LET key == GenerateKey(id, secret)
                            IN  text = key.fullKey => answer = <<key.publicID, key.secret>>
    BY DEF KeysAreUnambiguous
  <2>1. answer = ParseKey(text)
    OBVIOUS
  <2> QED
    BY <2>1, AcceptedIsWhole, HandedOutParses
<1> QED
  BY <1>1, <1>2, <1>3, PTL DEF KeySpec

-----------------------------------------------------------------------------
(* Amounts *)

\* The two digits that are cut out of the padded fraction are its cents.
LEMMA CentsTruncate ==
    ASSUME NEW f \in Nat, f < 1000000
    PROVE  /\ Cents(f)[1] \in Nat /\ Cents(f)[2] \in Nat
           /\ 10000 * (10 * Cents(f)[1] + Cents(f)[2]) <= f
           /\ f < 10000 * (10 * Cents(f)[1] + Cents(f)[2]) + 10000
<1> DEFINE a == (f \div 100000) % 10
           b == (f \div 10000) % 10
<1>1. /\ a \in Nat /\ b \in Nat
      /\ 10000 * (10 * a + b) <= f /\ f < 10000 * (10 * a + b) + 10000
  BY SMT
<1>2. Cents(f)[1] = a /\ Cents(f)[2] = b
  BY SMT DEF Cents
<1> HIDE DEF a, b
<1> QED
  BY <1>1, <1>2, SMT

\* Division by the micros of a yuan.
LEMMA YuanAndFraction ==
    ASSUME NEW n \in Nat
    PROVE  /\ n \div 1000000 \in Nat /\ n % 1000000 \in Nat /\ n % 1000000 < 1000000
           /\ n = 1000000 * (n \div 1000000) + (n % 1000000)
BY SMT

\* What is shown of an integer is its magnitude truncated to cents, with its
\* own sign.
LEMMA Truncated ==
    ASSUME NEW m \in Amounts
    PROVE  LET s == formatMicroCNY(m)
           IN  IF s.minus THEN m < 0 /\ -m - 10000 < Worth(s) /\ Worth(s) <= -m
                          ELSE m >= 0 /\ m - 10000 < Worth(s) /\ Worth(s) <= m
<1> DEFINE abs == IF m < 0 THEN -m ELSE m
           yuan == abs \div 1000000
           f == abs % 1000000
           c == Cents(f)
           v == 10000 * (100 * yuan + 10 * c[1] + c[2])
<1>1. m \in Int /\ abs \in Nat
  BY SMT, AmountsAssumption
<1>2. m < 0 => abs = -m
  OBVIOUS
<1>3. ~(m < 0) => abs = m
  OBVIOUS
<1> HIDE DEF abs
<1>4. yuan \in Nat /\ f \in Nat /\ f < 1000000 /\ abs = 1000000 * yuan + f
  BY <1>1, YuanAndFraction, SMT
<1> HIDE DEF yuan, f
<1>5. /\ c[1] \in Nat /\ c[2] \in Nat
      /\ 10000 * (10 * c[1] + c[2]) <= f
      /\ f < 10000 * (10 * c[1] + c[2]) + 10000
  BY <1>4, CentsTruncate, SMT
<1> HIDE DEF c
<1>6. abs - 10000 < v /\ v <= abs
  BY <1>1, <1>4, <1>5, SMT
<1>7. /\ formatMicroCNY(m).minus <=> m < 0
      /\ formatMicroCNY(m).yuan = yuan /\ formatMicroCNY(m).cents = c
  <2> DEFINE minus == m < 0
  <2>1. minus \in BOOLEAN /\ formatMicroCNY(m) = [minus |-> minus, yuan |-> yuan, cents |-> c]
    BY DEF formatMicroCNY, abs, yuan, f, c
  <2> HIDE DEF minus
  <2>2. formatMicroCNY(m).minus <=> minus
    BY <2>1
  <2> QED
    BY <2>1, <2>2 DEF minus
<1>8. v = Worth(formatMicroCNY(m))
  BY <1>7 DEF Worth
<1> HIDE DEF v
<1>9. m < 0 => -m - 10000 < v /\ v <= -m
  BY <1>2, <1>6
<1>10. ~(m < 0) => m >= 0 /\ m - 10000 < v /\ v <= m
  BY <1>1, <1>3, <1>6, SMT
<1> QED
  BY <1>7, <1>8, <1>9, <1>10

\* Whatever amount is asked for, and whenever its answer is looked at.
THEOREM TruncatedForAll == MoneySpec => []ShownIsTruncated
<1> DEFINE Inv == micros \in Amounts /\ shown \subseteq {formatMicroCNY(micros)}
<1>1. MoneyInit => Inv
  BY DEF MoneyInit
<1>2. Inv /\ [Show]_moneyVars => Inv'
  BY DEF Show, moneyVars
<1>3. Inv => ShownIsTruncated
  BY Truncated DEF ShownIsTruncated
<1> QED
  BY <1>1, <1>2, <1>3, PTL DEF MoneySpec
=============================================================================
