------------------------- MODULE HttpServiceProofs -------------------------
(***************************************************************************)
(* Graceful shutdown for any number of requests and any drain time, and    *)
(* what it means for the clients that wait for an answer.                  *)
(***************************************************************************)
EXTENDS BillingCall, SequenceTheorems, TLAPS

\* What the end of the process leaves.
LEMMA EndLosesOpen ==
    ASSUME IInv, exit = "none", NEW status \in {"0", "1", "signal"}, End(status),
           status = "0" => Idle \/ left = 0
    PROVE  IInv'
<1>1. request' \in [Requests -> {"new", "open", "answered", "lost"}]
  BY DEF IInv, TypeOK, End
<1>2. TypeOK'
  BY <1>1 DEF IInv, TypeOK, End
<1>3. Lifecycle'
  BY DEF End, Lifecycle
<1>4. ASSUME NEW r \in Requests, request'[r] = "lost"
      PROVE  exit' \in {"1", "signal"} \/ left' = 0
  <2>1. request[r] = "open"
    BY <1>4 DEF IInv, Lifecycle, End
  <2> QED
    BY <2>1 DEF End, Idle
<1> QED
  BY <1>2, <1>3, <1>4 DEF IInv, LossesHaveAReason

\* The inductive invariant holds in every reachable state.
THEOREM Inductive == Spec => []IInv
<1>1. Init => IInv
  <2> SUFFICES ASSUME Init PROVE IInv
    OBVIOUS
  <2>1. left \in 0..DrainTime
    BY DrainTimeAssumption DEF Init
  <2>2. request \in [Requests -> {"new", "open", "answered", "lost"}]
    BY DEF Init
  <2> QED
    BY <2>1, <2>2 DEF Init, IInv, TypeOK, Lifecycle, LossesHaveAReason
<1>2. IInv /\ [Next]_vars => IInv'
  <2> SUFFICES ASSUME IInv, [Next]_vars PROVE IInv'
    OBVIOUS
  <2> USE DEF IInv, TypeOK, Lifecycle, LossesHaveAReason
  <2>1. CASE Bind
    BY <2>1 DEF Bind
  <2>2. CASE ListenFails
    BY <2>2, EndLosesOpen DEF ListenFails, Fatal
  <2>3. ASSUME NEW r \in Requests, Open(r) PROVE IInv'
    BY <2>3 DEF Open
  <2>4. ASSUME NEW r \in Requests, Answer(r) PROVE IInv'
    BY <2>4 DEF Answer
  <2>5. CASE Notify
    BY <2>5 DEF Notify
  <2>6. CASE SignalCaught
    BY <2>6 DEF SignalCaught, Caught
  <2>7. CASE SignalKills
    BY <2>7, EndLosesOpen DEF SignalKills
  <2>8. CASE BeginShutdown
    BY <2>8 DEF BeginShutdown
  <2>9. CASE TimePasses
    BY <2>9, DrainTimeAssumption DEF TimePasses
  <2>10. CASE MainReturns
    BY <2>10, EndLosesOpen DEF MainReturns, Drained
  <2>11. CASE UNCHANGED vars
    BY <2>11 DEF vars
  <2> QED
    BY <2>1, <2>2, <2>3, <2>4, <2>5, <2>6, <2>7, <2>8, <2>9, <2>10, <2>11 DEF Next
<1> QED
  BY <1>1, <1>2, PTL DEF Spec

\* A process that returned from main lost requests only after the whole drain
\* time.
THEOREM Losses == Spec => []LossesHaveAReason
BY Inductive, PTL DEF IInv

\* What ends a process that drains.  The step of the other goroutine is the
\* interesting one: it can end the process only before it has a request.
LEMMA DrainStep ==
    ASSUME IInv, [Next]_vars, main = "draining", main' = "gone"
    PROVE  Idle \/ left = 0
<1>1. CASE ListenFails
  <2>1. listener = "boot"
    BY <1>1 DEF ListenFails, Fatal, IInv, Lifecycle
  <2> QED
    BY <2>1 DEF IInv, Lifecycle, Idle
<1>2. CASE MainReturns
  BY <1>2 DEF MainReturns, Drained
<1>3. ~SignalKills
  BY DEF SignalKills, Caught
<1>4. main' = main => FALSE
  OBVIOUS
<1> QED
  BY <1>1, <1>2, <1>3, <1>4
  DEF Next, Bind, Open, Answer, Notify, SignalCaught, BeginShutdown, TimePasses, vars

\* Nothing cuts the drain short.
THEOREM DrainCompletes == Spec => DrainIsNotCut
<1>1. IInv /\ [Next]_vars =>
         [main = "draining" /\ main' = "gone" => Idle \/ left = 0]_vars
  BY DrainStep
<1> QED
  BY <1>1, Inductive, PTL DEF Spec, DrainIsNotCut

-----------------------------------------------------------------------------
\* The limit of a call is a positive number of units.
LEMMA TimeoutPositive == CallTimeout \in Nat \ {0}
BY CallAssumption DEF CallTimeout, envDurationOr

\* The calls leave the process alone, or take one of its own steps.
LEMMA CallNextIsNext == [CallNext]_callVars => [Next]_vars
<1> SUFFICES ASSUME [CallNext]_callVars PROVE [Next]_vars
  OBVIOUS
<1>1. CASE ServerSteps
  BY <1>1 DEF ServerSteps, Next
<1>2. CASE Tick
  BY <1>2 DEF Tick, Next
<1>3. ASSUME NEW r \in Requests,
             Do(r) \/ Accept(r) \/ Refused(r) \/ Answered(r) \/ ConnectionLost(r)
                \/ TimesOut(r) \/ Cancelled(r)
      PROVE  [Next]_vars
  <2>1. CASE Accept(r)
    BY <2>1 DEF Accept, Next
  <2>2. CASE ~Accept(r)
    BY <1>3, <2>2
    DEF Do, Refused, Answered, ConnectionLost, TimesOut, Cancelled, CallEnds
  <2> QED
    BY <2>1, <2>2
<1>4. CASE UNCHANGED callVars
  BY <1>4 DEF callVars
<1> QED
  BY <1>1, <1>2, <1>3, <1>4 DEF CallNext

\* A process that serves calls is a service process: what is proved of the one
\* holds of the other.
THEOREM CallsKeepLifecycle == CallSpec => Spec
<1>1. CallInit => Init
  BY DEF CallInit
<1> QED
  BY <1>1, CallNextIsNext, PTL DEF CallSpec, Spec

\* Where a call is in the drain: it has waited for at least as long as the
\* server has drained, because what came later was not accepted.
CallInv == /\ CallTypeOK
           /\ main \in {"boot", "notified"} => left = DrainTime
           /\ \A r \in Requests : call[r] = "idle" => request[r] = "new"
           /\ main = "draining" =>
                 \A r \in Requests :
                    Waiting(r) /\ request[r] = "open" => DrainTime - left <= age[r]

\* A step of the process on its own.
LEMMA ServerKeepsCalls ==
    ASSUME IInv, IInv', CallInv, ServerSteps
    PROVE  CallInv'
<1>1. CallTypeOK'
  BY DEF ServerSteps, CallInv, CallTypeOK, IInv
<1>2. \A r \in Requests : request'[r] = "open" => request[r] = "open"
  BY DEF ServerSteps, IInv, TypeOK, Bind, ListenFails, Answer, Notify, SignalCaught,
         SignalKills, BeginShutdown, MainReturns, End
<1>3. \A r \in Requests : request[r] = "new" => request'[r] = "new"
  BY DEF ServerSteps, IInv, TypeOK, Bind, ListenFails, Answer, Notify, SignalCaught,
         SignalKills, BeginShutdown, MainReturns, End
<1>4. left' = left /\ call' = call /\ age' = age
  BY DEF ServerSteps, Bind, ListenFails, Answer, Notify, SignalCaught, SignalKills,
         BeginShutdown, MainReturns, End
<1>5. main' \in {"boot", "notified"} => main \in {"boot", "notified"}
  BY DEF ServerSteps, Bind, ListenFails, Answer, Notify, SignalCaught, SignalKills,
         BeginShutdown, MainReturns, End
<1>6. main' = "draining" => \/ main = "draining"
                           \/ main = "notified"
  BY DEF ServerSteps, Bind, ListenFails, Answer, Notify, SignalCaught, SignalKills,
         BeginShutdown, MainReturns, End
<1>7. ASSUME main' = "draining", NEW r \in Requests, Waiting(r)', request'[r] = "open"
      PROVE  DrainTime - left' <= age'[r]
  <2>1. Waiting(r) /\ request[r] = "open"
    BY <1>2, <1>4, <1>7 DEF Waiting
  <2>2. CASE main = "draining"
    BY <1>4, <2>1, <2>2 DEF CallInv
  <2>3. CASE main = "notified"
    <3>1. left = DrainTime /\ age[r] \in Nat
      BY <2>3 DEF CallInv, CallTypeOK
    <3> QED
      BY <1>4, <3>1, DrainTimeAssumption
  <2> QED
    BY <1>6, <1>7, <2>2, <2>3
<1> QED
  BY <1>1, <1>3, <1>4, <1>5, <1>7 DEF CallInv

\* Time passes for the drain and for every call that has not expired.
LEMMA TickKeepsCalls ==
    ASSUME IInv, IInv', CallInv, Tick
    PROVE  CallInv'
<1> USE TimeoutPositive
<1>1. main' = main /\ request' = request /\ call' = call
  BY DEF Tick, TimePasses, vars
<1>2. ASSUME NEW r \in Requests
      PROVE  /\ age'[r] \in 0..CallTimeout
             /\ Waiting(r) => age'[r] = age[r] + 1
  <2>1. age[r] \in 0..CallTimeout
    BY DEF CallInv, CallTypeOK
  <2>2. age'[r] = IF Waiting(r) /\ age[r] < CallTimeout THEN age[r] + 1 ELSE age[r]
    BY DEF Tick
  <2>3. Waiting(r) => age[r] < CallTimeout
    BY <2>1 DEF Tick, Expired
  <2> QED
    BY <2>1, <2>2, <2>3
<1>3. age' \in [Requests -> 0..CallTimeout]
  BY <1>2 DEF Tick
<1>4. CallTypeOK'
  BY <1>1, <1>3 DEF CallInv, CallTypeOK, IInv
<1>5. main \in {"boot", "notified"} => left' = left
  BY DEF Tick, vars
<1>6. ASSUME main = "draining", NEW r \in Requests, Waiting(r), request[r] = "open"
      PROVE  DrainTime - left' <= age'[r]
  <2>1. DrainTime - left <= age[r]
    BY <1>6 DEF CallInv
  <2>2. left \in Nat /\ left' \in {left, left - 1}
    BY DEF Tick, TimePasses, vars, IInv, TypeOK
  <2>3. age[r] \in Nat
    BY DEF CallInv, CallTypeOK
  <2> QED
    BY <1>2, <1>6, <2>1, <2>2, <2>3, DrainTimeAssumption
<1> QED
  BY <1>1, <1>4, <1>5, <1>6 DEF CallInv, Waiting

\* A call begins, is accepted or ends.
LEMMA ClientKeepsCalls ==
    ASSUME IInv, IInv', CallInv, NEW r \in Requests,
           Do(r) \/ Accept(r) \/ Refused(r) \/ Answered(r) \/ ConnectionLost(r)
              \/ TimesOut(r) \/ Cancelled(r)
    PROVE  CallInv'
<1> USE TimeoutPositive
<1>1. CASE Do(r)
  BY <1>1 DEF Do, CallInv, CallTypeOK, IInv, Waiting, vars
<1>2. CASE Accept(r)
  <2>1. main # "draining"
    BY <1>2 DEF Accept, Open, IInv, Lifecycle
  <2> QED
    BY <1>2, <2>1 DEF Accept, Open, CallInv, CallTypeOK, IInv, TypeOK, Waiting
<1>3. ASSUME NEW how \in {"ok", "error"}, CallEnds(r, how)
      PROVE  CallInv'
  BY <1>3 DEF CallEnds, CallInv, CallTypeOK, IInv, Waiting, vars
<1> QED
  BY <1>1, <1>2, <1>3 DEF Refused, Answered, ConnectionLost, TimesOut, Cancelled

\* Calls keep their types and their place in the drain.
THEOREM CallsInductive == CallSpec => [](IInv /\ CallInv)
<1>1. CallInit => CallInv
  <2> SUFFICES ASSUME CallInit PROVE CallInv
    OBVIOUS
  <2>1. IInv
    <3>1. left \in 0..DrainTime
      BY DrainTimeAssumption DEF CallInit, Init
    <3> QED
      BY <3>1 DEF CallInit, Init, IInv, TypeOK, Lifecycle, LossesHaveAReason
  <2> QED
    BY <2>1, TimeoutPositive DEF CallInit, Init, CallInv, CallTypeOK, IInv, Waiting
<1>2. IInv /\ IInv' /\ CallInv /\ [CallNext]_callVars => CallInv'
  <2> SUFFICES ASSUME IInv, IInv', CallInv, [CallNext]_callVars PROVE CallInv'
    OBVIOUS
  <2>1. CASE UNCHANGED callVars
    BY <2>1 DEF callVars, vars, CallInv, CallTypeOK, IInv, Waiting
  <2> QED
    BY <2>1, ServerKeepsCalls, TickKeepsCalls, ClientKeepsCalls DEF CallNext
<1> QED
  BY <1>1, <1>2, CallsKeepLifecycle, Inductive, PTL DEF CallSpec

\* As long as the limit of the client is below the drain time of the server,
\* the end of a drain takes no answer from a client that waits for it.
THEOREM DrainIsLongEnough ==
    ASSUME CallTimeout < DrainTime
    PROVE  CallSpec => DrainServesCalls
<1>1. IInv /\ CallInv /\ [CallNext]_callVars =>
         (main = "draining" /\ main' = "gone" =>
             \A r \in Requests : request[r] = "open" => ~Waiting(r))
  <2> SUFFICES ASSUME IInv, CallInv, [CallNext]_callVars,
                      main = "draining", main' = "gone",
                      NEW r \in Requests, request[r] = "open", Waiting(r)
               PROVE  FALSE
    OBVIOUS
  <2>1. Idle \/ left = 0
    BY CallNextIsNext, DrainStep
  <2>2. left = 0
    BY <2>1 DEF Idle
  <2>3. DrainTime <= age[r]
    BY <2>2, DrainTimeAssumption DEF CallInv
  <2>4. age[r] \in 0..CallTimeout
    BY DEF CallInv, CallTypeOK
  <2> QED
    BY <2>3, <2>4, TimeoutPositive, DrainTimeAssumption
<1>2. IInv /\ CallInv /\ [CallNext]_callVars =>
         [main = "draining" /\ main' = "gone" =>
             \A r \in Requests : request[r] = "open" => ~Waiting(r)]_callVars
  BY <1>1
<1> QED
  BY <1>2, CallsInductive, PTL DEF CallSpec, DrainServesCalls

-----------------------------------------------------------------------------
(* What a caller may conclude *)

\* No answer the server has counts as success.
LEMMA NothingSucceeds == \A c : ~Succeeds(Status(c))
<1>1. \A c : Status(c) \in {400, 404, 405, 413, 501}
  BY DEF Status
<1>2. \A n \in {400, 404, 405, 413, 501} : ~Succeeds(n)
  BY SMT DEF Succeeds
<1> QED
  BY <1>1, <1>2

\* As long as the handlers are placeholders the client takes no call for done.
THEOREM NothingIsTakenForDone == CallSpec => []NothingTakenForDone
<1>1. CallInit => NothingTakenForDone
  BY DEF CallInit, NothingTakenForDone
<1>2. IInv /\ CallInv /\ NothingTakenForDone /\ [CallNext]_callVars => NothingTakenForDone'
  <2> SUFFICES ASSUME CallInv, NothingTakenForDone, [CallNext]_callVars
               PROVE  NothingTakenForDone'
    OBVIOUS
  <2>1. call \in [Requests -> {"idle", "waiting", "ok", "error"}]
    BY DEF CallInv, CallTypeOK
  <2>2. CASE UNCHANGED call
    BY <2>2 DEF NothingTakenForDone
  <2>3. ASSUME NEW r \in Requests, call' = [call EXCEPT ![r] = "waiting"]
        PROVE  NothingTakenForDone'
    BY <2>1, <2>3 DEF NothingTakenForDone
  <2>4. ASSUME NEW r \in Requests, call' = [call EXCEPT ![r] = "error"]
        PROVE  NothingTakenForDone'
    BY <2>1, <2>4 DEF NothingTakenForDone
  <2>5. ASSUME NEW r \in Requests, Answered(r) PROVE NothingTakenForDone'
    BY <2>4, <2>5, NothingSucceeds DEF Answered, CallEnds
  <2> QED
    BY <2>2, <2>3, <2>4, <2>5
    DEF CallNext, callVars, ServerSteps, Tick, Do, Accept, Refused, ConnectionLost,
        TimesOut, Cancelled, CallEnds
<1> QED
  BY <1>1, <1>2, CallsInductive, PTL DEF CallSpec

-----------------------------------------------------------------------------
(* One contract, three copies *)

\* A path of the reservations with two more segments.
Six(s, t) == Reservations \o <<s, t>>

LEMMA SixSegments ==
    ASSUME NEW s, NEW t
    PROVE  /\ Len(Six(s, t)) = 6
           /\ DOMAIN Six(s, t) = 1..6
           /\ \A n \in 1..4 : Six(s, t)[n] = Reservations[n]
           /\ Six(s, t)[5] = s
           /\ Six(s, t)[6] = t
<1> DEFINE S == {"internal", "v1", "billing", "reservations", s, t}
           more == <<s, t>>
<1>1. Reservations \in Seq(S) /\ Len(Reservations) = 4
  BY DEF Reservations
<1>2. more \in Seq(S) /\ Len(more) = 2 /\ more[1] = s /\ more[2] = t
  OBVIOUS
<1>3. Six(s, t) = Reservations \o more
  BY DEF Six
<1> HIDE DEF S, more
<1>4. /\ Six(s, t) \in Seq(S)
      /\ Len(Six(s, t)) = Len(Reservations) + Len(more)
      /\ \A n \in 1..(Len(Reservations) + Len(more)) : Six(s, t)[n] =
            IF n <= Len(Reservations) THEN Reservations[n] ELSE more[n - Len(Reservations)]
  <2>1. /\ Reservations \o more \in Seq(S)
        /\ Len(Reservations \o more) = Len(Reservations) + Len(more)
        /\ \A n \in 1..(Len(Reservations) + Len(more)) : (Reservations \o more)[n] =
              IF n <= Len(Reservations) THEN Reservations[n] ELSE more[n - Len(Reservations)]
    BY <1>1, <1>2, ConcatProperties, Zenon
  <2> QED
    BY <1>3, <2>1
<1>5. Len(Six(s, t)) = 6 /\ DOMAIN Six(s, t) = 1..6
  BY <1>1, <1>2, <1>4
<1>6. \A n \in 1..6 : Six(s, t)[n] = IF n <= 4 THEN Reservations[n] ELSE more[n - 4]
  BY <1>1, <1>2, <1>4
<1>7. Six(s, t)[5] = more[1] /\ Six(s, t)[6] = more[2]
  BY <1>6
<1> QED
  BY <1>2, <1>5, <1>6, <1>7

\* Two such paths with the same last segment differ in the fifth at most.
LEMMA FifthSegment ==
    ASSUME NEW s, NEW t, NEW last
    PROVE  /\ Len(Six(s, last)) = Len(Six(t, last))
           /\ Six(s, last)[5] = s /\ Six(t, last)[5] = t
           /\ \A n \in DOMAIN Six(t, last) : n = 5 \/ Six(s, last)[n] = Six(t, last)[n]
BY SixSegments

\* A segment that says something matches the wildcard.
LEMMA WildMatches ==
    ASSUME NEW s, NEW last, Says(s)
    PROVE  Matches(Six(wild, last), Six(s, last))
<1>1. Len(Six(wild, last)) = Len(Six(s, last))
  BY FifthSegment, Zenon
<1>2. Six(wild, last)[5] = wild /\ Six(s, last)[5] = s
  BY FifthSegment, Zenon
<1>3. \A n \in DOMAIN Six(s, last) : n = 5 \/ Six(wild, last)[n] = Six(s, last)[n]
  BY FifthSegment
<1>4. s # ""
  BY Zenon DEF Says
<1> QED
  BY <1>1, <1>2, <1>3, <1>4, Zenon DEF Matches

Posts == {"reservations", "settle", "release", "recharges", "refunds"}

\* The routes of four segments, but for the wallet's: they differ in the last.
Roots == {"reservations", "recharges", "refunds"}

Root(name) == <<"internal", "v1", "billing", name>>

LEMMA RootsDiffer ==
    ASSUME NEW s \in Roots, NEW t \in Roots
    PROVE  Matches(Root(s), Root(t)) <=> s = t
<1>1. CASE s = t
  BY <1>1 DEF Matches, Root
<1>2. CASE s # t
  <2>1. Root(s)[4] = s /\ Root(t)[4] = t /\ 4 \in DOMAIN Root(t)
    BY DEF Root
  <2>2. s # wild
    BY DEF Roots, wild
  <2> QED
    BY <1>2, <2>1, <2>2, Zenon DEF Matches
<1> QED
  BY <1>1, <1>2, Zenon

LEMMA SixthSegment ==
    ASSUME NEW s, NEW t
    PROVE  Six(s, t)[6] = t /\ 6 \in DOMAIN Six(s, t)
<1>1. DOMAIN Six(s, t) = 1..6 /\ Six(s, t)[6] = t
  BY SixSegments, Zenon
<1> QED
  BY <1>1

\* A route of a reservation and a path of one: the last segment tells.
LEMMA VerbsDiffer ==
    ASSUME NEW s \in {"settle", "release"}, NEW t \in {"settle", "release"},
           NEW seg, Says(seg)
    PROVE  Matches(Six(wild, s), Six(seg, t)) <=> s = t
<1>1. CASE s = t
  BY <1>1, WildMatches, Zenon
<1>2. CASE s # t
  <2>1. Six(wild, s)[6] = s /\ Six(seg, t)[6] = t /\ 6 \in DOMAIN Six(seg, t)
    BY SixthSegment, Zenon
  <2>2. s # wild
    BY DEF wild
  <2> QED
    BY <1>2, <2>1, <2>2, Zenon DEF Matches
<1> QED
  BY <1>1, <1>2, Zenon

\* Four segments do not match six.
LEMMA LengthsDiffer ==
    ASSUME NEW name, NEW s, NEW t
    PROVE  ~Matches(Root(name), Six(s, t)) /\ ~Matches(Six(s, t), Root(name))
<1>1. Len(Root(name)) = 4
  BY DEF Root
<1>2. Len(Six(s, t)) = 6
  BY SixSegments
<1> QED
  BY <1>1, <1>2 DEF Matches

\* The routes and the paths in these terms.
LEMMA RoutesByLength ==
    /\ DOMAIN Routes = Posts \union {"wallet"}
    /\ \A name \in Roots : /\ Routes[name] = Root(name)
                           /\ \A id : BILLING_ROUTES(name, id) = Root(name)
    /\ \A verb \in {"settle", "release"} :
          /\ Routes[verb] = Six(wild, verb)
          /\ \A id : BILLING_ROUTES(verb, id) = Reservations \o id \o <<verb>>
<1>1. DOMAIN Routes = Posts \union {"wallet"}
  BY DEF Routes, Posts
<1>2. ASSUME NEW name \in Roots
      PROVE  /\ Routes[name] = Root(name)
             /\ \A id : BILLING_ROUTES(name, id) = Root(name)
  BY DEF Routes, Roots, Root, BILLING_ROUTES, Reservations
<1>3. ASSUME NEW verb \in {"settle", "release"}
      PROVE  /\ Routes[verb] = Six(wild, verb)
             /\ \A id : BILLING_ROUTES(verb, id) = Reservations \o id \o <<verb>>
  <2>1. CASE verb = "settle"
    BY <2>1 DEF Routes, Six, BILLING_ROUTES
  <2>2. CASE verb = "release"
    BY <2>2 DEF Routes, Six, BILLING_ROUTES
  <2> QED
    BY <2>1, <2>2
<1> QED
  BY <1>1, <1>2, <1>3, Zenon

\* Two sequences that are written down, joined.
LEMMA Joined ==
    ASSUME NEW a, NEW b, NEW c, NEW d
    PROVE  /\ <<a>> \o <<b>> = <<a, b>>
           /\ <<a, b, c>> \o <<d>> = <<a, b, c, d>>
<1> DEFINE S == {a, b, c, d}
<1>1. ASSUME NEW s \in Seq(S), NEW t \in Seq(S), NEW u \in Seq(S),
             Len(u) = Len(s) + Len(t),
             \A n \in 1..Len(u) : u[n] = IF n <= Len(s) THEN s[n] ELSE t[n - Len(s)]
      PROVE  s \o t = u
  <2>1. /\ s \o t \in Seq(S) /\ Len(s \o t) = Len(s) + Len(t)
        /\ \A n \in 1..(Len(s) + Len(t)) :
              (s \o t)[n] = IF n <= Len(s) THEN s[n] ELSE t[n - Len(s)]
    BY ConcatProperties, Zenon
  <2>2. Len(s \o t) = Len(u) /\ \A n \in 1..Len(s \o t) : (s \o t)[n] = u[n]
    BY <1>1, <2>1, Zenon
  <2> QED
    BY <2>1, <2>2, SeqEqual, Zenon
<1>2. <<a>> \o <<b>> = <<a, b>>
  <2>1. <<a>> \in Seq(S) /\ <<b>> \in Seq(S) /\ <<a, b>> \in Seq(S)
    OBVIOUS
  <2>2. /\ Len(<<a, b>>) = Len(<<a>>) + Len(<<b>>)
        /\ \A n \in 1..Len(<<a, b>>) :
              <<a, b>>[n] = IF n <= Len(<<a>>) THEN <<a>>[n] ELSE <<b>>[n - Len(<<a>>)]
    OBVIOUS
  <2> QED
    BY <1>1, <2>1, <2>2, Zenon
<1>3. <<a, b, c>> \o <<d>> = <<a, b, c, d>>
  <2>1. <<a, b, c>> \in Seq(S) /\ <<d>> \in Seq(S) /\ <<a, b, c, d>> \in Seq(S)
    OBVIOUS
  <2>2. /\ Len(<<a, b, c, d>>) = Len(<<a, b, c>>) + Len(<<d>>)
        /\ \A n \in 1..Len(<<a, b, c, d>>) :
              <<a, b, c, d>>[n] = IF n <= Len(<<a, b, c>>) THEN <<a, b, c>>[n]
                                  ELSE <<d>>[n - Len(<<a, b, c>>)]
    OBVIOUS
  <2> QED
    BY <1>1, <2>1, <2>2, Zenon
<1> QED
  BY <1>2, <1>3

\* An id of one segment is that segment.
LEMMA OneSegment ==
    ASSUME NEW id \in Ids, Plain(id)
    PROVE  id = <<id[1]>> /\ id[1] \in STRING /\ Says(id[1])
<1>1. id \in Seq(STRING) /\ Len(id) = 1 /\ Says(id[1])
  <2>1. id \in Seq(STRING)
    BY SMT DEF Ids
  <2> QED
    BY <2>1, Zenon DEF Plain
<1>2. id = <<id[1]>> /\ id[1] \in STRING
  BY <1>1, SMT
<1> QED
  BY <1>1, <1>2

\* The path of a reservation is then one of six segments.
LEMMA VerbPath ==
    ASSUME NEW id \in Ids, Plain(id), NEW verb \in {"settle", "release"}
    PROVE  BILLING_ROUTES(verb, id) = Six(id[1], verb)
<1>1. id = <<id[1]>> /\ id[1] \in STRING
  BY OneSegment, Zenon
<1> DEFINE S == {"internal", "v1", "billing", "reservations", id[1], verb}
<1>2. Reservations \in Seq(S) /\ <<id[1]>> \in Seq(S) /\ <<verb>> \in Seq(S)
  BY DEF Reservations
<1> HIDE DEF S
<1>3. (Reservations \o <<id[1]>>) \o <<verb>> = Reservations \o (<<id[1]>> \o <<verb>>)
  BY <1>2, ConcatAssociative
<1>4. <<id[1]>> \o <<verb>> = <<id[1], verb>>
  BY Joined, Zenon
<1>5. BILLING_ROUTES(verb, id) = (Reservations \o <<id[1]>>) \o <<verb>>
  BY <1>1, RoutesByLength, Zenon
<1> QED
  BY <1>3, <1>4, <1>5, Zenon DEF Six

\* The path of a wallet is its route but for the last segment.
LEMMA WalletPath ==
    ASSUME NEW id \in Ids, Plain(id)
    PROVE  /\ BILLING_ROUTES("wallet", id) = <<"internal", "v1", "wallets", id[1]>>
           /\ Matches(Routes["wallet"], BILLING_ROUTES("wallet", id))
<1>1. id = <<id[1]>> /\ id[1] \in STRING /\ Says(id[1])
  BY OneSegment, Zenon
<1>2. <<"internal", "v1", "wallets">> \o <<id[1]>> = <<"internal", "v1", "wallets", id[1]>>
  BY Joined, Zenon
<1>3. BILLING_ROUTES("wallet", id) = <<"internal", "v1", "wallets", id[1]>>
  <2>1. BILLING_ROUTES("wallet", id) = <<"internal", "v1", "wallets">> \o id
    BY DEF BILLING_ROUTES
  <2> QED
    BY <1>1, <1>2, <2>1, Zenon
<1>4. Routes["wallet"] = <<"internal", "v1", "wallets", wild>>
  BY DEF Routes
<1>5. /\ Len(Routes["wallet"]) = Len(BILLING_ROUTES("wallet", id))
      /\ \A n \in DOMAIN BILLING_ROUTES("wallet", id) :
            \/ Routes["wallet"][n] = BILLING_ROUTES("wallet", id)[n]
            \/ Routes["wallet"][n] = wild /\ BILLING_ROUTES("wallet", id)[n] = id[1]
  BY <1>3, <1>4, SMT
<1>6. id[1] # ""
  BY <1>1, Zenon DEF Says
<1> QED
  BY <1>3, <1>5, <1>6, Zenon DEF Matches

\* The literals of the paths say something.
LEMMA LiteralsSay ==
    \A s \in {"internal", "v1", "billing", "reservations", "recharges", "refunds",
              "settle", "release", "wallets"} : Says(s)
BY Zenon DEF Says

\* The mux finds nothing to clean in the path of a root, or of a plain id.
LEMMA PathIsClean ==
    ASSUME NEW op \in DOMAIN Routes, NEW id \in Ids, op \in Roots \/ Plain(id), NEW method
    PROVE  Arrives(method, BILLING_ROUTES(op, id)) =
              [method |-> method, path |-> BILLING_ROUTES(op, id)]
<1> DEFINE path == BILLING_ROUTES(op, id)
<1>1. \A n \in DOMAIN path : Says(path[n])
  <2>1. CASE op \in Roots
    <3>1. path = Root(op)
      BY <2>1, RoutesByLength, Zenon
    <3>2. \A n \in DOMAIN Root(op) : Root(op)[n] \in {"internal", "v1", "billing", op}
      BY DEF Root
    <3> QED
      BY <2>1, <3>1, <3>2, LiteralsSay, Zenon DEF Roots
  <2>2. CASE op \in {"settle", "release"} /\ Plain(id)
    <3>1. path = Six(id[1], op)
      BY <2>2, VerbPath, Zenon
    <3>2. \A n \in DOMAIN Six(id[1], op) :
             \/ Six(id[1], op)[n] \in {"internal", "v1", "billing", "reservations"}
             \/ Six(id[1], op)[n] = id[1]
             \/ Six(id[1], op)[n] = op
      <4>1. \A n \in 1..4 : Reservations[n] \in {"internal", "v1", "billing", "reservations"}
        BY DEF Reservations
      <4>2. \A n \in 1..6 : n \in 1..4 \/ n = 5 \/ n = 6
        OBVIOUS
      <4>3. /\ DOMAIN Six(id[1], op) = 1..6
            /\ \A n \in 1..4 : Six(id[1], op)[n] = Reservations[n]
            /\ Six(id[1], op)[5] = id[1] /\ Six(id[1], op)[6] = op
        BY SixSegments
      <4> QED
        BY <4>1, <4>2, <4>3, Zenon
    <3> QED
      BY <2>2, <3>1, <3>2, LiteralsSay, OneSegment, Zenon
  <2>3. CASE op = "wallet" /\ Plain(id)
    <3>1. path = <<"internal", "v1", "wallets", id[1]>>
      BY <2>3, WalletPath, Zenon
    <3>2. \A n \in DOMAIN path : path[n] \in {"internal", "v1", "wallets"} \/ path[n] = id[1]
      BY <3>1
    <3> QED
      BY <2>3, <3>2, LiteralsSay, OneSegment, Zenon
  <2>4. /\ op \in Roots \/ op \in {"settle", "release"} \/ op = "wallet"
        /\ op \in Roots \/ Plain(id)
    BY RoutesByLength DEF Posts, Roots
  <2> QED
    BY <2>1, <2>2, <2>3, <2>4
<1> HIDE DEF path
<1>2. Cleaned(path) = path
  BY <1>1, Zenon DEF Cleaned
<1>3. Arrives(method, path) = [method |-> method, path |-> path]
  BY <1>2, Zenon DEF Arrives
<1> QED
  BY <1>3 DEF path

\* Under an id of one segment each path of the contract leads to its own
\* handler, and to no other.
LEMMA OneHandler ==
    ASSUME NEW op \in DOMAIN Routes, NEW id \in Ids, op \in Roots \/ Plain(id)
    PROVE  Handlers(Method(op), BILLING_ROUTES(op, id)) = {op}
<1>1. ASSUME NEW other \in Posts, op \in Posts
      PROVE  Matches(Routes[other], BILLING_ROUTES(op, id)) <=> other = op
  <2>0. op \in Roots \/ Plain(id)
    OBVIOUS
  <2>1. \A p \in Posts : p \in Roots \/ p \in {"settle", "release"}
    BY DEF Posts, Roots
  <2>2. \A p \in Roots : p \notin {"settle", "release"}
    BY DEF Roots
  <2>3. CASE op \in Roots /\ other \in Roots
    <3>1. Routes[other] = Root(other) /\ BILLING_ROUTES(op, id) = Root(op)
      BY <2>3, RoutesByLength
    <3> QED
      BY <2>3, <3>1, RootsDiffer, Zenon
  <2>4. CASE op \in Roots /\ other \in {"settle", "release"}
    <3>1. Routes[other] = Six(wild, other) /\ BILLING_ROUTES(op, id) = Root(op)
      BY <2>4, RoutesByLength
    <3>2. other # op
      BY <2>2, <2>4, Zenon
    <3> QED
      BY <3>1, <3>2, LengthsDiffer, Zenon
  <2>5. CASE op \in {"settle", "release"} /\ other \in Roots
    <3>1. Routes[other] = Root(other) /\ BILLING_ROUTES(op, id) = Six(id[1], op)
      BY <2>0, <2>2, <2>5, RoutesByLength, VerbPath, Zenon
    <3>2. other # op
      BY <2>2, <2>5, Zenon
    <3> QED
      BY <3>1, <3>2, LengthsDiffer, Zenon
  <2>6. CASE op \in {"settle", "release"} /\ other \in {"settle", "release"}
    <3>1. Plain(id) /\ Says(id[1])
      BY <2>0, <2>2, <2>6, OneSegment, Zenon
    <3>2. Routes[other] = Six(wild, other) /\ BILLING_ROUTES(op, id) = Six(id[1], op)
      BY <2>6, <3>1, RoutesByLength, VerbPath, Zenon
    <3> QED
      BY <2>6, <3>1, <3>2, VerbsDiffer, Zenon
  <2> QED
    BY <1>1, <2>1, <2>3, <2>4, <2>5, <2>6, Zenon
<1>2. op = "wallet" => Matches(Routes["wallet"], BILLING_ROUTES("wallet", id))
  <2>1. "wallet" \notin Roots
    BY DEF Roots
  <2> QED
    BY <2>1, WalletPath, Zenon
<1>3. \A p \in DOMAIN Routes : Method(p) = "GET" <=> p = "wallet"
  BY DEF Method
<1>4. \A p \in DOMAIN Routes : Method(p) = "POST" <=> p \in Posts
  BY RoutesByLength DEF Method, Posts
<1>5. CASE op \in Posts
  BY <1>1, <1>4, <1>5, RoutesByLength, Zenon DEF Handlers
<1>6. CASE op = "wallet"
  BY <1>2, <1>3, <1>6, Zenon DEF Handlers
<1> QED
  BY <1>5, <1>6, RoutesByLength, Zenon

\* The client spells the paths it knows as the contract does.
LEMMA ClientSpellsPaths ==
    ASSUME NEW op \in {"reservations", "settle", "release", "wallet"}, NEW id
    PROVE  ClientPath(op, id) = BILLING_ROUTES(op, id)
BY DEF ClientPath, BILLING_ROUTES

\* The client's structs are the server's.
LEMMA StructsAgree ==
    ASSUME NEW op \in {"reservations", "settle", "release"}
    PROVE  ClientStructs[op] = RequestStructs[op]
<1>1. CASE op = "reservations"
  BY <1>1 DEF ClientStructs, RequestStructs
<1>2. CASE op = "settle"
  BY <1>2 DEF ClientStructs, RequestStructs
<1>3. CASE op = "release"
  BY <1>3 DEF ClientStructs, RequestStructs
<1> QED
  BY <1>1, <1>2, <1>3

\* A request under such an id reaches its handler as it was sent.
LEMMA OneReached ==
    ASSUME NEW op \in DOMAIN Routes, NEW id \in Ids, op \in Roots \/ Plain(id)
    PROVE  Reached(Method(op), BILLING_ROUTES(op, id)) = {op}
<1> DEFINE method == Method(op)
           path == BILLING_ROUTES(op, id)
<1>1. Arrives(method, path) = [method |-> method, path |-> path]
  BY PathIsClean, Zenon
<1>2. Handlers(method, path) = {op}
  BY OneHandler, Zenon
<1> HIDE DEF method, path
<1>3. Arrives(method, path).method = method /\ Arrives(method, path).path = path
  BY <1>1, SMT
<1>4. Reached(method, path) = {op}
  BY <1>2, <1>3, Zenon DEF Reached
<1> QED
  BY <1>4 DEF method, path

\* A struct has the fields of its schema, and the types for all it accepts.
LEMMA StructsCarry ==
    ASSUME NEW op \in DOMAIN Contract
    PROVE  /\ Carries(RequestStructs[op], Contract[op])
           /\ op \in DOMAIN ClientStructs => Carries(ClientStructs[op], Contract[op])
<1>1. \A check \in DOMAIN ZodAccepts :
         IF check = "boolean" THEN ZodAccepts[check] \subseteq GoValues["bool"]
                              ELSE ZodAccepts[check] \subseteq GoValues["string"]
  BY DEF ZodAccepts, GoValues, Texts
<1>2. ASSUME NEW struct, NEW schema, DOMAIN struct = DOMAIN schema,
             \A f \in DOMAIN schema :
                /\ schema[f] \in DOMAIN ZodAccepts
                /\ struct[f] = IF schema[f] = "boolean" THEN "bool" ELSE "string"
      PROVE  Carries(struct, schema)
  BY <1>1, <1>2, Zenon DEF Carries
<1>3. op \in Posts
  BY DEF Contract, Posts
<1>4. DOMAIN ZodAccepts = {"string", "nonEmpty", "micros", "usageSource", "channel", "boolean"}
  BY DEF ZodAccepts
<1>5. /\ DOMAIN RequestStructs[op] = DOMAIN Contract[op]
      /\ \A f \in DOMAIN Contract[op] :
            /\ Contract[op][f] \in DOMAIN ZodAccepts
            /\ RequestStructs[op][f] = IF Contract[op][f] = "boolean" THEN "bool" ELSE "string"
  <2>1. CASE op = "reservations"
    BY <1>4, <2>1 DEF RequestStructs, Contract, Struct
  <2>2. CASE op = "settle"
    BY <1>4, <2>2 DEF RequestStructs, Contract, Struct
  <2>3. CASE op = "release"
    BY <1>4, <2>3 DEF RequestStructs, Contract, Struct
  <2>4. CASE op = "recharges"
    BY <1>4, <2>4 DEF RequestStructs, Contract, Struct
  <2>5. CASE op = "refunds"
    BY <1>4, <2>5 DEF RequestStructs, Contract, Struct
  <2> QED
    BY <1>3, <2>1, <2>2, <2>3, <2>4, <2>5 DEF Posts
<1>6. DOMAIN ClientStructs = {"reservations", "settle", "release"}
  BY DEF ClientStructs
<1> QED
  BY <1>2, <1>5, <1>6, StructsAgree, Zenon

\* Under ids of one segment a service that answers loses nothing the contract
\* allows: each path leads to one handler, its own, and no field or value the
\* schema accepts is without a place in the structs of server and client.
THEOREM ContractServed == CallSpec => []ContractIsServed
<1>1. DOMAIN ClientStructs \union {"wallet"} = {"reservations", "settle", "release", "wallet"}
  BY DEF ClientStructs
<1>2. ASSUME NEW r \in Requests, Plain(Target[r].id), NEW op \in DOMAIN Routes
      PROVE  /\ Reached(Method(op), BILLING_ROUTES(op, Target[r].id)) = {op}
             /\ op \in DOMAIN ClientStructs \union {"wallet"} =>
                   ClientPath(op, Target[r].id) = BILLING_ROUTES(op, Target[r].id)
  <2>1. Target[r].id \in Ids
    BY CallAssumption, Zenon
  <2> QED
    BY <1>1, <1>2, <2>1, OneReached, ClientSpellsPaths, Zenon
<1>3. ContractIsServed
  BY <1>2, StructsCarry, Zenon DEF ContractIsServed
<1> QED
  BY <1>3, PTL
-----------------------------------------------------------------------------
(* The limit of the body *)

\* A body of the size of the limit is read whole, a longer one is not, and
\* there is one byte more to tell.
LEMMA OneByteMore ==
    ASSUME NEW size \in Nat
    PROVE  /\ BytesRead(size) > maxRequestBody <=> size > maxRequestBody
           /\ size <= maxRequestBody => BytesRead(size) = size
<1>1. maxRequestBody \in Nat
  BY CallAssumption
<1> QED
  BY SMT, <1>1 DEF BytesRead

\* The answers to a body.
TooLarge == 413
Placeholder == 501

\* A call that reaches its handler, by whether its body fits.
LEMMA StatusOfFound ==
    ASSUME NEW c,
           Arrives(Method(c.op), ClientPath(c.op, c.id)).method = "POST",
           Reached(Method(c.op), ClientPath(c.op, c.id)) = {c.op}
    PROVE  /\ BytesRead(c.size) > maxRequestBody => Status(c) = TooLarge
           /\ ~(BytesRead(c.size) > maxRequestBody) /\ Unmarshals(c.op, c) =>
                 Status(c) = Placeholder
<1> DEFINE arrived == Arrives(Method(c.op), ClientPath(c.op, c.id))
<1>1. Handlers(arrived.method, arrived.path) = {c.op} /\ arrived.method # "GET"
  BY DEF Reached
<1>2. \A op \in Handlers(arrived.method, arrived.path) : op = c.op
  BY <1>1
<1> QED
  BY <1>1, <1>2 DEF Status, TooLarge, Placeholder

\* A body of any size is judged by the limit, for every limit.
THEOREM LimitIsAlwaysExact == CallSpec => []LimitIsExact
<1>1. ASSUME NEW r \in Requests, SendsBody(Target[r])
      PROVE  Status(Target[r]) =
                IF Target[r].size > maxRequestBody THEN TooLarge ELSE Placeholder
  <2> DEFINE c == Target[r]
  <2>1. /\ c.op \in {"reservations", "settle", "release"} /\ c.size \in Nat
        /\ c.id \in Ids /\ (c.op = "reservations" \/ Plain(c.id))
    BY <1>1, CallAssumption, Zenon DEF SendsBody
  <2>2. Method(c.op) = "POST" /\ c.op \in DOMAIN Routes
    BY <2>1 DEF Method, Routes
  <2>3. c.op \in Roots \/ Plain(c.id)
    BY <2>1 DEF Roots
  <2>4. ClientPath(c.op, c.id) = BILLING_ROUTES(c.op, c.id)
    BY <2>1, ClientSpellsPaths, Zenon
  <2>5. /\ Reached(Method(c.op), ClientPath(c.op, c.id)) = {c.op}
        /\ Arrives(Method(c.op), ClientPath(c.op, c.id)).method = "POST"
    <3>1. Arrives(Method(c.op), ClientPath(c.op, c.id)) =
             [method |-> Method(c.op), path |-> ClientPath(c.op, c.id)]
      BY <2>1, <2>2, <2>3, <2>4, PathIsClean, Zenon
    <3>2. Reached(Method(c.op), ClientPath(c.op, c.id)) = {c.op}
      BY <2>1, <2>2, <2>3, <2>4, OneReached, Zenon
    <3> QED
      BY <2>2, <3>1, <3>2
  <2>6. BytesRead(c.size) > maxRequestBody <=> c.size > maxRequestBody
    BY <2>1, OneByteMore, Zenon
  <2>7. ~(c.size > maxRequestBody) => BytesRead(c.size) = c.size
    BY <2>1, CallAssumption, OneByteMore
  <2>8. BytesRead(c.size) = c.size => Unmarshals(c.op, c)
    <3>1. c.op # "wallet"
      BY <1>1 DEF SendsBody
    <3>2. /\ DOMAIN c.body = DOMAIN ClientStructs[c.op]
          /\ \A f \in DOMAIN ClientStructs[c.op] : c.body[f] \in GoValues[ClientStructs[c.op][f]]
      BY <3>1, BodiesAssumption, Zenon
    <3>3. ClientStructs[c.op] = RequestStructs[c.op]
      BY <2>1, StructsAgree
    <3> QED
      BY <3>2, <3>3, Zenon DEF Unmarshals
  <2>9. CASE c.size > maxRequestBody
    BY <2>5, <2>6, <2>9, StatusOfFound, Zenon
  <2>10. CASE ~(c.size > maxRequestBody)
    BY <2>5, <2>6, <2>7, <2>8, <2>10, StatusOfFound, Zenon
  <2> QED
    BY <2>9, <2>10
<1>2. \A r \in Requests : SendsBody(Target[r]) =>
         Status(Target[r]) = IF Target[r].size > maxRequestBody THEN TooLarge ELSE Placeholder
  BY <1>1, Zenon
<1>3. TooLarge = 413 /\ Placeholder = 501
  BY SMT DEF TooLarge, Placeholder
<1>4. LimitIsExact
  BY <1>2, <1>3, SMT DEF LimitIsExact
<1> QED
  BY <1>4, PTL
=============================================================================
