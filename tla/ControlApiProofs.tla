-------------------------- MODULE ControlApiProofs --------------------------
(***************************************************************************)
(* A readiness probe speaks of the database, for any number of requests    *)
(* and any number of failures of the database.                             *)
(***************************************************************************)
EXTENDS ControlApi, TLAPS

\* What makes an answer speak of its own time: as long as a request is open,
\* its history ends with the present state of the database.
IInv == /\ TypeOK
        /\ \A r \in Requests : Open(r) => db \in seen[r]
        /\ ReadyMeansDatabase

\* A step that changes nothing a request can see.
LEMMA PhaseStep ==
    ASSUME IInv, UNCHANGED <<token, db, changes, http, seen>>,
           phase' \in {"creating", "connecting", "binding", "serving", "gone"},
           exit' \in {"none", "1", "signal"}
    PROVE  IInv'
BY DEF IInv, TypeOK, Open, ReadyMeansDatabase

\* The end of the process leaves no request open and makes none ready.
LEMMA EndsStep ==
    ASSUME IInv, NEW status \in {"1", "signal"}, Ends(status)
    PROVE  IInv'
<1>1. http' \in [Requests -> {"new", "healthz", "readyz", "querying", "auth",
                              "200 ok", "200 ready", "400", "413", "500", "501", "lost"}]
  BY DEF IInv, TypeOK, Ends
<1>2. TypeOK'
  BY <1>1 DEF IInv, TypeOK, Ends
<1>3. \A r \in Requests : ~Open(r)'
  BY DEF IInv, TypeOK, Ends, Open
<1>4. ReadyMeansDatabase'
  BY DEF IInv, Ends, ReadyMeansDatabase
<1> QED
  BY <1>2, <1>3, <1>4 DEF IInv

\* A request that goes on, and is told ready only with the database up.
LEMMA GoesStep ==
    ASSUME IInv, NEW r \in Requests,
           NEW from \in {"healthz", "readyz", "querying", "auth"},
           NEW to \in {"200 ok", "querying", "400", "413", "500", "501", "200 ready"},
           Goes(r, from, to), to = "200 ready" => db = "up"
    PROVE  IInv'
<1>1. Open(r) /\ db \in seen[r]
  BY DEF Goes, Open, IInv
<1>2. TypeOK'
  BY DEF Goes, IInv, TypeOK
<1>3. \A q \in Requests : Open(q)' => db' \in seen'[q]
  BY <1>1 DEF Goes, Open, IInv, TypeOK
<1>4. ReadyMeansDatabase'
  BY <1>1 DEF Goes, IInv, TypeOK, ReadyMeansDatabase
<1> QED
  BY <1>2, <1>3, <1>4 DEF IInv

\* The inductive invariant holds in every reachable state.
THEOREM Inductive == Spec => []IInv
<1>1. Init => IInv
  BY ChangesAssumption DEF Init, IInv, TypeOK, Open, ReadyMeansDatabase
<1>2. IInv /\ [Next]_vars => IInv'
  <2> SUFFICES ASSUME IInv, [Next]_vars PROVE IInv'
    OBVIOUS
  <2>1. CASE Boot
    <3>1. CASE CreateFails \/ ConnectFails \/ ListenFails
      BY <3>1, EndsStep DEF CreateFails, ConnectFails, ListenFails
    <3>2. CASE Create \/ Connect \/ Listen
      BY <3>2, PhaseStep DEF Create, Connect, Listen, ComesUp, IInv, TypeOK
    <3> QED
      BY <2>1, <3>1, <3>2 DEF Boot
  <2>2. CASE Signal
    BY <2>2, EndsStep DEF Signal
  <2>3. CASE DatabaseChanges
    <3>1. \A r \in Requests : Open(r)' = Open(r)
      BY <2>3 DEF DatabaseChanges, Open
    <3>2. \A r \in Requests : seen'[r] = IF Open(r) THEN seen[r] \union {db'} ELSE seen[r]
      BY <2>3 DEF DatabaseChanges
    <3>3. db' \in {"up", "down"} /\ seen' \in [Requests -> SUBSET {"up", "down"}]
      BY <2>3 DEF DatabaseChanges, IInv, TypeOK
    <3>4. changes' \in 0..MaxChanges
      <4>1. changes \in 0..MaxChanges /\ changes < MaxChanges /\ changes' = changes + 1
        BY <2>3 DEF DatabaseChanges, IInv, TypeOK
      <4> QED
        BY <4>1, ChangesAssumption
    <3>5. TypeOK'
      BY <2>3, <3>3, <3>4 DEF DatabaseChanges, IInv, TypeOK
    <3> QED
      BY <2>3, <3>1, <3>2, <3>5 DEF DatabaseChanges, IInv, ReadyMeansDatabase
  <2>4. ASSUME NEW r \in Requests, Arrives(r) PROVE IInv'
    <3>1. PICK handler \in {"healthz", "readyz", "auth"} :
             http' = [http EXCEPT ![r] = handler]
      BY <2>4 DEF Arrives
    <3>2. seen' = [seen EXCEPT ![r] = {db}] /\ UNCHANGED <<phase, exit, token, db, changes>>
      BY <2>4 DEF Arrives
    <3>3. TypeOK'
      BY <3>1, <3>2 DEF IInv, TypeOK
    <3> QED
      BY <3>1, <3>2, <3>3 DEF IInv, TypeOK, Open, ReadyMeansDatabase
  <2>5. ASSUME NEW r \in Requests, Handle(r) PROVE IInv'
    <3>1. PICK from \in {"healthz", "readyz", "querying", "auth"},
               to \in {"200 ok", "querying", "400", "413", "500", "501", "200 ready"} :
             Goes(r, from, to) /\ (to = "200 ready" => db = "up")
      BY <2>5 DEF Handle, Healthz, Readyz, QuerySucceeds, QueryFails, Auth
    <3> QED
      BY <3>1, GoesStep
  <2>6. CASE UNCHANGED vars
    BY <2>6, PhaseStep DEF vars, IInv, TypeOK
  <2> QED
    BY <2>1, <2>2, <2>3, <2>4, <2>5, <2>6 DEF Next
<1> QED
  BY <1>1, <1>2, PTL DEF Spec

\* Every variable keeps its type.
THEOREM TypeCorrect == Spec => []TypeOK
BY Inductive, PTL DEF IInv

\* A probe is told ready only if the database was up while it was open.
THEOREM ReadyIsTrue == Spec => []ReadyMeansDatabase
BY Inductive, PTL DEF IInv
=============================================================================
