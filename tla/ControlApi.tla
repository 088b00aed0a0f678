----------------------------- MODULE ControlApi -----------------------------
(***************************************************************************)
(* apps/control-api: how the Nest application comes up, the health checks, *)
(* the placeholders of registration and login, and how the process ends.   *)
(* One event loop serves every request; a request is suspended only while  *)
(* it awaits the database.                                                 *)
(***************************************************************************)
EXTENDS Integers

CONSTANTS
    Requests,       \* HTTP requests that may arrive, each once
    ParamTokens,    \* what a build may emit for the type of a parameter
    MaxChanges      \* bound: how often the database goes down or comes back

ASSUME TokensAssumption == ParamTokens \subseteq STRING
ASSUME ChangesAssumption == MaxChanges \in Nat

VARIABLES
    phase,      \* "creating", "connecting", "binding", "serving", "gone"
    exit,       \* "none" while the process runs, then "1" or "signal"
    token,      \* the token by which the controllers ask for their parameter
    db,         \* the database is "up" or "down"
    changes,    \* how often db has changed
    http,       \* http[r]: "new", where an open request is, its status, "lost"
    seen        \* history, seen[r]: the states of db while r was open

vars == <<phase, exit, token, db, changes, http, seen>>

-----------------------------------------------------------------------------
\* Coming up and going down

Init == /\ phase = "creating"
        /\ exit = "none"
        /\ token \in ParamTokens
        /\ db \in {"up", "down"}
        /\ changes = 0
        /\ http = [r \in Requests |-> "new"]
        /\ seen = [r \in Requests |-> {}]

Open(r) == http[r] \in {"healthz", "readyz", "querying", "auth"}

\* The process ends, and every open request with it.
Ends(status) == /\ phase' = "gone"
                /\ exit' = status
                /\ http' = [r \in Requests |-> IF Open(r) THEN "lost" ELSE http[r]]
                /\ UNCHANGED <<token, db, changes, seen>>

ComesUp(from, to) == /\ phase = from
                     /\ phase' = to
                     /\ UNCHANGED <<exit, token, db, changes, http, seen>>

\* The global PrismaModule exports PrismaService, ConfigModule ConfigService.
Providers == {"PrismaService", "ConfigService"}

\* NestFactory.create resolves the parameters of the controllers.
Create == token \in Providers /\ ComesUp("creating", "connecting")

\* No provider has the token: Nest logs the error and exits.
CreateFails == phase = "creating" /\ token \notin Providers /\ Ends("1")

\* listen() initialises first: onModuleInit awaits $connect.
Connect == db = "up" /\ ComesUp("connecting", "binding")

\* Mutant: onModuleInit tries again until the database is there.
ConnectTriedAgain == db = "down" /\ ComesUp("connecting", "connecting")

ConnectFails == phase = "connecting" /\ db = "down" /\ Ends("1")

\* The address is bound, or bootstrap rejects and nobody catches it.
Listen == ComesUp("binding", "serving")
ListenFails == phase = "binding" /\ Ends("1")

\* enableShutdownHooks is not called: no signal is caught, nothing drains, and
\* the $disconnect of onModuleDestroy does not run.
Signal == phase # "gone" /\ Ends("signal")

DatabaseChanges == /\ changes < MaxChanges
                   /\ changes' = changes + 1
                   /\ db' = IF db = "up" THEN "down" ELSE "up"
                   /\ seen' = [r \in Requests |-> IF Open(r) THEN seen[r] \union {db'}
                                                             ELSE seen[r]]
                   /\ UNCHANGED <<phase, exit, token, http>>

-----------------------------------------------------------------------------
\* Requests

Goes(r, from, to) == /\ http[r] = from
                     /\ http' = [http EXCEPT ![r] = to]
                     /\ UNCHANGED <<phase, exit, token, db, changes, seen>>

Arrives(r) == /\ phase = "serving"
              /\ http[r] = "new"
              /\ \E handler \in {"healthz", "readyz", "auth"} :
                    http' = [http EXCEPT ![r] = handler]
              /\ seen' = [seen EXCEPT ![r] = {db}]
              /\ UNCHANGED <<phase, exit, token, db, changes>>

Healthz(r) == Goes(r, "healthz", "200 ok")

\* Mutant: the query is not awaited.
ReadyzNotAwaited(r) == Goes(r, "readyz", "200 ready")

Readyz(r) == Goes(r, "readyz", "querying")

QuerySucceeds(r) == db = "up" /\ Goes(r, "querying", "200 ready")

\* Mutant: a query that fails is sent again.
QueryTriedAgain(r) == db = "down" /\ Goes(r, "querying", "readyz")

\* A connection of the pool may also be broken since the database was down.
QueryFails(r) == (db = "down" \/ changes > 0) /\ Goes(r, "querying", "500")

\* Registration and login.  Fastify refuses a body that is no JSON or has more
\* than 2 MB; parse throws a ZodError, which is no HttpException; or the
\* placeholder throws.
Auth(r) == \E status \in {"400", "413", "500", "501"} : Goes(r, "auth", status)

Handle(r) == Healthz(r) \/ Readyz(r) \/ QuerySucceeds(r) \/ QueryFails(r) \/ Auth(r)

Boot == Create \/ CreateFails \/ Connect \/ ConnectFails \/ Listen \/ ListenFails

Next == \/ Boot
        \/ Signal
        \/ DatabaseChanges
        \/ \E r \in Requests : Arrives(r) \/ Handle(r)

Spec == Init /\ [][Next]_vars

\* The event loop runs, and the database driver resolves or rejects whatever
\* is awaited; nothing makes a database come back or a request arrive.
FairSpec == Spec /\ WF_vars(Boot) /\ \A r \in Requests : WF_vars(Handle(r))

-----------------------------------------------------------------------------

TypeOK == /\ phase \in {"creating", "connecting", "binding", "serving", "gone"}
          /\ exit \in {"none", "1", "signal"}
          /\ token \in ParamTokens
          /\ db \in {"up", "down"}
          /\ changes \in 0..MaxChanges
          /\ http \in [Requests -> {"new", "healthz", "readyz", "querying", "auth",
                                    "200 ok", "200 ready", "400", "413", "500", "501", "lost"}]
          /\ seen \in [Requests -> SUBSET {"up", "down"}]

\* "就绪探针（/readyz）" (infra/kubernetes/README.md:12): a probe is told ready
\* only if the database was up at some moment between its arrival and its
\* answer, however often the database goes down and comes back.
ReadyMeansDatabase == \A r \in Requests : http[r] = "200 ready" => "up" \in seen[r]

\* The process either serves or is gone, and does not hang half way up with a
\* database that stays away, where no probe reaches it.
BootSettles == <>(phase \in {"serving", "gone"})

\* Every request is answered, or lost with the process; a probe is, too, when
\* the database stays away.
RequestsEnd == \A r \in Requests : Open(r) ~> ~Open(r)
=============================================================================
