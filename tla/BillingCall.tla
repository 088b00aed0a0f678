---------------------------- MODULE BillingCall ----------------------------
(***************************************************************************)
(* A call from the gateway's billing client (services/gateway/internal/    *)
(* billing) to the billing service: what is sent, which handler of         *)
(* services/billing/internal/httpapi decodes it, what the client makes of  *)
(* the answer, and when it gives up.  The billing process is HttpService,  *)
(* and each of its requests belongs to one call.                           *)
(***************************************************************************)
EXTENDS HttpService, Sequences

CONSTANTS
    Target,         \* Target[r]: what r calls, a record [op, id, body, size]
    DefaultTimeout, \* the 3 s of config.go, in the units of DrainTime
    TimeoutEnv,     \* BILLING_INTERNAL_TIMEOUT: a record [set, parses, value]
    maxRequestBody  \* server.go, in the units of size

\* An id is the sequence of its segments: as many as it has slashes, and one.
\* Ids with a "?", a "#" or a "%" in them, or with "..", are left out.
Ids == Seq(STRING \ {".."}) \ {<< >>}

ASSUME CallAssumption ==
    /\ DefaultTimeout \in Nat \ {0}
    /\ TimeoutEnv \in [set : BOOLEAN, parses : BOOLEAN, value : Nat \ {0}]
    /\ maxRequestBody \in Nat
    /\ \A r \in Requests :
          /\ Target[r].op \in {"reservations", "settle", "release", "wallet"}
          /\ Target[r].id \in Ids
          /\ Target[r].size \in Nat

VARIABLES
    call,       \* call[r]: "idle", "waiting", "ok" or "error"
    age         \* age[r]: how long r has been waiting

callVars == <<vars, call, age>>

-----------------------------------------------------------------------------
\* Mutant: a value that does not parse stands for the zero time.Duration,
\* which http.Client takes for no limit.
DurationOrZero(v, fallback) == IF ~v.set THEN fallback
                               ELSE IF v.parses THEN v.value ELSE 0

envDurationOr(v, fallback) == IF v.set /\ v.parses THEN v.value ELSE fallback

CallTimeout == envDurationOr(TimeoutEnv, DefaultTimeout)

-----------------------------------------------------------------------------
\* Three hand-written copies of the requests.  A JSON value is its class.

Texts == {"empty", "digits", "usageSource", "channel", "otherText"}

\* What the checks of a schema accept: z.string(), .min(1), micros, z.enum.
ZodAccepts == [string      |-> Texts,
               nonEmpty    |-> Texts \ {"empty"},
               micros      |-> {"digits"},
               usageSource |-> {"usageSource"},
               channel     |-> {"channel"},
               boolean     |-> {"boolean"}]

\* The Zod schemas of packages/contracts/src/billing.ts: a check for each field.
Contract == [
    reservations |-> [idempotencyKey |-> "nonEmpty", userId |-> "string",
                      apiKeyId |-> "string", requestId |-> "string",
                      amountMicros |-> "micros"],
    settle       |-> [idempotencyKey |-> "nonEmpty", amountMicros |-> "micros",
                      priceVersionId |-> "string", usageSource |-> "usageSource",
                      parserVersion |-> "string", estimated |-> "boolean"],
    release      |-> [idempotencyKey |-> "nonEmpty", reason |-> "string"],
    recharges    |-> [idempotencyKey |-> "nonEmpty", userId |-> "string",
                      orderId |-> "string", channel |-> "channel",
                      amountMicros |-> "micros"],
    refunds      |-> [idempotencyKey |-> "nonEmpty", userId |-> "string",
                      refundId |-> "string", amountMicros |-> "micros",
                      reason |-> "string"]]

\* What json.Marshal writes for a Go type, and json.Unmarshal takes for it.
GoValues == [string |-> Texts, bool |-> {"boolean"}]

\* A struct: the names in its tags, with their types.
Struct(strings, bools) ==
    [f \in strings \union bools |-> IF f \in strings THEN "string" ELSE "bool"]

\* The structs of the client, which has no recharges and no refunds.
ClientStructs == [
    reservations |-> Struct({"idempotencyKey", "userId", "apiKeyId", "requestId",
                             "amountMicros"}, {}),
    settle       |-> Struct({"idempotencyKey", "amountMicros", "priceVersionId",
                             "usageSource", "parserVersion"}, {"estimated"}),
    release      |-> Struct({"idempotencyKey", "reason"}, {})]

\* Mutant: the tag of a field is misspelt, which json.Unmarshal passes over.
RequestStructsMistagged ==
    [op \in DOMAIN Contract |->
        LET fields == DOMAIN Contract[op]
        IN  IF op = "reservations"
            THEN Struct((fields \ {"apiKeyId"}) \union {"api_key_id"}, {})
            ELSE Struct(fields \ {"estimated"}, fields \intersect {"estimated"})]

\* The structs the handlers of the server decode into.
RequestStructs == [
    reservations |-> Struct({"idempotencyKey", "userId", "apiKeyId", "requestId",
                             "amountMicros"}, {}),
    settle       |-> Struct({"idempotencyKey", "amountMicros", "priceVersionId",
                             "usageSource", "parserVersion"}, {"estimated"}),
    release      |-> Struct({"idempotencyKey", "reason"}, {}),
    recharges    |-> Struct({"idempotencyKey", "userId", "orderId", "channel",
                             "amountMicros"}, {}),
    refunds      |-> Struct({"idempotencyKey", "userId", "refundId", "amountMicros",
                             "reason"}, {})]

\* A body is a client's struct with a value in every field: a caller may leave
\* a text empty, json.Marshal leaves out nothing.
ASSUME BodiesAssumption ==
    \A r \in Requests : Target[r].op # "wallet" =>
        LET struct == ClientStructs[Target[r].op]
        IN  /\ DOMAIN Target[r].body = DOMAIN struct
            /\ \A f \in DOMAIN struct : Target[r].body[f] \in GoValues[struct[f]]

-----------------------------------------------------------------------------
\* And three copies of the paths.  A path is the sequence of its segments.

Reservations == <<"internal", "v1", "billing", "reservations">>

\* BILLING_ROUTES; an id is joined to the path as it is.
BILLING_ROUTES(op, id) ==
    CASE op = "reservations" -> Reservations
      [] op = "settle"       -> Reservations \o id \o <<"settle">>
      [] op = "release"      -> Reservations \o id \o <<"release">>
      [] op = "recharges"    -> <<"internal", "v1", "billing", "recharges">>
      [] op = "refunds"      -> <<"internal", "v1", "billing", "refunds">>
      [] op = "wallet"       -> <<"internal", "v1", "wallets">> \o id

\* The client does the same.
ClientPath(op, id) ==
    CASE op = "reservations" -> Reservations
      [] op = "settle"       -> Reservations \o id \o <<"settle">>
      [] op = "release"      -> Reservations \o id \o <<"release">>
      [] op = "wallet"       -> <<"internal", "v1", "wallets">> \o id

\* The patterns of the mux; wild matches one segment, and not an empty one.
wild == "{id}"

Routes == [reservations |-> Reservations,
           settle       |-> Reservations \o <<wild, "settle">>,
           release      |-> Reservations \o <<wild, "release">>,
           recharges    |-> <<"internal", "v1", "billing", "recharges">>,
           refunds      |-> <<"internal", "v1", "billing", "refunds">>,
           wallet       |-> <<"internal", "v1", "wallets", wild>>]

Method(op) == IF op = "wallet" THEN "GET" ELSE "POST"

Matches(pattern, path) ==
    /\ Len(pattern) = Len(path)
    /\ \A n \in DOMAIN path : pattern[n] = path[n] \/ (pattern[n] = wild /\ path[n] # "")

Handlers(method, path) ==
    {op \in DOMAIN Routes : Method(op) = method /\ Matches(Routes[op], path)}

\* The mux wants paths without the segments that say nothing, but for a slash
\* at the end.
Says(segment) == segment \notin {"", "."}

Cleaned(path) ==
    IF \A n \in DOMAIN path : Says(path[n]) THEN path
    ELSE SelectSeq(path, Says) \o (IF path[Len(path)] = "" THEN <<"">> ELSE << >>)

\* Any other is answered with 301 and the clean one, and the client of Go
\* repeats the request with that, as a GET without a body.
Arrives(method, path) == IF Cleaned(path) = path
                         THEN [method |-> method, path |-> path]
                         ELSE [method |-> "GET", path |-> Cleaned(path)]

Reached(method, path) == LET arrived == Arrives(method, path)
                         IN  Handlers(arrived.method, arrived.path)

-----------------------------------------------------------------------------
\* What the server answers and what the client makes of it.

\* Mutant: the reader stops at the limit, and what is beyond it looks like a
\* body that fits.
BytesReadToLimit(size) == IF size < maxRequestBody THEN size ELSE maxRequestBody

\* io.LimitReader(r.Body, maxRequestBody+1)
BytesRead(size) == IF size < maxRequestBody + 1 THEN size ELSE maxRequestBody + 1

\* json.Unmarshal fails on text that has been cut and on a value of another
\* type; a field the struct does not have is passed over.
Unmarshals(op, c) ==
    /\ BytesRead(c.size) = c.size
    /\ \A f \in DOMAIN c.body \intersect DOMAIN RequestStructs[op] :
          c.body[f] \in GoValues[RequestStructs[op][f]]

Status(c) ==
    LET arrived == Arrives(Method(c.op), ClientPath(c.op, c.id))
        found == Handlers(arrived.method, arrived.path)
    IN  IF found = {}
        THEN IF \E op \in DOMAIN Routes : Matches(Routes[op], arrived.path) THEN 405 ELSE 404
        ELSE IF arrived.method = "GET" THEN 501
        ELSE IF BytesRead(c.size) > maxRequestBody THEN 413
        ELSE IF \E op \in found : ~Unmarshals(op, c) THEN 400
        ELSE 501

\* Mutant: the status of the response is not looked at.
AnyStatusSucceeds(status) == TRUE

Succeeds(status) == 200 <= status /\ status < 300

Waiting(r) == call[r] = "waiting"

\* Mutant: http.Client{} without Timeout.
NeverExpires(r) == FALSE

Expired(r) == Waiting(r) /\ CallTimeout > 0 /\ age[r] >= CallTimeout

-----------------------------------------------------------------------------

CallInit == /\ Init
            /\ call = [r \in Requests |-> "idle"]
            /\ age = [r \in Requests |-> 0]

CallEnds(r, how) == /\ Waiting(r)
                    /\ call' = [call EXCEPT ![r] = how]
                    /\ age' = [age EXCEPT ![r] = 0]
                    /\ UNCHANGED vars

\* A handler of the gateway calls the client.
Do(r) == /\ call[r] = "idle"
         /\ call' = [call EXCEPT ![r] = "waiting"]
         /\ UNCHANGED <<vars, age>>

\* The connection is accepted, unless the client has given up.
Accept(r) == /\ Waiting(r)
             /\ Open(r)
             /\ UNCHANGED <<call, age>>

Refused(r) == /\ request[r] = "new"
              /\ listener # "serving"
              /\ CallEnds(r, "error")

Answered(r) == /\ request[r] = "answered"
               /\ CallEnds(r, IF Succeeds(Status(Target[r])) THEN "ok" ELSE "error")

\* The billing process has ended with the request open.
ConnectionLost(r) == /\ request[r] = "lost"
                     /\ CallEnds(r, "error")

\* The server is not told: its handler runs on.
TimesOut(r) == /\ Expired(r)
               /\ CallEnds(r, "error")

\* The context of the gateway's own request ends first.
Cancelled(r) == CallEnds(r, "error")

\* No timer is late: time does not pass a call that has expired.
Tick == /\ \A r \in Requests : ~Expired(r)
        /\ IF main = "draining" /\ left > 0 THEN TimePasses ELSE UNCHANGED vars
        /\ age' = [r \in Requests |->
                      IF Waiting(r) /\ age[r] < CallTimeout THEN age[r] + 1 ELSE age[r]]
        /\ UNCHANGED call

ServerSteps == /\ \/ Bind
                  \/ ListenFails
                  \/ \E r \in Requests : Answer(r)
                  \/ Notify
                  \/ SignalCaught
                  \/ SignalKills
                  \/ BeginShutdown
                  \/ MainReturns
               /\ UNCHANGED <<call, age>>

CallNext == \/ ServerSteps
            \/ Tick
            \/ \E r \in Requests : \/ Do(r)
                                   \/ Accept(r)
                                   \/ Refused(r)
                                   \/ Answered(r)
                                   \/ ConnectionLost(r)
                                   \/ TimesOut(r)
                                   \/ Cancelled(r)

CallSpec == CallInit /\ [][CallNext]_callVars

\* The goroutine of main, time and the timers of the client run; nothing makes
\* a handler return, and nothing makes the gateway call or cancel.
CallFairSpec == /\ CallSpec
                /\ WF_callVars((Notify \/ BeginShutdown \/ MainReturns)
                               /\ UNCHANGED <<call, age>>)
                /\ WF_callVars(Tick)
                /\ \A r \in Requests : WF_callVars(TimesOut(r))

-----------------------------------------------------------------------------

CallTypeOK == /\ TypeOK
              /\ call \in [Requests -> {"idle", "waiting", "ok", "error"}]
              /\ age \in [Requests -> 0..CallTimeout]

\* "请求级超时由内部客户端 3s 控制" (billing/cmd/billing/main.go:32): every call
\* returns, whatever the billing service does with its request.
CallReturns == \A r \in Requests : Waiting(r) ~> ~Waiting(r)

\* The two timeouts fit together: the end of the drain takes no answer away
\* from a client that still waits for it.
DrainServesCalls ==
    [][main = "draining" /\ main' = "gone" =>
          \A r \in Requests : request[r] = "open" => ~Waiting(r)]_callVars

\* "全部 501 占位" (ARCHITECTURE.md:57): as long as no handler does its work,
\* the client takes no call for done, whichever way its request ends: answered,
\* redirected, refused, lost with the process or given up.
NothingTakenForDone == \A r \in Requests : call[r] # "ok"

\* An id that is one segment of a path.
Plain(id) == Len(id) = 1 /\ Says(id[1])

\* A POST whose path is complete.
SendsBody(c) == c.op # "wallet" /\ (c.op = "reservations" \/ Plain(c.id))

\* A body of the size of the limit is let in, one byte more is told to be too
\* large: it is not taken for broken JSON.
LimitIsExact ==
    \A r \in Requests : request[r] = "answered" /\ SendsBody(Target[r]) =>
        Status(Target[r]) = IF Target[r].size > maxRequestBody THEN 413 ELSE 501

\* A struct has the fields of a schema and no other, and a place for every
\* value the schema accepts.
Carries(struct, schema) ==
    /\ DOMAIN struct = DOMAIN schema
    /\ \A f \in DOMAIN schema : ZodAccepts[schema[f]] \subseteq GoValues[struct[f]]

\* "契约与 packages/contracts/src/billing.ts 保持一致" (server.go:3), as far as it
\* is kept: nothing the contract allows is lost.  Under an id that is one
\* segment every path of the contract leads to its own handler, which reads
\* every request the contract's schema accepts in full; and the client sends
\* it there and so.  That the server refuses what the schema refuses is
\* ContractIsEnforced.
ContractIsServed ==
    \A r \in Requests : request[r] = "answered" /\ Plain(Target[r].id) =>
       /\ \A op \in DOMAIN Routes :
             /\ Reached(Method(op), BILLING_ROUTES(op, Target[r].id)) = {op}
             /\ op \in DOMAIN ClientStructs \union {"wallet"} =>
                   ClientPath(op, Target[r].id) = BILLING_ROUTES(op, Target[r].id)
       /\ \A op \in DOMAIN Contract :
             /\ Carries(RequestStructs[op], Contract[op])
             /\ op \in DOMAIN ClientStructs => Carries(ClientStructs[op], Contract[op])

Conforms(body, schema) ==
    \A f \in DOMAIN schema : f \in DOMAIN body /\ body[f] \in ZodAccepts[schema[f]]

\* "所有写接口必须携带 idempotency_key" (server.go:2, billing.ts:5) and the
\* checks of the contract the comments of server.go align the handlers with: a
\* request within the limit that the contract's schema refuses is refused.
ContractIsEnforced ==
    \A r \in Requests :
       LET c == Target[r]
       IN  /\ request[r] = "answered" /\ SendsBody(c) /\ c.size <= maxRequestBody
           /\ ~Conforms(c.body, Contract[c.op])
           => Status(c) = 400
=============================================================================
