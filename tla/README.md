# LoopzToken in TLA+

This directory holds specifications of the parts of LoopzToken that already
run, TLC configurations that check them on small instances, and proofs that
TLAPS checks. It is kept beside the code: paths are relative to `src/`, and
`PROJECT.json` maps each definition to the lines it models.

1. [The system](#1-the-system)
2. [Modules](#2-modules)
3. [Runs, bounds and fairness](#3-runs-bounds-and-fairness)
4. [What the runs found](#4-what-the-runs-found)
5. [Proofs](#5-proofs)
6. [Abstractions, and what is not modelled](#6-abstractions-and-what-is-not-modelled)
7. [Plan](#7-plan)

To run: `tlc -config MCOutboxTwoWorkers.cfg MCOutbox`, `tlapm OutboxProofs.tla`.

## 1. The system

LoopzToken is meant to sell access to several model providers behind one API.
Much of it is a skeleton: gateway, billing and control API answer 501 on every
business endpoint, and the wallet is an interface without code. What keeps
state, runs concurrently or can fail today is the outbox worker, the life of
the service processes and a call between them, the payment mock, the gateway's
router (a loop), the shell of the web application, and the script that gates an
agent's turn on the state of the documents.

| Component | State | Operations | Made hard by |
| --- | --- | --- | --- |
| Outbox worker (`apps/worker`) | table `outbox_events`; per tick the batch it claimed | insert (by others), poll and claim, handle, mark done, mark failed, shut down | overlapping ticks, several processes, lost calls and answers, crashes, backoff |
| Router (`services/gateway/internal/router`) | a loop over candidates | `Select` | order of candidates, ties, filter chain |
| API keys (`services/gateway/internal/auth`) | none | `GenerateKey`, `ParseKey` | a separator between random halves |
| Payment mock (`packages/payment`) | `seq`, `paid`, `refunded`, in memory | create, verify notification, query, refund | repeated, late, reordered or cut notifications; restart |
| Service lifecycle (`services/*/cmd/*/main.go`) | listener, signal channel, drain deadline | listen, catch signal, drain, exit | two goroutines that can both end the process |
| Billing client (`services/gateway/internal/billing`) and billing HTTP API (`services/billing/internal/httpapi`) | the call that waits; none | `do`, the four calls; routing, body limit, decoding, status | a limit and a drain set in two programs, three copies of each path and struct, lost connections |
| Control API (`apps/control-api`) | phase of the start, connection | bootstrap, health checks, placeholders of registration and login, end | a start that waits for the database, injection decided by the build, no drain |
| Web shell (`apps/web`) | history, sidebar store, theme, width | navigate, toggle, show texts and amounts | links and keys the compiler does not check, stored against shown state |
| Documentation gate (`.vibe/vibe_doctor.py`) | working tree, HEAD, `changed-files.json`, `sync-state.json` | claude-track, claude-hook, acknowledge, check, install | unlocked files, a digest that covers the gate's own files |
| Gateway HTTP API and configuration, contracts, database package | none, or filled once | handlers that answer 501, `Load`, schemas | modelled where another part reads them |
| Wallet, adapters, SSE parser, shared configuration, UI package, infrastructure | none | declarations | no behaviour yet |

How they interact today: the worker and whoever inserts events meet in
PostgreSQL only. The billing client talks HTTP to a billing process that starts,
drains and ends by itself. The three entry points of the documentation gate meet
in files. The gateway's router, keys and billing client are called by no
handler, and no application imports the payment package. So the modules below
compose where the code does: ticks, processes and database in one module; client
and server process in one, on top of the server's two goroutines; trackers,
hook, agent and git in one; router, history, store and theme of a tab in one.

What makes each part correct:

- **Worker.** A row has one owner at a time; a row written back is never an
  outdated copy; failures are counted once each; a row is FAILED exactly when
  its attempts are used up, and not before the retry schedule has passed; known
  events end DONE, unknown ones FAILED; what a failure strands is bounded.
- **Router.** The first of the best candidates that pass every filter, or
  none exactly when nothing passes.
- **API keys.** A generated key parses to its halves; no two texts are one key.
- **Payment mock.** What `queryPayment` says is one notification that was
  accepted, about a payment that was created; refunds and late notifications
  do not undo it; ids are not given out twice by one process.
- **Lifecycle.** The drain is not cut short; a caught signal ends the process
  whatever the handlers do; requests are lost only for a reason.
- **Billing call.** Every call returns; none is taken for done that was not; a
  drain outlasts the client's patience; what the contract allows arrives, and
  what it refuses is refused; the body limit is exact.
- **Control API.** The start serves or ends; "ready" speaks of the time of the
  probe; every request ends.
- **Web shell.** Links lead to pages; the navigation shows where one is and
  cannot be lost; nothing links into the admin area; the theme button does what
  it says; texts exist; amounts are truncated, sign and all.
- **Gate.** No edit that was noted or is not committed escapes the hook; an
  acknowledgement holds for the content
  it was made for, and for nothing else; whoever does what the gate asks for
  gets past it.

## 2. Modules

### Outbox, EventLedger

`Outbox` is `main.ts`, `handlers.ts` and the table. The columns are `status`,
`attempts`, `delay` (what is left until `nextRunAt`) and `doneAt`; a row that
is not inserted yet is ABSENT. A tick is a call of `tick()`: `pc` says where it
is, `locked` the rows its open transaction has locked, `held` the part of its
batch it has not marked, `seen` the `attempts` that `findMany` returned, `cur`
the row of the loop. An event is its rank in the order of `created_at`.

| Code | Actions |
| --- | --- |
| a producer's transaction | `Insert` |
| `setInterval` | `TickFires` (it does not wait for the previous call) |
| `claimBatch`, the SELECT | `SelectDue`, `SelectNothing`, `SelectFails` |
| `claimBatch`, update, read, commit | `ClaimCommits`, `ClaimAborts`, `ClaimAckLost` |
| `handleEvent` | `HandlerSucceeds`, `HandlerThrows` |
| `markDone` | `MarkDone`, `MarkDoneFails`, `MarkDoneAckLost` |
| `markFailed` | `MarkFailed`, `MarkFailedFails`, `MarkFailedAckLost` |
| the end of the loop | `TickEnds` |
| `shutdown`, the supervisor, the clock | `Shutdown`, `Exit`, `Crash`, `Start`, `TimePasses` |

Every database call is its own step and may fail before it is applied
("...Fails") or after ("...AckLost"). The claim's SELECT and its commit are two
steps, because SKIP LOCKED shows between them; the update and the read in
between touch locked rows only. `runs`, `age`, `faults` and `stops` are history
and bounds.

`EventLedger` is what the outbox promises a producer, without batches, locks,
time, backoff or processes: consumers take waiting events, only the consumer
that took an event settles it or sends it back, and every return is counted.
`Outbox!Ledger` instantiates it with `Consumers <- Ticks`, `state <- status`,
`tries <- attempts`, `owned <- held`, `MaxTries <- MAX_ATTEMPTS`;
`ImplementsLedger` says that every step of the outbox is a step of the ledger or
leaves it alone. The ledger deliberately promises no delivery: see section 4.

### Router, ApiKey, MoneyFormat

A step of `Router` is a round of the outer loop of `Select`: `Skip` when a filter
refused, `Compare` otherwise, `Return` at the end. `best` is the place of the
candidate `*best` points to, 0 for nil, so equal candidates at two places stay
apart. The reference definition is `IsChoice`, which says what is chosen and not
how. In `ApiKey` a text is the sequence of its pieces between underscores:
`GenerateKey` puts one together, and `Parse` is a call of `ParseKey` with one that
was handed out or any other. In `MoneyFormat`, `Show` is a call of the web's
`formatMicroCNY`.

### MockPayment

The three fields of the object, `CreatePayment`, `VerifyNotification` with its
throw `VerifyThrows`, `Refund`, `Restart`, and the answer `QueryPayment`. A raw
notification is the sequence of its fields between the dots, and an amount the
sequence of its digits, because the code takes it as text; `Deliveries` is what
the transport makes of it: an amount may be missing, which throws, or be cut off
anywhere, which does not. `attempts`, `sent` and `verified` are history. The mock
shares nothing with the three functions above; `MCSmallParts` puts the four
next to each other, so that one run checks the parts nothing calls yet.

### HttpService, BillingCall

In `HttpService`, `main` is the goroutine of func main, `listener` the one in
`ListenAndServe`; `stop` the buffered channel, `left` the rest of the drain time,
`request` the requests. Gateway (30 s) and billing (15 s) differ in the constant
`DrainTime` only. `End` is os.Exit, a fatal signal or the return of main: it
takes both goroutines and every open request with it.

`BillingCall` extends it: the process is billing's, and each request belongs to
one call of the gateway's client. `call` says where the call is and `age` how
long it has waited; `Target` fixes which of the four methods it is, with which
id, which body and how large a one. An id is the sequence of its path segments,
since the client joins it to the path as it is; a body is a client's struct with
the class of each value ("empty", "digits", ...), which is what the checks of the
schemas can tell apart.

| Code | Definitions |
| --- | --- |
| `do`, up to `c.http.Do` | `Do`, then `Accept` or `Refused` |
| the response, the status | `Answered`, with `Status` and `Succeeds` |
| a connection that breaks, `http.Client.Timeout`, the caller's context | `ConnectionLost`, `TimesOut`, `Cancelled` |
| time, for the client and for the drain at once | `Tick` |
| the process | `ServerSteps`, the actions of `HttpService` but the clock |
| `envDurationOr`, `NewClient` | `envDurationOr`, `CallTimeout` |
| the mux: the handler, the redirect of a path with an empty or "." segment, 404 and 405 | `Routes`, `Handlers`, `Cleaned`, `Arrives`, `Reached` |
| `decode` and the placeholders | `BytesRead`, `Unmarshals`, `Status` |
| the three copies of the contract | `Contract`/`BILLING_ROUTES`, `RequestStructs`/`Routes`, `ClientStructs`/`ClientPath` |
| what a schema accepts, what a Go type holds | `ZodAccepts`, `GoValues` |

The server is not told when a client gives up: its handler runs on, and its
drain waits for it.

### ControlApi

`phase` is how far bootstrap has come, `token` what the compiled constructors of
the controllers name as the type of their parameter (a choice of the build,
made once), `db` the database, `http` the requests; `seen` is history, the states
the database had while a request was open. `Create`, `Connect` and `Listen` have
a failing twin each; `Readyz` sends its query and `QuerySucceeds` or `QueryFails`
answers; `Auth` is registration and login, whose placeholders differ in the
status only. `Signal` ends the process at once, because nothing enables Nest's shutdown hooks.

### WebShell

`entries` and `pos` are the history of the tab, `sidebarOpen` the store, `theme`
what next-themes keeps, `wide` and `systemDark` what the media queries say. The
route tree is `routeTree.gen.ts` as functions of its routes: `OwnPath`,
`ParentRoute`, `ChildRoutes`, and the table `FileRoutesByTo` it generates beside
them. What is shown is computed from these: `Layouts`, `ActiveItems`,
`SidebarShown`, `KeysShown`. Actions are `Follow` (a link), `TypeUrl`, `Reload`,
`Traverse` (back and forward), `ToggleSidebar`, `ToggleTheme`, `Resize`,
`SystemChanges`.

### DocSync

`content` and `head` are the versions of the files in the working tree and in
HEAD; `sync`, `syncHead`, `track`, `trackHead` the same for the two files of the
gate, which .gitignore does not cover and which therefore are among the changed
files themselves. A claude-track process reads, truncates and writes
(`TrackRead`, `TrackOpen`, `TrackWrite`); the hook reads, decides and removes
(`HookReads`, `HookBlocks` or `HookPasses`, `HookUnlinks`). The agent edits,
acknowledges and commits. `Edit` is a call of one of the four tools the PostToolUse
matcher names and starts a tracker; `UnnotedEdit` is what a shell command or
another tool writes, or a call whose tracker finds no path in its payload.
 `parallel`, chosen at the start, says whether it does so
while trackers and hook run or only between them. `edited`, `missed` and `acked`
are history: the edits no hook has let pass yet, those a hook let pass without
knowing of them, and what the last acknowledgement was made for.

### MC and proof modules

`MCOutbox`, `MCSmallParts`, `MCBillingCall`, `MCControlApi`, `MCDocSync` and
`MCWebShell` give the constants values and define nothing else, but for the
interleaving of four modules in `MCSmallParts`.
Operators commented "Mutant:" in the component modules are plausible mistakes in
the code; each property is known to fail when the definition it guards is
replaced by one of them. The `...Proofs` modules are section 5.

## 3. Runs, bounds and fairness

| Run | Instance | Checks |
| --- | --- | --- |
| `outbox_two_workers` | 3 rows (one of unknown type), 2 processes with a tick each, batch 2, 2 attempts, any 2 database failures, 1 stop; 311 434 states | `TypeOK`, `OneOwner`, `SnapshotCurrent`, `FailedWhenExhausted`, `HandlerRunsBounded`, `KnownEventsFailOnFaultsOnly`, `OrphansBounded`, `AttemptsGrow`, `ImplementsLedger` |
| `outbox_schedule` | the constants of main.ts in units of 30 s (5 attempts, backoff 1 * 2^n up to 30), 2 overlapping ticks of one process, batch 1, an older row of unknown type, 1 failure that keeps the row claimable; 36 084 states | `FailedAfterSchedule` with `MaxAge` = 30 units = 15 min, `DoneIsFinal`, `TypeDecidesOutcome` |
| `outbox_stranded`, `outbox_schema` | 2 rows, 2 ticks, 2 failures; no failures but the columns of schema.prisma | violations of `EveryEventSettles` |
| `small_parts` | 4 deployments, two of equal and one of negative priority, 2 filters, all lists of up to 4; keys over 2 buffers and all texts of up to 4 pieces; some 50 amounts around zero, a cent and a yuan; 2 orders, one of which costs a beginning of the other's digits, 2 payments per process, 1 restart; 80 287 states | `SelectsFirstBest`, `KeysAreUnambiguous`, `ShownIsTruncated`, `QueryAgreesWithNotifications`, `PaidWasCreated`, `PaymentIdsUnique`, `PaidIsKept` |
| `service_lifecycle` | 4 calls (a body of the limit with an empty key, one byte more, an empty id, a GET), units of 3 s: limit 1, drain 5; any number of signals; `BILLING_INTERNAL_TIMEOUT` set to "3000"; 118 696 states | `LossesHaveAReason`, `NothingTakenForDone`, `LimitIsExact`, `ContractIsServed`, `DrainIsNotCut`, `SignalEndsProcess`, `CallReturns`, `DrainServesCalls` |
| `billing_contract` | the same calls | violation of `ContractIsEnforced` |
| `control_api` | 3 requests, 3 changes of the database, both tokens; 128 971 states | `ReadyMeansDatabase`, `BootSettles`, `RequestsEnd` |
| `docsync` | two domains, one source under a directory with a dot; turns: 2 edits of each source, 2 commits; parallel: 1 edit of a source and its document, 1 commit, 2 trackers; any edit noted or not; 474 366 states | `NothingMissed`, `OnlyCommittedMissed`, `AcknowledgedContent`, `SettlesUncommitted` |
| `docsync_livelock` | turns, one edit each, 2 commits | violation of `GateSettles` |
| `web_shell` | 3 history entries, 6 typed paths with and without pages, both widths and schemes; 47 288 states | `LinksLeadToPages`, `OneItemPerPage`, `AdminIsTyped`, `NavReachable`, `KeysHaveEntries`, `ToggleDoesWhatItSays` |
| `web_texts` | the same | violation of `EveryKeyTranslated` |

What the properties are for. `TypeOK` is checked where a step could leave the
types (attempts beyond their limit) and proved elsewhere. `NothingTakenForDone`,
`LimitIsExact` and `ContractIsServed` tie three hand-written copies of one
contract to each other. `OneItemPerPage` and `LinksLeadToPages` are over paths
reached by any navigation, those without a page included.

Why the bounds are enough. In the outbox a row interacts with another through
the batch only, so three rows and a batch of two give full batches, a rest, and
claims that skip locked rows; two ticks give every pairwise race, and the
ownership properties are about pairs; two failures give the chain markDone and
then markFailed, one stop the loss of a batch: with one tick per process a stop
accounts for two of the three rows, so a process that took the third with it
would show. `TypeDecidesOutcome` has the
failing row older than the good one and a batch of one, the worst case for
starvation. In `small_parts` the second payment after the restart repeats an id of
the first process. In `service_lifecycle` calls do not see each other except
through the process, and there is one for each way through the server. In
`control_api` three changes take the database away, back and away again within
a request. In `docsync` a file needs two versions so that a digest of names differs
from one of contents, and two commits so that one can carry an acknowledgement;
two trackers are what it takes to lose a note. In `web_shell` three entries are a
page with one on each side. The bounds are named: `MaxFaults`, `MaxStops`,
`MaxAge`, `MaxPayments`, `MaxRestarts`, `MaxChanges`, `MaxVersion`, `MaxCommits`,
`MaxEntries`; the proofs hold for all their values. Deadlock is checked except
in `small_parts`, `service_lifecycle` and `control_api`, whose programs end.

Fairness, and why the code has it:

- `Outbox!FairSpec`: each tick fires again (`setInterval`) and each call it has
  made returns or throws (Prisma's timeouts); a process that is stopping exits
  and is started again (the supervisor); the clock moves. No fairness for
  producers, signals, crashes or for which of several due rows is taken.
- `BillingCall!CallFairSpec`: the goroutine of main runs, the clock moves, and
  the client's timer fires. None for handlers, the gateway or signals, so
  `SignalEndsProcess` and `CallReturns` hold although every handler may hang.
- `ControlApi!FairSpec`: bootstrap goes on, and each request is handled, because
  the event loop runs and the driver resolves or rejects. None for the database
  and for arrivals, so `BootSettles` and `RequestsEnd` hold while it stays away.
- `DocSync!PatientSpec`: trackers and hooks run to their end, turns go on ending,
  and an agent that is blocked acknowledges every impacted domain (strong
  fairness, because it can only do so between two hooks). None for edits and
  commits, which end because they are bounded.

## 4. What the runs found

Each is a statement of the repository the code does not keep, with the run
whose counterexample shows it. `PROJECT.json` quotes the lines.

1. `outbox_stranded`. The comment at `main.ts:94` says no event is lost when the
   database fails. The claim's transaction ends before the first handler runs;
   when `markFailed` throws, or the answer of the commit is lost, rows stay
   PROCESSING, which no query selects again. `OrphansBounded` bounds the damage:
   at most `BATCH_SIZE` rows for each failure, and for each tick of the process
   that was stopped. A crash or `process.exit` in the middle of a batch does the same.
2. `outbox_schema`. The hand-written SELECT uses `next_run_at` and `created_at`;
   the Prisma model maps the table's name but not its columns, which are
   `nextRunAt` and `createdAt`. On a database made from the schema every claim
   throws and nothing is ever consumed.
3. `docsync_livelock`. `sync-state.json` is part of the change set its own digest
   is taken of. Once an acknowledgement has been committed, acknowledging the
   same files for the same reason can make the file equal to HEAD's, which
   removes it from the change set, or different, which adds it: the digest is
   always the one of the other case, and the agent is blocked at every turn.
   `SettlesUncommitted` shows the gate converges while no acknowledgement is in
   HEAD: the first one never counts, because it adds the file; the second does.
4. `web_texts`. `DESIGN.md:67` says that every text a user sees comes out of
   `t()`. The groups of the locale file (`common`, `nav`, `home`, ...) end up as
   namespaces, the default one is `common`, and a key such as `nav.home` is
   looked up inside it: no key is found, and i18next shows the key.
   `KeysHaveEntries` shows that the entries themselves are all there. (Texts that
   are written into the components contradict the line as well and are not
   modelled: the labels at `app-layout.tsx:35` and `:52` and `site-header.tsx:12`,
   the description at `routes/console/index.tsx:18`.)
5. `billing_contract`. `server.go:2-3` says that every write must carry an
   idempotency key and that the handlers keep to `billing.ts`, whose schemas ask
   for a key of at least one character, for decimal amounts and for one of four
   usage sources. `decode` unmarshals and checks no value: a reservation whose
   caller left the key empty is not refused but gets as far as the placeholder
   (501). `ContractIsServed` shows the other direction: whatever the contract
   allows arrives, at its own handler and with every field.

Met on the way, with nothing that a run could refute, and visible in the models:

- the worker validates no payload, although `contracts/src/events.ts:104` says it
  does, and the registry there lacks `request.failed`, which the worker's table
  has;
- the payment mock gives out old ids again after a restart (`PaymentIdsUnique`
  is stated up to the first one), although `providerPaymentId` is unique in the
  schema, and answers SUCCESS to a refund of an order that was never paid;
- the mock counts the fields of a notification and looks into none, although
  `mock.ts:5-6` has a wrong format throw: an amount that was cut off, to nothing
  even, becomes the paid amount, and may be what another order costs.
  `PaidWasCreated` says what is left to rely on: the order's own id, and a
  beginning of its amount;
- a signal between `ListenAndServe` and `signal.Notify` kills a Go service at
  once, and a drain that timed out exits with status 0;
- `BILLING_INTERNAL_TIMEOUT=0s` would mean no limit at all (`CallAssumption`
  leaves it out), and the gateway's `Validate` is never called;
- the client joins an id to the path as it is: one with a slash reaches no
  handler or another one, and for one that is empty, or has an empty or "."
  segment, the mux redirects, and Go's client repeats the POST as a GET without
  a body. `NothingTakenForDone` covers all of these, the contract speaks of ids of
  one segment (`Plain`);
- nothing retries a billing call yet, so nothing shows whether a retry carries the
  same idempotency key;
- the control API imports `PrismaService` with `import type`: a build that emits
  `Object` for the parameter has no provider for it, and Nest exits
  (`CreateFails`); and without shutdown hooks SIGTERM cuts every request off;
- what a shell command writes is known to git only: committed before the turn
  ends, it escapes the hook even if nothing runs at the same time, so
  `NothingMissed` promises the edits claude-track is started for;
- with trackers in parallel an edit that is committed already can escape the
  hook (`NothingMissed` holds for one process at a time only), because
  `changed-files.json` is rewritten without a lock and removed after the check;
- `acknowledge` replaces the record: acknowledging a second domain takes back
  the first, so all domains have to be named in one call (`NamesAll`);
- `_normalize_changed_files` strips leading dots, so the digest has "missing" for
  `.devcontainer/...`, and an acknowledgement outlives further edits of such a
  file: `AcknowledgedContent` leaves out `Hidden`. (The gate's own files lose
  their dot, too; that their content is not in the digest is what lets the gate
  converge at all.)

## 5. Proofs

For all values of the constants, from the assumptions named in the modules:

| Module | Theorem | Statement |
| --- | --- | --- |
| `OutboxProofs` | `Inductive`, `TypeCorrect` | `IInv`, `TypeOK` are invariants |
| | `Ownership`, `SnapshotsStayCurrent` | `OneOwner`, `SnapshotCurrent` |
| | `FailedMeansExhausted`, `RunsBounded` | `FailedWhenExhausted`, `HandlerRunsBounded` |
| | `AttemptsOnlyGrow` | the action property `AttemptsGrow` |
| | `Refinement` | `Spec => ImplementsLedger` |
| `OutboxFailureProofs` | `KnownEventsFailOnFaults`, `DoneStaysDone` | `KnownEventsFailOnFaultsOnly`, `DoneIsFinal` |
| | `FailedOnSchedule`, `FailedAfterFourWaits` | `FailedAfterSchedule`, if `MaxAge` is at most the sum of the backoffs |
| | `OrphansStayBounded` | `OrphansBounded` |
| `FunctionProofs` | `Inductive`, `SelectIsCorrect` | `IInv`, `SelectsFirstBest` |
| | `KeysParse` | `KeysAreUnambiguous`, for any encoding without the separator |
| | `TruncatedForAll` | `ShownIsTruncated`, for every integer |
| `MockPaymentProofs` | `TypeCorrect`, `QueryAgrees`, `PaidIsCreated`, `IdsUnique`, `PaidStaysPaid` | `PaymentTypeOK`, the three invariants of the run about payments, and `PaidIsKept` |
| `HttpServiceProofs` | `Inductive`, `Losses`, `DrainCompletes` | `IInv`, `LossesHaveAReason`, `DrainIsNotCut` of `HttpService` |
| | `CallsKeepLifecycle`, `CallsInductive` | `CallSpec` implements the service's `Spec`; `IInv` with the client's types |
| | `DrainIsLongEnough` | `DrainServesCalls`, if the limit is below the drain time |
| | `NothingIsTakenForDone`, `LimitIsAlwaysExact` | `NothingTakenForDone`, `LimitIsExact` |
| | `ContractServed` | `ContractIsServed`: what the contract allows is served, under any id of one segment |
| `ControlApiProofs` | `Inductive`, `TypeCorrect`, `ReadyIsTrue` | `TypeOK`, `ReadyMeansDatabase` |
| `DocSyncProofs` | `Inductive`, `TypeCorrect` | `IInv`, `TypeOK` |
| | `UncommittedEditsAreSeen`, `NothingIsMissed`, `AcknowledgementsHold` | `OnlyCommittedMissed`, `NothingMissed`, `AcknowledgedContent` |
| `WebShellProofs` | `Inductive`, `TypeCorrect`, `AdminOnlyTyped`, `ToggleIsHonest` | `TypeOK`, `AdminIsTyped`, `ToggleDoesWhatItSays` |
| | `LinksHavePages`, `OneActiveItem` | `LinksLeadToPages`, `OneItemPerPage` |
| | `NavigationReachable`, `KeysAreInFile` | `NavReachable`, `KeysHaveEntries` |

**Outbox.** `OneOwner` is not inductive: that a batch is not marked by somebody
else depends on where the owner is. `IInv` adds `Control` (what a tick holds at
each `pc`) and `Counting` (completions against attempts). The argument for
`SnapshotCurrent`: only `RowFailed` writes `attempts`, only on `cur[t]`, which is
in `held[t]`, and by `OneOwner` in no other batch. For `HandlerRunsBounded`: a
completion is one ahead of `attempts` only for the row its tick is at or for a
row that waits for nobody, and a row that waits again has been charged. For
`KnownEventsFailOnFaultsOnly`: the handler of a known event does not throw, so
a tick that is about to charge one has seen a failure nobody has been charged
for yet (`Charged`). For `DoneIsFinal`: where no answer of a `markDone` is lost,
a row in a batch is PROCESSING, and DONE is left by marks of a batch only.
There is a lemma for each action or
group of actions that move alike; the refinement has one for each action that
changes the ledger and uses `IInv` for the guards of `Settle` and `SendBack`.
Assumptions: `WorkerOf` is a function into `Workers`, `Ticks` is finite,
`BATCH_SIZE` and `MAX_ATTEMPTS` are positive, the backoff is built from natural
numbers.

For `FailedOnSchedule` two facts are carried along. `HandsDue`: the rows a tick
has selected or claimed have no wait left, because only due rows are selected
and nobody else sets a wait while the tick has them. `Paced(W)`: the time since
the first failure and the wait that is left add up to the waits before the next
attempt, or more. A failure adds its backoff to both sides; time moves from one
summand to the other. `W[n]` is what the retries before the n-th attempt wait in all; a
sum of variable length needs induction, so `W` comes with its recurrence
(`Schedule`), and `FailedAfterFourWaits` gives the `W` of the five attempts of
`main.ts`. `MaxAge` is where `age` stops counting: the statement is about an age
of `MaxAge`, so `MaxAge` must not exceed the sum.

For `OrphansStayBounded`, `Orphans` alone is not inductive: a batch becomes
stranded when a process exits, which counts against nothing at that step. So
`Stranded(n)`, where no process has more than `n` ticks, reserves the share of
every process that has been told to stop and still runs (`Budget(n)`), and is
spent when it exits; `AllStranded` is that for every such `n`. The size of what a stop
strands is the union of the batches of that process's ticks; it needs no
induction over ticks, because a row of a batch is given by its tick and its
rank in the batch (`RankInjective`), which is an injection into
`Ticks \X 0..BATCH_SIZE-1` (`BatchesBound`). `Batches` keeps what the ranks rely
on: a claim is what LIMIT leaves of itself, and a batch a part of a claim.

**Functions.** For `Select`, the loop invariant: `best` is the choice among the allowed
candidates before `i`. `Compare` keeps it because a later candidate replaces
`best` only with a strictly higher priority. For `ParseKey`, a text it accepts has
three pieces, and a sequence is given by its length and its elements.
`TruncatedForAll` is division: the first two of six digits are the fraction
without its last four.

**MockPayment.** `Verified` reduces an accepted delivery, cut or not, to an
attempt that was given out and a beginning of its amount (`DeliveryShape`); each invariant then is a case on the
order concerned. For `IdsUnique` the strengthening is that ids stay at or below
the counter until the first restart.

**HttpService, BillingCall.** `Lifecycle` says that the goroutines end with the
process, the listener is not serving while main drains, and requests need a
listener. `DrainCompletes` follows step by step: while draining, `Fatal` is false
or the listener is still at "boot" and has no request, signals are caught, and
`MainReturns` waits for `Idle` or the deadline. `CallsKeepLifecycle` shows that
a step of `CallNext` is a step of `Next` or leaves the service alone, which
carries all of this over to the calls. For `DrainIsLongEnough` the strengthening
is that a request that is open while main drains belongs to a call no younger
than the drain; a call that has waited as long as the limit stops the clock
until its timer has fired, so at `left = 0` nobody waits. `NothingIsTakenForDone`
needs only that no `Status` is a success, whatever the id. For `LimitIsAlwaysExact`
the path of an id of one segment is clean (`PathIsClean`), so the mux redirects
nothing, and the patterns match it segment by segment; and a body survives
`io.LimitReader` whole exactly if it fits. `ContractServed` adds that no other
pattern matches: the routes of four segments differ in a literal, those of six in
the last one, and the wallet's method is its own (`OneHandler`, `OneReached`);
and that a Go string or bool has room for all a schema accepts (`StructsCarry`).
TLC checks it for the ids of the run; the proof covers every other of one
segment, such as an id that is spelt like a segment of a route.

**ControlApi.** The present state of the database is in the history of every
open request; so when a query succeeds, "up" is.

**DocSync.** The invariant follows what the running hook is due to cover: what
it does not know of was unchanged against HEAD when it read, hence committed,
and commits only move HEAD forward. For `NothingIsMissed`, `Serial` says that with
one process at a time each noted edit not yet let through is in
`changed-files.json` or in the hands of the tracker about to put it there,
whatever else a shell command has edited. `AcknowledgementsHold`:
the version the recorded digest has for a file that is not hidden is the one of
`acked`; where the digest equals today's it is today's version, too.

**WebShell.** `AdminOnlyTyped` is inductive with the type of the history: links
out of a layout stay in it or lead home, and a new entry is one of those.
`OneActiveItem` rests on the type of the history, too: the first item of a
layout is active on its own path only, and of the others the second segment of
the path picks one (`ConsoleItem`), whether that is a page (`PageOf`) or not.
`LinksHavePages`, `NavigationReachable` and `KeysAreInFile` go through the tables
of the routes and of the locale once, for every location.

Model-checked only: liveness (`TypeDecidesOutcome`, `SignalEndsProcess`,
`CallReturns`, `BootSettles`, `RequestsEnd`, `SettlesUncommitted`), which the
prover does not reach under fairness. Every invariant and every action property
of the passing runs is proved. Out of the prover's reach altogether: ENABLED,
induction over data, and RECURSIVE operators, which no module uses.

## 6. Abstractions, and what is not modelled

- Outbox: handlers only log, so a handler succeeds or its type is unknown.
  `lastError` is written and never read. There is one clock: a skew between the
  worker and the database shifts due times by a constant nothing states.
  Unordered batches: `findMany` has no order, and any is allowed. A failure of
  the query's columns is decided by `TableColumns`.
- Router: filters are sets of deployments; `Select` is called once per run.
- ApiKey: hex texts are pieces without underscores. `SecretHMAC` and `VerifyHMAC` are calls of crypto/hmac.
- MockPayment: order numbers have no dot in them; nothing in the code makes
  order numbers yet. A cut before the amount is one case, since each throws.
- HttpService: header, idle and write timeouts of single connections are left
  out; `Answer` may happen at any time or never.
- BillingCall: a body is its size and the classes of its values, and one of the
  client's structs; JSON of other callers is left out. So are ids with "?", "#",
  "%" or a ".." segment, and what each of them does to the path. The request id of the gateway's middleware is a header
  nobody reads. Time moves in units of the client's limit, and no timer is late.
- ControlApi: which body of a registration or login ends in which status, and the
  CORS headers, are left out, because nothing depends on them; a pool whose
  database was down may fail any later query.
- DocSync: the agent's acknowledgement has the same reason each time, so that
  equal acknowledgements are equal files. Reading git and the tracked list is one
  step. The document checks (headings, links, ids, secrets, line budgets), the
  install command and `last-check.json`, which is written and never read, are
  left out.
- WebShell: query strings and trailing slashes are not told apart; a page is the
  keys of its texts; the theme flips in one step. Left out are the axios
  instance and the query client, which no component uses, `formatTokens` (Intl)
  and styling.
- Gateway HTTP API, gateway configuration, contracts and database package are
  partly modelled: as far as another part reads them. The middleware's 600 s
  context reaches no handler that waits, and the payload schemas, the shared
  error codes and thirty tables have no reader.
- Not modelled at all: the wallet, the adapters and the SSE parser, which are
  interfaces without behaviour; the shared configuration, which no package
  imports; the UI package, which re-exports; infrastructure and documents,
  which are read as the source of claims.

## 7. Plan

Done, in the order of importance: Outbox with its ledger, Router, MockPayment,
HttpService, DocSync, BillingCall on top of HttpService, ControlApi, WebShell,
ApiKey and MoneyFormat, each with its proofs. What is left:

1. The install command of `vibe_doctor.py`: which files it writes in which order,
   and what a failure in between leaves; the document checks as operators on
   abstract documents.
2. When the code exists: handlers of the gateway that call `ParseKey`, `Select`
   and the billing client (`GatewayRequest`, on top of `BillingCall`: a request
   that is cancelled between reservation and settlement); the wallet's
   reservations as an abstract ledger the billing API implements; retries with
   their idempotency keys; adapters and the SSE parser.
3. Proofs of what keeps the liveness properties going: the steps that a waiting
   call, a boot or an acknowledgement cannot lose, as action properties.
