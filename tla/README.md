# TLA+ verification of stripe-mock-pi

stripe-mock-pi is a stub of the Stripe API. It answers any request from the
OpenAPI specification and bundled fixtures, statelessly; this fork adds a
*stateful PaymentIntent layer*: a store of PaymentIntents, Charges and webhook
events per test session, a state machine that moves an intent through its life,
and a control plane (`/v1/_mock/...`) with which a test seeds, resets and drains
it. Every request runs in a goroutine of its own, so all of that is concurrent.

This directory models that layer and the way a request takes to it, from the
start of the process to the stateless response, checks the model with TLC and
proves the concurrent part of it with TLAPS. `PROJECT.json` is the index:
components, runs, mutants, the source lines behind every definition, hazards,
findings and theorems.

## 1. The system

| Component | State | Operations | Interacts with |
|---|---|---|---|
| Stateful store (`server/stateful.go`) | per session: PaymentIntents, Charges, FIFO of events, opt-in flag; one `RWMutex` | put, get (a deep copy), list, enqueue, drain, reset, opt in or out; each is atomic | everything below |
| PaymentIntent lifecycle (`server/paymentintents.go`) | none: pure functions on one object | confirm, capture, cancel, update, create, charge and event of a transition | run by the request handler |
| Stateful request handler (`maybeHandleStatefulRequest`) | local copies; the global `statefulActionMu` | create, confirm, capture, cancel, update, retrieve, list charges, retrieve charge | several store operations per request, so handlers interleave |
| Control plane (`server/control.go`) | none | reset, config, seed, list, drain, emit | the store, without `statefulActionMu` |
| Request pipeline (`HandleRequest`, `validateAuth`) | none | control plane, auth, version check, routing, parsing, validation, stateful or generic response | calls all others |
| Router (`initializeRouter`, `routeRequest`) | route table, built at start, in an order that differs from start to start | match a path, split ids | pipeline |
| Session identification (`sessionID`) | none | header, API key or default | store |
| Generator, data replacer (`server/generator.go`, `generator/datareplacer`) | fixtures, shared by reference | example object for a schema, id replacement, reflection of parameters | base object of creates, adoptions, seeds and charges |
| Expansions (`extractExpansions`, `parseExpansionLevel`) | none | parse `expand[]` | handler, generator |
| Parameters (`param/...`) | none | parse a query or form, assemble nested names, coerce by schema | pipeline |
| Specification (`spec/...`) | decoded document, validators | decode, validate | router, generator |
| Program (`main.go`), embedded data | options, listeners, files of Unix sockets | check options, load, open both listeners, restart | everything: all state above lives in its memory |

What makes the stateful layer hard:

* **Interleaving.** A transition is up to six store operations (load, find
  charge, put charge, enqueue, enqueue, put intent). Reads, creates and control
  requests do not take `statefulActionMu` and fall between any two of them.
* **Copies.** `getResource` returns a copy that is written back later: what
  keeps this from losing updates is only the mutex.
* **Order of writes.** The charge and the events become visible before the
  intent does.
* **Retries.** A confirm can be repeated after a decline or an authentication;
  charges of failed attempts must stay and live ones be reused.
* **Control requests in the middle.** reset, seed and drain run whenever a test
  asks, and "in system tests the app server thread and the test thread do hit
  the same session at once" (`stateful.go`).

* **The way there.** Which session a request belongs to, which route its path
  takes and whether it is simulated are decided from parts of it (the form of the
  key, escapes, doubled slashes) that a client may vary.
* **Two listeners, one after the other.** HTTP is served before HTTPS is opened,
  and ten options decide about both addresses.

What makes it correct: no intent settles twice, no answered change is lost,
terminal states are final, readers never see an intent whose charge contradicts
it, the events tell the store's story in order, every request is answered, and a
reset isolates one test example from the next; workers see their own layer only,
however they send their key; a command line that is accepted brings up what it asks
for; and the stateless response reflects what the client meant, keeps its schema and
its ids, and shows what was to be expanded.

## 2. Modules

| Module | Models |
|---|---|
| `PaymentIntent` | Objects, parameters and every pure function of the lifecycle: guards, transitions, the charge and the event of a transition. Constants, no variables. |
| `IntentLifecycle` | Abstract specification: the intents of a session are atomic objects, each change is one accepted request applied to the current value. |
| `PaymentIntentServer` | The handlers over the store: one action per store operation, plus the mutex. Properties, the inductive invariant `IInv` and the refinement of `IntentLifecycle`. |
| `PaymentIntentInvariants` | The inductive invariants `ChargeInv`, `EventInv` and `AmountInv`, relative to `IInv`: what a handler between two store operations has done to the charges and to the queue, and what the queue tells of amounts. |
| `ControlPlane` | Extends the server with reset, config, seed, list, drain and emit, on connections of their own, and with clients that learn ids from webhooks and listings. |
| `ControlPlaneInvariants` | The inductive invariants `ControlInv`, `SettleInv` and `EndingInv` of `ControlPlane`. |
| `FixtureSharing` | The one thing sessions share besides the mutex: the maps of the loaded fixtures, which generated and stored objects refer to and a seed's merge writes in place. |
| `ParamAssembly`, `ParamCoercion` | How the pairs of a form become values and how a schema types them: `nestedtypeassembler` and `coercer` as operators. |
| `DataReplacement` | Which fields of a generated response the parameters of a POST replace: `datareplacer` as operators. |
| `ResponseGenerator` | Expansions, generation from fixtures, synthetic values, lists and deletions, and the ids of the path put into the response: `generator.go` as operators. |
| `RequestParams` | From the pairs of a message, arriving one by one, to the response: assembled, coerced, validated, generated with the expansions among them and reflected, against the value the client meant. |
| `Startup` | `main.go`: the option check, the two addresses, what the operating system refuses, kills, restarts and sockets left behind. |
| `Router` | Doubled slashes, the table of routes with the freedom its unstable sort leaves, matching, ids of a path. |
| `RequestPipeline` | `HandleRequest` over `Router`: control plane, checks, route, opt-in, and the choice between the stateful layer and the generator, for the session of the request. |
| `Server` | Composes `Startup` and `RequestPipeline`: requests are served from the first listener on, and all state ends with the process. |
| `WorkerIsolation` | Abstract specification: every test worker has a stateful layer of its own, in terms of workers, not of sessions, headers and paths. `Server` implements it. |
| `PaymentIntentServer_proofs` | Theorems about types, the lock and lost updates in `PaymentIntentServer`. |
| `PaymentIntentRefinement_proofs` | `PaymentIntentServer` implements `IntentLifecycle`. |
| `PaymentIntentCharges_proofs`, `PaymentIntentEvents_proofs` | Theorems about intents and their charges, and about webhooks and the amounts they tell of. |
| `ControlPlane_proofs`, `ControlSettlement_proofs` | Theorems about reset, opt-in and seeds, and about how intents settle and end, with control requests between any two store operations. |
| `FixtureSharing_proofs` | Theorems about what sessions share. |
| `Server_proofs` | Theorems about the start of `Server` for all command lines, and about its routes for all tables of routes, and `Server` implements `WorkerIsolation`. |
| `MCPaymentIntentServer`, `MCControlPlane`, `MCFixtureSharing`, `MCRequestParams`, `MCServer` | Workloads and instances for TLC. |

### State

| TLA+ | Code |
|---|---|
| `enabled[s]`, `intents[s]`, `charges[s]`, `events[s]` | `sessionStore.statefulEnabled`, `.resources["payment_intent"]`, `.resources["charge"]`, `.events`; a session that was never written or was reset is an empty one |
| `lock` | `statefulActionMu` and its owner |
| `pc[c]` | where the goroutine serving client `c` stands: the *next* store operation it performs |
| `rq[c]`, `target[c]` | the coerced request and the id in its path |
| `pi[c]`, `ch[c]` | the local variables `pi` and `charge` of the handler |
| `serial[c]`, `issued` | request numbers, from which minted ids are taken |
| `reply[c]` | which response was decided on |
| `tpc`, `tarticle` | a seed or an emit between its two store operations |
| `delivered`, `resetAt`, `quiet`, `asked`, `controls` | history for the properties of `ControlPlane`; no action's guard but `IssueOnDelivered`'s and the bound's reads them |
| `seeded` | history too: the seeds that nothing has replaced and that raced no action |
| `fixture`, `md[c]`, `intents[s][id]` of `FixtureSharing` | the keys of the payment_intent fixture's `metadata` map; the metadata of the object a handler works on and of a stored intent: `Shared` when it *is* that map, else the keys of a map of its own |
| `unsent`, `params`, `body`, `stage`, `err` of `RequestParams` | the pairs `AssembleParams` has not read yet; the parameters so far, coerced at the end; the response; how the request ended (a response, a 500, a panic of the handler); it was answered 400 |
| `phase`, `options`, `env`, `listeners`, `files` of `Startup` | where `main` is; its command line; `PORT`; the address each protocol is served on; the socket files on disk, which outlive the process |
| `handlers[c]` of `RequestPipeline` | the request a goroutine serves, its route and ids, and how far it is |
| `enabled`, `stored[s]` of `RequestPipeline` | the sessions that opted in and the ids of their objects; `stored`'s domain are the sessions that exist |
| `up` of `FixtureSharing` | the process has not been ended by Go's check for concurrent map access |

### Grain

`statefulStore.mu` is held for exactly one operation of the store, so an
operation is one atomic action, and everything between two of them works on
local copies and is merged into the action before it. The deep copies of
`getResource`, `listResources` and `buildEvent` are values in TLA+; the code
mutates one stored map in place, the fixture's, and `FixtureSharing` models that.
There a merge takes two steps, and a handler that reads the map in between may
see the write, may not, or may end the process. `RequestPipeline` takes the opposite view
of the same code: a simulated request is one step there, because which object it
reaches and what it is taken for is the question, and `PaymentIntentServer` has
answered what happens inside. Responses are written before the deferred unlock runs, hence `Respond` unlocks.

### Data

An object is the record of the fields the lifecycle reads or writes.
`next_action` and `last_payment_error` are whether they are null. Payment
methods are one id per outcome of `magicPaymentMethods`, one minted id, and the
empty string. `randomID` never repeats an id, and a request mints at most one
intent and one charge, so the id is the request's number. A request parameter
that was not sent is `Null`; `payment_method` may be sent empty, which the code
treats as absent when it attaches and as a value when it copies.

In `RequestParams` a key is a sequence of tokens (brackets and names) that
`parseKey` reads with the code's automaton. Values are records tagged by their
kind, and a coercion returns both its result and what it leaves of the value it
was given, because the code coerces maps and arrays in place, also when it then
gives up. An expansion is a sequence of names, a URL a sequence of segments. The validator is a library's: `Conforms` stands for it, with the types
of values but not the members of enums or required fields. The schemas are the shapes of `anyOf`, array, map and object that the
request schemas of the bundled specification contain, and the responses have, for
a field of a parameter's name, the shapes its response schemas contain. The routes
about things and parts have, between them, every construct that the generator
treats differently: expandable references to four resources, a nullable object
that can be expanded, lists with and without a pattern of their URL, a search
result, a deletion, and a field without a fixture.

In `Startup` an address is an option's value: a port, port 0 or the path of a
socket. In `Router` a path is a sequence of segments. A segment is a value, and
what its characters are (plain, escaped, malformed) a class. In `RequestPipeline`
a key is its three parts and whether a colon follows, and an `Authorization` header
a scheme and a key.

## 3. Runs

| Run | Question | Bounds |
|---|---|---|
| `mixed` | With every kind of request at once: are the stored objects consistent to a reader at every moment, does an answer show what is stored, do the intents behave atomically (`LifecycleSpec`), and how can a capture exceed its authorization (`OvercaptureTakesTheWhole`)? Also checks the inductive invariants `IInv`, `ChargeInv` and `AmountInv` of the proofs. | 2 clients, 3 requests |
| `lifecycle` | Over retries, declines, authentications and racing captures and cancels: one live charge per intent, one settlement, events in the promised order and in agreement with the store, terminal states final, and, as this workload updates no amount, no capture above its authorization. Also the inductive invariant `EventInv`. | 2 clients, 4 requests |
| `liveness` | Is every request answered, whichever way the handlers leave the critical section? | 3 clients, 3 requests |
| `control` | With every control request at any point of a handler: what reset, opt-in and seed promise. Also the inductive invariant `ControlInv`. | 1 client with 2 requests, 4 control requests |
| `settle` | Do drains, emits and resets ever make a settlement reach the test twice, or two webhooks that end one intent in two ways? Also the inductive invariant `EndingInv`, of which `SettleInv` is a part. | 2 clients, 3 requests, 2 control requests |
| `sharing` | Do creates, adoptions, updates, generic responses and seeds without nested overrides ever show a session what another one sent, or what it sent before a reset? Also the inductive invariant `SharingInv`. | 2 sessions, 2 clients, 4 requests |
| `params` | Does a handler get the parameters the client meant, whatever the order of the pairs, and exactly when the encoding can tell? `[]` cannot when an object does not start with a scalar key of the object before it; then objects merge, but no value is dropped. Does the response reflect valid input of a compatible type, keep the types of its schema whatever came in, show exactly the expansions asked for, and mention the ids of the path and not those of the fixtures? | nesting of arrays and objects up to 4, arrays up to 3, every order of the keys of an object, two top-level names; 20 shapes of reflecting response; 7 routes about things and their parts, with every set of at most 2 of 18 expansions |
| `server` | Does every accepted combination of options come up, and where? Whatever requests of other workers come between, and however it sends its key, does a worker see its own layer and no other (`WorkersAreIsolated`)? Is every request taken for what it asks for, and refused exactly when it is not in order (`RequestsAreUnderstood`)? | every combination of the ten options, one value each besides shared addresses, and `PORT` unset, set, or no number; restarts; three workers, two clients with one request each in progress, 13 routes, an intent and a charge |
| `overcapture`, `early_confirm`, `shared_fixture`, `startup` | Four statements of the docs, comments and tests that the code does not keep; see section 6. | smallest that shows it |

`MaxRequests` and `MaxControls` bound the counters of issued requests and are
the only bounds on behaviours. Three requests are enough for a create and two
racing actions on it, or two creates; four for decline, retry with an
authorization, and two racing captures. Sessions share nothing but the mutex and the fixtures, so
the instances have one session, except those of `FixtureSharing`; the proofs are for any number. Amounts are the
fixture's (1099), one above it by an update (5000), a capture of less (700) and one
of a number between the two (2000), which is what the comparisons in the code tell
apart. Client symmetry is used where no liveness
property is checked. `Done` and `ControlDone` let a behaviour stop only when all
requests of the bound were answered, so TLC's deadlock check is on everywhere.

The bounds of `server` follow the same rule. An option's value matters only in
whether it is given and whether it is the address of the other protocol, so one
value and a shared one are enough. Requests are sent in two settings
(`ClientSettings`), a process that stays up and one that serves HTTP and then ends
because HTTPS cannot be opened: what a request does depends on the process only in
that it runs. Three workers are what session identification distinguishes: a key,
another key, and the first key with a session header. Requests come in every
form of the key (`Bearer`, `Basic`, with and without a colon), and with one defect
for every reason to refuse them. In `control`, one client is enough, for two
clients beside drains, emits and resets are in `settle`.

In `params`, `MaxSliceSize` is 1 instead of 1000, so that arrays of two and three
objects lie on either side of the bound.

Each property is paired in `PROJECT.json` with a definition `Slip...` that makes
a plausible mistake in the code's place (the lock not awaited, a charge not
reused, a field not reset), and with which TLC finds the property violated.

### Fairness

`FairSpec` has weak fairness of each handler's steps: the Go runtime keeps
scheduling a runnable goroutine. For taking the mutex it has strong fairness:
`sync.Mutex` switches to starvation mode and hands itself to a waiter that has
waited for more than a millisecond. No fairness is assumed of the clients: nobody
has to issue a request.

## 4. Proofs

Every theorem holds for any clients, sessions, ids, workloads and bounds that satisfy
the named assumptions at the end of this section. An invariant is proved by a
strengthening that every step keeps; TLC checks each strengthening on a run first. The
type invariants `TypeOK`, `ControlTypeOK` and `SharingTypeOK` are the first conjuncts of
`IInv`, `ControlInv` and `SharingInv`, and are checked with them.

### The stateful layer

| Theorem | States |
|---|---|
| `TypeCorrect`, `Invariance` | `Spec => []TypeOK`, `Spec => []IInv` |
| `AnswersAreStored` | a request that changed an intent answers with what is stored |
| `TerminalFinality` | no step changes the status of a stored intent that succeeded or was canceled |
| `IntentsAreAtomic` | `Spec => LifecycleSpec`: the refinement of `IntentLifecycle` |
| `ChargeInvariance`, `FieldsFollowStatus` | `[]ChargeInv`; the fields of a stored intent are those of its status |
| `IntentsAreBacked`, `OneLiveCharge` | a stored intent's charge exists and agrees with it; it has at most one that moved money |
| `ExpansionsKeepUp` | a response never shows a charge behind the intent beside it |
| `EventInvariance`, `SettledOnce`, `CapturesFollow`, `ChargesAnnouncedFirst` | `[]EventInv`; one settlement, and events in the promised order |
| `QueueAgrees` | with no action on an intent in progress, the last event about it tells what is stored |
| `AmountInvariance`, `OvercapturesAreWhole` | `[]AmountInv`; a capture exceeds the authorization its webhook told of only by taking the intent's whole amount |
| `CapturesWithin` | if `AmountsFixed`, no capture exceeds its authorization |

`TypeOK` is not inductive: that `PutCharge` stores a charge needs to know that
`pi[c]` is an intent at that point, and so on. `IInv` adds, per handler, what its
locals are at each program counter (`HandlerOK`); that the lock is owned by the
one handler in its critical section (`LockOK`); that the id of a create is known
to nobody else (`PrivateOK`) and nothing is stored under it yet (`FreshOK`); and
the heart of the argument, `WriteOK`: what a handler is about to store is its
request applied to *what is stored now*, so no update can be lost. `WriteOK`
survives another handler's `StoreIntent` because that handler either holds the
lock or creates under an id that is its own. `TerminalIsFinal` follows: a store
over a terminal intent is an accepted request applied to it, and only updates
are accepted then, which keep the status. So does the refinement: `StoreIntent`
is the atomic step of its request, and every other action changes no intent.

`ChargeInv` is proved with `IInv` at hand. A transition writes the charge before
the intent, so "the stored intent agrees with its charge" is false in between
unless it is said by whom: `CopyChargeOK` follows the charge in a handler's copy
(the loaded intent's until the handler has put one, then the one under its own
serial number), `StoredChargeOK` lets a charge be one step ahead of its intent
while a capture is being recorded, `LiveOK` makes a live charge the one its intent
names or will name, and `UnusedOK` keeps the number a request may mint free.
`EventInv`, with both at hand, does the same for the queue: an event is backed by the
store or by a handler that is about to store what it announced, so it is ahead of the
store by one transition and never behind.

`AmountInv` relates two webhooks that may lie any number of requests apart: what the
success of a charge told of and what its capture took. The code compares
`amount_to_capture` with the intent's `amount_capturable`, never with a webhook, so
the proof follows the number: the success of a charge is told only by the handler
that minted it (`MintedOK`), of the amount that it then makes capturable; an
update changes the amount and leaves what is capturable (`Covered`); and no charge is told
of before it exists (`ToldOK`), so a retry cannot tell of an old one.
What is left is a capture that names no amount, which takes the whole. `CapturesWithin`
shows that this is the only cause of finding 1: its hypothesis `AmountsFixed` says
that no update of the workload sends an amount, and the run `overcapture` shows that
it cannot be dropped.

### The control plane

| Theorem | States |
|---|---|
| `ControlTypes`, `ControlInvariance` | `[]ControlTypeOK`, `[]ControlInv` |
| `ResetsIsolate` | `[]QuietResetIsolates` |
| `UnaskedKeepsNothing` | `[]NotAskedNothingStored` |
| `SeedsAreFound` | `[]SeedsGovern` |
| `SettleInvariance`, `SettledWebhooks` | if `NothingRewound`, `[]SettleInv` and `[]WebhooksSettleOnce` |
| `EndingInvariance`, `WebhooksAgree` | if `NothingRewound`, `[]EndingInv` and `[]WebhooksDoNotContradict` |

`IInv` does not carry over: a reset or a seed takes no lock, so it makes the copy of
a handler in the middle stale, and clients may come by an id in a listing or a
webhook. `ControlInv` therefore follows ids instead of copies. After a quiet reset
nothing older than it is in the store, *nor on its way there*: in a request's
target, in the charge a handler is about to put, in an emit between its two store
operations, or in the delivered webhooks on which a client may act (`QuietOK`). A
session that nobody asked for has no handler past the gate (`UnaskedInv`). A handler
that builds on a seed was accepted for what was seeded (`SeedsGovern` is inductive
with these).

`SettleInv` is what the lock still gives beside control requests. `LockOK` stays.
Instead of `PrivateOK` it has a `MintedOK` of its own, that the id of a create is known to no
other request *until the intent is stored*, for a listing shows it from then on,
before the create is answered; instead of `WriteOK`, `CopyOK`: a copy was accepted for
what is stored, *unless a reset has removed it*. Its `ToldOK` says that a delivered or queued event of a
charge tells the truth for good: its intent is in such a status, or a handler
that has announced its charge is about to bring it there. A second event of the same
kind would need a request accepted for an intent that is already there. After a
reset there is nothing left to contradict, so the old webhooks are forgotten with
the intents. The hypothesis `NothingRewound` says what a test must not do: seed an
intent (which may rewind one that has settled), emit the events of charges by
hand, or let a client act on an id before its create has stored the intent. Without
the last the property is false, and that is the finding `early_confirm`; the run
`settle` is an instance of the hypothesis.

`EndingInv` covers the webhooks of intents too, and those a test asks for by emit. An
emit reads the intent in one store operation and enqueues it in another, and any
number of requests may fall in between; what it shows may be out of date. `EndingInv`
says that an *end* it shows is not: what an emit has read of an end stays true, in
the store or in the copy a handler is about to store, until it is enqueued and after.
That copy is why it needs `SettleInv`: the handler's request was accepted for what
is stored, and none is accepted that changes an end. A reset
that finds an emit in progress leaves it with a copy of what is gone, and the
same id may then be adopted and end otherwise, so both formulas speak of sessions
whose resets found nothing in progress (`quiet`).

### Sharing, start and routes

* `SharingTyped`, `SharingInvariance` and `FlatSeeds` (`FixtureSharing_proofs`): as long
  as no seed overrides a nested object, no session is shown what another one sent
  and no process dies of a racing merge. `SharingInv` says why: the fixture's map
  stays as it was loaded, and every other map in the store or in a handler's hands has
  keys of its own session only.
* `ListenersFollowOptions`, `SilenceExplained`, `ProtocolsFollowOptions` and `StartsUnlessClashing`
  (`Server_proofs`), for any command lines, values of `PORT`, routes, workers and
  requests: which listeners come up, and that a process that is up without a
  listener was asked for HTTPS and, by `-http` or `-port`, for HTTP. These properties
  speak of the state in which the process is up; that the listeners are then the
  addresses of the command line depends on how `main` got there. `StartInv` records it
  phase by phase: nothing listens before the first listener is open, only the
  command lines that passed the check get past it, HTTP alone is listening while
  HTTPS is being opened, and `AddressesStay` says that no step between changes what
  the addresses are. The lemmas `HTTPListener` and `HTTPSListener` unfold the ordered
  choices of the code. `StartsUnlessClashing` is an action property: a step that aborts
  the process after its options passed the check does so over a socket left on disk,
  a `PORT` that is no port, or one address for both protocols, and it names every way
  to get that: one value given to both, a value that is `PORT` or the other
  protocol's default, or `-unix` or `PORT` beside neither of `-http` and `-https`.
  `OneAddress` shows that there is no other, by the choices of both functions
  against each other under an option check that has passed.
* `LiteralsWin` (`Server_proofs`): for every table of routes and every order its
  unstable sort leaves, a request takes the route with a literal segment where another
  one that matches has a parameter. The code sorts by the *number* of
  parameters only, so this needs `OverlapsAssumption`: of two patterns of a verb that
  some path could match, one has parameters only where the other one has. It was
  checked for both bundled specifications: all ten pairs that overlap are of
  that kind (`/v1/charges/search` and `/v1/charges/{charge}`). For `/a/{x}/{y}/d` and
  `/{w}/b/c/d` the property would be false: the path `/a/b/c/d` takes the second.

* `WorkersIsolated` (`Server_proofs`): `Server` implements `WorkerIsolation`, for any number
  of workers, clients, kinds of requests and command lines. The abstract
  specification knows no sessions, headers or routes; the mapping reads a worker's
  layer off the session `SessionOf` gives it. The steps that read a session
  after another request may have switched or emptied it (opt-in, then the switch,
  then the objects) are steps of the worker on its layer as it is at that moment,
  since what a handler keeps between them (`HandlersInv`) is constant: its request, the
  route and the ids. `SessionKnown` shows that every way of sending a key leads to the one
  session, `Writes` and `Empties` that a write or a reset of it touches no other
  worker, `OpsKnown` that the stateful layer does what the request asks for and
  nothing when it reads what the session does not hold.
  The theorem has one hypothesis, `AllUnderstood`: each request that may be sent is
  taken for what it asks for by the redirect, the control plane, the checks and
  the router. This depends on the routes and on the requests, not on any state;
  the run `server` checks it of its instance (`RequestsAreUnderstood`). What it says
  nothing about, and the theorem shows, is whose state the request then meets.

### Assumptions

The distinguished values differ from the data (`DistinguishedValues`,
`ClientsAssumption`, `EventTypesAssumption`, and the first four conjuncts of
`SharingAssumption`); the bounds are naturals (`BoundsAssumption`, `ControlAssumption`,
`SharingAssumption`); the workload consists of requests (`WorkloadAssumption`), the
seeds of intents (`SeedsAssumption`) and the patterns of segments
(`PatternsAssumption`); the default ports are given, differ and are ports (`DefaultsAssumption`), the path of a
socket is no port (`SocketsAssumption`) and `-http` and `-https` are switches (`SwitchesAssumption`); the requests are records that an
absent value is not (`RequestsAssumption`), the minted ids are ids (`IdsAssumption`), the
workers' sessions differ (`SessionsAssumption`: two workers with one key are one
worker), and a request with a valid key, or to the control plane, carries its
worker's key or session header (`KeysAssumption`: a `Bearer` key with a colon after it is
another session, as in the code); and `OverlapsAssumption`. TLC evaluates all of them.

### Only model-checked

* `EveryRequestAnswered`: it is liveness, and the prover has no `ENABLED`;
* `RequestsAreUnderstood`, which is about the instance's routes and requests;
* everything about parameters and the generator (`RequestParams` and the modules
  under it): their definitions recurse over values, and what a recursive definition
  computes for every input is beyond the prover;
* the findings, which are counterexamples.

## 5. What the model leaves out

* emit's explicit `type` parameter may be any text; `EmitTypes` takes it from the
  types the server itself fires.
* Storing under an id that the seed's body gives is modelled for ids the
  application knows from elsewhere (`ForeignIds`), not for ids of creates.
* Failures of `generateResourceBase`: it fails only when the bundled
  specification lacks the resource.
* Nested objects, outside `FixtureSharing`: objects are flat values. There the
  `metadata` map stands for every free-form object of the fixture.
* Splitting and unescaping of query strings and bodies, which of them a pair comes
  from, multipart bodies, and JSON-schema validation, which a library does. In
  `RequestPipeline` whether the data is in order is an input, and `RequestParams`
  computes it.
* Of the generator: binary responses, the characters of a new id (`FreshID` gives
  one that is different), and the order in which Go visits a map where two fixtures
  share an id.
* Arrays of expandable items outside lists, such as `discounts`, and the ends and
  queries of URLs: the code leaves them alone, and `ExpansionsAreHonoured` and
  `IDsAgree` say so.
* Certificates, `-version`, and shutting down otherwise than by being killed.
* What a PaymentIntent goes through in `RequestPipeline`; `PaymentIntentServer` has it.
* *Not modelled at all*: decoding the specification and validating against it
  (a library's work over data), the embedded data, vendored libraries.

## 6. Findings

1. `overcapture`: a capture without `amount_to_capture` takes the current
   `amount`, which an update may have raised after the authorization. `CapturesWithin`
   and `OvercapturesAreWhole` prove that nothing else makes a capture too large.
2. `early_confirm`: `createPaymentIntent` announces its id before it stores the
   intent and outside `statefulActionMu`. A client that confirms the id it read
   in a drained `payment_intent.created` settles an adopted intent, the create
   overwrites it, and the next confirm charges again.
3. `shared_fixture`: `generateInternal` hands out the fixture's `metadata` map
   itself and `mergeMap` writes a seed's metadata into it, so an object of
   another session carries it, and no reset removes it. `FlatSeedsIsolate`
   shows that seeds with nested overrides are the only cause.
4. `startup`: `-https -port <p>` passes the option check and is listed as valid by
   `main_test.go`, but each protocol leaves the place to the other and the process
   listens on nothing. `SilentOnlyWhenBothGiveWay` shows, and `SilenceExplained`
   proves, that only `-https` with `-http` or `-port` does.

Observations on the way, of which the code's documents say nothing or the runs show
the limits:

* A request in progress during a reset writes into the session after it.
  `QuietResetIsolates` shows that this is the only way. An action that read an
  intent before it was seeded stores over the seed; `SeedsGovern` covers every other
  seed.
* The merge into a fixture's map runs under no lock, beside handlers that read it:
  Go ends a process that it catches at that (`Race` in `FixtureSharing`). Ids are
  distributed in place too, also into maps shared with the fixture, such as the
  meter of a billing alert.
* `main.go:248` checks `-http-addr` where `-https-addr` is meant, so `-port` with
  `-https-addr` is accepted. `-unix`, or `PORT` in the environment, sends both
  protocols to one address, and the process ends after serving HTTP for a moment.
  A Unix socket's file left by a killed process keeps the next one from starting.
* `validateAuth` accepts a Basic key whose third part is empty but for the colon.
* What a POST to a PaymentIntent means is read off the end of the path by the text of
  the *unescaped* id.
* Expanding a field without a fixture panics where its schema requires a property
  given by reference: 113 pairs of a route and an expandable field of the bundled
  specification. `TestResourcesCanBeGeneratedAndExpanded` is skipped.
  `ExpansionsAreHonoured` bounds it: only requests with expansions die.
* `SearchStrings` finds a place for every name that sorts before the last expandable
  field, so only names after it are refused.
* Ids at the end or in the query of a URL, and the `id_123` that stands for a
  placeholder, stay the fixture's.
* An id sent for an expanded field replaces the expanded object
  (`datareplacer.go:110`).

## 7. Plan

1. *Done*: the stateful layer (`PaymentIntent`, `PaymentIntentServer`,
   `IntentLifecycle`, `ControlPlane`, `FixtureSharing`); parameters, generator and
   data replacer (`RequestParams` and its operators); the process (`Startup`,
   `Router`, `RequestPipeline`, `Server` with `WorkerIsolation`). Proved: every
   safety property and the refinement of `PaymentIntentServer`, every property of
   `ControlPlane` and `FixtureSharing`, which listeners come up and what keeps them
   from it, which route wins, and the refinement of `WorkerIsolation`. Left to TLC
   are the properties of section 4's last list.
2. *Lemmas*: what `DoubleSlashFix` leaves of a path, and which ids a route gives.
3. *Smaller extensions*: what an id sent for an expanded field does to it, the
   sources of a message's pairs.
