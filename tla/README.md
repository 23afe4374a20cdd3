# Democratic AI: a verification project

TLA+ models of the platform's stateful services, translated from the Python
source and checked on small instances with TLC; their safety is proved with TLAPS.
Paths below are relative to the repository; "hub", "billing", "auth" and
"gateway" stand for `core/mcp/hub_server.py`, `core/billing/billing_service.py`,
`core/auth/auth_service.py` and `api/gateway.py`, and "SDK" for
`sdk/python/src/democratic_ai/module.py`.

## 1. The system

| Component | State | Operations | Module |
|---|---|---|---|
| MCP hub (hub) | `modules`, `capabilities_index`, `routing_cache`, `websocket_connections`, `stream_managers`; per connection a handler coroutine | connect, message handlers, routing, broadcast, sends, heartbeat monitor, cleanup | `MCPHub` |
| Usage metering (billing) | `usage_buffer`; tables `usage_events`, `usage_aggregates`; Redis counters; partitions | `track_usage`, flush, aggregate, start, stop | `UsageMetering`, `UsageLog` |
| Subscriptions and invoices (billing) | tables `subscriptions`, `invoices` | `create_subscription`, the invoice generator | `Invoicing` |
| Payments (billing) | tables `invoices`, `payments`; Stripe | the payment sweep, `process_payment` | `Payments` |
| Tokens and sessions (auth, gateway) | per process `sessions_cache`, `token_blacklist`; table `sessions`; Redis keys | login, refresh, revoke, verify, the gateway's check | `AuthTokens` |
| API keys (auth) | table `api_keys`, Redis cache | create, validate | validation in `Gateway` |
| Users, tenants, permissions, audit (auth) | tables, one row at a time | create, update, check | `is_active` in `AuthTokens`, connections in `ConnectionPool` |
| API gateway | `request_cache`, `circuit_breakers` | execute a module, stream, WebSocket relay | `Gateway`; the check of a token in `AuthTokens` |
| Connection pools (auth, billing) | 20 connections each | acquire, release, by every operation of the two services | `ConnectionPool` |
| Pricing and rate limits (billing) | table of tiers | cost of usage, hourly limit | the limit, in `Gateway` |
| Module SDK | connection, `connected`, `message_handlers`, the message loop | connect, handle a request, call a module, disconnect | `SdkModule` |
| Client SDK, example module, proto, deployment | none | | not modelled |

**How they interact.** Modules connect to the hub by WebSocket and route
messages to each other through it. The gateway authenticates a request with its
own `AuthService`, counts it with its own `BillingService` and passes it to its
own `MCPHub` (gateway 105-117). `docker-compose.yml` also runs an auth service
and a billing service (268-330), so several processes hold private copies of
the same state in memory over one database and one Redis. Nothing uses a
database transaction that spans two statements.

**What is hard.** Inside a process, everything is asyncio: code between two
awaits that suspend is atomic, and at each await any other coroutine may run.
Between processes nothing is atomic but a statement. The hard behaviours are
therefore: state read before an await and used after it (hub sends, billing
flush, the two background generators); private caches over shared tables
(sessions); a failure or a crash between two steps of one operation (revoke,
refresh, charge and record, end and insert a subscription); reuse of an id while
its old handler still runs (hub); and periodic tasks that must make progress and
must not repeat what was done. `PROJECT.json` lists each at its line.

**What makes each component correct.**

* Hub: the registry names live handlers only; load balancing counts exactly the
  sends in flight; the cache names registered modules and the index all they
  announced; answers go back where they came from; the dead and the silent are
  forgotten, and nobody else but by a reconnection under its id.
* Metering: an event is stored at most once, and exactly once unless it is given
  up with a failure; `usage_buffer` is bounded (the batches that await their
  inserts are not); an aggregate is not counted twice.
* Invoicing: one invoice per tenant and month, and no subscriber without one.
* Payments: a process does not ask again for money it has booked; nothing is paid
  without the record of an intent; money that moved is booked unless a call failed.
* Gateway: a breaker is closed only while its service is within the limit of
  failures, and stays open only as long as failures keep coming; cached answers
  are bounded in number; an expired key stops working.
* Pools: no set of operations waits for each other's connections for ever.
* SDK: every call ends, every request is taken up, and no call but one whose send
  did not return leaves an entry behind; a live connection is known as one.
* Tokens: what login hands out works everywhere until it expires or is revoked;
  what was revoked or exchanged stops working.

## 2. The modules

Each module names the operation of the source above or beside each action, and
`PROJECT.json` maps each definition to its lines. Three conventions hold
throughout: an action is the code up to the next await that suspends; data that
no property tells apart (payloads, amounts, metrics, wording) is left out; and
an operator introduced by "Mutant:" is a plausible mistake in the operator that
follows it, used only to show that a property would notice it.

* **`MCPHub`** Per connection: where its handler is (`phase`), whether the
  socket is up (`open`), its local `module_id` (`mid`), the send it is suspended
  in (`send`) and the `current_load` of its `ModuleConnection` object (`load`).
  Per module id: the registered object (`modules`) and the fields reached only
  through the registry (`caps`, `status`, `age`). The load is kept by object
  because `_send_to_module` holds the object across its await (363-383); this is
  what the load property is about. A peer may present an id while a handler still
  holds it, as nothing in hub or SDK prevents; the history variable `contested`
  has the ids for which it happened, so that properties can say how far the
  damage goes. A broadcast is modelled with its iterator: the ids left, keys
  deleted or inserted meanwhile, and the size check that raises.
* **`UsageMetering`** One process. A call of `track_usage` is `Track`, then
  possibly the insert of a batch, then `Count`. The aggregator task is `Wake`, an
  insert, `Aggregate`. Inserts succeed, fail, or commit with the answer lost.
  Partitions are intervals of months in a scaled calendar.
* **`UsageLog`** What metering promises, without buffer, batches or tasks: a
  recorded event is held, then stored once or given up, and not held for ever.
  `UsageMetering` implements it (`IsLog`): `held` is what the buffer and the
  batches have, `stored` the rows, `lost` what was dropped, `report` the totals.
* **`Gateway`** One process. A request validates its API key (three awaits),
  checks the rate limit, passes breaker and response cache at once, asks the hub,
  tracks its usage, and stores its answer and tells the breaker at once. Every
  await may raise, and `_execute_module` counts whatever it catches as a failure
  of the module asked for, its own refusals included. A clock is kept only as far
  as the code looks at it: whether the last failure is recent, an entry fresh, a
  key expired. Hub and metering are what a caller of them sees: an answer or an
  exception.
* **`ConnectionPool`** The skeleton of each operation of both services: the order
  in which it acquires and releases connections. Operations with one order are
  one. An exception returns what the blocks it leaves have acquired; the two
  sweeps catch it and go on.
* **`SdkModule`** Several modules, each with the sockets of its successive
  `connect()` calls. A socket has an inbox and a loop of its own, which reads it to
  its end though a later connection has replaced it; `socket`, `connected` and
  `handlers` belong to the module, and what is sent goes out on the last socket.
  The model does not wait for a closure before it connects again, because
  `connect()` does not. A call is made by the application or by a handler; a
  handler that calls holds up its loop. Its send may raise at once, whatever the
  state of the socket (`json.dumps` is in the same statement), or be cut off while
  it is suspended. Closures are of two kinds because `async for` over a socket
  raises for an abnormal one and merely ends for a normal one.
* **`AuthTokens`** Several processes. A login or a refresh is a job that goes
  through its awaits; revocations and verifications likewise, so any two may
  overlap. `revokedAt` and `granted` are history variables for the properties.
* **`Invoicing`** Several processes run the generator; callers create and
  replace subscriptions meanwhile.
* **`Payments`** Several processes run the sweep over invoices that fall due.
  The steps of `process_payment` are separate actions, because each is an await
  and each may fail; `stripe.PaymentIntent.create` is synchronous but may fail
  after the intent was confirmed. The code looks at nothing of the intent but
  whether the call raises. `intents` therefore counts intents, `moved` has the
  invoices whose money an intent moved, and these are two things: an intent may
  move money at once, later (`Settles`, status processing), or never.
* **`MCPHubMC`, `AuthTokensMC`, `InvoicingMC`, `PaymentsMC`, `GatewayMC`,
  `SdkModuleMC`** Symmetry sets, state constraints and constant functions for TLC;
  the others need none.
* **`MCPHubProofs`, `PaymentsProofs`, `UsageMeteringProofs`, `SdkModuleProofs`,
  `GatewayProofs`, `ConnectionPoolProofs`, `InvoicingProofs`, `AuthTokensProofs`**
  Theorems and their proofs (section 4).

## 3. The runs

Every state constraint and every bound is listed here. CHECK_DEADLOCK is off in
all runs, because in every model the environment may fall silent: connections,
calls, tokens and months are finite sets that can be used up.

| Run | Instance | Shows |
|---|---|---|
| `hub_overlap` | 2 ids, 2 connections, no capability, 1 stream, fairness | Load equals sends in flight, every entry has a running handler, only its own end, silence or a rival handler of the id unregisters a connection, closed connections are forgotten, silent modules dropped |
| `hub_index` | 2 ids, 3 connections, 1 capability, no stream; `Lively` | The cache names registered modules, the index all they announced and else only contested ids, and replies stay with the id that asked |
| `metering` | 3 calls, buffer of 2, months of 2 days, 3 days, failures, fairness | No event is duplicated or vanishes, `usage_buffer` is bounded, and the service is the log of `UsageLog` |
| `auth_tokens` | 2 processes, 3 access and 3 refresh tokens; `FewOrExchanges` | Revocation, sessions, login, overlapping refreshes |
| `auth_refresh` | 1 process, 2 tokens | Violated: a refreshed token is refused |
| `auth_revoked` | 2 processes, 1 token | Violated: a revoked token is let in elsewhere |
| `invoicing` | 2 generators, 3 subscriptions of 1 tenant, 3 invoices, 2 months | One invoice per generator, no monthly subscriber missed |
| `payments` | 2 sweeps, 2 invoices, 2 subscriptions, 2 intents each; `OneFails` | One intent of a process for an invoice unless a call failed, paid means recorded, money that moved is booked unless a call failed |
| `payments_unsettled` | 1 sweep, 1 invoice | Violated: an invoice is paid though no money moved |
| `gateway` | 2 requests at a time, 1 key, 3 targets of 1 module, breaker opens at the third failure and closes at the second success, cache of 2, fairness | Breaker and cache are consistent, an expired key dies, traffic alone keeps a breaker open |
| `pool` | 3 tasks, pools of 2 and 3 connections, fairness | Stuck only under a load as large as the pool; below it every operation ends |
| `sdk` | 2 modules, 2 sockets between them, 3 calls, 1 of them by the application; `FirstConnects`; fairness | The table has the calls under way and those whose send did not return, a live connection is known as one unless another is gone, nobody waits for ever |

**Why the bounds are enough to see the interesting cases.** Two ids and three
connections give a takeover of one id next to an uninvolved module, with a third
connection that takes over or sends. `hub_overlap` has two connections only, which
is enough for a takeover, because temporal properties forbid symmetry; it has
streams and no routing by capability, `hub_index` the reverse. `Lively` keeps
`hub_index` to states in which one module at a time is late or marked offline and
none stale; what follows from long silence is in `hub_overlap`. The invariants of
both are proved for any number of ids and connections (section 4). A buffer of two
with three calls has a full flush, a partial one, and an overlap of both; months of
two days put a day's events on both sides of a month's end and keep the code's "32
days" (one more than the longest month) as `DaysPerMonth + 1`. `FewOrExchanges`
unites two instances. Two tokens (`Few`) have one of a revocation and an expiry,
and one verification at a time, which changes nothing another reads, of those that
begin after a revocation has returned; the others say nothing. Three tokens
(`Exchanges`) are a login and two overlapping refreshes of what it handed out,
without revocation, verification or expiry, which do not touch refresh tokens; that
the third to be generated is `LastToken` loses nothing, since tokens not yet
generated are alike. `Invoices` caps how many invoices can be made, so a state with
all used up ends; three are enough for a repeat in one month or in both. `MaxMonth`
and `MaxDay` bound the calendar. `MaxIntents` bounds the intents of one process for
one invoice; two are enough for a repeated one. `OneFails` lets the calls of only
one of the two invoices fail; the other is in the way. Three subscriptions of one
tenant let two racing upgrades leave two active ones. Symmetry is used in safety
runs only. Two requests and three failures let a request admitted while a breaker
was closed fail when it is half open; a cache of two with three targets must evict.
The scaled limits keep the order of the code's, and both counters stop one beyond
theirs, since nothing but the comparison reads them. `Invoicing` of
`ConnectionPool` nests three deep, so a pool of three is the smallest it can pass
through alone, and two logins fill one of two; three tasks are one more than it
takes. Three calls give a cycle of two SDK modules (the application asks one, whose
handler asks the other, whose handler asks back) and a handler that asks its own
module. Two sockets are one for each module, or an old and a new one of the same;
`FirstConnects` has the modules, which are alike, in the order in which they
connect.

**Fairness.** `hub_overlap`: the event loop resumes every coroutine that can
run (weak fairness of acknowledgments and of sends, which drain or fail because
the websockets library pings its peers and closes those that do not answer), and
the two periodic tasks are loops that catch every exception (505-522, 538-556).
`Finish` has strong fairness: a handler whose socket is closed first works
through the messages buffered before, of which there are finitely many, although
the model does not count them. Nothing is assumed of peers. `metering`: inserts
are answered or fail, and the aggregator is a `while True` that catches every
exception (829-844); nothing is assumed of callers, nor that the service comes
up again after it stops. `gateway`: every await of a request returns or raises,
and time passes, for breakers and for keys in Redis; nothing is assumed of
clients or of what the hub answers. `pool`: statements are answered or fail, and
an acquisition has strong fairness because asyncpg serves those who wait in the
order they came; this does not assume that a connection is ever free. `sdk`: the
event loop runs what can run, a timer fires, a handler comes to an end apart from
its calls, a send drains or its socket closes, and the hub answers a registration
or closes (156-198); nothing is assumed of other modules or of what peers answer.

**The refinement.** `IsLog` is `Log!Spec`, its initial condition, its steps and its
liveness. It subsumes what one would state of aggregates separately (a total is
what was stored for the day when it was computed, so it is never counted twice)
and of the buffer (what is in it leaves it). The mapping hides which task carries
a batch; a flush, a wake-up or a counter is a stutter, and a start or a stop
settles at once all that is in memory.

**Violations.** Each of the three violation runs checks one property that states
what a docstring, comment or message says of the code, and `PROJECT.json` quotes
it under `findings`. They are: a refresh creates no session (auth 590); the gateway
looks for a revocation under the token's `jti` although it is stored under the
token itself (gateway 329, auth 617); and an invoice is marked paid whatever the
status of the payment intent (billing 751).

**Observations without a run of their own.** All are in the models.

* One partition is created where the comment (billing 252) says two; late in a
  month it also covers the next one, and a start in that month is refused because
  its own partition overlaps. Yearly subscriptions are not selected for invoicing
  (billing 897) although a docstring says all are (888).
* A module that was late once stays marked offline, however actively it speaks,
  until it reconnects: nothing but a registration sets `status` back (hub 515).
* When a module registers again before its old handler ended, the capabilities of
  the first registration stay in the index (hub 183); once the id left, a message
  to such an action raises a KeyError (341). `GhostsAreContested` says that there is
  no other way to such an entry.
* Two processes that both read an overdue invoice before either marks it paid both
  ask Stripe for the money (billing 724), without an idempotency key; two that both
  look for an invoice before either inserts it make two (905).
* The gateway counts refusals as failures of the module asked for (gateway 430):
  of a tenant without a subscription, and of the open breaker itself, which under
  steady traffic therefore never tries again (`OpenIsKeptByTraffic` says that it
  does when there is a pause). `successes` counts from the start of the process
  and in every state, so after some traffic the first success in half open closes
  the breaker.
* The hourly counter of `check_rate_limit` (billing 817) is written by nobody, so
  the limit refuses nobody who has a subscription.
* A pool with as many concurrent logins as connections is stuck for ever: the
  state exists in `pool`, and `StuckIsOverloaded` says exactly when.
* The SDK drops every RESPONSE (SDK 264-275), so `call_module` always ends with its
  timeout. A send that raises there, for a payload that cannot be serialised or a
  socket that closed, leaves its entry behind (SDK 429). The loop of an old
  connection that breaks clears the `connected` of a new one (262), which then
  refuses to call. After a normal closure `connected` stays TRUE, and `run` waits
  on.
* Every call that fills the usage buffer takes a batch out and keeps it until its
  insert returns (billing 510-515): while inserts hang, the memory held by batches
  grows with the traffic. `BufferBelowLimit` is about the buffer alone.
* A refresh that has found its token goes on to issue a pair although another
  refresh of the same token deletes the key meanwhile: `ExchangedRefreshIsGone` is
  about the key alone.

The passing properties say what does hold beside them. `RevokedIsRefusedElsewhere`:
the only process that still admits a revoked token is the one where the login ran,
and only if the revocation ran in another. `GhostsAreContested`, `RepliesStayHome`
and `OnlyRivalsUnregister`: what goes wrong in the hub when a module reconnects
before its old handler ended stays with that module's id. `MonthlyIsInvoiced`:
nobody who pays by the month is missed in a pass without failures.
`OneInvoicePerGenerator` and `EachChargesOnce` say that a process never repeats its
own work; between two processes there is neither a transaction nor a uniqueness
constraint. `MoneyIsBooked`: money that moved is missing in the books only after a
call that failed, which the next sweep repeats without an idempotency key.
`HandlersAreCalls`: the table of the SDK leaks through a failed send and through
nothing else. `LiveIsConnected`: a live connection is taken for lost only after
another one of the module went.

## 4. The proofs

Except for `ImplementsLog` and `UnregisteringCorrect` these are invariance proofs,
for arbitrary constants, from the `ASSUME` of the module concerned. The runs of
section 3 check the properties themselves on small instances.

* **`MCPHubProofs`** proves `TypeOK`, `LoadIsInFlight`, `RegisteredIsServed`,
  `CachedIsRegistered` and `AnnouncedIsIndexed` for all finite sets of ids and
  connections, reconnections over live handlers included. None is inductive alone.
  `TypeOK` needs `LoadIsInFlight`, since a load that is decremented is a natural
  number only if it counts the send that ends. That count is a cardinality, so
  finiteness of `Conns` is assumed and the library's facts on finite sets are used:
  a send that starts adds a handler to the set of those writing to an object, one
  that ends removes it, one that is replaced does both. `RegisteredIsServed` holds
  because a handler that ends removes the entry of its id, whoever holds it.
  `CachedIsRegistered` needs every removal to purge the cache. `AnnouncedIsIndexed`
  survives a takeover because a new registration adds to the index and a removal
  only takes out what the current holder announced. What each kind of step
  (registration, removal, send) does is a lemma; the theorem has one step per
  action. The last section proves what a reconnection over a live handler may do
  and nothing else may: `GhostsAreContested`, `RepliesStayHome` and the action
  property `OnlyRivalsUnregister`. Its strengthening (`RivalInv`) is that two
  handlers have one id only if the id is contested, and that only a handler in its
  message loop sends, and only to connections past their registration, whose id
  therefore no longer changes except to none. So the entry under an id that was
  never contested is that of its one handler, no registration replaces another
  there, and the end of that handler removes its own entry.
* **`PaymentsProofs`** proves `TypeOK`, `EachChargesOnce`, `PaidIsRecorded` and
  `MoneyIsBooked` for any processes, invoices and subscriptions. The strengthening
  is a balance per process and invoice (`Balance`), which says what the process may
  have done by the time it reaches each await. Between the read of an unpaid invoice
  and the answer of Stripe, `intents[p][i] <= failed[p][i]`: whatever intents this
  process had before, it failed to mark, for otherwise it would have read "paid".
  After the answer the difference is one, and a failure then counts. A recorded
  payment is never beyond the intents of its process, and "recorded" means that
  there is one. With `MovedHasIntent` (only an intent moves money) the balance of an
  invoice that is not paid leaves an intent that failed or is under way, which is
  `MoneyIsBooked`.
* **`UsageMeteringProofs`** proves `TypeOK`, `BufferBelowLimit`, `HeldOnce` and
  `NothingVanishes` for any finite set of calls, any buffer size and any calendar.
  The inductive invariant (`Inv`) says that the places of an event (buffer,
  batches, rows, dropped) exclude each other, and that whoever has a batch is
  waiting for its insert. The latter is why it is inductive: a call or a task that
  takes the buffer has no batch that would be overwritten. `HeldOnce` counts
  places, so a lemma turns exclusion into the cardinality of a set with at most
  one element. `ImplementsLog` is the safety part of `IsLog`: the initial states
  are the log's, and every step is `Record`, `Settle` or `Report` of the log or a
  stutter. Its liveness is left to the run.
* **`SdkModuleProofs`** proves `TypeOK`, `HandlersAreCalls` and `LiveIsConnected` for
  any modules and any number of sockets and calls. The first two together are
  inductive: a call notes its caller exactly as long as it has an entry, and no step
  of a connection touches either. `LiveIsConnected` needs `LoopInv`: a call that ends
  lets a loop go on, and it must be one that was running, on a socket that was made.
  A pending call of a handler holds up its loop, no two hold up the same one, and a
  socket that is not made yet has no loop.
* **`ConnectionPoolProofs`** proves `TypeOK` and `StuckIsOverloaded` for any finite
  set of tasks and pools of any size; the assumptions are that tasks and pools are
  finite and the pools disjoint. The strengthening is the number of connections a
  task holds at each step of its operation (a table, shown to agree with the
  scripts), that they are of its own service's pool, and that there is one task of
  each sweep. In a stuck pool every connection is held by a task that asks, and so
  holds no more than its nesting: from the connections of tasks nested once there
  is an injection into those tasks, and at most two belong to the invoice
  generator. With pools of 20 this means 20 simultaneous logins or changes.
* **`GatewayProofs`** proves `TypeOK`, `ClosedIsWithinLimit` and `CacheIsBounded` for
  any clients, targets, services, thresholds and limits. The breaker is inductive
  with the types of requests. For the cache, any part of a sequence in order, taken
  in order, is in order (`PartInOrder`); both the removal of a target's entry and
  the drop of the oldest are such parts, the new entry is the only one of its
  target, and the entry that ages next is the oldest fresh one.
* **`InvoicingProofs`** proves `TypeOK`, `OneInvoicePerGenerator` and
  `MonthlyIsInvoiced` for any processes, tenants, subscriptions and months. The
  strengthening follows a pass. Between its look for an invoice and its insert it
  has made none for that tenant and month (`NotYetMade`): a process has one pass at
  a time, and a restart loses the pass but not the rows. Each subscription that a
  clean pass saw is still to do, invoiced or at hand (`PassAccounts`); this survives
  the replacement of a subscription because its row keeps tenant and plan.
  `SingleGenerator`: where one process runs the generator, a tenant has at most one
  invoice a month, so a repeated invoice takes two.
* **`AuthTokensProofs`** proves `TypeOK` and the other four properties of the run
  `auth_tokens` for any processes and tokens. The strengthening: only an issued
  token can be revoked, and its session is inserted and cached before it is issued,
  so no session is cached again or reactivated after a revocation; a revocation
  that awaits the table has removed the session from the cache of its process; and
  a verification that began after a revocation gets past the session by the
  cache of the login's process alone. For refresh tokens: one that is exchanged was
  generated before, so no new one equals it. `SingleServer`: with one process no
  revoked token is let in, so what the run `auth_revoked` finds takes two.

The two `Single...` theorems are the only ones with a hypothesis beyond the
`ASSUME` of the module: a deployment with one such process. They say where repeated
invoices and admitted revocations come from.

Only model-checked: liveness (`DeadIsForgotten`, `SilentIsDropped`,
`ExpiredKeyDies`, `OpenIsKeptByTraffic`, `LightLoadCompletes`, `NobodyWaitsForEver`
and the liveness of `IsLog`), which is out of the prover's reach. The three
properties that the code violates have runs alone.

## 5. What is not modelled, and why

* The database: a statement is atomic and reads a consistent snapshot;
  `executemany` writes all rows or none. An insert that was under way when the
  process dies may or may not be committed (`UsageMetering!Stop`). Connection
  pools are bounded in `ConnectionPool` alone.
* `_process_message_queue` (hub 524-536): nothing puts anything in the queue.
  gRPC and HTTP/3 are stubs.
* `MCPHub` has no `route`, which the gateway calls (gateway 394): at this commit
  the call always raises. `Gateway` has both outcomes (`Routed`, `RouteRaises`), so
  that the code after it is covered.
* Of the gateway: the other routes, each of which calls one operation of a
  service; the limit per address of slowapi; the WebSocket relay, which keeps no
  state. Of the SDK: `emit_event`, which sends one message, and the answers to
  heartbeats and capability queries, which the hub never sends. Left out of
  `SdkModule` are also a handler that makes several calls at once (one after the other
  is in it), two `connect()` calls of a module that overlap, and the cancellation of
  `connect()` or of the task of a loop, for which the code has no caller; the
  cancellation of `call_module` by its caller is in it.
* `create_api_key`: keys exist from the start.
* Stripe: what an intent does is a choice of the model (`Confirms`, `Settles`);
  refunds and disputes are left out.
* The amounts of invoices, including the factor 100 for a currency without
  cents (billing 730); `add_payment_method`; permissions; the audit log.
* Client SDK, example module, proto file and deployment files: no state of
  the platform.

## 6. Plan

In order of importance. `MCPHub`, `UsageMetering` with `UsageLog`, `AuthTokens`,
`Invoicing`, `Payments`, `Gateway`, `ConnectionPool` and `SdkModule` are done, and
every safety property the runs check is proved.

1. A `Directory` (a partial map from ids to connections with lookup by capability)
   implemented by `MCPHub` as far as ids are not contested, and the proof of that.
2. `Pricing` (billing 563-608, 627-680) and `check_permission` (auth 718-744):
   operators checked against a reference.
