# wego in TLA+

wego is a Go application framework. A program builds a `Mesa` (`mesa.New`), registers
components, and calls `Run`; the framework opens PostgreSQL, Redis and etcd, starts servers
(HTTP, TCP, go-micro) and two background components: a *reminder* service that delivers
scheduled notifications from a table, and a *pub/sub* service over Redis streams. This
directory models the parts in which processes, goroutines, crashes and timeouts meet,
checks them with TLC on small instances, and proves the central properties with TLAPS for
every value of the constants. `PROJECT.json` holds the tables: runs, mutants, the lines
each definition stands for, hazards, findings and theorems.

## Inventory

| component | state | operations | what is hard |
|---|---|---|---|
| reminder store (`reminder/store.go`) | table rows: status, schedule_at, updated_at, retry_count, max_retry | Create, CancelByKey, RescheduleByKey, ClaimDue, RequeueStaleProcessing, MarkSent/Retry/Failed, List | claims expire by age and carry no token; reads followed by updates |
| reminder service (`reminder/service.go`) | started, cancel, done; the batch a worker holds | Start, Stop, poll loop, processBatch, dispatch | several processes poll one table; crash or cancellation between notifying and recording; Stop racing with the loop |
| pub/sub store (`pubsub/store.go`) | Redis: stream, pending lists, retry sorted sets, dead letters | XADD, XREADGROUP, XAUTOCLAIM, XACK, three Lua scripts | MAXLEN trimming, delivery counters, retries promoted to a shared stream |
| pub/sub service (`pubsub/service.go`) | started, loops per subscription | Publish, Subscribe, Start, consume/claim/retry loops, handleEntry | entries claimed under a slow handler, crashes with entries pending, lost answers |
| Mesa construction (`mesa.go` New, `default_components.go`) | open connections, registered components | New | undoing a partial construction by hand |
| Mesa runtime (`mesa.go` Run, Shutdown) | state, cancel function, components, shutdownDone, shutdownErr | RegisterComponent, Run, Shutdown, Readiness, Liveness | concurrent Shutdown calls, Shutdown against Run, deadlines, rollback of a failed start |
| TCP server (`transport/tcp`) | listener, tracked connections, closeCh, once | Start, Stop, accept loop, handleConn | accept against shutdown's snapshot, Stop against Start |
| HTTP server (`transport/http`), middleware | listener; token bucket | Start, Stop, request chain, RateLimit, Authenticate | stops itself on the context while Mesa stops it; requests in flight when connections close; the bucket over time |
| pub/sub router (`pubsub/router.go`) | subscriptions, frozen | Add, Freeze, List | Subscribe racing with Start, one check without a lock |
| dispatcher notifier (`reminder/dispatcher.go`) | handlers by route, type, channel, fallback | Register*, SetFallback, Notify | registration during dispatch |
| micro server, selector (`transport/micro`) | service, registry cache | Start, Stop, Select | users must stay with their node while caches lag and nodes come and go |
| configuration (`config.go`, `options.go`, `*/options.go`) | merged settings | With*, Validate, buildOptions, apply | the path of a setting through four merges; rules stated twice |
| telemetry | provider, counters under one mutex | Shutdown, Add, scrape | a scrape holds the mutex while it writes |
| logger, third-party adapters, example | | | observation and I/O |

Interactions: `Run` starts servers, then components, with one cancellable context; cancelling
it makes every item stop by itself, and `Shutdown` calls their `Stop` too. Reminder workers
of different processes meet only in the table, pub/sub processes only in Redis. The services
use connections that `Mesa` owns and closes at the end of `Shutdown`.

What makes each part correct: a reminder is delivered until it is sent, failed with its
attempts used up, or canceled, and final outcomes stay (reminder); a message is kept for a
group until a handler accepts it or it is given up on purpose (pub/sub); a runtime stops
everything once, in order, and tells every caller the same (Mesa); a failed construction
closes the connections it opened (New); a stopped server leaves no socket and no known connection open
(TCP), lets its requests end and keeps what they use until then (HTTP); a limiter admits no
more than its rate and burst over any period; an accepted subscription is served (router); what
becomes of a setting is decided by its last field, then Options, then the default, but for two
switches (configuration); a reminder goes to the most specific handler
(dispatcher); a user stays with a node (selector); a scan through pages lists what did not
move exactly once (List).

## Modules

| module | models | extends / composes |
|---|---|---|
| `Reminder` | table, workers, clients, crashes, time | instantiates `ReminderLifecycle` |
| `ReminderLifecycle` | what the table promises: one life cycle per reminder | abstract specification |
| `PubSub` | Redis and the loops of every process | |
| `MesaRuntime` | Run, RegisterComponent, Shutdown, items | |
| `MesaNew` | New | |
| `TCPServer` | Start, Stop, accept loop, connections | |
| `RateLimit` | the token bucket | |
| `HTTPServer` | Start, Stop, requests, Mesa closing its connections | extends `RateLimit` |
| `PubSubRouter` | Subscribe and Start of the pub/sub service | |
| `Assembly` | New, then subscribing through GetPubSub | composes `MesaNew`, `PubSubRouter` |
| `Settings` | merging and applying component settings | |
| `Dispatcher` | handler registration and Notify | |
| `Selector` | node selection by user id | |
| `ReminderList` | List over a changing table | |
| `MCReminder`, `MCPubSub`, `MCMesaRuntime` | model values and bounds for TLC | the module named |
| `MCLibrary` | instance of five parts that share no state | `Assembly`, `Settings`, `Dispatcher`, `Selector`, `ReminderList` |
| `ReminderProofs`, `PubSubProofs`, `MesaRuntimeProofs`, `MesaNewProofs`, `TCPServerProofs`, `HTTPServerProofs` | theorems | the module named, `TLAPS` |
| `AssemblyProofs` | theorems about New and the router together | `Assembly`, `MesaNewProofs` |
| `LibraryProofs` | theorems about the parts that share no state | `Dispatcher`, `Selector`, `ReminderList`, `Settings` |

Definitions named `X_Something` next to `X` are mutants: a plausible bug put in the place of
`X`, which TLC must catch with the property the manifest pairs it with. The specifications
never use them.

### Reminder

Columns of the table are variables (`status`, `wait` for the time left until schedule_at,
`age` for the time since updated_at of a claimed row, `retryCount`, `maxRetry`). Each worker
has a program counter that follows `Start`, `loop`, `processBatch` and `dispatch`, the set of
reminders it claimed (`batch`), and the retry count it read with each (`seen`), because
`MarkRetry` and `MarkFailed` write `item.RetryCount + 1` from that copy. A claim is one
transaction, so `ClaimDue` is one action; notifying and recording are separate actions, and
between them the worker may crash, lose its context or meet a database error. A client's
`CancelByKey` is a read and a guarded update in two actions. The order inside a batch is left
open, where the code goes by schedule. `SKIP LOCKED` allows a claim to pass over a row a
client is updating. The commit of a claim may be applied and its answer lost; for the other
statements an applied statement with a lost answer leaves the same table as a success.

`Prompt` is the one assumption about time: TRUE says no live worker keeps a claim for as long
as processingTTL (two minutes by default; a batch shares one claim time). Runs with FALSE
show what holds without it. The history variables `fails`, `oks`, `lostFails`, `lostOks`
count the notifier's answers, `overrun` the reminders requeued under a live worker, `acked`
the cancellations confirmed.

### PubSub

The stream is a sequence that only grows, with `trimmed` for the prefix MAXLEN removed; a
group has its position, pending set, delivery counters and idle times. A process has, for
each group, a consume loop and a claim loop (`Loops`) and the tick of its retry loop
(`PromoteDueRetries`). Commands and Lua scripts are atomic, the handler runs in between
(`phase` `handle`, then `ok` or `err`). The attempt of a claimed entry is the pending list's
counter (`pendingRetryCount`) or, when that finds nothing, the stored one. XAUTOCLAIM's
cursor is not kept: any of the idle entries may come first. The model gives each loop one
goroutine; the code's `Concurrency` starts several, like several processes. Data, headers and
keys are the message itself; a message that does not decode is in `Malformed`.

### MesaRuntime, MesaNew

Sections under `runtimeMu` are single actions. `Run` is `RunBegin`, one `StartItem` per item,
`SetRunning`, and Shutdown by the caller `Runner`; or `StartFails`, `RollbackStop` in starting
order, `FinishStopped` and `CloseFailed`. A call of `Shutdown` is `ShutdownBegin`, one
`StopNext` per item, `CloseResources`, `ShutdownTelemetry`, `ShutdownEnd`, or `WaitEnd` if
another leads. Items are `up` after Start, and stop by themselves when the context is
cancelled (`SelfStop`). A server may also cease to accept at any time (`GoDeaf`): the TCP accept
loop returns on an error that is not temporary, the HTTP server drops the error of Serve, and Mesa
learns of neither; such a server is `deaf`, still holds its connections and is still to be stopped.
So `ReadyMeansStarted` says of a readiness probe that everything was started and nothing stopped,
not that every server accepts. Items in `Draining` behave like the HTTP server, whose own goroutine
sets the listener to nil and drains, so that Mesa's Stop returns at once. A panic stops
everything, as an unrecovered panic ends the process. `EarlyShutdown` tells whether Shutdown
may be called while Run starts items (see the findings).

`MesaNew` goes through New for every subset of what may be asked for, every telemetry setting
and every name of the default components, with a failure at each step, and undoes exactly what
the code's branch undoes. The registry of a micro server opens an etcd client of its own, which no
branch closes; `open` includes it, and `OnlyRegistryLeaks` says when it is left. A DSN that does not
parse makes pgdriver panic inside New (`MalformedDSN`): New then returns nothing and the properties
about its result do not apply. `Validate` is the part of Config.Validate that New has counterparts
for (requirements between components and connections, telemetry), with the rules about single
values as one of `Flaws`: the sample ratio, which New looks at as well when telemetry is enabled, or
another, which it does not. `Assembly` continues a successful New with an application that looks the
pub/sub service up by name and type and subscribes while the service is started.

### TCPServer

Each `Start` may open a socket and install it; `shutdown` is once.Do with its four steps
(closeCh with the entry, the section under mu, closing the listener, closing connections one
by one), called by `Stop` and by the goroutine of each successful Start. The accept loop holds
a connection between `Accept` and `Track`. `lateStarts` and `lateConns` record what is
installed and tracked after shutdown's section under mu, which nothing closes, so that the properties can say precisely what is promised.

### HTTPServer, RateLimit

`Listen`, `Install` and `Serve` are Start and its first goroutine; `Stop` has two callers, the
goroutine that waits for the context and Mesa. Taking the listener under `mu` decides which of
them drains: the other returns nil at once, and if that is Mesa, its `CloseResources` may
follow while requests are in flight. Shutdown of net/http is external: it closes the listener
that Serve has registered and returns when no request is left; a Serve that comes later
returns at once and closes its listener. A request goes through RateLimit, authentication, the
handler (which may panic; then recovery answers and the counters are skipped, because
telemetryMiddleware adds to them after `c.Next()`) and the counters. `Scrape` holds the
registry's mutex while it writes, and `Count` waits for it. Authentication is a choice between
its two outcomes: which credentials are valid is the application's.

The bucket counts time in ticks and tokens in parts of a token, a tick refilling `Rate` parts,
so the arithmetic is exact; the code's float64 sums are not, by relative errors of about
2^-52 per request, which the model leaves out. The clock is read inside the critical section
and is monotonic, so `elapsed` is never negative.

### PubSubRouter, Dispatcher, Selector, ReminderList, Settings

`Subscribe` reads `started` in one step and adds under the router's lock in another; `Start`
sets `started`, freezes and lists in three. `Dispatcher` separates reading the reminder from
the lookup, and remembers the handlers there were at the call. `Selector` gives every client a
cache that lags behind the registry, and lists nodes in any order; the score is a constant
that tells nodes apart for each key (64-bit hashes that collide are left out). The metadata of a
call may have any of the four names, and `hrwPick` is the code's loop, node by node.
`ReminderList` takes pages of any limit from a table in which rows are inserted, moved and settled
in between; ids grow with insertion. A page is the set of the first rows in the order of the
query, by rank. `Settings` follows one component: the configs of the two are separate and are
merged alike. It represents a field as a sequence that is empty for the zero value, and follows a
config from `With*` through the merge, `buildOptions` and the option functions of the service,
which are applied one by one. It shows three things a reader of the API may not expect: fields of a config
beat its `Options`, even `Options` given in a later call; a retry policy is replaced as a
whole; and setting any field of the stream policy turns ApproxMaxLen off unless it is set as a
field, too, even where `Options` or the default turn it on (the same slip as in finding 3).
`SettingsArrive` states that exception for both switches instead of leaving them out.

## Runs

| run | instance | distinct states | shows |
|---|---|---|---|
| `reminder_claims` | 2 reminders, 2 workers, 1 client, TTL 2, 1 fault, 1 call, claims may overrun | 1.9 M | `RetryBudget`, `ClaimExclusive`, `NotificationsAccounted`, `StopQuiesces` |
| `reminder_clients` | 1 reminder, 2 workers, 2 clients, 2 calls, 1 fault, claims may overrun | 0.4 M | `CancelIsFinal`, `TerminalStays` |
| `reminder_progress` | 1 reminder, 2 workers, prompt, max_retry from -1, 0, 1 | 40 k | `RecoveryTakesOrphans`, refinement with attempts counted one by one, `LoopEnds`, `EventuallySettled` |
| `pubsub_delivery` | 2 messages, MAXLEN ~ 1, slow handlers, 2 faults, dead letters | 1.0 M | `DeadLetterUsedUp`, `LossOnlyByTrim` |
| `pubsub_progress` | 2 messages of which 1 malformed, 2 processes, no dead letters, 2 faults | 98 k | `AtLeastOnce`, `EventuallySettled` |
| `mesa_runtime` | 2 servers, 2 components, 2 callers besides Run | 148 k | nine properties of Run and Shutdown |
| `library` | five parts side by side, see below | 4.2 M | `OnlyRegistryLeaks`, `ReadyToRun`, `ValidatedConfigBuilds`, `AcceptedIsServed`, `SettingsArrive`, `DispatchFollowsPriority`, `StickyPick`, `StableListedOnce` |
| `http_server` | 4 requests (3 limited, 1 guarded, 1 scrape), rate 1 per 2 ticks, burst raised to 1, 3 ticks | 0.7 M | `ResourcesOutliveRequests`, `WindowBound`, `RetryAfterHonest`, `ServerDrains` |
| `tcp_server` | 2 Starts, 2 Stops, 2 connections, 1 accept error | 0.2 M | `NoSocketLeaks`, `StopClosesConns`, `TrackedServed`, `ServerEnds` |
| `mesa_early_shutdown` | 1 caller, Shutdown during the start | | violates `NoPanic` |
| `pubsub_isolation` | 2 groups | | violates `RetriesIsolated` |
| `settings_dead_letters` | up to 2 merged configs | | violates `DeadLettersUnlessDisabled` |

`library` is the sum of its parts, not their product: `part` is chosen at the start, the
variables of the other parts keep their initial values, and each part's invariants speak of
its own variables only. Since the parts share no variable, nothing is lost by this; it asks
five small questions in one run. Its instance: every option and name of New, then 4
subscribers (1 invalid, 2 with the same key) and 2 Starts; 2 merges; 2 channels, 2 types; 3
nodes, 2 users, 2 clients, 2 picks; 4 rows at 2 times, pages of 1 or 2.

Bounds. Two workers, processes or callers are what the races need: one that is slow or dead
and one that goes on. One fault puts a crash, a lost answer or an error at any point; a second
one (the pub/sub runs) lets a redelivery fail as well. Two picks, two merges and two Starts
are what their properties relate. Three ticks of the clock are an idle time longer than a
second of two ticks, so that a bucket that overflows its burst shows. TTL and IdleTimeout of one or two
ticks are enough for a claim to be fresh, at the limit and past it. Retry limits of one to
three make the first, a middle and the last attempt distinct. `MaxStream` bounds the entries
ever added; where liveness is checked it leaves room for every retry. Counters of the
history are capped where only the limit matters. Symmetry is over workers or processes, only
in runs without liveness.

Fairness. `Reminder`: workers are scheduled and restarted, time passes, a client's statement
ends; `LoopExit` has strong fairness because Go's `select` chooses at random among ready
cases, so the cancelled context cannot lose for ever against the ticker. `PubSub`: every loop
and the retry ticker are scheduled, processes come back, and the owner of a context cancels it
after a failed Start, as `Run` does. `MesaRuntime`: goroutines are scheduled and the Start and
Stop of an item return; nobody has to call Shutdown. `TCPServer`: goroutines are scheduled,
and a handler returns once its connection is closed under it. `HTTPServer`: goroutines are
scheduled, handlers return, and the write of a scrape ends because the server sets
WriteTimeout; no request has to arrive and nobody has to cancel. Faults are bounded in number
and never fair.

## Findings

1. `Shutdown` during Run's start (`mesa_early_shutdown`). The readme promises that Shutdown is
   safe to call more than once. Run overwrites `stopping` with `running` (mesa.go:183), or
   `finishStopped` closes `shutdownDone`, and the next `close(m.shutdownDone)` (mesa.go:228)
   panics. Everything proved about Shutdown assumes `EarlyShutdown = FALSE`.
2. Retries cross groups (`pubsub_isolation`). Queues are per group, but a promoted retry is
   added to the stream that all groups of the topic read.
3. Naming the dead-letter stream turns dead letters off (`settings_dead_letters`). A config
   that sets only DeadLetterSuffix yields a policy whose Enabled is false, and
   WithDeadLetterPolicy assigns it. Without dead letters a message that used up its deliveries
   is dropped.

Not a finding, but worth knowing: with MAXLEN, which the default options set, a group that is
far behind loses messages without a dead letter. `LossOnlyByTrim` shows that this is the only
way to lose one, and `AtLeastOnce` holds without MAXLEN. A Run that fails while starting
closes the connections but never shuts telemetry down. A New that is refused a default component
(mesa.go:137) leaves the etcd client of its micro server's registry (mesa.go:133) open. And
Readiness says OK of a runtime whose TCP or HTTP server accepts nothing any more.

## Proofs

All of them are for arbitrary constants within the named assumptions of the modules.

*Reminder.* `TypeCorrect` first. `RetryBudgetHolds` needs `BudgetLeft`: the snapshot a worker
holds has an attempt left even when it is stale, because max_retry never changes once a row
exists; so whatever a late worker writes is within the budget. `ClaimsAreExclusive` is
inductive together with the facts on which stage holds which reminder. `NotificationsAreAccounted`
builds on it: without an overrun, one worker at most is recording a reminder, and its outcome
ends in the table or in the lost counters. `TerminalIsFinal` and `CancellationsHold` use that
every update is guarded by a non-final status. `RecoveryIsSafe` needs `HeldIsFresh`.
`ServiceImplementsLifecycle` maps each action to a step of `ReminderLifecycle`, where
attempts that count one by one need exclusive claims, and those need `Prompt`.

`StopIsQuiet` needs only that a worker that holds claims is dispatching (`HoldersDispatch`).

*PubSub.* `TypeCorrect` (with `LoopsBegun`: a loop outside `off` belongs to a started group).
`LossIsOnlyByTrim` holds for any MAXLEN. Its invariant adds `OkAccepted`: a loop about to
acknowledge a success works on a message its group has accepted. The core lemma `ReadLeavesNoGap`
says that XREADGROUP moves the group's position over entries it puts into the pending list and
over no others. A message any entry of which was trimmed is excused, so the lemmas
`TrimGrows` and `LossStep` only have to follow messages no entry of which was trimmed.
`DeliveryIsAtLeastOnce` assumes `MaxLen = 0` and follows from it with `NothingTrimmed`.
`DeadLettersAreUsedUp` says that attempt numbers never run ahead of deliveries. Four places keep
an attempt or a counter: stream entries, the pending list, the batch of a loop and the retry
queue. `AttemptInv` bounds each of them by the deliveries so far, and CountsStored says that a
new entry starts without a counter. The theorem assumes one group on the topic. With two it is
false: a retry of one group is read by the other as an attempt it never made, which is finding 2.

*MesaRuntime.* `TypeCorrect` for any Shutdown. The others assume `EarlyShutdown = FALSE` (finding 1).
`ShutdownIsSafe`, `StateIsMonotone` and `ShutdownsAgree` come from one invariant, `Control`: how the
state relates to where Run is, that at most one call leads and only while stopping, and what calls
that have returned found. On top of it, `Lifecycle` follows the items. `Starting` says that Run has
started exactly the items before `next`; `Stopping` says that the rollback, going up the list, and
the leading Shutdown, going down, have asked exactly what they have passed. That gives
`ItemsStopOnce` and `ReadyIsStarted`; `ByItself` says that an item that stops or goes deaf on its own
was started and is alone in its step. `Closing` adds when the connections close and what a Shutdown
without an error has stopped by then, which gives `ResourcesOutlive` and `NilIsClean`.

*MesaNew, Assembly.* `FailureIsClean`, `SuccessIsComplete` and `ValidateSuffices`: at each stage the
open connections are exactly those asked for and passed so far, and the registry's client once the
micro server is made (`Held`), the components registered
are those asked for and passed (`Served`), under distinct normalised names (`Distinct`), and a
requirement is only missing if Validate would have said so (`Reasons`). `RegisterStep` is the lemma
about one registration. `AssemblyIsBuilt` carries all three over to the composition, in which an
application subscribes while the service starts. `NoSubscriptionIsLost` uses that one Start wins,
that the router is frozen before it is listed (`OneStart`), and that the router holds exactly what
was accepted (`Accepted`); from the listing on, what was accepted is listed or served (`Progress`).

*TCPServer.* `TypeCorrect`; `NoSocketIsLeaked` from `SocketInv`: the listener of a Start that was not
late is installed, then in the hands of shutdown, then closed, and nobody returns before shutdown
has ended. `MapIsExact` and `StopClosesConnections` from `ConnInv`: an open connection is in use,
and shutdown's snapshot still holds the tracked connections it has not closed.

*HTTPServer, RateLimit.* `AdmissionsAreBounded` for every rate, burst and tick length. WindowBound
alone is not inductive; `Budget` is: for every admission i, the admissions since i and the tokens
left are paid for by the capacity and the refill since. Refills that overflow the burst only lower
the left side. `RetryAfterIsHonest` needs `Filling`: after a refusal the bucket is full or has what
was refilled since. `TypeCorrect`, and `RequestsKeepResources` from `ServerInv`: only the Stop that
took the listener returns after a drain, and the connections close only after Mesa's Stop.

*Library.* `DispatchIsByPriority`: handlers are only added (`HandlersStay`), and `lookup` takes the
best there is (`LookupIsBest`). `PicksAreSticky`: each pick is the best of the nodes it was made
from (`PicksAreBest`), so of two nodes known to both picks both picks prefer the same one.
`ScansAreStable`: the cursor divides the stable rows into those listed and those to come
(`CursorDivides`). Its lemmas say that the first rows by rank are closed downwards and that a scan
ends only with a page that leaves nothing out; the one row fetched beyond the limit decides that.
`SettingsReachTheService`: the merged config holds the last value given to each field (`Keeps`), and
the options built from a config act one after the other on different fields
(`BuildsInOrder`, `FieldsArrive`). A config's own Options are none or one here.

`hrwPick` and `Applied` are recursive functions over a list. The induction theorems of the library
are out of reach, so that they compute what they say is shown by least counterexample: a set of
numbers that is not empty has a least member (`LeastExists`), and the step before it is fine.

The type invariants of `PubSub`, `MesaRuntime`, `TCPServer` and `HTTPServer` are proved and not part
of a run.

Every invariant and action property that a passing run checks is proved. Only model-checked are
the liveness properties, because fairness and ENABLED are outside the prover: `LoopEnds` and
`EventuallySettled` of the reminders, `EventuallySettled` of pub/sub, `ShutdownReturns`, `RunReturns`,
`ServerDrains` and `ServerEnds`. The three properties of the violated runs are false.

## Plan

The models and the safety proofs are done. What could be added: `Settings` with several Options per
config, and liveness for arbitrary constants, should the prover come to support it.

## Not modelled

The schema migration (a fixed list of idempotent DDL), the logger (formatting and output),
tracing and instrumentation (they observe), CORS and security headers (set on one response),
request ids, body limits, the deadline of a request's context and the access log (one request each),
routing (gin), which credentials are valid (the application's), the two global pointers (stored
and loaded atomically), Close of the selector and the registration of go-micro handlers (calls
into the library), the rules of Validate that judge one field, the etcd and PostgreSQL client
wrappers beyond opening and closing, and the example.
