# TLA+ models of unifi-mcp

`unifi-mcp` is an MCP server for UniFi controllers. Most of its tools turn one
call into one HTTP request. What is hard to get right is what such a request
may meet on its way (a listing that lags, a name that moved, an answer that is
lost) and what lies below: a GET cache shared by concurrent requests, a session
that is renewed under way, bearer tokens whose keys rotate, and the optional
runtime, a SQLite database with a scheduler, an event store and webhook
deliveries that several processes and many coroutines work on. This directory
models those parts in TLA+, checks them with TLC on small instances and proves
their central safety properties with TLAPS. Paths below are relative
to `src/unifi_mcp/`.

## Inventory

| Component | Source | State | Operations | What makes it correct |
|---|---|---|---|---|
| Scheduler | `runtime/scheduler.py`, `runtime/jobs.py` | tables `schedules`, `job_runs`; one coroutine per execution; the task `serve()` | create, enable, delete, claim due, recover stale, execute (attempts, timeout, backoff), run now, cancel, shut down | no overlap of a schedule with itself, a live execution keeps its claim, every enabled schedule keeps running, claims of the dead are released |
| HTTP client and cache | `clients/base.py` | `ctx.cache`, `ctx.cache_generation`, calls in progress | request (read, fresh read, write), failure, cancellation, eviction | no entry older than the last invalidation, no write carried out twice |
| Local authentication | `auth/local.py` | cookie, CSRF token, `_is_authenticated` | login, logout, refresh | one renewal per 401, a request is sent again only if it was refused |
| Webhook delivery | `runtime/webhooks.py` | tables `webhook_destinations`, `webhook_deliveries`; claimed batches | create, enable, delete a destination; claim, post, record | one worker per delivery, bounded attempts, nothing delivered twice once recorded, every delivery ends |
| Event repository, pruning | `runtime/events.py`, `runtime/services.py` | tables `events`, `event_cursors` | insert a batch and queue its deliveries, prune | each event is stored and notified once |
| Event polling | `events/poller.py`, `events/sources.py`, `events/normalize.py` | cursors, semaphore | poll all sources, each with a timeout | no event is missed, a cursor shows what is stored, a failing source does not stop the others |
| Network mutations | `tools/network/sites.py`, `devices.py`, `clients.py`, `_verification.py` | none of their own; the read cache between them and the controller | create, update, delete, command: resolve, send, interpret, read back | what is told is so, the object that was meant is changed, the rest of it is kept |
| Token verification | `auth/oidc.py` | discovery and key caches, their locks, time of the last forced refresh | verify, fetch, refresh | rotated keys are found, withdrawn ones forgotten, refreshes are bounded |
| Scope policy, plugins, registration | `auth/authorization.py`, `plugins.py`, `server.py` | the tool registry, the policy's tables, the plugins loaded | load plugins, audit, admit a call | no tool that changes something runs without its scope, a plugin is added whole or not at all |
| Network client | `clients/network.py` | none | one request per call | the properties of the HTTP client |
| Protect client | `clients/protect.py` | its own session flag | one request per call | nothing that outlasts a call |
| Runtime store | `runtime/store.py` | the connection and its lock, schema version | open, migrate, transaction, close, health | transactions are atomic and serialized, migrations are all or nothing |
| Application lifespan | `clients/base.py` | tasks, listener, store, session, client | start, cleanup in order | everything opened is closed once, in order, whatever raises |
| Reading tools, snapshots, exports | `tools/`, `snapshots/`, `reports/` | none | pure collection and formatting | the redaction of exports |
| Observations, metrics | `runtime/observations.py`, `observability/` | table `observations`, last rendered metrics | capture, query, render | a failing collector does not stop the others |
| QoS plans, client organization | `runtime/qos.py`, `runtime/client_organization.py` | their tables | single transactions | none beyond the transaction's own |
| Configuration | `config.py` | static | parsing | none that a state machine would show |

How they interact: the lifespan opens the store and starts `serve()`; a job of
the scheduler calls the poller, the webhook service or the pruning transaction;
the poller calls the clients, whose requests share the cache and the session;
the event repository queues deliveries in the transaction that stores events.
A tool call over HTTP first passes the token verifier and the scope policy, which
knows the tools by the names they were registered with, and then reaches the
controller through the client, whose cache it empties before and after a write.
All tables live in one database file that other processes may have open too.
What is hard: leases that are compared with the clock while their holder is
alive, rows updated by id after an await, cancellation at any await, crashes
between a claim and its release, responses that overtake writes, a source key
that is forgotten while the source still shows the event, events that are
reported after the watermark has passed them, requests that arrive after they
were given up, and documents that are used while the issuer replaces them. `PROJECT.json`
lists each of these hazards at its line.

## Modules

| Module | What it is |
|---|---|
| `JobLedger.tla` | what the tables of the scheduler promise, without time, processes or leases |
| `Scheduler.tla` | the scheduler, its loop and the life of its processes; implements `JobLedger` |
| `SchedulerProofs.tla` | theorems about it, the refinement included |
| `CachePromise.tla` | what the GET cache promises, without requests or generations |
| `HttpClient.tla` | concurrent calls of `request()`; implements `CachePromise` |
| `HttpClientProofs.tla` | theorems about it, the refinement included |
| `Outbox.tla` | what deliveries promise, without time, stale claims or row ids |
| `Webhooks.tla` | events, destinations, deliveries and pruning; implements `Outbox` |
| `WebhooksProofs.tla` | theorems about it, the refinement included |
| `EventIntake.tla` | what polling promises of each source, without requests or overlaps |
| `EventPolling.tla` | concurrent polls of the event sources; implements `EventIntake` |
| `EventPollingProofs.tla` | theorems about it, the refinement included |
| `Mutations.tla` | the tools that change a Network controller |
| `MutationsProofs.tla` | theorems about them |
| `TokenVerifier.tla` | the verification of bearer tokens |
| `TokenVerifierProofs.tla` | theorems about it |
| `ToolCatalog.tla` | the tools by name and kind, and the scope policy's tables |
| `Access.tla` | startup with plugins and calls; composes `TokenVerifier` and `ToolCatalog` |
| `AccessProofs.tla` | theorems about it, that the composition leaves the verifier as it is included |
| `MC*.tla`, `*.cfg` | instances for TLC |

Operators named "Mutant of ..." in a comment are plausible mistakes in the code
that the definition below them stands for; nothing uses them. Each property of
a passing run is known to fail when one of them takes that definition's place.

### Scheduler

An execution slot `exec[e]` is the coroutine `_execute` at its next await
(`insert`, `attempt`, `backoff`, `cancelling`, `finish`); `run[e]` is its row of
`job_runs`; `row`, `enabled`, `running`, `claimAge` and `dueIn` are the columns
of `schedules`; `loop[p]` is the task `serve()` of a process. Each transaction
is one action, with everything it writes: `ClaimDue` recovers stale runs and
claims, selects what is due in order up to the limit and claims it. Timestamps
become ages, since the code only compares differences; `lag` is the age, at the
transaction, of the timestamp it uses, up to `TxDelay`: in `ClaimDue`, `RunNow`,
`CreateSchedule` and `SetEnabled`, which read the clock before they wait for the
store, so that a claim may be given a timestamp older than itself. `CancelRunNow`,
`Shutdown`, `Crash`, `InsertRaises`, `FinishRaises` and `ClaimRaises` are the
faults; together with the edits of operators they are bounded by
`MaxDisruptions`. Wall clocks of the processes are taken to agree, and a job
that ignores its cancellation is not modelled (`Stay` bounds its unwinding).

`JobLedger` sees three things: which executions are `live`, the `record` of each
in `job_runs`, and which schedules are `claimed`. One step of it claims, with what
recovery closes and gives up before; `Close` is the closing transaction, which
there releases the closer's own claim and no other; `Die` ends executions with
nothing written. The refinement mapping (`LiveExecs`, `Statuses`,
`ClaimedSchedules`) forgets ages, awaits, processes and due times, so what it
shows is that comparing ages is as good as knowing who is alive.

### HttpClient

`req[r]` is a call of `request()` at its await: `sent`, `replied` (the answer is
there, the coroutine has not yet run) or `login`. Code between two awaits is one
action. A response is represented by the version of the controller it shows, so
"stale" can be said: `floor` is the version at the last write that ended or at
the last fresh read nobody disturbed. A write changes the controller when it
arrives (`Accept`), before or without its answer; `Change` is anybody else, and
a write whose caller stopped waiting. A lost connection ends the request at once:
`_make_request` carries a decorator that would retry `httpx.ConnectError` and
`TimeoutException` three times, but its body has turned both into
`UniFiConnectionError` before the decorator sees them (`base.py:118-156`).
`TransportFails`, `Refused`, `LoginFails`
and `Cancel` are the ways out through the `finally` clause. A cache hit changes
nothing and is no action; TTL and size of the cache are `Evict`.

### Webhooks

A worker is one `deliver_due` in progress; `batch[w]` holds what `_claim_due`
returned and is not yet recorded, with the attempts and the id it read.
`inserts[e]` counts insertions of an event, so the current count identifies the
row: a result recorded by id misses a row that was deleted and inserted anew.
`Post` is `_deliver` up to the answer, `Record` is `_record_result`, `Abort` is
the job's timeout, a cancellation, an exception or the end of the process.
`Ingest` is `insert_batch`, `Prune` is `prune_runtime` with any ages. The
batch's limit is taken as not reached, reading the clock and claiming as one
step, categories and filters as the set `Wanted`. `LongWindow` says whether a
controller still lists what is old enough to be pruned; without it controllers
have forgotten an event by then, with the duration of a poll to spare.

`Outbox` knows of a delivery its `phase` (`pending`, `retry` and `delivering` are
one, `waiting`), the `tries` recorded and who has it (`held`). A worker takes what
waits and nobody holds; only the holder records; `GiveUp` is a batch cut off. In
`Held` a worker holds what its batch names by the id the row still has: a result
for a row that was deleted meanwhile is no step there, as it is no update in the
code. That claims go stale by age shows in `Outbox` as no step at all.

### EventPolling

`task[<<j, s>>]` is the `_poll_source` of job `j` for source `s` at its await:
`queued` (the semaphore), `asking` (the listing), `inserting` (the transaction).
`Ask` passes the semaphore, reads the cursor and computes the window; `Answer` is
the listing with the page limit and the normalization, which here only tells
whether an event has a usable timestamp; `Insert` is `insert_batch` with the
cursor of that page; `Fail` is the timeout and every exception; `Cut` is the
job's own timeout or cancellation, which ends all its polls. The two jobs are
`poll_events` runs that overlap, as a scheduled run and a manual one do, so one
may write back a cursor older than the other's. A controller reports an event up
to `Lateness` after it occurred. `Broken` sources never answer. `horizon` is
history: events before the first window of a source are not owed. Jitter is the
time a task may stay where it is. Deleted rows stay in `stored`: pruning and what
follows from it are `Webhooks`. `EventIntake` says the same with no polls: pages
are taken whole, and a watermark only moves to where everything older than
`Slack` is taken.

### Mutations

An object is a network, a switch, a WLAN, a rule or a client with a name and two
settings; for a network the settings are its subnet and its DHCP pool. A tool is
a record of what it does: where it looks its object up (`find`: nowhere, afresh,
through the cache) and what else it takes care of (`does`: confirmation, refusing
ambiguous names, the pool check, sending what it read, telling a read that failed
from a write that did, catching exceptions, telling a `UniFiConnectionError` from a
refusal, reading back). All twenty shapes are defined from their functions;
several tools share one. `actual`, `shown` and `cached` are the controller, what
its listings show and what the read cache holds; `Converge`, `Browse` and `Evict`
move between them. `Deliver` carries a request out at any time after it was sent,
also after its call has ended. A call ends without a usable answer in two ways.
`Lose` is what `_make_request` converts into `UniFiConnectionError`: no connection
and no answer in time. `BreakOff` is everything else: `httpx.ReadError`,
`WriteError` and `RemoteProtocolError`, whatever has become of the request, and an
answer that cannot be parsed. The network tools know an unknown outcome only from
the first and tell the second as a rejection: `ToldTruth` leaves exchanges that
broke off out, and `mutations_broken_off` shows what happens to them. Two more
points of the code are visible in the model and bound what is claimed: `set_firewall_policy_enabled`
writes back an object that may come from the cache (excepted in `KeepsTheRest`),
and `create_port_forward` and `create_firewall_policy` tell a timeout as a
rejection. `update_wlan` and `delete_wlan` raise `KeyError` for an unknown name,
which the model shows as `not_found`. Names are compared after normalization.
Refusals before anything is sent that only depend on the mode of the controller
or on the kind of a policy (client writes in the integration and cloud modes,
predefined firewall policies) are not told apart from the controller's own.

### TokenVerifier, ToolCatalog and Access

`request[r]` is a `verify_token` at its await; `stage` says which document it
needs and why. `kept`, `holder` and `forced` are the caches, the locks and
`_last_forced_refresh`. A document counts from when it was asked for. Steps
between two stages are separate, so another request may run in between.
What matters of a token are three facts: which key signed it (`KeyOf`), with which
keys it can be checked at all, by their `alg`, `use` and type (`Suits`), and whether
the rest is in order (`Fit`). A key of the token's ID that does not suit it ends the
verification (`unlike`); one that suits and did not sign it leads to a forced
refresh, after which `alg` and `use` are not looked at again. At most one published key
has a given ID and a withdrawn key does not return. `FetchTime` bounds a fetch;
the HTTP client's timeout bounds each of its phases. Three things the code does
show in the properties: a forced refresh that fails does not start the
cool-down; a token of a key that was just rotated in may be refused for up
to a cool-down; and one whose key replaced a key of another algorithm under the
same ID is refused, with no refresh, for as long as the old document is kept.

`ToolCatalog` lists the tools `server.py` registers, grouped as they are there,
by whether they only read, change something, or change something only with
`confirm=true`; parameters, descriptions and bodies are not part of it.
`Access` adds startup (`RefuseAmbiguous`, `Skip`, `Load`, `Reject`, `Start`, in
any order, since the code takes entry points as the installation lists them) and
calls. Over HTTP a call runs only after the verifier
accepted its token; the verifier's steps are those of `TokenVerifier`, which
`AccessProofs!VerifiesTokens` proves.

The catalog differs from the policy's tables in five tools that change something
and have no scope (`Unclassified`, checked by `PolicyTables` in `MCAccess`):
`update_site_settings`, `create_firewall_rule`, `update_firewall_rule`,
`delete_firewall_rule` and `update_camera`. `audit_tools` therefore refuses to
start the shipped server over HTTP at all, although the repository's README
describes that transport (`README.md:137`, `270-291`). A plugin cannot declare
the five either, since their names are taken. So that calls over HTTP are
checked as well, a configuration may have the core `audited`: the same catalog
without the five. `Load` may only add a name once; a scope that a plugin
declares for its tools applies on top of the tables. The other extensions have
names of their own for each kind (`Others`).

## Runs

| Run | Instance | What it shows |
|---|---|---|
| `scheduler_safety` | two processes, one schedule, two slots, two attempts, lease 8 against a longest execution of 7, `TxDelay` 1, two disruptions, store errors | `NoOverlap`, `LiveHoldsClaim`, `LiveRunNotClosed`, their inductive form `LeaseInv`, and `SpacedStarts` hold, and `KeepsLedger`: the scheduler implements `JobLedger` (627,830 states) |
| `scheduler_liveness` | one process, two schedules for one job slot, one disruption (a crash among others) | `EnabledKeepsRunning` and `OrphansReleased` hold while no transaction of the loop raises (101,390 states) |
| `scheduler_overlap` | no disruption, three attempts, lease = attempts * timeout as in the default settings | `NoOverlap` fails: backoffs push the last attempt beyond the lease |
| `scheduler_loop_dies` | one transaction may raise | `EnabledKeepsRunning` fails: `serve()` ends |
| `scheduler_shutdown` | a batch of two jobs | `ShutdownDrains` fails: the store closes when the first has unwound |
| `http_cache` | three calls, one key, two changes, two invalidations started, sessions that expire | `CacheFresh`, `InFlightFresh`, `WriteOnce` hold, and `KeepsPromise`: the client implements `CachePromise` |
| `webhooks_delivery` | two events, one destination, two workers, three attempts, delays up to 2, two batches cut off | `OneHolder`, `AttemptsLeft`, `NoDuplicateDelivery` and `DeliveriesSettle` hold, and `KeepsOutbox`: the workers implement `Outbox` (263,843 states) |
| `webhooks_repolled` | one event, one worker, `LongWindow` | `NoDuplicateDelivery` fails: pruning forgets the source key |
| `events_polled` | two jobs, a Protect console with two events and a Network console that never answers, page limit 2, overlap = lateness = first window = 1, clock up to 2 | `NothingLeftBehind`, `CursorShowsStored`, `NeverBehindRead` and `ReportedIsStored` hold, and `TakesAsPromised`: the polls implement `EventIntake` (226,128 states) |
| `mutations` | two calls, one of any tool, two IDs, two names, two values, one change at the console, two read-backs | `ToldTruth`, `MeantObject`, `KeepsTheRest`, `PoolStaysInSubnet` and `CallsEnd` hold (502,807 states) |
| `mutations_broken_off` | one call of a network tool | `RejectedIsRefused` fails: a connection that breaks off is told as a rejection of what is carried out |
| `access` | six configurations, three plugins, two requests, four tokens, two keys with one ID of which one token's algorithm suits the second only, documents kept for 2, fetches of up to 1, clock up to 2 | `ScopesHold`, `PluginsWhole`, `KeyWasRecent`, `RefusedForCause`, `ForcedApart` and `VerificationEnds` hold (236,704 states) |

The runs that fail are disagreements between the code and its documents; the
findings in `PROJECT.json` quote both sides.

Bounds. Two slots per schedule are enough to see an overlap, and the second
process is what recovers or repeats the first one's work. The lease of 8 is the
smallest one longer than the longest execution with two attempts, so the safety
run has no slack. `AgeCap` is the lease plus `TxDelay`: no guard tells greater
ages apart. `OverdueCap` saturates lateness, which only matters for the order
of due schedules; the liveness run gives it more room. Three calls allow a
read to span a write and a fresh read. Two invalidations can start while each
of them ends with another one; a version more than the number of writes lets
the controller change on its own. `MaxInserts` is never reached without
`LongWindow`, and `MaxAborts` = 2 leaves one of three attempts of one delivery
cut off twice. `StaleAfter` 2 with `JobTimeout` 1 is again the smallest lease
that works. For events, two jobs are what it takes to set a cursor back, two
events fill a window of limit 2, and an overlap equal to the lateness leaves no
slack. None of its events is without a timestamp and the source that never answers
has none: the code stores nothing of a source as long as it lists such an event,
and `ReportedIsStored` exempts it. A page there holds one event at most; that the theorems hold of any page
size is what the proofs add. For mutations, the second call is one that interferes with each of the
tools, the free ID lets a name move, and one change at the console on top of it
gives a call two kinds of disturbance; two read-backs separate the first from the
last. For tokens, two requests contend for each lock, two keys with one ID make
a rotation, and the clock reaches the cache's expiry within a fetch. The
cool-down is the shorter of `Ttl` and `Minute`, here `Ttl`. The catalog is the
real one, so `Asked` only names a tool of each sort. Deadlock is not checked in
`mutations` and `access`, where calls are made once and startup may refuse.

Fairness. The event loop runs what is ready (weak fairness of each execution's
steps, of a pass of the loop and of its end), a process that stopped is started
again, and time passes (strong fairness of `Tick` in the scheduler, since
retries may enable and disable it). Nothing is assumed of operators, faults and
the outcome of jobs. For deliveries: `Deliver` is weakly fair because a schedule
of `retry_webhook_deliveries` keeps coming round and requests have a timeout;
batches are cut off only `MaxAborts` times, since a batch that is cut off every
time records nothing, in the code too. Polls: the steps of a poll are weakly fair
because each has a timeout, and a job that asks all sources is strongly fair
because its schedule comes round whenever no other run of it is in the way.
Mutations: the steps of a call are weakly fair (the event loop, and the timeouts
of requests) except `BreakOff`, since no connection has to break; nothing is
assumed of the controller, so a listing may lag for ever. Tokens: the end of a fetch is weakly fair by its timeout, taking the next
look is strongly fair because `asyncio.Lock` serves its waiters in turn.

## Proofs

All theorems hold for every value of the constants; `tlapm` checks them to the
last leaf.

| Module | Theorem | Property | Assumes |
|---|---|---|---|
| `SchedulerProofs` | `TypeCorrect` | `TypeOK` | |
| | `LeaseSafe`, `MutualExclusion`, `ClaimsHeld`, `RunsStayOpen` | `LeaseInv`, `NoOverlap`, `LiveHoldsClaim`, `LiveRunNotClosed` | `LeaseLongEnough` |
| | `StartsAreSpaced` | `SpacedStarts` | `LeaseLongEnough` |
| | `ExecutionsAreTimely` | `Timely`: each live execution is `AgeBounded` | |
| | `ImplementsLedger` | `KeepsLedger` | `LeaseLongEnough` |
| | `HistoryStays` | `JobLedger`'s `Exclusive`, `ClosedForGood` | `LeaseLongEnough` |
| `HttpClientProofs` | `TypeCorrect`, `NeverStale`, `NothingStaleInFlight`, `WritesHappenOnce` | `TypeOK`, `CacheFresh`, `InFlightFresh`, `WriteOnce` | |
| | `ImplementsPromise` | `KeepsPromise` | |
| | `CacheGoesOn` | `CachePromise`'s `Fresh`, `NeverBack` | |
| | `RenewedOnce` | `SentTwiceAtMost` | |
| `WebhooksProofs` | `TypeCorrect`, `AttemptsBounded` | `TypeOK`, `AttemptsLeft` | |
| | `ClaimsExclusive`, `EndsAreFinal` | `OneHolder`, `FinalStays` | `TimeoutBeforeStale` |
| | `DeliveredOnce` | `NoDuplicateDelivery` | `TimeoutBeforeStale`, `~LongWindow` |
| | `ImplementsOutbox` | `KeepsOutbox` | `TimeoutBeforeStale` |
| | `AttemptsAreCounted` | `Outbox`'s `Accounted`, `CountedByHolder` | `TimeoutBeforeStale` |
| `EventPollingProofs` | `TypeCorrect`, `CursorIsStored` | `TypeOK`, `CursorShowsStored` | |
| | `NothingIsLeftBehind`, `WatermarksGoOn`, `Refinement` | `NothingLeftBehind`, `NeverBehindRead`, `TakesAsPromised` | `ReportedInTime` |
| `MutationsProofs` | `TypeCorrect`, `TruthIsTold`, `NamesMean` | `TypeOK`, `ToldTruth`, `MeantObject` | |
| | `UpdatesKeepTheRest`, `PoolsStayInSubnets` | `KeepsTheRest`, `PoolStaysInSubnet` | |
| `TokenVerifierProofs` | `VerifierTypeCorrect`, `KeysAreRecent` | `VerifierTypeOK`, `KeyWasRecent` | |
| | `RefusalsHaveCause`, `RefreshesAreApart` | `RefusedForCause`, `ForcedApart` | |
| | `AcceptedAreIssued`, `LocksAreNotLeaked` | `AcceptedIsIssued`, `HolderFetches` | |
| `AccessProofs` | `AccessTypeCorrect`, `PluginsAreWhole`, `ScopesAreHeld` | `TypeOK`, `PluginsWhole`, `ScopesHold` | |
| | `VerifiesTokens` | `VerifierSpec` | |
| | `ServerKeepsPromises` | `KeyWasRecent`, `RefusedForCause`, `ForcedApart` of the whole server | |
| | `ToolsRunForIssuedTokens` | `RanForIssuedToken` | |
| | `ShippedServesNoHTTP` | `ServesHTTPOnlyAudited` | |

*Scheduler.* `NoOverlap` is not inductive: a claim is taken back by its age, so
one has to know how old a live execution can be. `LeaseInv` bounds the age at
each await (`AgeBounded`, from `StartBy`, the sum of the attempts' timeouts and
backoffs so far): for the timestamp of its run and for that of its claim, which are
not the same, since `set_schedule_enabled` stamps the claim anew with a time it may
have read before the claim was made. It also says that the execution is alone and
that its claim and its run are there (`HoldsClaim`, `RunOpen`). `LeaseLongEnough`,
the longest execution is shorter than the lease,
then makes stale recovery miss every live execution. The default
settings do not meet it (`scheduler_overlap`). For `SpacedStarts`, `SpacingInv`
relates the loop's last start of a schedule to its row: the schedule is not due
before its interval is over, or its claim is as young as that start, or the start
was a lease ago, each of them but for `TxDelay`; and no live execution is older than that start by more than
`TxDelay`, so that none finishes with an earlier `next_run_at`. `SpacedStarts` allows
for these delays: one between two intervals, and two for a lease, one for the
timestamp of the claim and one for that of the loop which finds it stale.

How old an execution gets depends on its own timeouts alone, not on whether its
claim is still there; and a claim's timestamp, whoever wrote it last, goes back at
most `TxDelay` before the execution it was written for or during. `Timely` is that part of `LeaseInv`, and it holds for every
lease, in the default settings too. The refinement takes the rest of `LeaseInv`:
with `LeaseLongEnough` the claims and runs that recovery finds stale are of the
dead, so a pass of the loop is one `Claim`, and an execution that finishes holds
the claim it releases, so its transaction is a `Close`. The steps of the loop, of
time and of operators leave the three variables alone, a crash and an exception
are a `Die`. `HistoryStays` is proved of `JobLedger` first (`Exclusive` is
inductive there, and each of its steps keeps closed records) and then carries
over by the refinement.

*HTTP client.* `CacheFresh` needs `InFlightFresh`: only a response to a call of
the current generation may be stored, and such a response is not older than
`floor`. Each invalidation raises the generation, so calls in progress fall out
of the condition just when `floor` rises. `WriteOnce` follows from: what has
been applied has its answer, and only a 401 leads to another send. The same
invariant gives the refinement: each step is a step of `CachePromise` or leaves
its variables alone. `CacheGoesOn` is proved of
`CachePromise` and carries over; `Fresh` is the reason why a floor that rises
takes every older entry with it. `RenewedOnce` needs no more than that a call
which is at its login has been sent once.

*Webhooks.* `AttemptsInv` says that queued deliveries and claimed ones have an
attempt left. `HolderInv` adds that a claimed delivery's row says so and is as
old as the batch (`Fits`), that two workers never hold the same row (`Apart`)
and that a row has its event (`Rooted`); with `TimeoutBeforeStale` no live claim
is ever stale. `OnceInv` adds that an event once inserted is stored or gone,
that what is claimed is not recorded as delivered, and that what is recorded as
delivered is not queued. `TimeoutBeforeStale` holds for the defaults (300 s
against 900 s); the configuration allows a job timeout of up to 3600 s.
For `KeepsOutbox` one has to know that whoever records a result either holds the
row or finds that it is not there any more (`Fits`), that a claim takes only rows
nobody holds (no live claim is stale, `Apart`), and that a row's attempts grow
only with its results. `Accounted` is inductive in `Outbox`, with `CountedByHolder`
of each of its steps; both carry over. `EndsAreFinal`, that a delivery which came
to its end stays as it is, is one of the consequences and proved directly.

*Event polling.* `NothingLeftBehind` says nothing of the polls in progress, whose
pages become cursors later, perhaps after those of younger polls. The
strengthening speaks of each page on its way (`PageInv`): it holds everything
that occurred in its window up to `Lateness` before its end; and of the window it
was asked for (`WindowInv`): everything before its start is stored. With
`ReportedInTime`, whichever page is inserted last, the window that follows from
its cursor starts where nothing is left behind. The refinement rests on the
same invariant: `Insert` is a `Take` of the page. `NeverBehindRead` needs to know
that a page holds the event whose time is the watermark it was asked with
(`Reaching`), which the window reaches back to.

*Mutations.* `MInv` is `Typed`, `AllTold` and `Knowledge`. `Knowledge` relates a
call in progress to the controller: the object it chose is one the target has
meant since the call began, and, as long as nobody else changed anything, the
listings show what is there and so does what the call read of its object.
`AllTold` gives `ToldTruth` its missing part, what has become of the request at
each await, for every exchange that did not break off.

*Tokens and access.* `VerifierInv` ages the documents: one that is kept or on
its way lists only keys that were published when it was asked for or later and
every key that has been published since before (`Lists`). A fetch in progress
holds its document's lock (`Locks`) and was asked for after the last forced
refresh, if forced itself a cool-down later (`Cooling`). For `RefusedForCause` one
has to know, besides, that the issuer has one key of each ID (`OneOfEachID`): a
key of the token's ID that the verifier met and that is not the token's own was
withdrawn, and `Lists` says how recently (`UnlikeWasRecent`). `AccessInv` adds that a
required plugin has not been passed over while the server loads, that a server
over HTTP serves only after an audit that found nothing, and that a request which
ran a tool had the scopes it takes.
`VerifiesTokens` shows that each step of the composition is a step of the
verifier or leaves it alone, so that its theorems hold of the server
(`ServerKeepsPromises`). `AcceptedIsIssued` follows from `Lists`: a key in a
document was published when that was asked for, and `since` remembers it; a
request that has been decided stays so (`AcceptedStays`). With what `AccessInv`
knows of requests that ran a tool this gives `RanForIssuedToken`, from the token to
the handler. `HolderFetches` is the half of `Locks` that speaks of the holder: no
way out of a fetch leaves the lock taken. `ShippedServesNoHTTP` states for every
set of plugins what `PolicyTables` shows of the tables: `update_camera` changes
something, no plugin may take its name, so the audit of a shipped server finds it.

Of the theorems whose property is in no run's list, `HolderFetches`,
`AcceptedIsIssued` and `RanForIssuedToken` were seen to hold on the instance of
`access`, and the properties of the abstract modules on small instances of those,
before they were proved; `Timely` is a part of `LeaseInv`.

Only model-checked: liveness (`OrphansReleased`, `EnabledKeepsRunning`,
`DeliveriesSettle`, `ReportedIsStored`, `CallsEnd`, `VerificationEnds`), which is
out of the prover's reach, as is everything about ENABLED. The refinements are of
the abstract modules' safety; those have no fairness of their own.

## Not modelled

- Formatting, normalization, redaction and payloads; cryptography and name
  resolution, whose outcomes are choices of the environment.
- The other methods of the Network client map one call to one request, which
  `HttpClient` models. The lookup of site IDs for the integration API is left out.
- The Protect client: each call logs in when it has to and sends one request.
  Tools open a client for each call, and the jobs' clients are objects of their
  own, so nothing is shared that could race. `update_camera` calls a method
  `_patch` that the client does not have (`protect.py:206`) and always raises; a
  request that is sent again after a new login passes on the HTTP library's
  exceptions as they are.
- Reading tools, insights, statistics and the multi-site tools: they fold
  listings into summaries with fixed thresholds, and the repository states no
  rule to check these against. `tools/network/multisite.py:123` calls a method
  that the client does not have, and the global health is "healthy" when no
  controller answers; a state machine adds nothing to either.
- QoS plans (a stored preview that expires; `apply` checks that and changes
  nothing), client organization, observations, snapshots, exports and reports:
  single transactions or pure functions.
- Configuration: parsing of values. Those that matter are constants.
- The store: a cancelled transaction is taken as rolled back, which is so once
  `BEGIN` has returned; what happens to a `BEGIN` that is cancelled on its way
  depends on the worker thread of aiosqlite, which is not part of the repository.
  Opening, migrations and closing run alone.
- The lifespan's cleanup: steps one after the other, each in its own `finally`;
  what interacts with the scheduler is `Shutdown` there.
- What plugins do when they are imported, and a job that ignores cancellation.
- Cached answers to the event sources: a Network poll may be given a listing up
  to a minute old, which is a later report in this model.

## Plan

The order was: the scheduler, the HTTP client with its cache, deliveries; then
event polling, the mutations on top of the client (which took the place of a
module for port updates alone), token verification, and last the composition of
the verifier with the catalog of tools and the plugins. A module for the store
and the lifespan was considered and left out for the reasons above. Each table
that several actors write now has an abstract module that its component is proved
to implement. What remains open: an abstract module for the tool calls of
`Mutations`, whose promises are so far stated of the calls themselves, and models
of the parts above, should they come to share state.
