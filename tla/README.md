# Formal model of the IoT gateway

TLA+ specifications of the gateway in this repository, the TLC configurations
that check them on small instances, and TLAPS proofs of the results that hold
for every instance. `PROJECT.json` lists the parts of the system, the runs, the
source lines each definition models, and the hazards the properties are aimed at.

    tlc -workers 2 -config MCDataFlow.cfg MCDataFlow
    tlapm IncrementalStatsProofs.tla

## The system

The gateway is one Go process (`cmd/gateway`, `internal/core/runtime.go`) with a
NATS server embedded in it, sidecar processes for out-of-process adapters, and a
React front end served by its web service.

```
 adapters (southbound, or a sidecar through the ISP protocol)
     |  dataChan, capacity 1000, non-blocking send
     v
 plugin.Manager batch loop (10 points or 100 ms)
     |-- Publish(batch) on every sink (northbound)
     `-- NATS: iot.data.<device>.<key>
                     |
                     v
 rule engine: index -> worker pool -> condition -> actions
     (transform, filter, aggregate, alert, forward)
     |-- iot.data.*, iot.rules.*, aggregate.*, iot.alerts.* on NATS
     v
 web services (REST, WebSocket, SQLite), alerts, metrics
```

| Part | State | Operations | What is hard | What makes it correct |
|---|---|---|---|---|
| runtime (`core`) | service list, context | start, stop | start and stop order | the data path ends; every point the engine misses is accounted for |
| plugin manager, data path (`plugin/manager.go`) | `dataChan`, batch | receive, publish, stop | loss at shutdown, failing sinks | order and conservation of points, bounded loss without a logged error |
| plugin manager, registry (`plugin/manager.go`, `loader.go`) | adapters, sinks, process table, plugin cache, two mutexes | load, start, stop, restart, list, rescan | lock order, stale cache, orphan processes | one instance per plugin, no untracked process, requests return |
| ISP client, proxy, sidecar server | connection, pending requests, receive loops | connect, request, reconnect, stop | late replies, double close, unnoticed disconnect | a reply reaches its request; the proxy reconnects |
| adapters and sinks | running flags, queues, statistics | start, publish, stop | full queues, restart, shared tags | a stopped adapter sends nothing; an accepted point is sent or counted |
| rule manager (`rules/manager.go`) | rules in memory, files, change channel | load, save, delete, enable, watch | crash between steps, stale reads, dropped events | memory, disk and engine agree when nothing is underway |
| rule index (`rules/index.go`) | buckets per device, key, type; priority list | add, remove, match | a bucket out of step with the rules | the candidates of a point include every rule that applies |
| worker pool (`rules/optimized_worker_pool.go`) | dispatcher queue, worker queues, batches, counters | submit, dispatch, process, stop | back pressure, shutdown | every task handled exactly once |
| aggregation, live path (`rules/service.go`, `sharded_aggregate_states.go`) | a buffer per rule and group | update, compute, clear, expire | reads outside the lock | a point counts once |
| statistics (`rules/actions/incremental_stats.go`) | ring, running sums, caches | add, report, reset | wrapped rings, stale caches | the report is that of the window |
| alerting (`rules/service.go`, `web/services/alert_*.go`) | throttle table, alerts, timers | throttle, create, acknowledge, resolve | check-then-act, late timers | one alert per interval; recovered means resolved |
| web services | sessions, stores, sockets | handlers | shared maps, slow clients | no send on a closed channel |

The expression language, transforms, parsers, metrics and the front end compute
or display and hold no state another part depends on.

## Modules

| Module | Models | Proofs |
|---|---|---|
| `SlidingWindow` | abstract: what a count window promises | |
| `IncrementalStats` | `incremental_stats.go` with count windows and without a window | `IncrementalStatsProofs` |
| `DataFlow` | `plugin/manager.go` (batch loop), `SafeSendDataPoint`, `Runtime.Start`/`Stop`, `main` | |
| `RuleWorkerPool` | `optimized_worker_pool.go`, submission in `handleDataPoint` | |
| `PluginRegistry` | start, stop, restart, list and rescan in `plugin/manager.go` and `loader.go` | |
| `RuleIndex` | `rules/index.go`, the Boolean part of `evaluator.go` | |
| `RuleStore` | `rules/manager.go`, `rule_service.go`, `watchRuleChanges` | |
| `AggregateWindow` | `executeLegacyAggregateAction`, `sharded_aggregate_states.go` | |

Each `MC…` module instantiates the module of that name for TLC. Definitions
whose name starts with `Bad`, and the variants `CreatingOnly`, `KeepingOne`,
`StopAtError` and `WideFiled`, are mutated forms of the definition after them; no
specification uses them. They record how the code could be wrong and which
property notices.

### IncrementalStats and SlidingWindow

Every method of `IncrementalStats` holds `s.mu` throughout, so an action is a
whole call: `AddValue`, `AddNullValue`, `GetStats` (which fills the cache) and
`Reset`. Variables carry the field names of the struct. `hist` is a history of
the values since the last reset, against which the incremental state is judged.
Values are integers and quotients are kept as pairs, so the equalities are exact;
the rounding of floating point is outside the model. `windowSize` is a field that
is chosen when the object is made and never changes; 0 is the cumulative mode, in
which the median is the mean and a percentile an estimate from mean and standard
deviation (`normalApproximation`). The ring read from its oldest slot implements `SlidingWindow`
(`RefinesWindow`).

### DataFlow

Processes: `main` (start sinks, start adapters, launch the loop, start services;
on a signal cancel, stop sinks, adapters and services, close NATS), one goroutine
per adapter, the batch loop, and the callback of the rule engine. `Receive`, `Tick`
and `LoopExit` are the arms of the loop's `select`; the publication of a batch is one
step per sink and one per point on NATS, in the order of the code, so that stops
interleave with it. A sink takes a prefix of the batch and fails on the rest, or
takes all. `Ungated` are the sinks whose `Publish` does not test the running flag. A
point that cannot be serialized (`NotANumber`) or published is logged and skipped
(`errored`). NATS is external: it queues the messages of the engine's subscription
(`inbox`) and drops what does not fit.

### RuleWorkerPool

Processes: the NATS callback, the dispatcher, the workers, `Stop`. A timer (50 ms
in `SubmitTask`, 20 ms in the forced submission, the batch timer) is an action
that is enabled whenever it may have expired. `handled`, `rejected` and `dropped`
are histories. The counters `totalTasks`, `completedTasks` and `busyWorkers` are
updated at the step where the code updates them, apart from the hand-over. The
model assumes `QueueSize >= NumWorkers`, which the configuration does not enforce:
below that the channels of the workers are unbuffered. `statsCollector`, for which
`Stop` also waits, is left out.

### PluginRegistry

Requests run as threads with a program counter; `m.mu` and `pluginCacheMutex` are
taken and released where the code does, and a request between two locks is a
state other requests act in. `processes` and `alive` separate the loader's
process table from the processes that exist; `instances` counts started objects
against the keys of the maps. A loaded sidecar enters the registry of built-in
adapters under its type (`registry`) and can be listed and started by that name.
Loading, starting an instance and scanning may fail at each of their calls and leave
what they did before (`LoadFails`, `ScanFails`). Files appear and vanish, and
sidecars die, at any time.

### RuleIndex

Rules are objects that the index and the manager share, so that a rule switched
off in place is also switched off in the index. `Filed` and `Removed` are the
index as a value; `Rebuild` starts from nothing. `Match` reads the buckets in the
order of the code, and falls back to the priority list when it finds no candidate.
A condition is `eq` on an indexed field, `test` (any comparison the index cannot
use), `and`, `or` or `not`.

### RuleStore

Three copies of each rule: the files (`file`, `array`), the manager's map
(`rules`) and the engine's index (`engine`). The last two, the events on
`changesChan` and the requests in progress hold pointers into one `heap` of rule
objects, so that a change in place shows to all of them; objects nobody refers to
are collected. Processes: requests of the web API, the file watcher, the engine's
`watchRuleChanges`, people editing files (also into something that does not parse or
validate), and restarts. An update gets the rule, edits the shared object without
the lock and then saves it. A save holds `m.mu` over the rewriting of the array file,
the truncation and the write; each is a step that may fail and after which the
process may crash. The watcher reads without the lock and applies what it read
later. `reported` is the history of rules for which an error was returned or logged.

### AggregateWindow

One aggregation state and the workers that execute its rule. `UpdateState` is a
step under the shard lock; the read of `state.Buffer` that follows has no lock
and is modelled as the loads of its words and elements (`LoadArray`, `LoadLength`,
`ReadPoint`) from a backing array that other workers reuse; a load of a cell that
was never written, or past the end, gives `Garbage`. `Compute` fails, and leaves the
buffer as it is, when no value is a number or the function is not supported; `failed`
counts such failures since the buffer was last empty. `ClearStateBuffer` and
`CleanExpiredStates` complete it.

## Runs

| Run | Shows | States |
|---|---|---|
| `stats_window` | windows of 4 and 1 and the cumulative mode, 6 additions: the ring wraps; sums, extremes, cached mean and variance are those of the values that should be held; the median of the window of four is its middle value; percentiles are ordered, p50 is the median, and with a window of four they lie between the extremes; threshold counters partition a count window; the ring implements the sliding window | 13 thousand |
| `stats_window_one` | violation: in a window of one the median is the first value since the reset, not the value held | |
| `dataflow` | between `dataChan` and NATS nothing is repeated or reordered, or lost without a logged error (`NothingLostInOrder`); what a shutdown loses without one is at most a channel and a batch that was not full (`LossBound`); sinks that do not fail stay in step (`SinksInStep`); the engine gets every point but those published before it subscribed, those a full subscription dropped and those with a logged error (`EngineAccounted`); an accepted point is published or its error logged unless the context is cancelled; after a signal the data path ends | 113 thousand |
| `worker_pool` | every task is in exactly one place or processed once (`ExactlyOnce`); counters balance; tasks that go through the dispatcher to one worker keep their order; the callback returns; tasks settle while the pool is up; the dispatcher and the workers end after `Stop` | 92 thousand |
| `worker_pool_drop` | violation: the dispatcher drops a task that was accepted | |
| `plugin_registry` | the cache a request may answer from is what a rebuild would give, except after a rescan or start that failed half way; no second instance; no untracked process | 1.1 million |
| `plugin_registry_deadlock` | violation: opposite lock orders in `GetPlugins` and in start, stop or rescan | |
| `rule_index` | conditions without `not`, and with an indexed test in every branch of an `or`: `Match` returns every rule that applies; no removed rule, unless its condition repeats a test; incremental maintenance equals a rebuild | 32 thousand |
| `rule_index_miss` | violation: with `not`, or an `or` of which one branch is not indexable, an applicable rule is skipped | |
| `rule_store` | memory and disk differ about a rule that is not in the array file only while a change of it is underway or since an error about it was reported; a crash loses a rule only in the windows `AtRisk` names (its file or the array file truncated, or the rule taken out of the array file and not yet in its own); requests return; the echo of the manager's own writes dies out | 144 thousand |
| `rule_store_engine` | violation: a change of a rule never reaches the engine's index | |
| `aggregate_window` | what the buffer holds beyond a window short of one point is one point per worker at work and one per failed action (failed actions are not bounded: such a buffer grows); a point that two workers did not overlap on is in exactly one result; such a result comes from consecutive points, a window of them and at most one more per failure | 250 thousand |

The five violations are entries of `findings` in `PROJECT.json`, each with the
line of the repository it contradicts.

### Bounds

- Statistics: a window of four with six additions fills, wraps and overwrites two
  slots; a window of one is full from the first addition, where `count = 1` no longer
  means "first value"; 0 is the cumulative mode. The values -1, 0 and 3 give ties,
  negative values and both sides of the limits. What the sizes leave open, the proofs
  close for sums, ring and extremes.
- `DataFlow`: three points, batches of two, a channel and an inbox of one give a full
  channel, a full batch, a batch the ticker sends, a dropped message and a shutdown
  with channel and batch occupied; the second point cannot be serialized. A gated and
  an ungated sink are enough to tell the two kinds apart.
- `RuleWorkerPool`: two workers with a channel of one each, a dispatcher channel of
  two and four tasks fill every queue at once; one task has high priority. The drop
  needs six tasks.
- `PluginRegistry`: the watcher and two requests (symmetric), a sidecar whose name is
  also its type, and a configured built-in.
- `RuleIndex`: two ids and three rule objects, so that a rule is replaced while
  another shares its bucket; conditions of depth two over two devices, keys and types.
- `RuleStore`: two rules, a valid and an invalid body, two clients, a change channel
  of two and two operations (`MaxOps`: requests, edits of files and restarts), enough
  for a request that meets another, an edit or a crash at each of its steps. `MaxObjs`
  is large enough for every object that can be alive. With three operations liveness
  is too slow to keep.
- `AggregateWindow`: three workers, a window of two and five points; two of the
  points are not numeric, so that a window without a number occurs, and the append
  beyond the capacity happens; the function is supported or not.

### Fairness

Weak fairness of a goroutine's step says that the Go scheduler runs what can run,
and that a timer that stays set fires. Strong fairness is used where a step is
enabled again and again but not continuously: `LoopExit` in `DataFlow`, because
`select` chooses at random among the ready arms; a request waiting for a mutex in
`PluginRegistry` and `RuleStore`, because `sync.Mutex` hands the lock to a waiter
after a millisecond. The environment (new points, requests, edits of files, the
signal, crashes) has no fairness. Deadlock checking is off where the system may
stop: after shutdown, or when the bound on inputs is used up.

## Proofs

`IncrementalStatsProofs` proves, for every set of integer values, every window
size (0, the cumulative mode, included) and every bound, from the named assumptions of
`IncrementalStats`:

| Theorem | Result |
|---|---|
| `TypeCorrect` | `Spec => []TypeOK` |
| `RingCorrect` | the ring holds the last `windowSize` values, each in the slot its age determines |
| `SumsCorrect` | `count`, `sum` and `sumSquares` are those of the values in the window |
| `MinMaxCorrect` | `min` and `max` are the extremes of the window |

The inductive invariant is `IInv == TypeOK /\ RingHoldsWindow /\ RunningSums /\
MinMaxOfWindow`. `RunningSums` alone is not inductive: `AddValue` subtracts
`values[valueIndex]`, which is the value leaving the window only because of
`RingHoldsWindow`, and the extremes are recomputed from the slots, which hold the
window's values for the same reason (`SlotsAreWindow`). A sum over a window cannot
be unfolded by induction here, so `hist` records with each value the totals so far:
the sum of the window is a difference of two totals, and adding a value changes it
by the new value minus the one that leaves. There is one lemma per action and,
under `AddValue`, one per conjunct.

Since `windowSize` is a variable, the proofs carry that no step changes it, so that
the slots of the ring are the same before and after a step.

Only model-checked: everything else. In particular liveness and `ENABLED` are
beyond the prover; `RuleIndex` uses recursive operators on conditions, about which
it cannot reason; percentiles and the median depend on sorting.

## Not modelled

`components` in `PROJECT.json` gives the reason for each part. In short:

- I/O of the drivers (Modbus, MQTT, HTTP, InfluxDB, Redis, JetStream), formatting,
  parsing of configuration and REST handlers that call one service: no state of
  their own that another part depends on.
- Transforms, the expression language and geometric functions: pure, mostly in
  floating point.
- Time windows of `IncrementalStats`, and the estimates its cumulative mode reports for
  outliers and thresholds.
- In a window of one, percentiles too are the first value since the reset, so that they
  may lie outside the extremes of the same report; `ReportConsistent` claims that bound
  for larger windows only.
- A failing rescan, or a start that fails after loading, leaves the plugin cache valid
  although the list has changed; `CacheFresh` exempts that.
- An aggregation whose action fails keeps its buffer, which then grows without bound.
- `DifferencePending` says nothing of rules that are also in the array file:
  enabling, disabling or deleting such a rule leaves its copy there.
- Parts that the program compiles but does not reach: the bus wrapper, the filter
  and forward handlers of `rules/actions`, the hot-reload manager.
- `firstValue` of `IncrementalStats` is the first value since the last reset, while
  `docs/aggregation_functions.md:161` calls it the first value in the window; the
  model follows the code.

## Plan

In this order; each module comes with its run, and hazards now without a property
get theirs.

1. `ISPLink`: `isp_client.go`, `isp_adapter_proxy.go` and the sidecar's server, with
   lost connections, late replies and reconnection. Abstract specification: a
   request gets its own reply or an error; a data channel that keeps order.
   Properties: a response channel is closed once, a reply reaches its request, the
   proxy is eventually connected again. Bounds: two requests, one restart of the
   sidecar.
2. `AlertThrottle` and `AlertLife`: the two throttles and the alert services, with
   auto-resolve timers and the system monitor. Properties: one alert per key and
   interval; after recovery no alert of the metric stays active.
3. `SinkQueues`: the sinks that queue (MQTT, WebSocket, NATS subscriber), their stop
   and restart, and the tags they write into the shared batch. The abstract sink is
   the one `DataFlow` assumes, and the queue is to implement it.
4. `AdapterLife`: start, stop and restart of the collection goroutines. Property:
   after `Stop` nothing of the earlier start is sent.
5. `WebSocketHub`: registration, broadcast and clean-up. Property: no send on a
   closed channel.
6. `AggregateManager`: states, limits and eviction, with a proof that the limits
   hold for every limit and window size.
7. `RuleEngine`: composition of the index, the pool, the aggregation and the bus,
   including results that are published and come back as points. Abstract
   specification: a point is evaluated against the rules in force when it arrived.
8. `DataFlow` with `PluginRegistry`: sinks and adapters that come and go while the
   batch loop ranges over them.
9. Operators: the filters, the time window of the statistics and the conversions,
   against reference definitions over small inputs.

Theorems to come: `BufferBound` of `AggregateWindow` for any number of workers;
`ExactlyOnce` of `RuleWorkerPool` and `NothingLostInOrder` of `DataFlow` for any
capacity and batch size; `RefinesWindow` as a refinement proof; `InstancesTracked`
of `PluginRegistry`; the limits of `AggregateManager`.
