# KubeRCA in TLA+

KubeRCA watches a Kubernetes cluster, caches what it sees and answers "why is
this resource broken" with rules and, where they do not suffice, a language
model. Everything but the rules' `correlate()` runs on one asyncio event loop.
This directory models the parts whose correctness depends on the order of
things: TLC checks small instances; TLAPS proves their safety for all of them.

Paths below are relative to the repository; `analyst/queue.py` stands for
`src/kuberca/analyst/queue.py`.

## 1. The system

| Component | State | Operations | Talks to |
|---|---|---|---|
| Work queue `analyst/queue.py` | priority queue, `_dedup`, futures, worker tasks, rate window, 429 halving | `start`, `stop`, `submit`, workers, `notify_upstream_429` | calls `coordinator.analyze`; asks the cache for its readiness (optional callback) |
| Resource cache `cache/resource_cache.py` | objects per kind, `_truncated`; `_all_kinds`, `_ready_kinds`, `_readiness`, divergence indicators | `populate`, `update`, `remove`, `get`, `list`, `readiness`, `notify_*` | filled by list calls at start-up and by the watchers; read by rules and coordinator |
| Watch loop `collector/watcher.py` | `_resource_version`, failure, burst and back-off counters, time of the last relist | `start`, `stop`, watch, error branches, relist, pods-only fallback | API server; hands events to `_handle_event` |
| Pod, node, event watchers | last phase and spec hash per object; ring of 500 events | `_handle_event` | subclasses of the watch loop; `app.py` wraps the first two so that they write to cache and graph |
| Rule engine `rules/base.py` | ordered list of rules | `register`, `evaluate` | reads cache and ledger in threads with a 500 ms limit |
| Coordinator `analyst/coordinator.py` | none across calls | `analyze` | event buffer, cache, rules, LLM, ledger, graph |
| LLM analyzer `llm/analyzer.py` | `_available` | `health_check`, `analyze`, quality retry | Ollama |
| Change ledger, SQLite store `ledger/` | ring buffers; pending batch, degraded flag | `record`, `diff`, trims; `store`, flush, cleanup, `close` | SQLite |
| Dependency graph `graph/` | nodes, forward and reverse edges | `add_resource`, `remove_resource`, traversals | fed by cache seeding and by the wrapped handlers |
| Scout, notifications `scout/`, `notifications/` | rate windows, cooldowns, last-sent times | `process_event`; `dispatch` | nothing feeds the scout yet (no call of `process_event` outside tests) |
| Application `app.py` | running flag, component references, background tasks | `start`, `stop`, signal handler | all |
| REST, MCP, CLI, configuration, observability, redaction | none that lasts | | coordinator, `readiness()` |

What makes it hard:

* **Interleaving at awaits.** A worker suspended in an analysis, a caller that
  cancels, another that submits a duplicate, `stop()` suspended in `put()`.
* **Unreliable server.** Watch streams that break anywhere, replay, answer 410,
  429, 5xx; lists that fail or time out; events that are synthetic.
* **Time.** Sliding windows that expire silently while the state computed from
  them is kept; throttles; back-off; staleness clocks.
* **Two objects, one truth.** Registry and queue; cluster and cache; the
  watcher's failure count and the cache's readiness.
* **Limits.** Capacity, background share, list caps, rates, memory tiers.
* **Cancellation.** `close()` and `stop()` cancel tasks wherever they wait, and
  are themselves cancelled when `main()` returns.

The hazards are listed one by one, with their lines and the properties that
cover them, in `PROJECT.json` ("hazards").

Correctness, per component:

* *Work queue*: no future is lost while the queue runs; no two requests for one
  workload wait; urgent first; outcomes are final; bounds hold; `stop()` ends.
* *Cache readiness*: moves only along the documented transitions; READY is
  earned; PARTIALLY_READY and DEGRADED end when they should.
* *Cache and watcher*: the watcher always gets to the end of its stream, and
  then the cache is the cluster, up to what is documented as left out.
* *Rule engine*: rules stand in order; the answer is the first of the most
  confident results; nothing related is left out. *Coordinator*: what the
  quality gate lets through; confidences in range; every analysis ends, after a
  bounded number of calls. *Ledger*: limits hold, the latest snapshot survives a trim,
  nothing accepted by the store is lost without a fault. *Graph*: forward and
  reverse edges are inverse to each other; the blast radius is what the pods
  name. *Scout*: an alert is backed by the cluster. *Application*: a signal ends
  the process, whenever it comes, and not before components are stopped.

Not all of this holds; section 5 says what does not.

## 2. The modules

| Module | What it is | Code |
|---|---|---|
| `AgedCounts` | rolling windows as counts by age | timestamp lists in `queue.py`, `resource_cache.py` |
| `AgedCountsProofs` | what the total of a window is, and an induction on numbers | |
| `RateWindow` | the rate limiter's state and steps | `queue.py` 259-331 |
| `WorkQueue` | the whole queue, extends `RateWindow` | `queue.py` |
| `AnalysisRequests` | what the queue promises its callers, without workers, sentinels, registry, capacity or rates | abstract specification |
| `WorkQueueMC` | dedup keys and symmetry for TLC | |
| `WorkQueueProofs` | theorems about `WorkQueue` | |
| `CacheReadiness` | the readiness state and what it is computed from | `resource_cache.py` 122-199, 284-300, 360-593 |
| `CacheReadinessProofs` | theorems about `CacheReadiness` | |
| `Watcher` | the watch loop; the server's answers are parameters | `watcher.py` |
| `WatchedCache` | one kind of the cache, its watcher and a cluster; extends `Watcher` | `resource_cache.py` 161-278, `app.py` 328-365 |
| `WatchedCacheProofs` | theorems about `WatchedCache` | |
| `RuleEngine` | registration and `evaluate()` for any catalogue of rules | `rules/base.py`, `rules/__init__.py` |
| `DiagnosticRules` | the catalogue: R01 to R18 as data, and the situations they are asked about | `rules/r01_*.py` to `r18_*.py` |
| `Analysis` | `analyze()` with the LLM analyzer; extends `RuleEngine` | `coordinator.py`, `llm/analyzer.py`, `app.py` 373-419 |
| `AnalysisMC` | `Analysis` with the catalogue, and what is true of these rules | |
| `AnalysisProofs` | theorems about `Analysis`, for any catalogue, and one about the eighteen rules | |
| `ResourceCache` | `WatchedCache` and `CacheReadiness`, one at a time, for TLC | `resource_cache.py` |
| `MonitoredCache` | a watcher beside `CacheReadiness`; extends the one, instantiates the other | `watcher.py`, `resource_cache.py` |
| `ChangeLedger` | the ring buffers and the limits of `record()` | `ledger/change_ledger.py` |
| `SnapshotStore` | the SQLite store, await by await | `ledger/sqlite_store.py` |
| `DependencyGraph` | the graph with the seed and the two streams that feed it | `graph/dependency_graph.py`, `app.py` 214-275, 326-361, 656-682 |
| `AnomalyDetector` | the scout for one resource and reason, and the Event objects it is told about | `scout/detector.py` |
| `Application` | `main()`, `start()`, `stop()` and signals | `app.py` |
| `Parts` | these five side by side, one at a time, for TLC | |
| `ChangeLedgerProofs`, `DependencyGraphProofs` | theorems about the ledger and the graph | |
| `PartsProofs` | theorems about store, scout and application, and about all five together | |

`WorkQueue`. A variable per attribute: `queue`, `dedup`, `phase` (with
`_running` = "running" and the two awaits of `stop()`), `wstate` and `job` per
worker, `fut`, `res`, `prio` per work item. The monotonic time in a queue entry
makes one FIFO per priority. A work item is an element of a pool and returns to
it (`Forget`) once it is settled and nobody refers to it, so `Items` bounds the
futures alive, not the requests made. asyncio runs a coroutine until it blocks:
a worker that finishes an analysis runs through its loop head at once, which
`EventLoopFree` expresses by disabling everybody else. The rate limiter's
callbacks are arbitrary booleans.

`CacheReadiness`. `Recompute` is `_recompute_readiness()` branch by branch, used
by every caller with the counters as that caller has left them. Time is `Tick`,
which recomputes nothing, as in the code. `populate()` runs once, in steps
between which other coroutines run.

`Watcher` and `WatchedCache`. `pc` is the await the loop is suspended in. An
error action is an `except` branch or the end of the stream with the relist or
back-off that follows it (`Recover`). Two of the loop's clocks are abstracted to
booleans and small counts that may lapse at any time. The cluster is external:
a log of writes whose index is the resourceVersion, compaction, synthetic ADDED
events for a watch without a version, bookmarks. `unsynced` is a history
variable: the names whose last write no stream is going to deliver.

`ResourceCache` is a disjoint union of the two halves of the class, which read
nothing of each other: `half` is chosen at the beginning and kept, and the fairness
of the other half asks for nothing, because none of its fair actions is enabled initially.

`RuleEngine` and `DiagnosticRules`. A rule is what decides the evaluation: its
priority, base confidence, dependencies, the situations it matches and the
correlations it may come back with (how old the newest relevant change is,
whether at most one resource is related). A *situation* is an event (reason,
topics of its message, whether it was repeated) with what the cache holds; both
stand still during `evaluate()`, which never gives up the event loop. One step
of `Scan` goes to the next rule that is not excluded and matches (`Turn`), and
this rule is explained, raises, or is too late; `at`, `best` and `competing` are
the loop's variables. The confidence formula is computed in hundredths. The
correlations of the catalogue include changes of the ledger, although nothing in
the application records any yet (`ledger.record` has no caller). `AnalysisMC` has
four stub rules besides, of one priority, whose dependencies overlap in
a chain and which come up with a low or a medium confidence: among the
eighteen rules no medium result is followed by a better one with other
dependencies and then by a rule that tells the two apart.

`Analysis`. `stage` is where the worker is in `analyze()`; the readiness is read
once (`seen`), as in the code, and may be stale when penalties are computed.
`Analyze` to `Escalate` is one stretch without an await; then each answer of
Ollama is a step: a diagnosis (its number of citations, whether all keys are
there, whether it passes the quality check), unparsable text, a refusal, a
time-out, any other httpx error. `analyzer` is the availability flag, which a
refusal of any worker's call clears. What is left out of a response: text,
evidence, blast radius, state context, warnings.

`ChangeLedger`. `buffers` is `_buffers`; a snapshot is its age, its size and, as
a history, how many of its resource were stored after it. `record()` is one
step, since it is synchronous: failsafe eviction, hard limit, soft trim,
expiry, append, in this order. Snapshots arrive late and out of order, so an old
one may hide behind a young one (`DropWhileOlder`). The failsafe visits buffers
by length; `Visits` leaves ties open where the code's sort is stable. `dropped`
is a history: whether the last call dropped its snapshot.

`SnapshotStore`. Every await on the connection is a step: the batch is taken,
inserted, committed; expired rows go, the excess is counted, deleted resource by
resource, committed. Flush and clean-up share one connection, so either commit
commits both. `table` is what the connection sees, `disk` what survives a
crash: a crash may cost what is pending or in a batch, never a committed row.
`close()` cancels each task wherever it is; aiosqlite still carries out
a statement it was given. `pruned` and `excused` are histories: what a clean-up
had a reason to delete and what a fault may lose.

`DependencyGraph`. `forward` and `reverse` are the two adjacency lists, each key's
neighbours as a set. The seed makes nodes without edges: cached specs come
from `to_dict()` (`node_name`), the graph looks for `nodeName`. Afterwards two
streams (`inbox`) tell what happens to pods and to nodes, independently; a relist
skips what one had still to tell. `cut` is a history: pods whose edge to a node went
with the node.

`AnomalyDetector`. `window` is the `_RateWindow`, `lastAlert` the cooldown entry.
The cluster counts each Event object's occurrences (`when`), and the watch may
tell any count so far, again, late or out of order.

`Application`. `main` is the place where `main()` waits, `stopping` where each of
the two callers of `stop()` is. What runs between two waits is one step. Only the
event watcher and the queue have a `stop()` that waits; the other components
have none, so stopping them changes nothing.

`Parts` is a disjoint union: `part` is chosen in `Init` and kept, the four other
parts stay in their initial states, which costs the sum of their state spaces.
The fairness of a part that was not chosen asks for nothing, because none of its
fair actions is enabled initially.

## 3. The runs

| Run | Instance | Shows |
|---|---|---|
| `queue_safety` | 2 workers, 2 items, 3 resources, capacity 2, background threshold 0, 2 starts, rate 2 in a window of 1 tick, halving 1 tick, symmetry | type invariant; registry and queue agree; pending futures are owned; room is left; a sentinel for each worker; rate bounded and halved; outcomes final; implements `AnalysisRequests` |
| `queue_liveness` | 1 worker, 3 items, 2 resources | interactive requests are settled; `stop()` returns from its join |
| `queue_abandons` (violated) | 1 worker, 2 items | a queued item's future is pending for ever after `stop()` |
| `cache` | contents: 2 names, cap 1, 3 writes, 2 errors; readiness: 2 kinds, thresholds 1, windows 1 tick, staleness 2 ticks | a watcher at the end of its stream has a right cache; the cap; it gets there; transitions once a kind is listed; READY earned; PARTIALLY_READY ends; recovery; one failed list degrades for good |
| `relist_discards` (violated) | 1 name, 2 writes, 1 error | an object changes, the watch breaks, the relist lists the object and drops it: the cache stays wrong |
| `analysis` | the 18 rules and 4 stub rules (or the first three), 576 situations, one failing rule per evaluation, two events, one parse retry, citations 0, 1, 2, 3, 8 | order of the rules; the best result is returned; only rules unrelated to the best result so far are left out; R08 masks R11 to R14; quality gate; bounded calls; every analysis ends |
| `analysis_raises` (violated) | the same | `analyze()` raises |
| `answer_not_rechecked` (violated) | the same | a good last answer is capped as if it had failed |
| `outage_unseen` (violated) | 1 kind, the code's thresholds | an endless outage leaves the cache READY |
| `parts` | ledger: 2 resources, sizes 1 and 3, rings of 3, tiers 5, 7, 9; store: 1 resource, cap 1, 3 snapshots, 1 fault; graph: 2 pods, 1 node, 1 claim, 3 changes, 1 relist; scout: 2 Event objects, 4 occurrences, thresholds 4 and 2; application: all of it | rings without gaps, `latest()` kept; accepted snapshots are kept and reach the disk; lists agree, the blast radius is what pods name; rate alerts are backed; the process ends after a signal once it is up, and after a failed start |
| `ledger_drops_unevicted` (violated) | the ledger of `parts` | `record()` drops a snapshot although evicting old ones would have made room |
| `signal_lost` (violated) | the whole application | a signal during `start()` is lost and the process runs for ever |

Why the bounds are enough. Two workers and two items give every race of take,
finish, cancel and stop; a capacity of two reaches full, above the threshold
and below it, and a blocked sentinel; three resources let a request wait, one be
served and one arrive; two starts reach the restart that finds an old registry.
The second liveness instance needs a third item so that one can be overtaken
for ever. A cap of one with two names is met by a list, by an event and by a
deletion; three writes make one object be created, changed and deleted, or two
interleave; two errors allow an interrupted start from scratch inside a
recovery. Thresholds of one are reached and left within a few steps, windows
of one tick have an old and a new half, so that a call ages inside the rate window
of `queue_safety` before it leaves it. The one error of `relist_discards` is the
break that leads to the relist.
`MaxStarts`, `MaxWrites`, `MaxErrors`,
`MaxRV` and `MaxPerTick` bound what is otherwise unbounded; failure and burst
counters are kept up to one past the threshold they are compared with.

In `analysis` the situations are all combinations within four families (mounts,
scheduling, containers, the rest), with up to two topics where several rules
compete and two standing for "more" (of a failed mount the deployment is found
when the event is repeated, and four stocks of claims stand for all); rules of different families never match
the same event but for the topics included in both. One failure in an
evaluation is enough to hand the event to any later rule, two events to be
answered by the second; the numbers of citations are one for each branch of the
confidence (none, 1-2, from 3) and the cap. The theorems of section 4 hold
without these bounds. The stub rules match the one event that none of the eighteen
matches; their chain lets a medium result be replaced by a better one with other
dependencies, be tied with, or be lost to a failure, before rules that share something
with only one of the two.

In `parts` the sizes let one snapshot jump past the hard limit and past the
failsafe, ages reach every cutoff, a ring overflows; three snapshots of one
resource with a cap of one give an excess of one and of two, and meet every await of
flush, clean-up and close, with one fault anywhere; three changes make a node go and come
back, or a pod be made, scheduled and deleted; three counts within and across
windows, told in any order, reach both rules and the cooldown. The application has no
bound. `MaxLate`, `MaxStored`, `MaxFaults`, `MaxChanges`, `MaxSkips`, `MaxCount` and
`MaxClock` bound what is otherwise unbounded.

In `queue_safety` two of the three resources share a deduplication key, as a Pod
and a Deployment of one name do; the proofs hold for every `KeyOf`.

### Fairness

* *Queue*: weak fairness for a worker that is ready and for `stop()`. An
  analysis ends (the coordinator bounds each of its calls), and its worker is
  then ready to run; others may get the event loop first any number of times,
  so its step has strong fairness. A worker blocked in `get()` has weak fairness
  only: another worker may take each item first. Callers owe nothing.
* *Readiness*: the clock moves, `populate()` goes on once begun, and the status calls
  of REST and MCP keep asking.
* *Watched cache*: the server answers in the end; errors are finitely many; no
  fairness for the start-up list, writes, compaction, bookmarks or the clocks.
* *Analysis*: an analysis under way goes on (`WF_vars(Work)`): a correlation has
  500 ms, a call of Ollama the client's time-out. Requests and refusals of other
  workers' calls owe nothing.
* *Monitored cache*: the loop keeps retrying and callers keep asking.
* *Store*: the flush task wakes up and its statements return; a `close()` that
  has begun is carried out. Nothing is asked of the clean-up, of callers or of
  the next `open()`.
* *Application*: a task that can go on gets its turn, `main()` looks at `_running`
  every second, and each wait of `stop()` ends (a grace period bounds it). Nothing
  is asked of start-up: the API server may never answer.

## 4. What is proved

Every safety property of a passing run (its invariants and action properties,
and the refinement of `AnalysisRequests`) is a theorem. Each theorem is about
all values of the constants that satisfy the named assumptions of its module;
those that ask for more than types are that some sets are finite, not empty or
disjoint (pods and nodes are different objects), limits are positive and in order
(`SoftLimit < HardLimit < FailsafeLimit`, the soft capacity within the hard one),
a confidence is at most 0.95 and `None` is no datum. `DegradedIsLess` (the rate of a
degraded cache is at most the halved rate) is true of the code's 5 and 20/2
(`queue.py` 31-32) and the only relation between rates that is assumed.

### Work queue (`WorkQueueProofs`, from `QueueAssumption`, `RateAssumption`, `DegradedIsLess`)

| Theorem | Says |
|---|---|
| `TypeCorrect` | `Spec => []TypeOK` |
| `RegistryAgrees` | `Spec => []RegistryMatchesQueue` |
| `PendingStaysOwned` | `Spec => []PendingIsOwned` |
| `RoomIsLeft` | `Spec => []BackgroundLeavesRoom` |
| `EveryWorkerGetsASentinel` | `Spec => []SentinelForEachWorker` |
| `OutcomesAreFinal` | `Spec => SettledOnce` |
| `Implements` | `Spec => ServesRequests`: `WorkQueue` refines `AnalysisRequests` |
| `RateStaysBounded` | `Spec => []RateBounded` |
| `HalvingHolds` | `Spec => HalvedWhileBackingOff` |

The inductive invariant `IInv` is the five state properties, strengthened,
because none is inductive alone, by

* `Lifecycle`: what each phase implies of workers, sentinels and queue (nothing
  is queued before `start()`, a stopped queue has no live worker, ...);
* `ItemsInUse`: an item in the queue, in the registry or with a worker is not
  free, and one a worker has is registered nowhere; without it a new request
  could be given an item that is still queued;
* `EnoughSentinels`: sentinels put and sentinels `stop()` has still to put are
  together at least as many as the workers that have not ended; during
  "putting" the property itself says nothing.

`StepCases` names the actions once; each part of `IInv` has a lemma that it is
preserved, with a step per action that can disturb it (`TypeStep`, `RoomStep`,
`LifecycleStep`, `ItemsStep`, `RegistryStep`, `OwnedStep`, `SentinelsStep`), and
`IInvStep` combines them. Lemmas about queues (`QueueAfterNewItem`,
`QueuedAfterTake`, ...) say once what `Append` and `Tail` do to membership and
to uniqueness; `Counting` says that the number of live workers falls by one when
one leaves. `IInv` was checked by TLC on the instance of `queue_safety` first.
For `Implements`, `IInv` shows that each step maps to one of `AnalysisRequests`
or to none: an accepted request to `Accept` (its key is free, so nobody waits
for that workload), a `get()` to `Begin` (`NextPriority` and the registry make
its item the most urgent), a worker that comes back to `Settle` (it alone has
the item), `start()` to `Restart` (no worker is left from the run before).

The two rate theorems rest on what the total of a window is. `Total` folds a
function over a set, and a fold is a recursive function, so what `Record` and
`Aged` do to it takes induction. `AgedCountsProofs` states induction for a *set*
of numbers (`NatSetInduction`, from the well-foundedness of `<` on `Nat`), shows
with it that the recursion has a solution (`TotalIsSum`) that does not depend on
the order of the elements (`SumOfAny`), and ends in `TotalOfRecord` (one more)
and `TotalOfAged` (less what leaves the window). `RatesInOrder` adds that
no effective rate exceeds the default, nor the half of it during a halving.

### Cache readiness (`CacheReadinessProofs`, from `CacheAssumption`)

| Theorem | Says |
|---|---|
| `ReadinessTypes` | `ReadinessSpec => []ReadinessTypeOK` |
| `MovesAllowedOnceListed` | `ReadinessSpec => AllowedOnceListed` |
| `ReadyIsAlwaysEarned` | `ReadinessSpec => ReadyIsEarned` |
| `FailedListIsForGood` | once start-up ended without a kind the cache is never READY, and once it is outdated it stays DEGRADED: the safety half of `OneFailedListDegradesForGood` |

`ReadinessInv` adds to the types that a kind is listed only when registered and
that a READY cache has every kind (`ReadyHasAll`): no kind is ever taken away,
so READY cannot fall back to PARTIALLY_READY. `RecomputeSays` and `RecomputeInv`
treat the five branches of `_recompute_readiness()` once for all its callers.

### Rule engine and coordinator (`AnalysisProofs`, from `RuleAssumption`, `AnalysisAssumption`)

The catalogue may be any: rules are numbers, with priorities, base confidences up
to 0.95 and non-empty dependencies; so may be situations and limits.

| Theorem | Says |
|---|---|
| `TypeCorrect` | `Spec => []AnalysisTypeOK` |
| `RulesAreSorted` | `Spec => []RulesSorted` |
| `BestIsReturned` | `Spec => []BestOfExplained` |
| `NoRelatedRuleIsLeftOut` | `Spec => []OnlyUnrelatedLeftOut` |
| `UncheckedIsCapped` | `Spec => []CheckedOrCapped` |
| `CallsAreBounded` | `Spec => []BoundedCalls` |
| `GeneralMountRuleAnswers` | `Spec => [](DiagnosticConstants => GenericMountRuleMasks)` |

`IInv` adds two things. `ScanSoFar`: `competing` is the dependencies of the best
result so far, whose confidence is in the medium band, and everything
explained lies before `at`; without it a rule excluded in competing-only mode
need not be unrelated to anything, or only to a result that a better one has
replaced. `StageSoFar`: which retries each stage has
used up, and that an answer being retried has failed its check; without it the
cap would not be known to apply. `EngineStep` shows that every step preserves
the engine's half (`RegisterKeeps`, `BeginOrForgetKeeps`, `GiveUpRuleKeeps`,
`ProduceKeeps`, `FinishKeeps`; `NothingElseLeftOut` is the argument they share),
four lemmas do the same for the coordinator's stages.

The last theorem is about the catalogue of `DiagnosticRules`
(`DiagnosticConstants` gives the constants the eighteen rules and their
situations), for any number of failures, events and retries. Its invariant adds `ExplainedAreReal`
(what was explained matched, with a confidence some correlation gives) and
`BootedFirst` (nothing is evaluated before every rule is registered); TLC checked
both first. R08 is then registered wherever R11 to R14 are, and stands
before them (`InOrder`). By `OnlyUnrelatedLeftOut` it failed, was explained, or
was passed over in competing-only mode; the last cannot be, since all rules before
it read the pod, as R08 does (`ReadThePod`). Explained, it had at least the confidence of
the special rule (`GeneralIsConfident`, from the formulas of the five rules), so
that by `BestOfExplained` the special one is not the answer.

### Watcher and cache (`WatchedCacheProofs`, from `WatcherAssumption`, `WatchedCacheAssumption`)

| Theorem | Says |
|---|---|
| `TypeCorrect` | `Spec => []TypeOK` |
| `CapHolds` | `Spec => []WithinCap` |
| `CaughtUpMeansAgreed` | `Spec => []CaughtUpAgrees` |

`CaughtUpAgrees` speaks of the end of the stream only. Its strengthening
`CacheInv` speaks of every place of the watch: for an object that no relist
skipped, the cache holds the state after *some* write from `pos` on, or the cap
kept it out (`StreamAgrees`), and the same from `rv` on while no stream is open
(`ResumeAgrees`). "Some write from there on" and not "the state at `pos`",
because a stream resumed at an older version tells again what the cache is
ahead of; at the end of the stream only one write is left and the two agree.

### The five parts (from the assumption of each part)

| Theorem | Says |
|---|---|
| `RingsHaveNoHoles`, `LatestIsKept`, `LedgerTypes` (`ChangeLedgerProofs`) | `LedgerSpec` implies `[]NoHoles`, `LatestKept`, `[]LedgerTypeOK` |
| `AdjacencyAlwaysAgrees`, `BlastRadiusStaysCurrent`, `GraphTypes` (`DependencyGraphProofs`) | `GraphSpec` implies `[]AdjacencyAgrees`, `[]BlastRadiusIsCurrent`, `[]GraphTypeOK` |
| `AcceptedRowsAreKept`, `StoreTypesHold` (`PartsProofs`) | `StoreSpec` implies `AcceptedIsKept`, `[]StoreTypeOK` |
| `RateAlertsAreBacked`, `DetectorTypesHold` (`PartsProofs`) | `DetectorSpec` implies `[]RateAlertBacked`, `[]DetectorTypeOK` |
| `StopAlwaysHasAReason` (`PartsProofs`) | `AppSpec` implies `[](AppTypeOK /\ StopHasAReason)` |
| `EachPartBehaves`, `PartsTypes`, `PartsKeepTheirPromises` (`PartsProofs`) | `Spec` of `Parts` implies the specification of each part, `[]PartsTypeOK` and every property above |

*Ledger*: every helper returns a suffix of its buffer, so the invariant is that
the numbers of newer snapshots count down to zero; `Push` is the only one that
adds. A suffix is empty only when its last snapshot was to go: `DropOlder` shows that
this one is then too old itself, which is what `LatestKept` asks. *Store*: the type invariant with the
place of each task (a batch exists only in a flush, a count only in a clean-up);
with it no step takes a row out of `Accounted`. *Graph*: `AdjacencyAgrees` is
inductive with the types. `BlastRadiusIsCurrent` speaks of streams that were read to their
end; its strengthening `BlastInv` (checked by TLC first) speaks of every moment:
the last event on its way for a pod tells what the pod is now
(`LastEventsAreCurrent`), and for a pod with none on its way the reverse lists
do (`ToldPodsAreCurrent`); edges leave pods only (`EdgesLeavePods`), so that
`upstream()` of any depth is the direct neighbours (`UpstreamIsDirect`, by
`NatSetInduction`). *Scout*: the times of an Event object never decrease
(the cluster's clock does not), and the window was opened at a count the
cluster had reached by that time. *Application*: a `stop()` that is under way was
caused by a signal or a failed start (`StopHasAReason`).

### Only model-checked

Liveness: `InteractiveServed`, `JoinReturns`, `PartialDoesNotLast`, `Recovers`,
`OneFailedListDegradesForGood`, `CatchesUp`, `AnalysisEnds`, `EventuallyOnDisk`,
`EndsOnceSignalled`. The provers do not reason about fairness and `ENABLED`. The
properties of the violated runs are refuted and need no proof. `MonitoredCache`
has no safety property of its own.

## 5. Findings

* `stop()` abandons queued futures, and `submit()` accepts requests when nobody
  serves them (`queue_abandons`).
* The relist throws the listed items away and moves the watch past the writes
  they reflect (`relist_discards`).
* No watcher notifies the cache of failures, relist time-outs or bursts
  (`outage_unseen`). A burst could not degrade it anyway: entries older than the
  window are dropped before the oldest is compared with the window.
* `analyze()` raises for httpx errors other than refusals, time-outs and status
  errors, against its docstring (`analysis_raises`).
* The "final quality check" is not made: the answer of the second retry is
  judged by the check of the answer before it (`answer_not_rechecked`). Nothing
  bad gets through (`CheckedOrCapped`); good answers are capped at 0.35.
* Between its hard limit and the failsafe, `record()` returns before it evicts,
  expires or trims anything, against its docstring (`ledger_drops_unevicted`). No
  other method frees memory, so the ledger stays full until a restart. The failsafe
  is reached only by a snapshot that jumps over the hard tier.
* A signal that arrives while `start()` waits is lost, and so is every later one:
  `stop()` stops what it finds, then `start()` sets `_running` (`signal_lost`).

Met while modelling the analysis, without a run of their own:

* R13 and R14 never answer unless R08 or they themselves fail, R11 and R12 only
  if R08 finds several claims: R08 matches every failed mount with the same or a
  smaller (priority, rule_id) and at least their confidence
  (`GenericMountRuleMasks` states it as the behaviour it is).
* A `correlate()` that raises leaves an empty result, which earns the bonus for
  a single resource.
* `docs/architecture.md` 159 says the first match wins; the code takes the most
  confident. Its table of bands (174-181) and of priorities differ from the code
  too.
* A comment in `rules/base.py` (182-183) speaks of the dependencies shared with the
  first medium match; the code takes those of the best one so far
  (`OnlyUnrelatedLeftOut`).
* `docs/architecture.md` 207 says requests are processed FIFO; the queue, as its own
  docstring says, goes by priority and is FIFO within one (`AnalysisRequests`).
* The document promises periodic health checks of Ollama; `health_check()` runs
  once, so a refusal switches the model off until the application restarts.
* `rules/base.py` 135-137 says a rule that queries over 50 objects is skipped;
  the code warns and keeps the result.
* `tests/unit/test_confidence_under_penalties.py` 5 orders READY over
  PARTIALLY_READY over DEGRADED; the penalty of PARTIALLY_READY (0.15) is larger
  than that of DEGRADED (0.10).
* In floating point 0.60 + 0.15 + 0.10 + 0.05 + 0.05 exceeds 0.95, so INV-C01's
  counter rises for a legal sum; the result is clipped.
* The warnings of events evaluated before the last one are lost with their
  `EvaluationMeta`.

Met while modelling the other parts:

* Nothing removes the buffer of a deleted resource from the ledger. `diff()` filters by
  `captured_at`, so that of snapshots recorded out of order it may skip one in the middle.
* `app.py` 8 says shutdown is fully graceful. `stop()` clears `_running` before it
  waits, so `main()` returns within a second and `asyncio.run()` cancels a `stop()`
  that needs longer (`MainEnds`): the grace period of 15 s is hardly ever given, and
  later components are not stopped. The pod and node watchers are never stopped at all.
* A node that is removed and comes back affects no pod until the pod changes
  (`BlastRadiusIsCurrent`): `remove_resource()` drops the pods' edges, whose
  comment in `_remove_edges_for()` says they belong to the pods.
* The seed of the graph finds no edge of a pod (`to_dict()` names). Edges appear
  because the watches start without a version and tell every object.
* Rate windows are kept by resource and reason, though several Event objects may
  share those: their counts are compared with each other, and an alert may rest on
  nothing. `RateAlertBacked` says what holds for one Event object. The "sliding"
  window restarts instead.
* A `close()` that meets a flush half-way may lose its batch; a flush slower than
  50 ms degrades the store for good, with what is pending then.

Met while modelling the rest, without a run of their own:

* An object deleted between the start-up list and the first watch stays in the cache:
  `populate()` keeps no version for the watch to start from, and a watch without one
  tells only what exists (`Open`; such names are in `unsynced`, so `CaughtUpAgrees`
  does not speak of them). `docs/architecture.md` 95 says the watchers keep the cache current.
* The readiness state can leave DEGRADED for WARMING, against `INVARIANTS.md` 31: with no
  kind listed, misses degrade the cache, and once they are older than the window
  `_recompute_readiness()` takes its last branch. The code logs the step as a violation
  and takes it. `AllowedOnceListed` says what holds from the first kind listed on.

Besides, `start()` keeps `_dedup`; duplicates and
refused requests use up rate slots; a kind whose start-up list fails is never
listed again, so that the cache degrades for good
(`OneFailedListDegradesForGood` shows it as the behaviour it is); a good run of
the watch does not reset the back-off; `_truncated` is never cleared.

## 6. Not modelled

Names, labels, payloads, redaction, wording, logs and metrics are abstracted
away. The deduplication key is a function on resources. The watch client's own
reconnection is part of the server. Kinds of the cache do not interact, so one
is modelled. REST, MCP, CLI, configuration and the channels are translation and
I/O. Of the five parts: `diff()`, `latest()` and `load()` only read; a `store()` after
`close()` waits for nobody; quota edges (they leave the namespace that a quota names, so re-adding the
namespace drops them), `path_between()` and the state context of the graph;
rules added to the scout later, other severities. The scout's and the
notifications' part in the application is left out because nothing calls
`process_event()` or hands an alert to a channel. What pod, node and event
watchers add to the watch loop (last phase, spec hash, ring of events) is seen by
no other part but as the events an analysis finds, which `Analysis` takes as given.

## 7. Plan

1. The event buffer with its 500 entries between `EventWatcher` and
   `get_events()`: which events an analysis can still find.
2. `Application` composed with `WorkQueue`: what the end of the process does to
   futures.
3. Proofs: whatever 1 and 2 add; all other safety is proved.
