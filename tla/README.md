# Verification of gitlab-ci-exporter

TLA+ models of gitlab-ci-exporter, a Prometheus exporter that polls GitLab (and
listens to its webhooks) and exports metrics on pipelines, jobs, environments
and runners.  The models are written from the Go source; TLC checks them on
small instances and TLAPS proves theorems about them for every instance.
`PROJECT.json` holds the machine-readable index: components, runs, mutants, the
lines every definition models, findings, hazards and theorems.

Contents

1. Inventory of the program
2. The modules, and how they correspond to the code
3. Runs: bounds, fairness, what each shows
4. What is proved, and how
5. Findings
6. What is only model-checked, what is not modelled
7. Plan

## 1. Inventory

### Tasks: scheduling and admission

*Code*: `pkg/controller/scheduler.go`, `admission.go`, `controller.go`, the task
part of `pkg/store/local.go` and `redis.go`.

*State*: the reservations (`tasks`, a set of pairs of a task type and a unique
ID, in memory or in a Redis hash), the count of executed tasks, and without
Redis the channel `slots` and the map `accepted` of `taskAdmission`.  The jobs
are held by taskq, a library (`memqueue` or `redisq`).

*Operations*: `ScheduleTask` (acquire a slot, reserve the key, track it, publish
the job, roll back on failure), the deferred `dequeueTask` of every handler
(remove the reservation and count, release the slot).  With Redis the
reservation, completion and cancellation are Lua scripts, a job carries the
owner of its reservation, and a reservation whose publisher's keepalive has
expired is taken over.

*Interactions*: the periodic loops, webhook goroutines and the task handlers
themselves schedule; the queue's workers run the handlers.  With Redis every
replica shares the reservations and the stream of jobs.

*Hard*: three pieces of state under three locks, undone in an order that other
goroutines observe; jobs run again after a failure; replicas that crash between
a reservation and its job; Redis replies that are lost; keepalives that lapse.

*Correct when*: a key never has two jobs, outstanding jobs stay within
`maximum_jobs_queue_size`, nothing blocks for ever, every reservation ends, every
slot comes back, every completed reservation is counted once.

### Lifecycle and webhook admission

*Code*: `pkg/controller/lifecycle.go`, `handlers.go` (from `ServeHTTP` after
authentication), the shutdown in `internal/cmd/run.go`.

*State*: `backgroundTasks` (a `stopped` flag and a wait group under a mutex),
the channel `processingSlots`, the once-guarded result of `Close`.

*Operations*: admit a webhook event (take a slot, start a goroutine), process it,
give the slot back; start loops; `Close`: stop, cancel, close the queue, wait with
a deadline, close the clients.

*Hard*: events and loops start while `Close` runs in several callers; handlers
that hang at shutdown; slots returned twice or never.

*Correct when*: no background work runs on closed clients unless an error was
reported, `Close` returns to every caller, slots and wait group are exact, every
accepted event is processed or refused.

### Refs and projects

*Code*: `pkg/controller/refs.go`, `projects.go`, `garbage_collector.go`,
`webhooks.go`, the refs and projects of the stores, `pkg/gitlab/branches.go`,
`tags.go`, `projects.go`, `pipelines.go`.

*State*: `Store.projects`, `Store.refs` (each ref holds a copy of its project's
configuration, its latest pipeline and jobs), with Redis an expiry key per entry.

*Operations*: discover projects, discover refs, pull a ref's metrics (reads the
ref and writes it back), webhook events that store or delete a ref, the
collection of projects and of refs.

*Hard*: the store is read, GitLab is asked, the store is written, and between
those calls every other task runs; GitLab changes in the meantime; events come
late and in any order; a call fails half way.

*Correct when*: a collection never deletes a ref that was wanted all along, a
wanted ref ends up tracked, a ref gone for good leaves the store.

### Pipelines and jobs

*Code*: `pkg/controller/pipelines.go`, `jobs.go`, `pkg/gitlab/pipelines.go`,
`jobs.go`, `pkg/schemas/metric.go`.

*State*: a ref's `LatestPipeline` and `LatestJobs`, the pipelines and variables
caches of the store, the metrics with their keys.

*Operations*: list the latest `per_ref` pipelines, process each (cache, ref,
counters, status metrics), list jobs, bridges and child pipelines, process each.

*Hard*: every pipeline of one pull is processed with the same copy of the ref;
the keys of metrics contain identifiers and statuses, so a counter is read under
another key than it was written; the cache is looked up under the zero ID.

*Correct when*: a counter counts every run once; a pull that finds nothing new
changes nothing.

### Environments and deployments

*Code*: `pkg/controller/environments.go`, `pkg/gitlab/environments.go`, the
deployment events of `webhooks.go`, `GarbageCollectEnvironments`.

*State*: `Store.environments` with the latest deployment of each; the metrics of
an environment (one set per project and name).

*Operations*: discover, refresh from GitLab (`UpdateEnvironment`, which stores),
pull metrics, collect.

*Hard*: the new deployment is stored before several calls that may fail, and is
then no longer new; the number of commits behind is written first and taken over by
a later pull if the commits, written last, are still the same, while the collection of
metrics deletes one after the other; the collection compares two snapshots.

*Correct when*: every deployment seen is counted once; the number of commits behind is
that of the commits exported; an environment that exists is not collected.

### Runners

*Code*: `pkg/controller/runners.go`, `pkg/gitlab/runners.go`.
*State*: `Store.runners` and their metrics, which a pull deletes and sets again.
*Hard*: a runner is pulled and collected while GitLab changes it; the pull does not
read it again from the store; its metrics are deleted and written one by one while they
are exported.  *Correct when*: nothing that is exported of a runner is of another
revision than the rest; a runner that exists is not collected.

### Stores

*Code*: `pkg/store/local.go` (maps, one lock each), `redis.go` (hashes, expiry
keys).  *Hard*: `Get` of the local store is a lookup and a read under two locks;
the meaning of `Has...Expired`.  Modelled where the modules above use them.

### Metrics: kinds, labels, keys, export and collection

*Code*: `pkg/schemas/metric.go`, `pkg/controller/metrics.go`, `collectors.go`,
`GarbageCollectMetrics`.

*State*: `Store.metrics`, a table by key: a checksum of some of the labels.

*Operations*: set, delete, read; `emitStatusMetric` (one metric per status, of
which one is 1); export at each request; the collection.

*Hard*: labels, keys and collectors are three lists kept in step by hand, and the
library panics where labels and collector differ; a status change has to reset
the status before; the collection reads the owners, then the metrics, then deletes
one by one while pulls store both.

*Correct when*: everything stored can be exported; of a pipeline or a job one status is
1; the metrics of what stays come to say what GitLab says, and of what is gone they go.

### GitLab client and rate limiter

*Code*: `pkg/gitlab`, `pkg/ratelimit`.  *Operations*: listings by page or by keyset,
walks over a pipeline and those it has triggered, single reads, each after a wait
for the limiter.  *Hard*: GitLab changes between two pages; pages are read by
position.  *Correct when*: a listing of a GitLab at rest is complete, and one that
misses an item does so for a stated reason; every call returns.

### Monitoring, configuration, command line

`pkg/monitor` (a gRPC stream and a terminal UI), `pkg/config` (pure parsing),
`internal/` (process set-up).  Section 6 says why they are not modelled.

## 2. Modules

| module | models | extends / uses |
|---|---|---|
| `TaskReservation` | what the queue promises: per key one reservation at a time, withdrawn or run once and counted | - |
| `LocalTaskQueue` | `ScheduleTask`, rollback, `dequeueTask`, `taskAdmission`, in-memory reservations | INSTANCE `TaskReservation` |
| `LocalTaskQueue_proofs` | theorems about `LocalTaskQueue` | `LocalTaskQueue`, TLAPS |
| `RedisTaskQueue` | the same operations of several replicas on one Redis | - |
| `RedisTaskQueue_proofs` | theorems about `RedisTaskQueue` | `RedisTaskQueue`, TLAPS |
| `Lifecycle` | `backgroundTasks`, `Close`, admission of webhook events | - |
| `Lifecycle_proofs` | theorems about `Lifecycle` | `Lifecycle`, TLAPS |
| `RefCollection` | projects and refs: discovery, events, metrics pulls, collection | - |
| `RefCollection_proofs` | theorems about `RefCollection` | `RefCollection`, TLAPS |
| `GitLabReads` | every listing and walk of the GitLab client, page by page | - |
| `GitLabReads_proofs` | theorems about `GitLabReads` | `GitLabReads`, TLAPS |
| `MetricStore` | kinds, labels, keys and collectors of metrics; the metrics table; `emitStatusMetric` | - |
| `MetricStore_proofs` | lemmas on the table of metrics: keys, labels, statuses | `MetricStore`, TLAPS |
| `RefMetrics` | the metrics pull of a ref: pipelines, variables, jobs, test report | `MetricStore` |
| `RefMetrics_proofs` | lemmas on the pulls of a ref | `RefMetrics`, `MetricStore_proofs` |
| `EnvironmentMetrics` | an environment: discovery, metrics pull, deployment events, collection | `MetricStore` |
| `RunnerMetrics` | a runner: discovery, metrics pull, collection | `MetricStore` |
| `MetricsCollection` | `GarbageCollectMetrics`, composed with the three above | `RefMetrics`, `EnvironmentMetrics`, `RunnerMetrics` |
| `MetricsCollection_proofs` | lemmas on environments, runners and the collection; theorems about `MetricsCollection` | `MetricsCollection`, `RefMetrics_proofs` |
| `MC...` | the small values for TLC | the module of the same name |

**TaskReservation.** A key is `free`, `reserved` or `running`: a reserved key is
withdrawn uncounted, or its job starts, once, and is counted when it completes.

**LocalTaskQueue.** One action per critical section or channel operation.  A
process is a caller (ticker or webhook goroutine) or a worker, which is the same
in a call to `ScheduleTask` but runs it from inside a handler.  `pc[p]` is where
the process is: `idle` -> `acquired` (`Acquire`, `admission.acquire`) ->
`reserved` (`QueueTask`) -> `tracked` (`admission.track`) -> published, or
`rollback` (`PublishFails`) -> `release` (`CancelTask`) -> released
(`admission.release`); a refused reservation goes through `discard`.
A worker takes a job, its handler may schedule or not, and its deferred
`dequeueTask` removes the reservation (`DequeueTask`) and releases the slot
(`Release`) in two steps.  `held` is the bag of jobs in the memqueue; a failed
job is handled again up to `MaxAttempts` times, which the library decides.
`RefinesFairly` is the refinement of `TaskReservation` under the mapping given
at the end of the module.

**RedisTaskQueue.** Replicas with a UUID each (fresh after a restart), the hash
of reservations with the owner that made each, the keepalives, the stream of
jobs.  Every Lua script is one action; `Grants` is the condition of the reservation
script with its takeover.  `Lapses`, `Redelivers` and `Fails` switch on, for
each run, keepalives that expire while their replica runs, jobs delivered more
than once, and commands whose reply or effect is lost.  A replica may crash at
any point.  `EnterHandler` is the ownership check that skips stale jobs.

**Lifecycle.** A request goes through `submit` and its goroutine; a loop runs
until the context is cancelled (or once); handlers belong to the queue; callers
of `Close` share one execution of it.  `StartEvent` and `Stop` hold the same
mutex, which is why they are atomic.

**RefCollection.** One project, its refs in GitLab (`remote`) and in the store
(`refs`, by the configuration each ref holds).  Every task keeps its local
variables: `gc` the collection, `pull` the discovery of refs, `batch` and `metrics`
the metrics pulls, `hook` the webhook goroutine, `discovering` and `dropping` the
discovery and removal of the project.  Each action ends where the next call to the
store or to GitLab begins, so the other tasks run in between.  A turn of the collection's first loop is `CheckRef` (the expiry key, whether the
project exists, the regexp of the ref's kind, `Named`, and the deletion), `LoadProject`
and `ResyncRef`; with Redis the collection may fail before each of them
(`CollectionFails`).  Two pairs of reads are merged: the expiry key and whether the
project exists, in `CheckRef`, and whether the project exists and what it is, by an
event.  A listing of GitLab is one answer: lists of one page.
`steady` remembers, for the safety property only, the refs wanted without
interruption since the collection began.  Metrics tasks may carry a ref with the
bare configuration of `schemas.NewProject`, as the events build it.

**GitLabReads.** GitLab holds a list that items enter, leave and come forward in, and
pipelines that trigger others.  A call is a record: which listing it is, the page it
reads next, what is left of the page it has read, what it has got.  `ReadPage` asks for
a page, `TakeItem` looks at one item of it, as the loops of the code do; `Turned` is
the end of the loop's body: enough found, last page, next page or next item.  GitLab
changes between two pages only, as looking at a page asks it nothing.  A listing is one
of three sorts: it takes all (`Unfiltered`), what matches (`Collecting`), or the first
of each name up to a limit (`Choosing`).  `Page` is what GitLab answers by position, or by keyset after
the last item got; `Skipped` is what lies before.  A walk is a stack or a queue of
pipelines, as the code has it: `ListPipelineChildJobs` recurses,
`GetRefPipelineTestReport` keeps a queue.  `steady`, `displaced`, `pushed` and
`planted` remember, for the properties, what was there all along and what moved.

**MetricStore.** A metric is a kind, labels and a value.  The operators on the table
are those of the store; `KeyLabels` is the switch of `Metric.Key`, `NewRegistry` the
labels each collector was made with, and `Exported` what `With` demands of a
metric: it is part of the type invariant, so a label written by a pull and missing
in a collector is found.  A gauge's value is the identity of what it was read from.

**RefMetrics, EnvironmentMetrics, RunnerMetrics.** Each has one owner of metrics in
GitLab and in the store, and one record per task with the task's local variables.
Each action ends where the next call to GitLab, or the next access to the store that
another task may come before, begins.  A pull of an environment writes the number of
commits behind, what is said of the deployment, and the two commits in three steps; a
pull of a runner deletes its metrics one by one, in any order, and writes the information,
the last contact, and each tag in steps of their own, so that an export or a collection
may come between any two.  Of the other runs of `storeSetMetric` calls each is one step:
no property relates two of those metrics, no other pull of the same owner runs, and the
collection deletes them one by one.  What does not tell two properties apart is merged: an
environment's project that is gone, pulls no environments or does not match is
`configured = FALSE`; events that wait are one; a pipeline has one job and its
status, a test report one suite of one case.  How refs are discovered, dropped and
written back is the subject of `RefCollection`; here they just are, at any time.

**MetricsCollection.** `CollectMetrics` reads the owners, `ReadMetrics` the metrics and
judges them, `DeleteMetric` deletes what was judged, one by one in any order, while pulls go on.  The
history variable `robbed` says that a collection has deleted a metric whose owner had been
stored, or that had been rewritten, since it was judged; counters and snapshots
cannot be exact after that, and the properties say what may be missing then.

### Correspondence of the main actions

| action | code |
|---|---|
| `Acquire`, `Track`, `Release`, `Discard` | `taskAdmission.acquire/track/release/discard` |
| `QueueTask`, `CancelTask`, `DequeueTask` | `Local.QueueTask/CancelTask/DequeueTask` |
| `Publish`, `PublishFails` | `AddJob` in `ScheduleTask` and its error path |
| `QueueTaskLimited`, `Grants` | the Lua script of `Redis.QueueTaskLimited` |
| `EnterHandler`, `SkipJob`, `CheckFails` | `ownedTaskHandler.HandleJob` |
| `Refresh`, `Expire` | `setKeepaliveWithRetry`, the expiry of the key |
| `Submit`, `StartEvent`, `Process`, `FreeSlot` | `webhookHandler.submit` and its goroutine |
| `Stop`, `CloseQueue`, `Wait`, `CloseClients` | `Controller.close` in order |
| `LookUpRef`, `StoreNewRef` | `PullRefsFromProject` |
| `LookUpCopy`, `ReadCopy`, `WriteCopyBack` | `GetRef` ... `SetRef` in `ProcessPipelinesMetrics`, `ProcessJobMetrics` |
| `GetRefPipeline`, `PullVariables`, `StorePipeline`, `WritePipelineMetrics` | `ProcessPipelinesMetrics` in order |
| `UpdateEnvironment`, `ReadHead`, `CompareCommits`, `ReuseBehind`, `GetCommitCountBetweenRefs`, `WriteBehind`, `WriteDeployment`, `WriteInformation` | `PullEnvironmentMetrics` in order |
| `CollectEnvironments`, `CheckEnvironment`, `ListEnvironments`, `SweepEnvironments` | `GarbageCollectEnvironments` in order |
| `UpdateRunner`, `ListRunnerMetrics`, `DeleteRunnerMetric`, `WriteRunner`, `WriteContact`, `WriteTag`, `WriteGroups` | `ProcessRunnerMetrics`, `deleteRunnerMetrics` in order |
| `CollectMetrics`, `ReadMetrics`, `DeleteMetric` | `GarbageCollectMetrics` in order |
| `CheckRef`, `LoadProject`, `ResyncRef`, `ListRefs`, `ReloadRefs`, `SweepRef` | `GarbageCollectRefs` in order |

## 3. Runs

| run | instance | shows |
|---|---|---|
| `once` | 2 keys, 2 callers, 2 workers, capacity 2, jobs run once | no duplicate jobs, capacity, implementation of `TaskReservation` with fairness |
| `retry` | 1 key, 2 callers, 1 worker, capacity 2, jobs run up to twice | the inductive invariant, no blocked goroutine, every reservation ends |
| `leak` | 2 keys, 2 callers, 2 workers | violation: a slot is lost for good |
| `recovery` | 1 key, 2 replicas, 2 workers, crashes | one live job per key, every reservation ends |
| `faults` | 2 keys, 1 replica with 2 UUIDs, 2 workers, limit 1, all faults | the limit holds, completions are counted once |
| `stuck` | 1 key, 1 replica, lost commands | violation: a key stays reserved |
| `lifecycle` | 3 requests, 2 loops (one one-shot), 1 handler, 2 closers, 2 slots | exact slots and wait group, orderly and bounded shutdown |
| `refs` | 1 ref, 1 project, either store, failing calls of Redis | which wanted refs a collection deletes, that dropped ones return, tracked when wanted, dropped when gone; the inductive invariant |
| `expired` | as `refs`, with Redis | violation: the collection deletes wanted refs |
| `gitlab_reads` | lists of up to four items in pages of two, two of one name; five pipelines; two changes of a list | listings and walks against a GitLab that changes |
| `metrics` | one ref, environment or runner; seventeen scenarios | counts, snapshots, statuses, what collections spare, and that metrics follow GitLab |
| `status` | one job that fails | violation: the job has two statuses that are 1 |

*Why these bounds.* The queue's hazards need two processes on one key, a second key
to compete for the slots, and a capacity below the number of processes: 2 keys, 4
processes, 2 slots. A job that runs twice needs one key and a newer job of it; the
theorems of section 4 lift the safety results to all sizes. With Redis one key and
two replicas give a publisher that crashes while another takes over and a third job
competes; two keys against a limit of one give the limit. Three events against two
slots give the refusal. Operations of `RefCollection` never relate two refs, and a
single ref has every interleaving of its seven kinds of task; its copy in the store may
hold the bare configuration of an event, which the project's does not match, so that
the collection drops it and resyncs it. Two pages are needed
for an item to change pages, five pipelines for every tree with two children, each
with a child of its own. The scenarios of `metrics` are sets of settings that matter
together, each with what its question needs: a second pipeline for a run to be
counted, a retried job, two commits and two deployments for a count of commits
behind to be taken over, a second revision of a runner for tags to go. In the scenarios
with `deployed` GitLab has a deployment that is behind before the environment is found,
so that a collection of metrics that did not know the environment meets its first
pulls, and a pull that finds the commits unchanged. Settings that
do not meet in the code (an owner's own collection, the collection of metrics,
failing calls) are varied apart. `leftover` starts with an owner that Redis kept
from a process whose project had another flag. Of kinds that are written and deleted
together one is kept (`Kept`), as of equal gauges one says it all.

*Bounds in guards.* `MaxHeld` equal jobs at a time in the memqueue; `CounterModulus`
in place of 2^64 for the counts of executed tasks (the count wraps, so a lost or a
double count is seen); `Nonce` the UUIDs drawn. In `metrics` a scenario bounds
pipelines, deployments, commits and failing calls, `MaxDrops`, `MaxEnvChanges` and
`MaxRunnerChanges` the changes from outside, and `MaxRuns` caps the count of runs,
which more than one pipeline per pull would raise for ever.

*Deadlock* is checked except where the program may stop: every replica crashed, or
the shutdown complete; and, in `metrics`, with nothing configured, or everything
gone, nothing is left to do.

*Fairness.* Goroutines that are not blocked run (Go's scheduler is preemptive): weak
fairness on each process's steps. The memqueue and redisq hand on the jobs they hold
and workers settle them. Strong fairness is assumed of a step that can fail again
and again for reasons of the environment and is retried by a ticker (`PullRefs`,
`ListRefs`: GitLab does not fail for ever). Nothing is assumed of webhooks, of
callers deciding to schedule, of GitLab's own changes, of crashes or restarts, or of
handlers at shutdown: `CloseReturns` holds when handlers hang. In `metrics` the
pulls of a stored owner, the discovery of refs and the collection are scheduled by
tickers and run on (weak fairness); calls fail a bounded number of times; nothing is
assumed of events, of the collections of owners or of GitLab. The third conjunct of
`MetricsFollow` says again and again, not for ever: every pull of a runner deletes
its metrics first.

*Mutants.*  Each checked property has a plausible bug of the code that breaks it;
the mutated definitions stand next to the originals, marked `Mutant`.

## 4. Theorems

`LocalTaskQueue_proofs`, for all keys, processes, capacities and numbers of
attempts (assumptions: processes are finite, callers and workers disjoint, `NoKey`
is no key, bounds positive):

* `TypeCorrect`: `Spec => []TypeOK`; in particular the tokens never exceed the
  capacity.
* `DiscardNeverBlocks`: `Spec => []SlotsCoverDebts`.  The channel holds at least one
  token for every call that will receive one and every key in `accepted`.  The
  obvious invariant, equality, is false (finding 1), and the inequality alone is
  not inductive: `Acquire` must find the token it adds still there, and `Release`
  takes one only with its key.  The proof counts: each step changes the tokens and
  the set of debts by one, with lemmas on the cardinality of a set with one
  element added or removed.
* `Inductive`: `Spec => []IndInv`.
* `RestAdmits`: `Spec => []QuietAdmits`.  When no call, worker or job is left,
  nothing is reserved or accepted and a slot is free: the leak never exhausts the
  capacity.  A slot is lost only when a key that is accepted already is tracked
  again; at that moment the debtor and the accepted key hold a slot each that are
  not lost, so fewer slots than the capacity are ever lost.  The invariant says
  so as `slots < |debtors| + |accepted| + Capacity`.  That nothing is
  reserved or accepted at rest needs, for every reserved key, a call or a job that
  will undo it.
* `OneJobPerReservation`: `Spec => []ReservationExact` for `MaxAttempts = 1`.  The
  equation is inductive with the types alone: every action moves at most one process
  into or out of `Publishing` or `Handling`, or a job into or out of `held`, and the
  key's place in `tasks` moves with the first and the last of these.
* `EveryJobHasSlot`: `Spec => []OutstandingBounded` for `MaxAttempts = 1`, from the
  previous one: a call that cancels or completes its key finds it in `tasks`, so the
  slot passes from the key to the call.
* `ImplementsReservation`: for `MaxAttempts = 1` the initial states and the steps are
  those of `TaskReservation` under the mapping of the module, or stutter.  Because a
  reservation is exact, the mapped phase of a key changes by one action only: reserving
  it, cancelling it, taking its job, completing it.  With retries none of the three
  holds: a job kept for a retry has no reservation, so it runs beside a newer job.

`RedisTaskQueue_proofs`, for all keys, replicas, nonces, workers, capacities and
counter widths:

* `TypeCorrect`: `Spec => []TypeOK`, strengthened by `BusyHasJob`.
* `LimitHolds`: `Spec => []CapacityBound`, whatever fails.  The reservation script
  adds a key only below the limit, a takeover replaces the owner of a key that is
  present, and every other script adds none; so what matters is that the comparison
  and the addition are one script.
* `CompletionsCountOnce`: `Spec => []CountedOnce`, whatever fails.  `CountInv` adds
  why a second completion counts nothing: a counted reservation is no longer in Redis
  and the call that made it has passed the script, so it never returns.
* `OneLiveJob`: `OneLiveJobPerKey` when keepalives are refreshed in time, jobs are
  delivered to one worker at a time and no command is lost.  Then a running replica
  has a keepalive (`KeepaliveInTime`), so no other takes over the reservation of a
  job that is live, and every live job is the reservation that Redis holds
  (`LiveIsReserved`): a key has one.  Each condition is needed: with any one
  of `Lapses`, `Redelivers` or `Fails` set in the instance of `recovery`, TLC refutes
  the property.

`Lifecycle_proofs`, for any number of requests, loops, handlers and callers:

* `TypeCorrect`, `SlotsAreExact` (a token for exactly each event in hand),
  `GroupIsExact` (the wait group counts exactly the goroutines that are not over).
* `CloseLeavesNothing`: `Spec => []IdleAfterClose`.  After a `Close` without an error
  nothing runs.  The strengthening `ShutInv` says what each stage of `Close` has
  already established: after `Stop` no goroutine starts, after an error-free
  `CloseQueue` no handler runs, after an error-free `Wait` the group is empty.

`RefCollection_proofs`, for any refs, any project configurations and whatever each
of them matches (assumptions: `Matches` gives each configuration a set of refs, and
`None` is neither a ref nor a configuration):

* `TypeCorrect`, and `Inductive` for the strengthening `CollectionInv`.
* `SparesUnmarked`: `Spec => CollectionSparesUnmarked`, for both stores and whatever
  fails.  A ref wanted all along is deleted by the collection in two cases only: its
  expiry key exists (finding 3), or the configuration in the ref itself does not match its
  name any more.  The property relates a deletion to all that happened since the
  collection began, so it is no invariant of the code's own state.  `CollectionInv`
  carries the refs wanted all along through the stages: they match the configuration
  that `Store.Projects` returned, so they are in the answer of GitLab, so they are
  expected when the stored refs are compared.
* `DroppedReturn`: `Spec => DroppedRefsReturn`.  What becomes of the second case: the
  configuration in the ref does not match (`DroppedUnnamed`), the project's does if the
  ref is wanted, so the two differ and `SetRef` stores the ref again, with one that
  matches (`ResyncMatches`).  Only a call of Redis that fails in between ends the
  collection before; no other exception is made.

`GitLabReads_proofs`, for any finite set of items, any page size, limits, names, number
of changes and size of a tree:

* `ReadsAreTyped`: `Spec => []TypeOK`.  A listing by position never asks for a page
  beyond the number of items and of changes; that every page but the last is full is
  what bounds it.
* `ListingsAreExact`: `Spec => []ListedAsOfOneState`.  While nothing changes, what is got
  is exactly what a single look at the list up to the current place would give
  (`AsOfOneState`).  For the listings that choose, that is the set of first places of
  each name, and the length of what is got is the number of these places: this is why
  a listing that stops at its limit has found the right ones.
* `OnlyTheDisplacedAreMissed`, `TheLatestIsTaken`: `MissedOnlyIfDisplaced` and
  `MostRecentOfName`.  `Accounted` says of every item before the place read next that it
  is taken, came forward or is done without; `Placed` that what is taken lies before
  that place or went back.  Neither is inductive without the other: an item done
  without because of its name needs the item of that name to stay taken.  A change of
  the list is described once for all three kinds (`Traced`): a map from each place of
  the new list to the place its item came from, so that an item that crosses the place
  read next is one that the history variables record.
* `TreesAreWalkedOnce`: `Spec => []WalkedOnce`.  `Walked` says that the parent of every
  known pipeline has been expanded, and that nothing that was there when the call began
  has an expanded parent without being known.  When nothing is left to expand, a
  pipeline that was there and is not known would be the child of another such one with
  a smaller number, down to the root, which is known: the least such number gives the
  contradiction.  A pipeline has one parent, so none is met twice.

The invariant `ReadsInv` is: at rest, or a walk as above, or a listing that is reading,
looking at a page, or finished.

`MetricsCollection_proofs`, with the lemmas of `MetricStore_proofs` and
`RefMetrics_proofs`, for any scenarios (any settings, numbers of pipelines, deployments,
revisions and failures), any kinds kept and any tags:

* `MetricsAreTyped`: `Spec => []TypeOK`: every stored metric can be exported and has its
  key to itself, and every task's record is well formed.
* `StatusIsOne`: `Spec => []OneStatusPerReason`.  A pipeline, an environment and a test
  case have one status that is 1, a job one for each failure reason it had: that it is
  one for each job is finding 4.  `Right` says that the table has one metric per key, and
  that of those that differ in the status only one is 1, because `emitStatusMetric` sets
  all statuses in turn under the same labels.  `StatusesInv` adds that these labels do not
  change: every status of a pipeline or job is stored with the labels the ref, the
  pipeline's variables and the pipeline give it, and a job ID belongs to one
  pipeline; so two statuses of one thing differ in the status, or the failure reason.
* `RunsAreCountedOnce`: `Spec => []RunsCountedOnce`.  With one pipeline per pull, what is
  counted is decided by a copy of the ref that was read before several calls.  `PullInv`
  says how far the copy, the pipeline in hand and the stored ref may be apart at each
  stage; `RunsInv` that no run beyond the latest one written is counted, and that one
  is.  `VariablesInv`: the variables of a pipeline are those it was first seen with.
* `DeploymentsAreCountedOnce`: `Spec => []DeploymentsCounted`.  What is counted, what the
  pull in hand has still to count (`Pending`) and what failed pulls left uncounted add
  up to the deployments seen (`Due`).
* `BehindIsExact`: `Spec => []BehindExact`, for every scenario, with the writes of a pull and
  the deletions of a collection in steps of their own.  The number of commits behind is
  taken over from the table when both commits are those exported, so it is exact only if
  what stands there is (`Near`).  Between the first write and the last it is that of
  the pull (`BehindInv`).  A collection that deletes the number and not the commits has
  judged the environment not to be stored (`Judged`), so it robs it, or the environment
  has been dropped: in these cases, and in no other, the number may be missing or 0.
* `RunnerIsOfOneSnapshot`: `Spec => []RunnerOfOneSnapshot`.  While a pull deletes, every
  metric of the runner that is left is in its list, so there is none when it writes; what
  it has written is of its copy's revision (`RunnerInv`).  So no state, and no export,
  has two revisions; and if nothing was taken, all tags are there when the pull ends.
* `ListedAreSpared`: the action property `CollectionSparesListed`.  What was wanted since
  the collection began is wanted when the list is read, so it is listed
  (`EnvSweepInv`, `RunnerSweepInv`).

Each component's part of `CollectionInv` is proved for its own steps, with the other
components' unchanged; the collection of metrics touches the table only, and `Judged`
says what it may delete.  Assumptions: scenarios are records of settings, bounds are
natural numbers, there is at least one list of tags, who keeps `Runner` keeps the two kinds that
are deleted with it, and who keeps `EnvironmentInformation` keeps `EnvironmentBehindCommitsCount`
(the code keeps every kind).

`ReadsInv` and `CollectionInv` were checked by TLC on the instances of section 3
before they were proved.

Counts of sets use the library's `FiniteSetTheorems`; the assumption that the sets
of processes are finite is what they need.

## 5. Findings

1. **A slot of `taskAdmission` is lost for good** (run `leak`,
   `admission.go:52`).  `dequeueTask` removes the reservation, then releases the
   slot.  A `ScheduleTask` of the same key that runs between the two takes a second
   slot and tracks the key again; `accepted` holds it once, so one slot is
   returned for two taken.  The theorem `RestAdmits` bounds the damage:
   the last slot is never lost.
2. **A reservation stays after a lost Redis command** (run `stuck`,
   `scheduler.go:644`).  An error of `QueueTaskLimited`, `DequeueTask` or
   `CancelTask` is logged, the reservation has no expiry, and takeover needs the
   publisher to be gone.
3. **With Redis the collection deletes refs that are wanted** (run `expired`,
   `redis.go:144`).  `HasRefExpired` is true while the expiry key exists, and the
   collection deletes the refs for which it is true.
4. **A job that ran and failed is exported as running and as failed** (run `status`,
   `metric.go:183`).  The failure reason is in the key of `JobStatus`, and
   `emitStatusMetric` resets the other statuses under the present reason only:
   `running`, whose reason was empty, stays 1, with sparse output too, as long as the
   ref is stored.  `metrics.go:251`, `docs/metrics.md:147` and the program's
   `README.md:164` say that only the present status is 1, or submitted.

### Observations

What the code does, where no document of the repository says otherwise; the models show it,
and no run claims it wrong.

* With `per_ref` above 1 the run count of the older pipelines grows at every pull: each is
  compared with the one that the last pull left in the ref (`pipelines.go:125`, `:153`).
* `GetPipeline` is called with a zero pipeline, so the cached one is never found and
  `PullRefMostRecentJobsMetrics` never runs (`pipelines.go:124`).  The tables of pipelines and
  variables are never emptied.
* A failed request for a pipeline's variables is stored as no variables, for good
  (`pipelines.go:110`).
* No test report is read for canceled pipelines, which the list spells `cancelled`
  (`pipelines.go:97`), nor for those with the status `success_with_warnings`.
* The key of a job's run count holds its ID and status: in practice it is always 0
  (`jobs.go:168`, `metric.go:171`).
* A collection of metrics that has read the environments before one was stored deletes that one's
  metrics, one by one.  When it has deleted the number of commits behind and a pull then finds the
  two commits as they were, the pull takes the missing number over as 0, and if the commits are
  deleted before the pull writes them again, or not at all because the collection fails, 0 stays
  until a commit or a deployment (`environments.go:153`, `:167`).
* With Redis, a call that fails after the collection has dropped a ref for the configuration in
  it (`garbage_collector.go:232`, `:241`) leaves a wanted ref deleted until it is discovered again.
* An export in the middle of a runner's pull sees part of its metrics, or none (`runners.go:74`).
* A metrics pull that is under way when its ref, environment or runner is deleted stores it
  again; an unchanged job's metrics are not rewritten then (`jobs.go:114`).
* A deployment whose pull fails after `UpdateEnvironment` stays uncounted (`environments.go:71`).
* The collection of runners matches the description, the discovery the name
  (`garbage_collector.go:344`): a runner of which one matches is stored and collected by turns.
* A collection that finds no environment, or no runner, deletes those discovered before it ends.
* With jobs disabled, `JobQueuedDurationSeconds` is not collected (`garbage_collector.go:507`).
* The collection of metrics deletes metrics of owners discovered after it read the owners.

## 6. Limits

*Only model-checked*: liveness (`ReservationsEnd`, `CallsReturn`, `CloseReturns`,
`EventsSettle`, `RefsTracked`, `RefsDropped`, `RefinesFairly`, `CallReturns`, `MetricsFollow`),
which is out of the prover's reach. Every other property of a passing run is a theorem.
The temporal properties are also the only ones that say the tasks get anywhere: the
theorems hold of a program that stops.

*Left out of modules*

* `metrics`: one owner at a time, so no two owners share a key; lists of one page (what is displaced
  between two pages is in `GitLabReads`); keys never collide; tags that
  match nothing, for which the head of an environment is empty; `HasMetricExpired` of Redis;
  labels nothing depends on have one value; `statusesList` is cut to four statuses.
* `Lifecycle`: that `CloseTimeout` of the queue reports an error when handlers remain is assumed of
  taskq, as `CloseQueue` says.
* `RedisTaskQueue`: `OneLiveJobPerKey` is of the jobs of running publishers.  A job that outlives its
  publisher may run beside a second one of its key, as the program's `README.md:821` allows.
* `GitLabReads`: the contents of items; GitLab's answers to a search are lists.

*Not modelled, with the reason*

* Configuration, command line, logging, the HTTP server, the monitoring UI: parsing
  and I/O without shared state.
* The token bucket, taskq and the Redis server: libraries, modelled by what the
  code relies on.
* CRC32 keys: two names with one key are one entry; the models take keys as
  given.
* Authentication and parsing of webhook requests.
* Internal metrics, the GitLab version and request counters: read and exported, nothing
  depends on them.

## 7. Plan

Models still to be written: readiness of Redis (`redisReady`) and the wait loop of the rate
limiter; the metrics modules on the Redis store, whose entries expire.

Proofs still to be written: the parts of the models that follow from the two items above, and
`ImplementsReservation` for an abstract queue whose jobs may be retried.
