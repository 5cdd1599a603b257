# A TLA+ verification of the Boxel runtime

The repository is the Boxel runtime: realms (directories of card instances and
the modules that define them, served over HTTP), an index that makes them
searchable, a job queue in PostgreSQL whose workers build that index, a module
loader that runs card code, the host application in the browser, and an AI bot
and billing beside them. This directory holds TLA+ specifications of the parts
that are hard to test, TLC runs that check them on small instances, and
theorems checked by TLAPS for every instance.

`PROJECT.json` lists the components, the runs with their properties, a mutant
of the code for each property, the source lines each definition stands for,
the hazards of the code and the theorems. Paths below are relative to
`src/packages`.

## 1. Inventory

| Component | State | Operations | What is hard | Must hold |
|---|---|---|---|---|
| Job queue runner, `postgres/pg-queue.ts` | `jobs`, `job_reservations`; `jobToRun` per runner | claim, run raced against a time-out, complete, roll back | serializable transactions that overlap, leases that expire under a running handler, dead workers | one valid reservation per concurrency group, creation order, one outcome per job, every job ends |
| Queue publisher and `WorkLoop`, same file | map of notifiers, waker, poll timer, LISTEN connection | `publish`, notification loop, `destroy` | notifications before, between and during queries | no caller is forgotten, no lost wake-up, prompt shut-down |
| Realm write path, `runtime-common/realm.ts` and `realm-index-updater.ts` | files, `#indexingDeferred`, ignore data | write, patch, delete, full index | one shared deferred for overlapping updates; patches start from the index | what was answered is indexed, a patch on its own keeps earlier ones, every request is answered |
| Index run, `host/app/lib/current-run.ts` | batch, invalidations | `fromScratch`, `incremental`, visit | files that change or vanish during a run | the index follows the files |
| Index tables, `runtime-common/index-writer.ts` | working and production rows, realm version | `invalidate`, `updateEntry`, `done` | closure over dependencies read from rows of earlier batches, error rows, jobs that fail half-way | after the last job the index is what indexing everything anew would give |
| File watcher, `realm.ts` and `realm-server/node-realm.ts` | listeners, tracked writes, update items, flush promise | `subscribe`, `trackOwnWrite`, `drainUpdates` | echoes of own writes, overlapping drains, a watcher that comes and goes | each edit is indexed, drains end |
| Transactions, `postgres/pg-adapter.ts` and `pg-transaction-manager.ts` | connection pool, sessions | `execute`, `withTransaction` | each statement takes any free connection | all or nothing, no transaction is left open |
| Indexing worker, `runtime-common/worker.ts`, and worker manager | registered runner | prepare and run a job; respawn | exits at any moment | a dead worker is replaced |
| Module loader, `runtime-common/loader.ts` | module map with six states, consumed-module cache | `import`, `getConsumedModules` | concurrent importers, import cycles, faults | dependencies first, imports end, answers complete |
| Browser queue, `host/app/lib/browser-queue.ts` | job list, flush promise, debounce timer | `publish`, `register`, drain, `destroy` | overlapping drains, jobs put back | no job lost or run twice, serial processing |
| AI bot, `ai-bot/` | message promises, cost promises | stream an answer, account for it | balance read long before the charge, costs tracked one at a time | no charge beyond what is there |
| Billing, `billing/` | ledger, cycles, Stripe events | webhooks, `spendCredits` | repeated and reordered events, crashes between commit and mark, statements that leave their transaction | purchases credited once, old cycles settled, the customer's subscription active, every event handled |
| `Mutex`, `host/app/lib/mutex.ts` | chain of promises | `dispatch` | failing bodies | exclusion in order of request |
| Query engine, authentication, plumbing, source transforms, realm server, host UI, card API, motion, icons, content | little or none of their own | | | not modelled, see section 7 |

How they interact: a request to a realm writes a file and asks the index
updater for an update; the updater publishes a job and awaits its outcome; the
queue gives the job to a worker, which runs an index run in a (headless) host
application; that run loads modules with the loader and writes rows in a batch,
which becomes visible at its end; the outcome of the job travels back through
the notification loop of the publisher, and the request is answered. In the
browser's tests the browser queue takes the place of the PostgreSQL queue. The
watcher of a realm starts the same updates for edits from outside. The index
batch, the webhooks of Stripe and the AI bot send their statements through one
pool of connections; webhooks and bot share the credits ledger.

## 2. Modules

| Module | Models | Checked by |
|---|---|---|
| `JobQueue` | the runner side of `pg-queue.ts` | `job_queue_safety`, `job_queue_liveness`, `JobQueueProofs` |
| `JobContract` | what the queue promises its clients: an abstract specification | refined by `JobQueue` |
| `JobNotify` | the publisher side: `publish`, `WorkLoop`, notifications | `job_notify`, `JobQueueProofs` |
| `RealmIndexing` | write, patch and delete handlers, the index updater, index jobs | `realm_indexing`, `RealmIndexingProofs` |
| `ImportGraphs` | what modules import; used by the next two | with them |
| `ModuleLoader` | `import`, `advanceToState`, `fetchModule`, `evaluate` | `module_loader`, `HostProofs` |
| `ConsumedModules` | `getConsumedModules` and its cache | `consumed_modules`, `HostProofs` |
| `BrowserQueue` | `browser-queue.ts` | `browser_queue`, `HostProofs` |
| `IndexBatch` | `current-run.ts` and `index-writer.ts`: what the jobs of a realm make of its index | `index_batch`, `IndexBatchProofs` |
| `FileWatch` | the watcher of a realm and the drains of its updates | `file_watch`, `FileWatchProofs` |
| `PooledTransactions` | `withTransaction`, the end of a batch and single statements over the pool | `pooled_transactions`, `pooled_transactions_mixed`, `PooledTransactionsProofs` |
| `Billing` | the webhook handlers, the ledger, the accounting of the AI bot | `billing`, `BillingProofs` |
| `SequenceLemmas` | nothing: facts about sequences that the proofs share | |
| `MC...` | constants of the small instances | |

Operators whose comment starts with "Mutant:" are not part of a model. Each is
the form a definition would take with a plausible bug, kept beside the original
to show which property notices it.

### JobQueue

A row of the `jobs` table is an element of `queue` and its `status`; a row of
`job_reservations` is an element of `reservations`, its index the id.
`locked_until` is kept as the ticks that are left (`ttl`), since it is only
compared with `NOW()`. `pc`, `jobToRun`, `reservationId` and `newStatus` are
the variables of `processJobs`.

A serializable transaction is two steps. At its BEGIN it reads
(`BeginClaim`, `BeginCompletion`), at its COMMIT it writes (`CommitClaim`,
`CommitCompletion`). A commit tells every transaction that is open whether the
two now depend on each other both ways: then it can only abort with 40001.
Where the two merely touch the same rows PostgreSQL may abort it, and the model
may. `AbortTransaction` is the catch clause. The race of the handler with the
time-out ends by `HandlerSettles` or `RaceTimesOut`; after the latter the
handler goes on, and ends by `AbandonedHandlerSettles`. `DropOutcome` is the
ROLLBACK when the job has an outcome already or is reserved by another run.
`Crash`, `Restart` and `ShutDown` come from the worker manager and `destroy`.
`NOT IN` has SQL's three-valued meaning (`NotIn`).

### JobNotify

`publish` is its three awaits: INSERT, NOTIFY, and only then the notifier
(`Insert`, `Announce`, `AddNotifier`). The loop is the generator of awaits in
`drainNotifications` and `sleep`. `notices` counts notifications under way;
`early` is a history variable, the jobs that were finished before their
notifier was registered, which only the poll timer finds.

### RealmIndexing

`at` is where an operation is; its kinds are post, patch, delete and full
index. The content of a file is a version and the set of the operations that
contributed to it: a patch adds itself to what it read in the index, a post
starts anew. `deferreds` holds every value `#indexingDeferred` ever had, the
last being current; `awaited` is the one a write caught at line 503. Jobs run
one at a time, which `GroupExclusive` of `JobQueue` provides, and in order of
creation except that the job of a user may overtake full indexings (workers of
high priority). A visit reads the file at that moment; the batch is applied at
the end. A tombstone counts for the version of a deletion only when the job is
that of the deletion.

### ModuleLoader, ConsumedModules

`state` is the module map. Each importer has the stack of its activations of
`advanceToState`; what it does between two awaits is one step, or, where the
microtask queue matters, is tied to it by `control` and `microtasks`. `fulfill`
settles a deferred in a microtask of its own (`runtime-common/deferred.ts:13`),
which is `SettleFetch`. `evaluate` is recursive and synchronous: its activations
are the modules in `evaluating`, and as long as there are any, the importer that
began stays in control (`Prepare`, `EvaluateDep`, `RunModule`; an exception
breaks them all, `EvaluateThrows`).

`ConsumedModules` takes the recursion of one call activation by activation
(`recursion`, each with the next import it looks at) with its shared array and
cache (`arrays`, `cache`): `Consume` is a turn of the loop, `Consumed` its end.
Calls of one loader follow one another. What a module imports (`importList`) and
what the loader has recorded of it (`consumedModules`) are two variables:
`evaluate` records the dependencies of type 'dep' only (`loader.ts:604`), and a
module may be evaluated before it has that of all of them, when importers
overlap on a cycle. How far that may go is a fact about `ModuleLoader`, the
second part of its `NoDependencyIsDropped`: no module loses one that is neither
on a cycle nor below one. `Kept` allows everything else.

What is reachable in an import graph is defined without recursion, as what
every set has that is closed under imports (`ReachableFrom`).

### BrowserQueue

`drains` records the calls of `drainJobs`: the flush promise each awaits, and
the items it took. `timer` is the debounce.

### IndexBatch

`working` and `production` are the two tables, `files` the disk. The content of
a file is its version and the modules it refers to; a row also keeps, in `seen`,
the versions of all files it was made from, so that "up to date" can be said of
it (`IsCurrent`). `Write` and `Delete` change a file and publish a job;
`Restart` is a change while the server is down and the full indexing that
follows. A file also has the second it was written in (`modified`), for that is
all a full indexing compares (`Dated`, `Outdated`): `unixTime` rounds down, and
`Put` writes as many versions in one second as it likes. `Incremental` and `FromScratch` begin a batch and put its tombstones,
`Visit` is `visitFile` for one file (entry, error entry, or gone), `Done` counts
and copies, `Fail` and `WorkerDies` leave what was written to `working`.
`Serve` is how the realm answers the loader of the indexer: from the working
index first. `batch.loaded` is what that loader keeps to the end of the run.
Files are visited in any order: the code's is that of a database query.

`mishaps` is a history variable, here and in the next modules: the named
events after which the code does not promise the property, so that the
exceptions of a property are few, named and visible.

### FileWatch

`client` and `watcher` are the subscriptions and the sane watcher behind them.
`dirty` is what the watcher has noticed and not yet told, `recentWrites` the
events `trackOwnWrite` expects. `own` takes a write of the realm through its
three steps (note, change, publish). Each call of `drainUpdates` is an element
of `drains` with the flush promise it awaits and the items it has taken;
`flush` is the current promise. Jobs are those of a realm, one at a time, the
oldest first, as `JobQueue` provides.

### PooledTransactions

A task is a list of statements; `Connect`, `GrantIdle` or `GrantNew`, and
`Succeed` or `Error` are the three steps of `PgAdapter.execute` (ask for a
connection, get one, run and return it). `session` is PostgreSQL's side of each
connection: autocommit, in a transaction with its pending writes, or aborted.
The pool hands out the connection that was returned last, and closes one that
is idle for ten seconds (`IdleTimeout`), in a pause of its task too. Of
themselves only writes fail, and callbacks; a connection that is refused or
breaks, and a BEGIN, COMMIT or ROLLBACK that fails, are left out. So are locks:
the tasks write different rows.

### Billing

`customer` and `events` are Stripe: what the customer has there, and the events
that tell of it, each of which may be delivered at any time until it is
answered. `HandleEvent` runs a handler to its commit (`Handling` has one
disjunct for each branch that does not throw), `Commit` writes, and
`MarkAsProcessed` is the mark of a checkout, which follows its transaction;
`HandlerFails` is a failed transaction or a crash. `subscriptions`, `cycles`
and `ledger` are the tables, with the entries of the ledger summed up by cycle.
`Message`, `Ask`, `TrackAiUsageCost`, `SpendCredits` and `CommitSpend` are an
answer of the AI bot. Credits are small numbers, and half of a billing period
is the unit of prorations. `EnsureSingleActive` is the trigger of the table of
subscriptions: the INSERT of a second active row throws, and the handler with
it.

Two premises are the model's and not the code's. The handlers of the server
follow one another: the webhook has no lock, and Stripe may send two events at
once. Nothing is said of handlers that overlap; the loop in which
`handlePaymentSucceeded` waits for a checkout beside it (`payment-succeeded.ts:48`)
has nothing to wait for in the model, and is left out. And a transaction is one:
it has its connection to itself, as `PooledTransactions` shows of a task that is
alone, except where it strays. `HandlerStrays` and `StraySpend` are what happens
when another task uses the pool at that moment (or a handler awaits Stripe for
too long): some statements are committed by themselves (`Strays`), the others are
lost, or left in an open transaction. These are the mishaps "strayed" and
"leaked", and each property says which of them it excludes.

## 3. Runs

Where a module has a type invariant, its run checks it too.

| Run | Instance | Shows |
|---|---|---|
| `job_queue_safety` | 3 jobs in 2 groups, 2 runners, one slow job, 1 crash, 1 needless abort, 3 reservations, transactions of up to 1 tick | `GroupExclusive`, `GroupOrder`, `OverlapNeedsExpiry`, `OneCompletion`, and the refinement of `JobContract` |
| `job_queue_liveness` | 3 jobs, one without a group, one of high priority, a runner for high priority only, 1 crash | `EveryJobFinishes` |
| `job_notify` | 3 callers, 1 failure | `RowsHaveNotifiers`, `SleepsOnlyOverEarly`, `PromptShutDown`, `EveryCallerIsAnswered` |
| `realm_indexing` | 3 operations of every combination of kinds on one of 2 files, 1 failure | `AcknowledgedIsIndexed`, `PatchesCompose`, `EveryRequestIsAnswered` |
| `module_loader` | 3 modules, 4 graphs (a cycle, a module imported on two ways, a cycle with a module below or above it), 2 importers, every load outcome | `FailuresHaveCauses`, `NoDependencyIsDropped`, `DependenciesFirst`, `EveryImportEnds` |
| `consumed_modules` | every graph of 3 modules that do not import themselves, 3 calls | `FirstAnswerIsExact`, `NothingIsMissed` |
| `browser_queue` | 3 jobs, 2 types | `EachJobInOnePlace`, `SerialUnlessDrainsPileUp`, `EveryJobSettles` |
| `index_batch` | a card, its module, and a module that may import it or be imported by it, 3 changes in 2 seconds, 1 failure of any kind | `IndexIsCurrent`, `MetaCountsTheIndex` |
| `file_watch` | 1 file, 4 changes by the realm or by others, 2 clients, 1 failing job | `EditsAreIndexed`, `OnlyFailuresStop` |
| `billing` | 3 plans, 4 events in any order, 2 answers, 1 failure, crash or stray | `PurchasesAreCreditedOnce`, `ExtraIsNotOverdrawn`, `OldCyclesAreSettled`, `SubscriptionIsTheCustomers`, `EveryEventIsHandled` |
| `pooled_transactions` | a managed transaction, the end of a batch, a single statement, 2 connections that may time out, 2 errors | `LoneTasksAreAtomic`, `OnlyBatchesLeakTransactions`, `EveryTaskEnds` |

One run shows a disagreement between the code and what it says of itself; the
finding in `PROJECT.json` quotes the line. `pooled_transactions_mixed` checks
that a managed transaction is all or nothing (`TransactionsAreAtomic`). It is
not: when two tasks overlap, a statement goes to a connection without a
transaction, is committed by itself, and survives the roll-back of the others.

### Bounds and why they are enough

* Jobs and runners: exclusion is about pairs of reservations and pairs of
  open transactions, and order about an older and a younger job; three jobs
  add one that is in another group or without one. Two runners give every
  pair of transactions.
* `MaxReservations` 3 or 4 lets a job be claimed, expire, and be claimed
  again. A slow job of time-out 1 against a race of 2 ticks gives late and
  overlapping runs. `MaxTransaction` 1 lets `NOW()` of a transaction be older
  than the present.
* One crash and one abort can hit at each step; a second one meets a state in
  which the first has left nothing but an abandoned reservation.
* Three callers suffice for one that is early, one that is in the query and
  one that comes during it.
* Three operations on one file: one that another overtakes while a third
  replaces the deferred. A second file lets a full index find something that
  has not changed.
* Three modules give the smallest cycle in which two importers can enter at
  places that do not import each other both ways. Two importers are the two actors of every
  known race; which modules they ask for is free.
* Three calls of `getConsumedModules`: two that fill the cache in different
  ways, and the one that meets both. A module that imports itself is left to the
  theorems: the recursion on it does not end, and has no answer.
* Every debounced drain is caused by a `publish` or a `register`, so three jobs
  and two types bound the drains at five without a bound of the model.

* `index_batch`: three files give a chain (card, module, module) and a cycle of
  two modules; three changes, in the second of the first version or the one after it, let a
  file break, be repaired, and be removed while a batch runs, and one failure can
  hit any of their jobs.
* `file_watch`: four changes give an own write, an edit that passes for its
  echo, and two more during the drains they cause. Items of different files
  meet only in the order of the items, which one file shows as well.
* `billing`: four events hold a subscription with two of {change, renewal,
  purchase, end} after it, in each order; two answers are what the balance can
  be read for twice. One failure, crash or stray meets a transaction at any
  step. An upgrade comes in the middle of a period (`Halves`). Costs are chosen so that an answer may cost more than what
  is left of a plan, and so that upgrades round.
* `pooled_transactions`: three tasks of three kinds and two connections are
  the least in which a task can be given a connection that another left in a
  transaction while a third one holds the other.

Deadlock is checked in the job queue. In the other models the program may come
to rest when all callers have been served, and `CHECK_DEADLOCK FALSE` says so.

## 4. Fairness

* `JobQueue`: the event loop of a live process continues what is ready
  (`Step`), the worker manager respawns a process that exited (`Restart`,
  `realm-server/worker-manager.ts:219`), time passes (`Tick`). Nothing is
  assumed of `Publish`, of crashes, of aborts, or of abandoned handlers.
  `EveryJobFinishes` holds for handlers that end within their reservation: a
  handler that never does can be retried for ever.
* `JobNotify`: the same for the loop, timers and callers; PostgreSQL delivers
  notifications on a connection that listens; and the queue finishes each job,
  which is `EveryJobFinishes`.
* `RealmIndexing`: awaits of settled promises continue, jobs end. Nothing
  obliges a request to come.
* `ModuleLoader`, `BrowserQueue`: continuations of settled promises run, fetches
  and handlers end, timers fire.
* `PooledTransactions`: a task that was started issues its next statement, and
  the pool and the database answer. Nothing is assumed of the start of a task,
  or of idle connections being closed.
* `Billing`: transactions end (weak fairness). Stripe sends an event again
  until it is answered with success; each delivery may meet a transaction that
  is under way or fails, so that handling the oldest event that is left is
  enabled again and again, not for ever: strong fairness of `HandleOldest`.

All the rest is weak fairness. `IndexBatch` and `FileWatch` have safety
properties only, stated of the states in which nothing is left to do: that the
jobs end is `EveryJobFinishes` of the queue.

## 5. Proofs

Each theorem holds for every value of the constants that meets the named
assumptions: any number of jobs, runners, callers, operations, tasks,
connections, answers, failures and ticks. The queue's rest on the isolation it
is given: `Overlap` says which transactions abort, and is PostgreSQL's part of
the bargain, not the program's. The assumptions say of which sets the constants
are, and that a value for "nobody", or for the realm, is not one of the actors.
Two say more. The realm starts out indexed, with files all whose references are
there (`FilesAssumption` of `IndexBatch`): what is not, the model lets break
later. And a plan that costs more includes at least as many credits
(`PlansAssumption` of `Billing`), as the plans do that the server is installed
with (`postgres/migrations/1728561353454_create-user-billing.js:170`); without it
an upgrade could credit a negative number. The theorems about `Billing` are
under its premise that handlers follow one another.

An invariant that a theorem is about is seldom inductive. Each proof module
defines the parts that make it so, under names that say what they are for, and
proves in turn that the initial states have them and that each action keeps
them.

`JobQueueProofs`, about `JobQueue`:

* `TypeCorrect`, with the lemmas `ClaimRows`, `CompletionRows` and `ClockRows`
  on what each writing step does to the rows.
* `GroupsAreExclusive`. `GroupExclusive` is not inductive: a claim that is
  about to commit could insert a second reservation. `ClaimSound` says that an
  open claim either is doomed or finds its group still free; `ExclusionInv` is
  the conjunction. A reservation only loses validity by itself, so only
  `BeginClaim` and `CommitClaim` can disturb it.
* `OutcomesAreRecordedOnce`, with `CompletionSound`: an open completion is
  doomed or its job has no outcome and its reservation is not done.
* `GroupsAreOrdered`, with `PublishedInv` (the queue holds each published job
  once) and `OrderInv` (for a claim that is open, too, the predecessors are
  done). Outcomes are stable (`DoneStaysDone`) and new jobs come last.
* `QueueImplementsContract`: `JobContract` with `held <- ReservedJobs`. The
  initial states correspond, `ContractStep` maps each step to a step of the
  contract or a stutter under the conjunction of the invariants above.
* `OverlapsNeedExpiry`, with `HandlerInv`: the handler of a reservation that
  has time left is that of the runner at work on it, so the reservation is
  valid, and exclusion applies.

`JobQueueProofs`, about `JobNotify`, whose variables are its own:

* `NotifyTypeCorrect` and `LookupsSucceed` from `NotifyInv`, whose part `QueryInv` says
  that what a query asks for still has its notifier when its rows are there:
  only the loop removes notifiers.
* `NoLostWakeUp`, from `FinishedInHand`: a finished job that waits with a
  notifier in time is going to be read, is asked for, or has left a waker or a
  notice.
* `ShutsDownPromptly`, inductive by itself.

`PooledTransactionsProofs`, about `PooledTransactions`:

* `PoolIsConsistent`: a connection is idle once or in the hands of one task
  that is under way, and no task has two or waits while it has one (`PoolInv`).
* `LoneTransactionsAreAtomic`. That a task did or did not write is known only
  at its end; `Alone` says what holds on the way: all its statements so far are
  on one connection (its `Home`, the one it has or the one that is idle on top,
  which the pool will give it next), pending there, and no other connection is
  in a transaction. `LoneInv` is that for each task nobody has disturbed, and
  that has not paused until its connection was closed.
* `OnlyBatchesLeak`, with `LeakInv`: a failed transaction that is still open is
  that of a batch, or of a managed task that is about to roll it back on the
  same connection.

`HostProofs`, about `BrowserQueue`:

* `NoJobIsLost`. `Unique` (no job is in two places, or twice in one, the places
  being the job list and the hands of each drain) and `HeldInv` (a job is in
  some place exactly from its publication until it is settled). What a drain
  does is to split its items at the first that has a handler (`SplitsAt`): the
  lemma `HandleNextFacts` reads that off the code's loop.
* `JobsAreSerial`, with `SerialInv`: as long as no two drains await one flush
  promise, those that wait do so for the drain under way, and it is `flush`.

`HostProofs`, about `ModuleLoader`:

* `LoaderTypeCorrect`, with `LoaderInv`. Its parts: an importer is in one place,
  running, in the microtask queue, or among the waiters of one fetch
  (`PlaceInv`); each fetch belongs to one importer (`FetchInv`); the activations
  of an importer are about modules it needs, and what they have in hand is
  registered (`StackInv`); `evaluate` meets no module twice, and from each
  module goes on to one that it imports (`EvaluateInv`).
* `NothingDropped`. A dependency would be dropped if it were in hand, but not
  registered yet; that is what `StackInv` excludes, since an activation takes a
  module in hand only in case 'registered', and states only go up (`HandedInv`).
  A module is evaluated with a dependency that is not of type 'dep' only if it
  is still 'registered-completing-deps': then one that imports it is being
  evaluated, which takes it in that state only if it is so itself, and so on up
  to one that became 'registered-with-deps' before its dependency, which had it
  in hand and so imports it back (`WithDepsInv`, `PastInv`, `ConsumesInv`): all
  of these are on a cycle or below one.
* `DependenciesComeFirst`. When a module runs, `Unevaluated` has no dependency
  left, so each is evaluated, or is among the activations of `evaluate` below,
  from which the module can be reached (`EvaluateInv`). When an exception breaks
  those, they can still be reached back from what was evaluated before.
* `FailuresAreCaused`, with `BrokenInv`: a broken module is at fault, or reaches
  one that is, or an importer has met the assertion of `evaluate`. What breaks
  together reaches the one that threw.

`HostProofs`, about `ConsumedModules`:

* `NothingMissed`, with `MissingInv`: unless there are cycles, an array has,
  with each module, what it imports, but for the modules the recursion is at,
  whose imports it has as far as they were looked at (`Covered`). So what a
  cached array has is closed, and at the end so is the answer.
* `FirstAnswerExact`, with `FirstInv`: during the first call the same holds,
  with cycles too, of the array with the module that is asked for added, for
  then only that call's array can be cached. And the array has only what is
  recorded that the module imports. Lists that agree on all that is reached
  reach the same (`SameReach`), which gives the second part.

`RealmIndexingProofs`, about `RealmIndexing`:

* `TypeCorrectness`, and `AnsweredIsIndexed`. The index is as new as what was
  answered (`IndexInv`), and to keep it so when a batch is applied, the rows it
  has visited already must be, too, for the operations that are indexed by then
  and for the one whose job runs. `FileInv` says when what an operation wrote is
  still the last version; `PhaseInv` and `OverlapInv` that jobs belong to the
  operations they should and that overlapping operations know of each other.
* `PatchesKeepWhatIsThere`, with `ComposeInv`: what is in a file is in the index
  as well, once the running batch is applied, unless a job that is still to come
  will read the file (`ToBeRead`); and a patch alone has read all of it.

`BillingProofs`, about `Billing`:

* `TypeCorrectness`, and `PurchasesAreCredited`, inductive with the shape of an
  open transaction (`TxInv`): it buys credits only for a purchase that has no
  record yet.
* `ExtraIsThere`, with `ExtraInv`: costs are tracked one at a time, and only
  that adds to what is taken; a purchase only adds to what is there, stray or
  not.
* `SubscriptionsAreTheCustomers`. Rows and events meet in `RowInv`: the active
  rows are, one for one, the subscriptions created and not deleted among the
  events that were handled, and have the plan the last of these tells. That the
  model lets Stripe's events tell all of the customer's subscriptions, in an
  order that makes sense, is `EventInv` (`LastTold` finds the last event that
  sets a plan); `OrderInv` says that nothing earlier is left out, unless a
  mishap says so. When all events are handled the rows and the customer agree.
* `OldCyclesSettle`, with `CreditInv`: cycles of a subscription follow one
  another, all but the last of the active one are settled, and what a
  transaction is about to expire, or an answer about to take, is still right
  when it commits. The balance is a sum over the ledger; the lemmas on `Total`
  say what a changed or an added entry does to it.

`FileWatchProofs`, about `FileWatch`:

* `DrainsEnd`. A drain awaits one that was called before it (`DrainInv`), a drain
  that waits for its job has one (`JobInv`), and updates that no drain has taken
  have one that will (`WaitInv`). So at rest the first drain that has not ended
  and does not wait for a failed one would be able to go on.
* `EditsReachTheIndex`. `FileInv` says of each file, as long as no mishap has
  happened: if others changed it, the watcher has still to tell; otherwise what
  is done with it last finds it as it is, and removes it from the index only if
  it is gone. "Last" needs the order of all updates: drains take them in the
  order in which they were called (`WaitInv`: those that wait were called after
  all others, and await one promise), and of two that are busy the one with a job
  came first (`InTurn`).

`IndexBatchProofs`, about `IndexBatch`:

* `TypeCorrectness`, with `VersionInv`: no row is of a later version than the
  clock, so that a change always has a version that no row has (a time stamp it
  may have: that is "lost" or "hurried").
* `IndexingIsExact`. An index that is right when all jobs are done is wrong on
  the way, so the invariant says of what it is right already. `Pending` is what
  the jobs that are left will bring up to date: the files they are about
  (`Asks`) and, if one of them looks around or a full indexing is owed, the files
  it will find outdated (`Finds`). A file is `Clear` if neither it nor a module
  it reaches is pending; then its row is current (`RowInv`), and what the working
  index serves of it is sound (`ServeInv`). `invalidate` finds whom a change
  concerns in the rows of the working index, so these must know of every file
  that is not pending all the modules it reaches (`LinkInv`). `QueueInv`: of
  several jobs for a file, the last one does what the disk asks for. A batch may
  end in two ways, so all this is kept twice: for the jobs as they are, should
  it be given up, and for `Remaining`, the jobs after it, should it be done
  (`NextRowInv`, `NextLinkInv`, `NextServeInv`; `VisitInv` for the files it has
  still to visit).
* `MetaIsExact`. `realm_meta` counts the instances of the working index, and
  only rows that a batch has touched are copied to the other one. `CountInv` says
  that on a set of files that is closed under dependencies, and in which nothing
  is pending, both tables and `realm_meta` agree; when nothing at all is pending
  that is the whole realm. `ReachInv` says that a batch has touched all that
  depends on what it touches, `DepsInv` and `NextDepsInv` that the working index
  makes up no dependencies, and `NoneInv` that where it has no row it has none.

`SequenceLemmas`: what appending, removing and taking apart leave of a
sequence's type, length and elements. `Smallest`, that a set of numbers has a
least one, takes the place of an induction in the proofs about sums and about
the first item of a queue.

## 6. Only model-checked

Liveness and everything under fairness, which the prover does not reach:
`EveryJobFinishes`, `EveryCallerIsAnswered`, `EveryRequestIsAnswered`,
`EveryImportEnds`, `EveryJobSettles`, `EveryTaskEnds` and `EveryEventIsHandled`.
Every other property of a passing run is stated by a theorem.

### Seen in the models

What follows was met while modelling, and appears in the properties as an
exception that is stated. It has no run of its own.

Job queue:

* a handler that outlives its race goes on next to the following job of its
  group (`OverlapNeedsExpiry` is the precise form of what holds), while
  `docs/queue.md:25` speaks of serial processing;
* `NOT IN` with a null concurrency group (`pg-queue.ts:306`): a job without a
  group waits for every other group, and blocks them all while it runs, while
  jobs of different groups run in parallel (`queue-test.ts:105` of the realm
  server);
* two late runs of one job drop both their outcomes, each for the expired
  reservation of the other (`pg-queue.ts:419`), and the job starts anew; this
  may go on for ever if the handler is always late;
* when NOTIFY fails after the INSERT (`pg-queue.ts:208`), `publish` throws
  although the job will run;
* one failed query ends the notification loop for good (`LoopFails`): the
  exception of `EveryCallerIsAnswered`.

Loader:

* two imports that enter a cycle of three modules at different places may end
  with "expected ... to be 'registered-completing-deps'" (`loader.ts:344`);
* an import that awaits the fetch of another importer waits for ever if that
  fetch fails, since nobody settles the deferred (`loader.ts:511`): the
  exception of `EveryImportEnds`;
* a module that imports itself sends `getConsumedModules` into a recursion that
  does not end, for the module that is asked for is never in the array
  (`loader.ts:145`);
* `evaluate` throws if another importer has not yet advanced a dependency, and
  marks modules broken that nothing is wrong with: the exception of
  `FailuresHaveCauses`;
* what one call of `getConsumedModules` caches within a cycle makes a later
  answer miss a module (`loader.ts:169`): `NothingIsMissed` is about graphs
  without cycles; of a module that was not imported it answers `[]`, since the
  state is read before the import (`loader.ts:154`);
* when two importers overlap on a cycle, a module on it, or below it, can be
  evaluated while it is 'registered-completing-deps', and the dependencies that
  are not of type 'dep' by then are missing from its `consumedModules` for good
  (`loader.ts:604`), from a first answer too: the exception of
  `NoDependencyIsDropped` and `FirstAnswerIsExact`.

Browser queue: two drains that waited for one flush promise run handlers side
by side (`browser-queue.ts:85`): the exception of `SerialUnlessDrainsPileUp`.

Realm:

* an indexing deferred that another update replaces before it is settled is
  never settled; a write that awaits it never returns: the exception of
  `EveryRequestIsAnswered`. A failed indexing makes the write that awaits its
  deferred fail, and each later one until the next update;
* a deletion that races a write of the same file can leave its tombstone in the
  index over the file that was written after it: the exception of
  `AcknowledgedIsIndexed`.

Index (mishaps of `IndexIsCurrent`):

* a full indexing that has nothing to skip calculates no invalidations
  (`current-run.ts:306`); it then is served modules from rows of the working
  index that it was about to replace ("wholesale");
* files removed while the server was down keep their rows ("removed"), and one
  that is put there again meanwhile is indexed before the deletion that was
  queued earlier, or after it and lost ("outlived");
* the error row of a module may lack the dependency that broke it, and is then
  not indexed again when that is repaired ("unlinked");
* a failed deletion or update of a module is not found by a later full
  indexing, whose time stamps are as they should be ("lost"). Nor is the failed
  update of a file whose row has its time stamp already: one that was made from
  another version of the same second (`current-run.ts:299` compares whole
  seconds), or one under the tombstone of a deletion that came in between, for
  neither the query for the time stamps (`index-writer.ts:126`) nor the
  comparison looks at `is_deleted`. In the same way a change while the server is
  down is not found if it falls into the second of the row ("hurried");
* after a failed job its tombstones stay in the working index, and
  `realm_meta`, which counts that table, is wrong until the next batch of the
  same files ("leftover"); a crash of the database empties it, for it is
  UNLOGGED ("truncated").

File watcher (mishaps of `EditsAreIndexed`):

* a second client that comes while the watcher starts is refused ("tried to
  subscribe to watcher twice"); when it leaves, the watcher of the first one is
  closed, and it waits for ever;
* overlapping drains may publish a deletion after the re-creation of a file,
  and so may a drain and a write of the realm;
* an edit can pass for the echo of an own write; one that is removed before the
  watcher tells of it is not told at all;
* the rejection of `drainUpdates` is handled by nobody, and the events after it
  wait for a promise that is never settled: the exception of
  `OnlyFailuresStop`.

Billing (mishaps of its properties):

* the cancellation of a subscription that was upgraded may end the row of the
  old plan ("ambiguous"); a renewal handled late expires the wrong cycle
  ("reordered"); a charge that overlaps a renewal overdraws the plan
  ("overlapped");
* a crash after the commit of a checkout and before its mark leaves an event
  whose redeliveries all fail ("unmarked");
* a deletion handled again asks Stripe for the free plan again
  ("resubscribed"); the trigger then refuses the second subscription, and its
  event is not handled while the first one lives;
* a handler, or the bot, that shares the pool with another task at the wrong
  moment may credit without a record, record without a credit (after which every
  redelivery fails), or charge what is committed much later ("strayed",
  "leaked");
* the redelivery of an event that was handled is answered with an error, so
  Stripe goes on sending it;
* the cost of an answer that ends while another is being tracked is dropped,
  and one that is never found counts as nothing.

## 7. Not modelled, and the plan

Without state of their own, or outside what a state space describes: the query
engine (SQL generation), source transformations, URL routing, rendering, the
card API, user-interface services of the host, animations over continuous
time, icons, content realms, deployment, the editor extension. Session tokens
and permissions are left out as plain request chains.

The indexing worker keeps the functions of the runner in fields that all its
jobs share (`worker.ts:229`), but calls them in the turn of the event loop in
which it sets them: jobs cannot meet there, and what is left of it is
authentication and the start of FastBoot. `Mutex` is a chain of promises
without failures of its own.

In `RealmIndexing`: ignore data, statistics, the loader, `copy`, server-sent
events. In `ModuleLoader`: `shimModule`, identities, the HTTP request itself. In
`IndexBatch`: ignore files, shimmed modules, files of other realms, rendering,
`copyFrom`. In `FileWatch`: directories, the delivery of server-sent events. In
`Billing`: handlers that overlap (and the retry of `handlePaymentSucceeded`),
signatures, e-mail addresses, formats, notifications. In `PooledTransactions`:
broken connections, row locks, migrations.

The order of the modules was, and is to be:

1. `JobQueue`, `JobContract`, `JobNotify`: everything the server does in the
   background depends on them. Done, with proofs.
2. `ModuleLoader`, `ConsumedModules`, `BrowserQueue`, `RealmIndexing`. Done,
   with proofs.
3. `IndexBatch`, `FileWatch`, `PooledTransactions`, `Billing`. Done, with proofs.
4. The realm's authentication, and `Mutex`.
