# Formal models of simple-network-monitor

TLA+ specifications of the parts of simple-network-monitor whose correctness depends on
the order of events: reloads that replace running monitor tasks, writes that outlive the
task that asked for them, retries, crashes, the history that is rolled up and pruned while
it is queried, the scheduler of that maintenance, the reports of inactive hosts, reads that
a reload overtakes, the resources that probes share, the configuration that the process, its
listener and its clients see while it is replaced, the time that checks take, and the filters
of queries. TLC checks them on small instances; TLAPS proves the main results for every value
of the constants.

Paths below are relative to the repository; line numbers are in `PROJECT.json`, where
every definition that models code names its lines.

## 1. Inventory

### Components, their state and how they interact

| component | source | state it keeps | operations | talks to |
|---|---|---|---|---|
| monitor manager | `main.rs` | configuration, generation number, handles of the running modules, exit channel | start, SIGHUP reload (prepare, store, publish, swap), exit of a module | storage (call), modules (spawn, abort), exit channel (message) |
| job runner | `modules/runner.rs` | per task: the observation it has not stored yet; a semaphore per module | tick, observe, persist, retry after 250 ms, supervise | jobs (calls), storage through a repository bound to its generation |
| ICMP job | `modules/icmp/` | per host: status and counters | load the stored state, check, transition | probe back end, storage |
| usage job, TCP job | `modules/usage/`, `modules/tcp/` | the last observation | as above | probe back ends, storage |
| status storage | `storage/sqlite/mod.rs`, `maintenance.rs`, `queries.rs`, `schema.rs` | catalog of hosts, writer fence (`Inner::generation`), one write permit, inner mutex; tables `host_identity`, `latest_status`, `transitions` | store a check, synchronise identities, replace the configuration | everything; its closures run on tokio's blocking pool |
| history | `storage/sqlite/history/`, `domain/history.rs` | epochs, observations, spans not rolled up yet, buckets of three widths, events | synchronise epochs, record, roll up, prune, query | called in the transactions of storage and of the maintenance jobs |
| maintenance scheduler | `storage/sqlite/jobs.rs`, `app/maintenance.rs` | table of jobs, policy, one admission permit | register, recover, claim, perform, complete | history, usage retention, SQLite |
| usage reports | `domain/usage.rs`, `domain/filters.rs`, `app/filters.rs` | usage samples, coverage, activity | update, inactivity at a cutoff | storage |
| probe back ends | `backends/` | DNS admission, ping identifiers and waiters | probe with a deadline | sockets, ssh, child processes |
| HTTP API | `api/`, `app/filters.rs`, `domain/filters.rs` | the token and the module settings, each behind a lock; clients keep the cursor of a page | authorize, read hosts, modules, usage and readiness, filter | readers of the storage; a reload swaps what is behind the locks |
| configuration | `config.rs`, `domain/settings.rs`, `domain/validation.rs` | none | validate a file, resolve it, accept or refuse it for a reload | manager, storage (which validates once more) |

`PROJECT.json` lists the same components with their status, the ones that are not modelled
included.

### What is hard here, and what has to be true

*Reload against tasks and writes.* A reload aborts tasks, but a database closure that one of
them submitted goes on. The storage fences it by a generation number. What has to be true:
the database reads as if one sequential monitor had checked the hosts one at a time
(`LedgerSpec`); a stored status was measured for the host's present identity
(`RowsBelongToIdentity`); transitions form a chain (`TransitionsChain`); the manager stops
only on a fault and leaves no host without a task (`StopsOnlyOnFault`,
`EveryHostMonitored`); checks are stored in the end, a reload completes and replaced tasks
end (`ChecksSettle`, `ReloadCompletes`, `ReplacedTasksEnd`).

*History.* The time a check spent in a state travels from the last observation of its epoch
to a span, and piece by piece to buckets of three widths with retentions of their own. What
has to be true: whatever has been rolled up or pruned and whichever width answers, a query
shows of each retained instant what was observed there (`QueryShowsTimeline`), no more than
it calls eligible (`ShownFitsEligible`); epochs of a check do not overlap
(`EpochsDisjoint`); no row outlives its epoch (`EveryRowHasItsEpoch`); events form a chain
(`EventsChain`); a prune that reports nothing left has left nothing (`PruneFinishes`).

*Scheduler.* A claim and its completion are two transactions. What has to be true: the claim
in the table is the job that runs (`ClaimIsStored`); no job starves or is put off
(`OvertakenOnce`, `NeverPostponed`, `DueJobsRun`); a claim whose process or whose completion
was lost is released (`ClaimsEnd`), without counting as a failure of the job (`FailurePart`
of the proof).

*Usage reports.* A history row is inserted only when something changes, rows are pruned in
batches, a host may move, and observations may stop for a while. What has to be true: a host
is reported as inactive only if it was seen to be so during the whole window
(`ReportedHostsWereInactive`), it is reported then (`InactiveHostsAreReported`), and the rows
tell what every retained observation was (`HistoryTellsObservations`).

*Reads beside reloads.* A read takes the catalog first and the tables later; an update looks
its target up first and writes later; a reload commits first and publishes later. What has to
be true: no row outlives the target that it was measured at (`RowsAreCurrent`); a TCP result
is never shown with another target (`TcpResultsFitTheirChecks`); a status is shown with
another address only by a request that a reload overtook (`MixedRepliesWereOvertaken`, the
code guards TCP rows only); a client that pages through the inventory misses no host that was
there all along (`PagesCoverSteadyHosts`); a read that was admitted has a connection
(`AdmittedReadsHaveConnections`).

*Probes.* Resolver calls cannot be cancelled and identifiers are 16 bits. What has to be true:
waiting probes of a backend differ in their identifiers and give them back however they end
(`IdentifiersInUse`); calls never exceed their permits, and no permit is lost
(`ResolverIsBounded`); a resolver that never returns keeps no task from reporting
(`EveryTaskReports`).

*The configuration in force.* A file is validated, resolved and validated again by the
storage; a reload commits it, publishes the catalog, and swaps token and module settings under
their locks, while requests on other threads read all of these. What has to be true: for the
clients one configuration is replaced by another in one step (`ContractSpec`); the listener,
which stays bound, is never public without a token or an opt-in (`ListenerGuarded`); a reload
that fails leaves no part of itself (`OneConfigurationInForce`); a check that counts as enabled
has a task (`EnabledHostsAreMonitored`); what validation took, the storage takes
(`StorageTakesAcceptedFiles`).

*Time.* Checks compete for permits, probes take up to their deadline, writes are retried, and
reloads abort tasks and change intervals. What has to be true: no check falls behind
(`NoCheckFallsBehind`); once the first round is over `/readyz` says "ready" and goes on saying
so (`ReadyAfterFirstRound`).

*Filters.* Parameters are applied in the order of a hash map, some of them twice over, some
sharing a window. What has to be true: a query is refused or answered with exactly the hosts
of which all its parameters hold (`AnswerFitsTheQuery`).

The hazards behind these properties, each at its line, are in `PROJECT.json`.

## 2. Modules

| module | what it is |
|---|---|
| `IcmpCheck` | the ICMP status machine as operators: thresholds, saturating counters, the event of a transition |
| `StatusLedger` | the abstract specification: what the database promises about host status, as one sequential monitor |
| `MonitorGenerations` | manager, runner, ICMP tasks and storage writer; implements `StatusLedger` |
| `MonitorGenerationsInv` | its inductive invariant `IInv` |
| `MCMonitorGenerations` | its instances for TLC |
| `MonitorGenerationsProofs` | the proofs, those about the ledger included |
| `History`, `MCHistory`, `HistoryProofs` | the history of one check |
| `Maintenance`, `MCMaintenance`, `MaintenanceProofs` | the maintenance scheduler |
| `Usage`, `MCUsage` | the usage rows of one host, and the inactivity filters |
| `CatalogReads`, `MCCatalogReads`, `CatalogReadsProofs` | TCP and status rows, reads and pages beside reloads |
| `Probes`, `MCProbes`, `ProbesProofs` | resolver admission and ping identifiers |
| `Configuration` | operators: which files are accepted and what they are resolved to |
| `ServiceContract` | the abstract specification: what clients are promised while the service is reconfigured |
| `Service`, `MCService`, `ServiceProofs` | process, reload, locks and requests; implements `ServiceContract` |
| `Freshness`, `MCFreshness`, `FreshnessProofs` | the time that checks take, and when their results count as current |
| `Selection`, `MCSelection` | from the parameters of a query to the hosts selected |
| `UsageProofs` | the proofs about `Usage` and about `Selection`, which both are about filters |

A definition whose comment begins with "Variant" is a faulty form of the definition below it.
No specification uses it; putting one in the place of the real definition must break the
property that it is listed with under `mutants`. Where `TypeOK` or the inductive invariant of a
module is a theorem, no run repeats it.

The modules share steps of the program rather than variables. A reload is an action, or several,
in seven of them: `MonitorGenerations` has its tasks and writes, `Service` its locks and what
clients see, `CatalogReads` its rows and reads, `Usage`, `History`, `Maintenance` and
`Freshness` what it does to their own state. In each the reload may come between any two steps
of the others.

### MonitorGenerations

The manager and every monitor task run on the one thread of `#[actix_web::main]`, so one of
their steps is the code between two awaits, and no task runs while the manager is between
two awaits (`MainThreadFree`). A database closure runs on the blocking pool with the one
write permit; it is not stopped when the task that awaits it is aborted, and it holds the
inner mutex from `EnterClosure` to its commit. A reload that finds the mutex taken blocks the
thread of all tasks until it is free (`WaitForMutex`); nothing but the closure's own steps can
free it then. The catalog's lock, which the reload holds meanwhile, is not in this module,
because no closure takes it.

| in the model | in the code |
|---|---|
| `status`, `reload`, `next`, `current`, `generation`, `module`, `exits` | the locals of `manage_monitors`, its SIGHUP branch, the `MonitorExit` channel |
| `fence`, `writer`, `catalog` | `Inner::generation`, the closure that holds the write permit, the published hosts |
| `tasks[g][h]` with a `pc` | the host's task of generation *g*: `run_job` and the job's own state |
| `identity`, `latest`, `log` | `host_identity`, `latest_status`, `transitions` |
| `PrepareReload`, `RejectReload`, `WaitForMutex`, `CommitReload`, `PublishReload`, `SwapGeneration` | `apply_reloaded_config` and `replace_configuration`: prepare, take the mutex, store in one transaction, publish catalog and fence, abort and spawn |
| `ReadCatalog`, `LoadState`, `LoadFails` | `monitor_host` before its loop |
| `Observe`, `Persist`, `Submit`, `RetryPersist` | `run_job`: permit, check, store, retry |
| `EnterClosure`, `RejectStale`, `CommitClosure`, `FailClosure`, `CommitReportedFailed` | `with_inner` and `update_check_result`: the generation check under the mutex, the transaction, its two kinds of failure |
| `EndModule`, `ModuleReturns`, `ModuleDropped`, `ReceiveExit` | `supervise`, `watch_monitor_exit`, the drop of aborted handles |
| `ProcessEnds`, `Start` | the end of the process at any step, and the next start with any configuration |

Abstractions. A probe is a choice of success or failure. Only the ICMP module is there; the
usage and TCP modules run under the same runner and writer. A check's time is the next value
of a clock: two checks never have the same instant, and the clock is not set back while
checks are made. A reload whose transaction fails is rolled back, which is also what the
manager takes it for. In a running process SQLite does roll back a COMMIT that failed; its
frames can be durable only for a process that ends before it writes again, which is
`CommitReload` followed by `ProcessEnds`. For a check, which the manager does not stop at,
`CommitReportedFailed` allows for more than that. The pruning of old transitions is left out.
`life`, `faulted` and the address in `State` are kept for the properties only.

### History

One check of one host, since no statement of the code touches the rows of two. Each
transaction is an action: `SyncEpochs` (start or reload), `Record`, `RollUp` (up to
`BatchSize` pieces), `Prune`. They are made under the inner mutex, so they do not interleave,
and a crash falls between two of them and changes nothing. A query is an operator over the
state: it runs in one read transaction, and its clock reading, its policy and its snapshot
are taken as one instant. `timeline` records what was observed at each instant and is read
only by the properties.

Abstractions. The widths are 1 and 2 units instead of 300, 3600 and 86400 seconds; the
assumption `HistoryAssumption` keeps what the code relies on, that each width divides the
coarser ones and that retention grows with the width and is never below the coarsest.
Of an observation only its state is kept; sample counts, latencies, user counts and the
grouping into series are left out, and so are the limits on the rows a query scans, which
only make it fail; the limit that makes it read wider buckets (`MaxRows`) is there, with the
epochs of the one check. A DELETE with LIMIT removes an arbitrary batch of the matching rows.
An epoch id is any that is not in use, as with a SQLite rowid. Retention is constant in a
behaviour.

### Maintenance

`Start` is `configure_maintenance` with the scheduler spawned; `RecoverMaintenance`,
`ClaimJob` or `ClaimNothing`, `PerformJob` and `CompleteJob` are the transactions of
`recover_maintenance` and `run_due_maintenance`; `Reload` registers the jobs again between
any two of them. `PerformFails` and `CompletionFails` are their errors. A claim that fails
changes nothing and is a stutter. What a job does is a result: done, more to do, or an
error. One scheduler runs; the admission permit and the lock on the database see to that.
`overtaken` counts claims for `OvertakenOnce` only. Time is a bounded clock that does not go
back.

### Usage

One host, whose rows no statement mixes with another's. `Collect` followed by `UpdateUsage` is
`UsageJob` and `update_usage`: coverage, the row in `usage_history` if the cache says that
something changed, the latest row, the cache. `ReplaceConfiguration`, `ProcessEnds`, `Start`
and `PruneHistory` are what happens around it. A report is an operator (`MatchesUsageFilter`,
`EvaluateInactivity` and what they call), asked for any filter in every state and for any
instant at or before the present, since a request reads the clock before its transaction.

Abstractions. An observation failed, found nobody, only remote users, or users at the console.
Freshness is one constant, although a reload may change intervals. The clock does not go back,
and two observations are never of the same instant; times compare as their RFC 3339 text does.
`usage_samples`, which no filter reads, is left out.

### CatalogReads

`CommitReload` and `PublishReload` are the two halves of `replace_configuration`. In between
the catalog's lock and the writer's mutex are held (`locked`), but a read that has its catalog
goes on. `Observe`, `LookUp`, `StoreRow`, `RejectStale` and `FailWrite` are the way of an
update: TCP reads its target from the catalog before it waits for the writer. `Ask` takes the
catalog and a permit, `Answer` is the transaction and the page, `Abandon` a client that goes
while its query runs.

Abstractions. A host has one TCP check at most. `status` stands for `latest_status` and for
`latest_usage`, which both have no address. A reload or a read that fails is rolled back and
is a stutter, and so is the answer 503. A client follows `next_after`. `probed`, `generation`,
`taken`, `read`, `steady` and `since` are kept for the properties only.

### Probes

A step is what a task does between two awaits. `BeginName` and `RefuseName` are
`dns::resolve` with and without a permit; `CallEnds` and `OrphanEnds` are the end of the
blocking closure with and without someone who waits for it; `SendEcho` and `RunOut` are
`next_unique_identifier`; `Leave` is what dropping the probe's future does, by `Answer`,
`Deadline` or `Drop` of a replaced task.

Abstractions. Identifiers are counted from the backend's random salt. Replies are choices. The
permits of the module's semaphore are left to `MonitorGenerations`. Each generation has a
backend of its own; that an identifier may be in use by the backends of two generations is not
excluded by the code, which gives each a salt and sockets of its own. TCP probes share the
resolver and have no identifier; they have no tasks in this module.

### Configuration and Service

`Configuration` has `from_path` as two operators: `Accepted`, a conjunction of the checks that
`config.rs` makes, and `Resolve`, which gives a host its groups and the settings it inherits.
`Storable` is what `Host::validate`, the retention setters and `open` ask of the result.

`Service` has the manager's SIGHUP branch as the steps that other threads can see:
`PrepareReload`, `RefuseReload` or `LockShared` (token and modules, then the storage's hosts),
`FailReload` or `CommitReload`, `PublishReload` (the storage frees the hosts), `SwapShared`
(the other locks are freed), `SwapMonitors`. `Start`, `StartFails` and `ProcessEnds` are the
process. A request takes `Ask`, `Authorize` and `ReadHosts` or `ReadModules`, each of which
needs the lock of what it reads (`TokenFree`, `HostsFree`, `ModulesFree`). `Contract` maps
all of that to `ServiceContract`: the configuration in force changes when the catalog is
published, because whoever could still see an older token waits for its lock.

Abstractions. Text, TOML and the defaults of absent settings are left out: a file is a record
whose settings are given, `parses` says that it could be read, and identifiers and addresses are
sets of which some members are well-formed. A bad file is logged and changes nothing, so it has
no action. Monitors are the pairs of host and module with a task; what tasks do is in
`MonitorGenerations`. An aborted task that still runs for a moment is not seen by clients.

### Freshness

The tasks of one module under `run_job`, with times: `Tick` after a jitter and then once in an
interval, `Acquire` in the order of the semaphore's queue, `Observe` up to the deadline,
`Persist` or `FailToPersist` with a delay. Timers are kept as what is left of them and ages up
to `Old`, where they matter no longer, so that a behaviour never ends and needs no bound on
time. `TimePasses` waits for whatever can be done at once. `Stale` and `Ready` are `is_fresh`
and `readyz`.

Abstractions. One interval and one deadline for all hosts of a configuration. Writes take no
time unless they fail, and `MaxFailures` of them fail between two reloads. Start-up of the
process, and `monitor_host`'s first read, are the module's start.

Overload is the configuration's business: the code does not limit how many checks share a
permit, so `ReadyAfterFirstRound` has the condition that a round of all checks (`Round`) fits
into what `is_fresh` leaves, an interval and the shorter of interval and deadline. Where it
does not fit, `/readyz` may say "not ready" for ever. Nor does validation ask that a deadline be
shorter than the interval. Where it is longer a check is due again before it has ended, its next
turn begins when its permit is back, and the interval bounds nothing: `Turn` is the longer of the
two, and `NoCheckFallsBehind` allows a turn and a round. The third configuration of the run is
overloaded and has such a deadline; with the interval in place of the turn `NoCheckFallsBehind`
fails there.

### Selection

`TakePair`, `RefuseDuplicate` and `AllPairs` are `parse_unique_query`; `Apply` and `Refuse` take
the next parameter, whichever the map yields, through `REGISTRY` (`Lookup`, `Values`) into the
builder; `Select` is the handlers' filter. A key is the sequence of its parts, durations are
numbers, and how long a host has had no users is a number here that module `Usage` explains.
The pages of `/v1/hosts` are in `CatalogReads`.

## 3. Runs

| run | configuration | question | distinct states |
|---|---|---|---|
| `reloads` | one host, two addresses, two reloads, then a failed write, or a second start and a reload after it | is the database still one sequential monitor's, when hosts move, leave and come back while checks and stale writes are in flight, and over a crash at any step? | 1,491,615 |
| `pair` | two hosts, a reload, a rejected reload, a failed write, a failed first read | does the service stop only on a fault, and does every enabled host have a task? | 318,701 |
| `replaced` | two hosts that share a permit, a reload that adds or removes one, a failed write, fairness | does the reload complete, do the replaced tasks end, and is every check stored? | 80,070 |
| `history` | two signatures, two epochs, two observations, six instants, two widths | does every answer show what was observed? | 170,205 |
| `clock_set_back` | the same with a clock set back once | do epochs of a check overlap? (they do, see below) | - |
| `jobs` | two jobs, two policies, six instants, two starts, a reload, two errors, fairness | is the claim stored, is no job starved or put off, do due jobs run and claims end? | 124,585 |
| `usage` | two addresses, three kinds of observation, four starts, reloads or prunes, five instants | is a host reported exactly when it was seen to be inactive? | 1,710,836 |
| `reads` | three hosts, four configurations, two reloads or restarts, two observations, one failed write, one client | does a row outlive its target, what can a reply mix, and does a page lose a host? | 2,241,377 |
| `probes` | three tasks, two with names, one permit, two identifiers, a reload, fairness | are identifiers unique, calls bounded, and do tasks report? | 128,000 |
| `service` | eighty files, of which some are bad; one client; any number of starts and reloads | is one configuration in force at a time, and is a public listener guarded? | 145,955 |
| `freshness` | three checks share a permit; three configurations, one of them overloaded; one failed write between reloads; for ever | does a check fall behind, and is readiness true? | 1,782,435 |
| `selection` | five hosts, up to three of eighteen parameters, both routes | does an answer fit its query, in whatever order it was applied? | 91,209 |

Why the bounds are enough. A host that moves away and back needs two reloads and two
addresses; the writer is one closure at a time, so a stale write, the reload that overtakes it
and the task of the next generation need one host. A failure threshold of two with a counter
that saturates at two makes a check that is lost or doubled show in the row. Two hosts with
one permit are the least for one to wait for the other. In the history the day is two units
and retention two or three, so that within six instants a span is rolled up in pieces, crosses
a retention boundary, is partly pruned, and its epoch is closed and removed; a batch of two is
smaller than what is to be pruned. Two jobs, one of which always has more to do or always
fails, show whether the other starves, and the theorem `NoStarvation` has any number of them; a
retry delay of two with a limit of three is doubled once and then cut off. For a report, a host
must be active, change, be pruned past and be observed again after a gap; the freshness and
retention of the run leave room for that. A page of one host and three hosts make two page
boundaries, and one connection with one client that goes shows a permit that is given back
early; two reloads suffice for a host to move away and back. Three tasks and two identifiers make
the counter wrap, meet an identifier in use, and run out; one resolver permit with two names is
the least for one call to keep the other out. The files of `service` vary what access depends
on (address, token and opt-in in all combinations), what turns a check on, each bound of
validation from both sides, and each check on names, from one file that is good; a sequence of
reloads leads from any of them to any other, without limit. Three checks with one permit make
a queue in which one waits for two; the intervals of `freshness` leave a round no room in one
configuration and some in the others. The parameters of `selection` have every kind of key, in
and out of the registry, with values that are taken and values that are not, durations on both sides
of their bounds among them, and three of them are the least for two durations and another field
to meet in every order. `MaxRows = 4` is small enough for two epochs over two instants to exceed
it, so `Source` falls back to a coarser width.

The constraints of `reloads` cut off the second reload of a process that was started again
(`ThreeBeginnings`) and failed writes in behaviours with a second start (`OneFault`). What remains
has two reloads and a failed write anywhere among them, or two reloads, a crash at any step of
them, a start with any configuration, and one more reload. The theorems about the three
properties of the run have none of these bounds.

Deadlock is checked in `reads`, `probes`, `service`, `freshness` and `selection`, which never
stop, and in `reloads`, `pair` and `replaced`, where `AllQuiet` is the only stop; in the others
behaviours end when the bounded clock does.

### Fairness

`MonitorGenerations!Fairness`: the manager's steps after the preparation are straight code,
and one that waits for the mutex blocks; a closure on the blocking pool runs to its end; each
task is polled again after what it awaits has come; tokio's semaphore serves its waiters in
order, which is the strong fairness of `Submit`. Nothing is assumed of signals, probes, failures,
crashes or rejected reloads: they are bounded and may never happen. `Maintenance!Fairness`: the
interval of the scheduler's loop ticks on and its transactions return. Nothing is assumed of time,
reloads, crashes and errors, so `DueJobsRun` speaks of a job that is due already.
`Probes!Fairness`: timers fire, a task gets its permit of the semaphore, and an observation is
stored in the end. Nothing is assumed of the resolver and of sockets, which is the point of
`EveryTaskReports`.

### A disagreement with a comment

`storage/sqlite/history/query.rs` relies on "Epochs of a host/check do not overlap." The
theorem `EpochsDisjointCorrect` confirms it for a clock that is not set back. With
`ClockStepsBack` it fails (run `clock_set_back`): a check is changed, the clock is set back,
the check is changed again, and the newest epoch begins inside the oldest. `eligible_ms` then
counts instants twice.

## 4. Proofs

The proofs hold for any number of hosts, addresses, jobs, signatures and for any bounds, under
the named assumptions on the constants, which TLC evaluates in every run. Every invariant and
every action property of the passing runs is a theorem, and so are the two refinements.

* **`MonitorGenerationsProofs`.** `LedgerCorrect`: the ledger keeps its types,
  `RowsBelongToIdentity` and `TransitionsChain`. They are inductive together with the times of
  the transitions being increasing, which is a guard of `StoreCheck`.

  `InductiveInvariant` proves `IInv`. What one wants to know,
  that no stale write enters the database, is not inductive: it needs that the fence counts
  with the generations (`FenceInv`), that database and catalog hold the configuration that the
  manager is about to run (`ConfigInv`), that tasks and closures belong to hosts of theirs
  (`TaskInv`, `WriterInv`), and above all `DataInv`: what a task of the running generation
  holds is the stored state, or that state advanced by one check, or a result that is stored
  already because its commit reported an error. From it follow `TypeCorrect`, `StopCorrect`,
  `MonitoredCorrect`, and `Refinement`: every step of the monitors is a step of the ledger or
  a stutter. `RowsCorrect` and `ChainCorrect` carry the ledger's properties over.
* **`HistoryProofs`.** `EpochsInOrder`: of any two epochs one ended before the other began and
  none reaches into the future. Disjointness alone is not inductive, since an active epoch has
  no end yet; the order makes it the last. `EpochsDisjointCorrect` follows.
  `HistoryInvariant` adds that spans, buckets and rows fit the epochs that are there (`RowInv`),
  for a prune removes an epoch only when nothing refers to it and all else adds rows to the
  active epoch or to one that a span already has; and that the events of an epoch are a chain
  that ends in its last state, none of them later than its last observation (`EventInv`), so
  that the next event continues it. A roll-up is any number of turns, each of which keeps
  `RowInv`: a first turn that did not is impossible. From it follow `HistoryTypeCorrect`,
  `RowsHaveEpochs` and `EventsChainCorrect`. `PruneFinishesCorrect` is a fact about one step: a
  DELETE that removed less than its limit removed everything.

  `HistoryKeepsTime` proves `TimeInv`, from which it follows what a query shows. Of an instant
  that was observed and is retained there are three places where it can be: a span, the tail
  after the last observation of the active epoch, or else it has been rolled up (`RolledUp`).
  `TimeInv` says that spans follow one another and come before the tail, and have the state
  observed in them (`SpanInv`); what the tail says of the instants in it (`TailInv`); that the
  epoch of such an instant is known (`Known`); and that every bucket that is retained has as much
  time as instants of its window are rolled up, and every such instant has its bucket, in every
  width (`Counts`). That is inductive only for what is retained: `RollUpPiece` leaves out of a
  width the pieces from before its boundary, `Prune` removes rows behind it, and the boundary only
  moves forward. The hard step is a piece: it must lie in one window of each width that it is
  added to, and must not cross the boundary of any other (`PieceOf`), which is why `PieceEnd` cuts
  it there.
  A closed epoch keeps its instants by the span that `close_epoch` makes of its tail.

  For `QueryShowsTimelineCorrect` the three sums of a point are the sizes of three disjoint sets
  of instants that are together what was observed there (`RowsShown`, `SpansShown`, `TailsShown`,
  `ShownIs`). It needs that points, the boundary and windows are all multiples of the width of
  the answer, or end at the present (`GridOf`, `PointOf`, `MultiplesApart`).
  `ShownFitsEligibleCorrect` has these sets within those of the epochs chosen (`EligibleIs`),
  which are disjoint by `EpochsInOrder`.
* **`MaintenanceProofs`.** `MaintenanceInvariant` proves the parts `ClaimPart`, `FailurePart`
  (a failure that is counted, or is going to be, had an error of its own), `SoonPart` and
  `OvertakenPart` (a job that was claimed while another was due is running, or its next run is
  later than the other's). From it follow `MaintenanceTypeCorrect`, `ClaimCorrect`,
  `NoStarvation` and `SoonCorrect`.

* **`UsageProofs`.** `UsageInvariant`: the latest row is the last observation and the last row
  of the history says the same (`LatestInv`); coverage spans observations of the present host
  without a gap (`CoverInv`), and begins no later than it must, since there is a gap before it
  (`GapInv`); `HistoryTellsObservations` is inductive with these, because a prune keeps the
  last row from before the floor. From it follow `TypeCorrect`, `HistoryIsTruthful`,
  `ReportsAreSound` (by `CoverInv`) and `ReportsAreComplete` (by `GapInv`), for any durations,
  all four kinds of observation and any number of changes.

  `AnswersFit`, about `Selection`: a field of the filter has what the parameters applied so far
  want of it, and nothing else (`ApplyInv`), so the order in which the map yields them does not
  matter. That a field never has two values follows from the names being distinct and from no two
  keys but the durations writing into a field; the two durations meet in one window, whose
  longer one decides.
* **`CatalogReadsProofs`.** `RowsAreCurrent` is not inductive: an update that has looked its
  target up must fit the tables as long as its generation is the present one, and a task's
  configuration must be the stored one as long as its generation is. `ReadsInvariant` says so,
  and that a read's catalog differs from the published one only if a reload came since. From it
  follow `RowsCorrect`, `TcpReplies` and `MixedReplies`. `ReadsConnect` rests on a sum of its
  own: permits, reads with a client and reads without one are the size of the pool.
  `PagesCover` rests on what a page is (`PageOf`): with every host it has all that come before
  it, it is all that is left unless the host more that was asked for is there, and `InOrder`
  lists it whole (`OrderOfPage`). So what a client has got is in order and complete up to its
  cursor (`ClientFits`), and beyond it nothing of what stayed is lost. `ReadsTypeCorrect`
  combines the parts.
* **`ProbesProofs`.** The two properties are inductive together, once generations to come have
  no tasks; the types of the permits follow from their sum. `IdentifiersCorrect`,
  `ResolverCorrect` and `ProbesTypeCorrect`. `NextUniqueFinds`: a probe runs out of identifiers
  only if all are in flight, by the well-foundedness of the distance that a scan goes.
* **`ServiceProofs`.** `AcceptedIsStorable`: whatever file validation takes, the storage takes
  what it is resolved to; and the same for modules that are on for a host and off for the
  process (`AcceptedIsGated`). `IInvHolds`: with them the configuration that runs and the one
  that a reload is about to use are sound, and from one step of the reload to the next it is
  known which of the two is behind each lock (`SharedInv`). The four invariants of the run
  follow, and `ContractHolds`: every step is a step of `ServiceContract` or a stutter. A
  request that is authorized or answered sees the configuration in force, since the lock that
  it needs is free only when `SharedInv` says so. The proofs hold for any set of files, any
  bounds and any number of clients.

* **`FreshnessProofs`.** `NoCheckFallsBehind` is a bound on an age, and what is inductive is by
  when a task will have stored (`OnTime`). One that waits for its tick has the time until then
  (`Waits`); one at work has what is left of its probe and its retries (`Works`); for one in the
  queue, the tasks ahead of it and those at work are done with in so many turns of the permits,
  the first of which is partly over (`Queues`). Writes that fail push all of these back, and are
  paid from a reserve of `MaxFailures` delays (`Reserve`); a delay is charged once, although
  several tasks wait for it at the same time (`Blocked`). `Kept` says that a task is on time by
  the age of its row or, in its first turn, by the age of the module; `Recent` that a tick that
  is missed while a task works is made up for at once. From `FreshnessInvariant` follow
  `NoCheckFallsBehindCorrect` and `ReadyAfterFirstRoundCorrect`, for any number of checks and
  permits.

Facts about numbers and finite sets that want induction (a least number, a greatest one, the
listing of a set in order) are proved by a least counterexample, from the library's theorem
that the natural numbers and the finite subsets of a set are well-founded. That a sum over a
function is the size of a union of disjoint sets (`SumOfSizes`) is one of them.

Only model-checked: everything under fairness (`ChecksSettle`, `ReloadCompletes`,
`ReplacedTasksEnd`, `DueJobsRun`, `ClaimsEnd`, `EveryTaskReports`), since liveness and ENABLED
are out of reach of the prover here. Of `SteppingSpec`, whose clock may be set back, nothing is
proved: `EpochsDisjoint` is false there, as `clock_set_back` shows.

## 5. What is left

In the order in which it would be worth doing:

1. **History.** `history_events` and its cursor against inserts and prunes between two pages,
   and the limits on the rows a query scans.
2. **Usage.** A reload that changes intervals and thereby freshness. With a clock that is set
   back, answers depend on rows that are dated later than the request; the code promises
   nothing there, and so does no property.
3. **Freshness.** Several modules, with intervals of a host's own.

Not modelled:

* Reading TOML and the defaults of absent settings, JSON, OpenAPI, ETags, status codes and the
  numbers of metrics: input and output without a state.
* Sockets, ssh, the system ping, child processes: other programs, of which `Probes` and the
  observations of the other modules have the outcomes.
* SQLite's own durability and locking, `database_lock` and offline compaction, which one process
  does while no other runs.
* Telemetry, packaging and CI. The restart of the systemd unit is `Start` after `ProcessEnds`.
