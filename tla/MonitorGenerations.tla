------------------------- MODULE MonitorGenerations -------------------------
(***************************************************************************)
(* The monitor manager (src/src/main.rs), the job runner                   *)
(* (src/src/modules/runner.rs), the ICMP job (modules/icmp/monitor.rs) and *)
(* the storage writer (src/src/storage/sqlite/mod.rs): reloads, the        *)
(* generations of monitor tasks they start and abort, and the generation   *)
(* check that keeps an aborted task's write out of the database.           *)
(*                                                                         *)
(* Threads.  The manager and every monitor task run on one thread, the     *)
(* current-thread runtime of #[actix_web::main]: a task's step runs        *)
(* between two awaits, and none runs while the manager is between two      *)
(* awaits (MainThreadFree).  A database call runs as a closure on the      *)
(* blocking pool.  It is not stopped when the task that waits for it is    *)
(* aborted, so it interleaves with everything.                             *)
(*                                                                         *)
(* Time.  Utc::now() at a check is the next value of clock: two checks     *)
(* never have the same instant, and the clock does not step backwards      *)
(* while checks are made.                                                  *)
(***************************************************************************)
EXTENDS StatusLedger, FiniteSets

CONSTANTS
  Configs,           \* configurations the file can hold
  Concurrency,       \* checks the ICMP module makes at a time
  \* Bounds of the model; Instants bounds the number of checks.
  MaxReloads,        \* reloads one process applies
  MaxStarts,         \* starts of the process
  MaxStoreErrors,    \* failed database transactions
  MaxLoadErrors,     \* failed reads of a host's first state
  MaxRejected        \* rejected reloads

\* AppConfig: the address of every host, and the hosts with ICMP enabled. Validation
\* requires a host.
Configured(a) == {h \in Hosts : a[h] # NoAddress}
Config == [address : AddressMap, icmp : SUBSET Hosts]
ValidConfig ==
  {c \in Config : Configured(c.address) # {} /\ c.icmp \subseteq Configured(c.address)}
NoConfig == [address |-> [h \in Hosts |-> NoAddress], icmp |-> {}]

ASSUME GenerationsAssumption ==
  /\ Configs \subseteq ValidConfig
  /\ Concurrency \in Nat \ {0}
  /\ MaxReloads \in Nat
  /\ MaxStarts \in Nat
  /\ MaxStoreErrors \in Nat
  /\ MaxLoadErrors \in Nat
  /\ MaxRejected \in Nat

Generations == 0 .. MaxReloads

VARIABLES
  \* manage_monitors
  status,       \* of the process: "down", "running" or "stopped"
  reload,       \* how far the manager is in its SIGHUP branch
  next,         \* the prepared configuration, the current one when there is none
  current,      \* the manager's config
  generation,   \* the manager's number for the tasks it last started
  module,       \* the ICMP module's task of each generation
  exits,        \* generations with a MonitorExit in the channel
  \* SqliteStorage
  catalog,      \* the published hosts
  fence,        \* Inner::generation
  writer,       \* the closure that holds the one write permit
  \* run_job
  writeGen,     \* write_generation of each generation's repository
  tasks,        \* the host tasks of each generation
  \* environment and bookkeeping
  clock, starts, storeErrors, loadErrors, rejected,
  faulted       \* generations with a task that could not load its state

managerVars == <<status, reload, next, current, generation, module, exits, writeGen>>
storageVars == <<catalog, fence, writer>>
boundVars == <<clock, starts, storeErrors, loadErrors, rejected, faulted>>
vars == <<ledgerVars, managerVars, storageVars, tasks, boundVars>>

-----------------------------------------------------------------------------
(* Types.                                                                  *)

\* absent    no such task, or one that is over
\* start     spawned, about to read the catalog (host())
\* loading   waiting for the row of latest_status
\* waiting   between two checks
\* observed  a check was made and is to be stored
\* queued    waiting for the write permit
\* writing   waiting for the closure that stores the check
\* backoff   sleeping 250 ms after a failed write
\* exited    returned, its module has not noticed yet
Pcs == {"absent", "start", "loading", "waiting", "observed", "queued",
        "writing", "backoff", "exited"}

\* address is the task's copy of its host's address; state is IcmpJob::state and,
\* from "observed" on, also the observation to store, with its event.
Task == [pc : Pcs, address : Addresses \cup {NoAddress}, state : State, event : Event]

NoTask == [pc |-> "absent", address |-> NoAddress, state |-> Fresh, event |-> NoEvent]

\* A closure of with_inner: submitted with its permit, then inside the critical
\* section of the inner mutex.
Writer == [phase : {"none", "submitted", "entered"}, gen : Generations,
           host : Hosts \cup {"none"}, state : State, event : Event]

NoWriter == [phase |-> "none", gen |-> 0, host |-> "none", state |-> Fresh,
             event |-> NoEvent]

TypeOK ==
  /\ LedgerTypeOK
  /\ status \in {"down", "running", "stopped"}
  /\ reload \in {"idle", "prepared", "blocked", "committed", "published"}
  /\ next \in Config
  /\ current \in Config
  /\ generation \in Generations
  /\ module \in [Generations -> {"none", "running", "aborted"}]
  /\ exits \in SUBSET Generations
  /\ catalog \in AddressMap
  /\ fence \in Generations
  /\ writer \in Writer
  /\ writeGen \in [Generations -> Generations]
  /\ tasks \in [Generations -> [Hosts -> Task]]
  /\ clock \in Nat
  /\ starts \in Nat
  /\ storeErrors \in Nat
  /\ loadErrors \in Nat
  /\ rejected \in Nat
  /\ faulted \in SUBSET Generations

-----------------------------------------------------------------------------
(* Helpers.                                                                *)

\* No task runs while the manager is between two awaits.
MainThreadFree == status = "running" /\ reload \in {"idle", "prepared"}

\* The inner mutex is held by the closure inside with_inner or by the reload.
MutexFree == writer.phase # "entered" /\ reload # "committed"

\* The tasks spawned for configuration c: one for each host with ICMP enabled.
Spawned(c) ==
  [h \in Hosts |-> IF h \in c.icmp
                     THEN [pc |-> "start", address |-> c.address[h], state |-> Fresh,
                           event |-> NoEvent]
                     ELSE NoTask]

\* prepare() returns no ICMP module when no host has it enabled.
ModuleFor(c) == IF c.icmp = {} THEN "none" ELSE "running"

\* The tasks of generation g that hold a permit of their module's semaphore.
Checking(g) ==
  {h \in Hosts : tasks[g][h].pc \in {"observed", "queued", "writing", "backoff"}}

Move(g, h, from, to) ==
  /\ tasks[g][h].pc = from
  /\ tasks' = [tasks EXCEPT ![g][h].pc = to]

\* A closure ends: its permit is free, and the task that waited for it, if it is
\* still there, goes on at pc.
Finish(pc) ==
  /\ writer' = NoWriter
  /\ tasks' = IF tasks[writer.gen][writer.host].pc = "writing"
                THEN [tasks EXCEPT ![writer.gen][writer.host].pc = pc]
                ELSE tasks

-----------------------------------------------------------------------------
(* The process.                                                            *)

Init ==
  /\ LedgerInit
  /\ status = "down" /\ reload = "idle"
  /\ next = NoConfig /\ current = NoConfig
  /\ generation = 0
  /\ module = [g \in Generations |-> "none"]
  /\ exits = {}
  /\ catalog = NoConfig.address
  /\ fence = 0
  /\ writer = NoWriter
  /\ writeGen = [g \in Generations |-> 0]
  /\ tasks = [g \in Generations |-> [h \in Hosts |-> NoTask]]
  /\ clock = 0 /\ starts = 0
  /\ storeErrors = 0 /\ loadErrors = 0 /\ rejected = 0
  /\ faulted = {}

\* main: open() brings the identities in the database in line with the
\* configuration; the manager then starts generation 0.
Start(c) ==
  /\ status = "down"
  /\ starts < MaxStarts
  /\ Reconfigure(c.address)
  /\ status' = "running" /\ reload' = "idle"
  /\ next' = c /\ current' = c
  /\ generation' = 0
  /\ module' = [g \in Generations |-> IF g = 0 THEN ModuleFor(c) ELSE "none"]
  /\ exits' = {}
  /\ catalog' = c.address
  /\ fence' = 0
  /\ writer' = NoWriter
  /\ writeGen' = [g \in Generations |-> 0]
  /\ tasks' = [g \in Generations |-> IF g = 0 THEN Spawned(c) ELSE [h \in Hosts |-> NoTask]]
  /\ starts' = starts + 1
  /\ faulted' = {}
  /\ UNCHANGED <<clock, storeErrors, loadErrors, rejected>>

\* The process ends, killed or because the manager returned. Everything but the
\* database is lost, an open transaction included.
ProcessEnds ==
  /\ status \in {"running", "stopped"}
  /\ starts < MaxStarts
  /\ status' = "down" /\ reload' = "idle"
  /\ next' = NoConfig /\ current' = NoConfig
  /\ generation' = 0
  /\ module' = [g \in Generations |-> "none"]
  /\ exits' = {}
  /\ catalog' = NoConfig.address
  /\ fence' = 0
  /\ writer' = NoWriter
  /\ writeGen' = [g \in Generations |-> 0]
  /\ tasks' = [g \in Generations |-> [h \in Hosts |-> NoTask]]
  /\ faulted' = {}
  /\ UNCHANGED <<ledgerVars, clock, starts, storeErrors, loadErrors, rejected>>

-----------------------------------------------------------------------------
(* The manager: manage_monitors and apply_reloaded_config.                 *)

\* SIGHUP: the file is read and prepared. The manager then waits for prepare(),
\* and tasks run meanwhile. A file that does not prepare changes nothing.
PrepareReload(c) ==
  /\ status = "running" /\ reload = "idle"
  /\ generation < MaxReloads
  /\ reload' = "prepared"
  /\ next' = c
  /\ UNCHANGED <<ledgerVars, storageVars, tasks, boundVars, status, current,
                 generation, module, exits, writeGen>>

\* Variant: the manager takes the configuration over before it is applied.
RejectReloadLate ==
  /\ status = "running"
  /\ \/ reload = "prepared"
     \/ reload = "blocked" /\ MutexFree
  /\ rejected < MaxRejected
  /\ reload' = "idle"
  /\ current' = next
  /\ rejected' = rejected + 1
  /\ UNCHANGED <<ledgerVars, storageVars, tasks, status, next, generation,
                 module, exits, writeGen, clock, starts, storeErrors, loadErrors,
                 faulted>>

\* for_reload refuses the configuration, or its transaction fails and is rolled
\* back: the current configuration and monitors go on.
RejectReload ==
  /\ status = "running"
  /\ \/ reload = "prepared"
     \/ reload = "blocked" /\ MutexFree
  /\ rejected < MaxRejected
  /\ reload' = "idle"
  /\ next' = current
  /\ rejected' = rejected + 1
  /\ UNCHANGED <<ledgerVars, storageVars, tasks, status, current, generation,
                 module, exits, writeGen, clock, starts, storeErrors, loadErrors,
                 faulted>>

\* replace_configuration: the inner mutex is taken, and when a closure holds it the
\* manager blocks the thread of all tasks until it is free.  It holds the catalog's lock
\* meanwhile, which no closure takes (readers of the catalog: module CatalogReads).
WaitForMutex ==
  /\ status = "running" /\ reload = "prepared"
  /\ ~MutexFree
  /\ reload' = "blocked"
  /\ UNCHANGED <<ledgerVars, storageVars, tasks, boundVars, status, next, current,
                 generation, module, exits, writeGen>>

\* replace_configuration, with the inner mutex: the transaction that brings the
\* identities in line is committed.
CommitReload ==
  /\ status = "running" /\ reload \in {"prepared", "blocked"}
  /\ MutexFree
  /\ Reconfigure(next.address)
  /\ reload' = "committed"
  /\ UNCHANGED <<storageVars, tasks, boundVars, status, next, current, generation,
                 module, exits, writeGen>>

\* The rest of replace_configuration: the writer generation advances, the catalog
\* is swapped, and the mutex is released.
PublishReload ==
  /\ status = "running" /\ reload = "committed"
  /\ fence' = fence + 1
  /\ catalog' = next.address
  /\ reload' = "published"
  /\ UNCHANGED <<ledgerVars, tasks, boundVars, writer, status, next, current,
                 generation, module, exits, writeGen>>

\* Variant: the module of the previous generation is not aborted.
SwapWithoutAbort ==
  LET g == generation + 1
  IN  /\ status = "running" /\ reload = "published"
      /\ MutexFree
      /\ generation' = g
      /\ module' = [module EXCEPT ![g] = ModuleFor(next)]
      /\ writeGen' = [writeGen EXCEPT ![g] = fence]
      /\ tasks' = [tasks EXCEPT ![g] = Spawned(next)]
      /\ current' = next
      /\ reload' = "idle"
      /\ UNCHANGED <<ledgerVars, storageVars, boundVars, status, next, exits>>

\* The manager aborts the module's task, then starts the next generation with a
\* repository for the writer generation it finds (monitor_generation takes the mutex).
SwapGeneration ==
  LET g == generation + 1
  IN  /\ status = "running" /\ reload = "published"
      /\ MutexFree
      /\ generation' = g
      /\ module' = [module EXCEPT ![generation] = IF @ = "running" THEN "aborted" ELSE @,
                                  ![g] = ModuleFor(next)]
      /\ writeGen' = [writeGen EXCEPT ![g] = fence]
      /\ tasks' = [tasks EXCEPT ![g] = Spawned(next)]
      /\ current' = next
      /\ reload' = "idle"
      /\ UNCHANGED <<ledgerVars, storageVars, boundVars, status, next, exits>>

\* A module's task is over: the JoinSet aborts its host tasks, and the watcher
\* reports the exit.
EndModule(g) ==
  /\ MainThreadFree
  /\ module' = [module EXCEPT ![g] = "none"]
  /\ tasks' = [tasks EXCEPT ![g] = [h \in Hosts |-> NoTask]]
  /\ exits' = exits \cup {g}
  /\ UNCHANGED <<ledgerVars, storageVars, boundVars, status, reload, next, current,
                 generation, writeGen>>

\* supervise: the first host task that returns ends its module, and so does an
\* empty JoinSet.
ModuleReturns(g) ==
  /\ module[g] = "running"
  /\ \/ \E h \in Hosts : tasks[g][h].pc = "exited"
     \/ \A h \in Hosts : tasks[g][h].pc = "absent"
  /\ EndModule(g)

\* The runtime drops an aborted module's task.
ModuleDropped(g) ==
  /\ module[g] = "aborted"
  /\ EndModule(g)

\* Variant: any exit stops the service.
ReceiveAnyExit(g) ==
  /\ status = "running" /\ reload = "idle"
  /\ g \in exits
  /\ exits' = exits \ {g}
  /\ status' = "stopped"
  /\ UNCHANGED <<ledgerVars, storageVars, tasks, boundVars, reload, next, current,
                 generation, module, writeGen>>

\* The manager takes an exit from the channel: it stops the service when the module
\* belongs to the generation that is running, and ignores it otherwise.
ReceiveExit(g) ==
  /\ status = "running" /\ reload = "idle"
  /\ g \in exits
  /\ exits' = exits \ {g}
  /\ status' = IF g = generation THEN "stopped" ELSE status
  /\ UNCHANGED <<ledgerVars, storageVars, tasks, boundVars, reload, next, current,
                 generation, module, writeGen>>

-----------------------------------------------------------------------------
(* A host task: monitor_host, then run_job.                                *)

\* host(): the host is looked up in the catalog. When the readers are busy the task
\* tries again; a host that is missing ends the task.
ReadCatalog(g, h) ==
  /\ MainThreadFree
  /\ Move(g, h, "start", IF catalog[h] = NoAddress THEN "exited" ELSE "loading")
  /\ UNCHANGED <<ledgerVars, managerVars, storageVars, boundVars>>

\* Variant: the task starts from the default state.
LoadDefault(g, h) ==
  /\ status = "running"
  /\ tasks[g][h].pc = "loading"
  /\ tasks' = [tasks EXCEPT ![g][h].pc = "waiting"]
  /\ UNCHANGED <<ledgerVars, managerVars, storageVars, boundVars>>

\* host(): a reader transaction loads the stored state, from the last commit.
LoadState(g, h) ==
  /\ status = "running"
  /\ tasks[g][h].pc = "loading"
  /\ tasks' = [tasks EXCEPT ![g][h] =
                  [pc |-> "waiting", address |-> tasks[g][h].address,
                   state |-> latest[h], event |-> NoEvent]]
  /\ UNCHANGED <<ledgerVars, managerVars, storageVars, boundVars>>

\* The read fails, and monitor_host returns.
LoadFails(g, h) ==
  /\ status = "running"
  /\ loadErrors < MaxLoadErrors
  /\ Move(g, h, "loading", "exited")
  /\ loadErrors' = loadErrors + 1
  /\ faulted' = faulted \cup {g}
  /\ UNCHANGED <<ledgerVars, managerVars, storageVars, clock, starts, storeErrors,
                 rejected>>

\* A tick, a permit of the module's semaphore, and check_once. The permit is held
\* until the result is stored.
Observe(g, h, ok) ==
  LET now == clock + 1
      seen == Checked(tasks[g][h].state, tasks[g][h].address, ok, now)
  IN  /\ MainThreadFree
      /\ tasks[g][h].pc = "waiting"
      /\ Cardinality(Checking(g)) < Concurrency
      /\ now \in Instants
      /\ clock' = now
      /\ tasks' = [tasks EXCEPT ![g][h] =
                      [pc |-> "observed", address |-> tasks[g][h].address,
                       state |-> seen, event |-> EventOf(tasks[g][h].state, seen)]]
      /\ UNCHANGED <<ledgerVars, managerVars, storageVars, starts, storeErrors,
                     loadErrors, rejected, faulted>>

\* update_check_result: a host that is not in the catalog is NotFound, which the
\* runner retries like any other error; otherwise the task queues for the permit.
Persist(g, h) ==
  /\ MainThreadFree
  /\ Move(g, h, "observed", IF catalog[h] = NoAddress THEN "backoff" ELSE "queued")
  /\ UNCHANGED <<ledgerVars, managerVars, storageVars, boundVars>>

\* with_inner: the task gets the write permit and submits its closure with it.
Submit(g, h) ==
  /\ MainThreadFree
  /\ writer.phase = "none"
  /\ Move(g, h, "queued", "writing")
  /\ writer' = [phase |-> "submitted", gen |-> g, host |-> h,
                state |-> tasks[g][h].state, event |-> tasks[g][h].event]
  /\ UNCHANGED <<ledgerVars, managerVars, catalog, fence, boundVars>>

\* The runner tries again after 250 ms, with the same observation.
RetryPersist(g, h) ==
  /\ MainThreadFree
  /\ Move(g, h, "backoff", "observed")
  /\ UNCHANGED <<ledgerVars, managerVars, storageVars, boundVars>>

-----------------------------------------------------------------------------
(* The closure of update_check_result, on the blocking pool. It runs to its   *)
(* end whether or not a task still waits for it.                              *)

ProcessAlive == status \in {"running", "stopped"}

\* Variant: the generation is not compared.
EnterUnfenced ==
  /\ ProcessAlive
  /\ writer.phase = "submitted"
  /\ MutexFree
  /\ writer' = [writer EXCEPT !.phase = "entered"]
  /\ UNCHANGED <<ledgerVars, managerVars, catalog, fence, tasks, boundVars>>

\* with_inner, inside the mutex: the generation of the task's repository is that of
\* the storage, and the closure goes on.
EnterClosure ==
  /\ ProcessAlive
  /\ writer.phase = "submitted"
  /\ MutexFree
  /\ writeGen[writer.gen] = fence
  /\ writer' = [writer EXCEPT !.phase = "entered"]
  /\ UNCHANGED <<ledgerVars, managerVars, catalog, fence, tasks, boundVars>>

\* with_inner: the storage has moved to another generation; the job ends.
RejectStale ==
  /\ ProcessAlive
  /\ writer.phase = "submitted"
  /\ MutexFree
  /\ writeGen[writer.gen] # fence
  /\ Finish("exited")
  /\ UNCHANGED <<ledgerVars, managerVars, catalog, fence, boundVars>>

\* Variant: every event is inserted.
NeverLogged(h, e) == FALSE

\* insert_transition leaves a row alone that says the same.
AlreadyLogged(h, e) ==
  \E i \in 1 .. Len(log[h]) :
    log[h][i].from = e.from /\ log[h][i].to = e.to /\ log[h][i].at = e.at

\* One transaction: the row and its transition.
StoreResult ==
  LET h == writer.host
      e == writer.event
  IN  /\ latest' = [latest EXCEPT ![h] = writer.state]
      /\ log' = [log EXCEPT ![h] = IF AlreadyLogged(h, e) THEN @ ELSE Logged(@, e, life[h])]
      /\ UNCHANGED <<identity, life>>

\* Variant: the mutex is kept until the task that waits for the closure runs.
CommitWhenAwaited ==
  /\ MainThreadFree
  /\ writer.phase = "entered"
  /\ StoreResult
  /\ Finish("waiting")
  /\ UNCHANGED <<managerVars, catalog, fence, boundVars>>

CommitClosure ==
  /\ ProcessAlive
  /\ writer.phase = "entered"
  /\ StoreResult
  /\ Finish("waiting")
  /\ UNCHANGED <<managerVars, catalog, fence, boundVars>>

\* Variant: the permit is not given back after an error.
FailClosureKeepsPermit ==
  /\ ProcessAlive
  /\ writer.phase = "entered"
  /\ storeErrors < MaxStoreErrors
  /\ writer' = [writer EXCEPT !.phase = "kept"]
  /\ tasks' = IF tasks[writer.gen][writer.host].pc = "writing"
                THEN [tasks EXCEPT ![writer.gen][writer.host].pc = "backoff"]
                ELSE tasks
  /\ storeErrors' = storeErrors + 1
  /\ UNCHANGED <<ledgerVars, managerVars, catalog, fence, clock, starts, loadErrors,
                 rejected, faulted>>

\* The transaction fails and is rolled back.
FailClosure ==
  /\ ProcessAlive
  /\ writer.phase = "entered"
  /\ storeErrors < MaxStoreErrors
  /\ Finish("backoff")
  /\ storeErrors' = storeErrors + 1
  /\ UNCHANGED <<ledgerVars, managerVars, catalog, fence, clock, starts, loadErrors,
                 rejected, faulted>>

\* The transaction is durable, but its commit reports an error.
CommitReportedFailed ==
  /\ ProcessAlive
  /\ writer.phase = "entered"
  /\ storeErrors < MaxStoreErrors
  /\ StoreResult
  /\ Finish("backoff")
  /\ storeErrors' = storeErrors + 1
  /\ UNCHANGED <<managerVars, catalog, fence, clock, starts, loadErrors, rejected,
                 faulted>>

-----------------------------------------------------------------------------

\* The bounds are used up and every task waits for its next check: what is left to
\* do in a system that is not stuck.
AllQuiet ==
  /\ starts = MaxStarts
  /\ \/ status = "stopped" /\ writer.phase = "none"
     \/ /\ status = "running" /\ reload = "idle"
        /\ generation = MaxReloads
        /\ exits = {}
        /\ writer.phase = "none"
        /\ \A g \in Generations, h \in Hosts :
             \/ tasks[g][h].pc = "absent"
             \/ tasks[g][h].pc = "waiting" /\ clock + 1 \notin Instants
  /\ UNCHANGED vars

TaskStep(g, h) ==
  \/ ReadCatalog(g, h)
  \/ LoadState(g, h)
  \/ LoadFails(g, h)
  \/ \E ok \in BOOLEAN : Observe(g, h, ok)
  \/ Persist(g, h)
  \/ Submit(g, h)
  \/ RetryPersist(g, h)

ClosureStep ==
  \/ EnterClosure
  \/ RejectStale
  \/ CommitClosure
  \/ FailClosure
  \/ CommitReportedFailed

ManagerStep ==
  \/ \E c \in Configs : PrepareReload(c)
  \/ RejectReload
  \/ WaitForMutex
  \/ CommitReload
  \/ PublishReload
  \/ SwapGeneration
  \/ \E g \in Generations : ModuleReturns(g) \/ ModuleDropped(g) \/ ReceiveExit(g)

Next ==
  \/ \E c \in Configs : Start(c)
  \/ ProcessEnds
  \/ ManagerStep
  \/ \E g \in Generations, h \in Hosts : TaskStep(g, h)
  \/ ClosureStep
  \/ AllQuiet

Spec == Init /\ [][Next]_vars

-----------------------------------------------------------------------------
(* Safety.  RowsBelongToIdentity, TransitionsChain and LedgerSpec of             *)
(* StatusLedger are the main ones.                                               *)

\* The manager stops the service only when a task of the running generation failed
\* to load its state: no exit of a replaced generation, no stale write and no
\* configuration without ICMP hosts ends the service.
StopsOnlyOnFault == status = "stopped" => generation \in faulted

\* Every host with ICMP enabled in the configuration in force has a task of the
\* running generation that will go on checking it, whatever reloads were prepared,
\* rejected or applied, unless that generation had a fault.
EveryHostMonitored ==
  /\ status = "running" /\ reload \in {"idle", "prepared", "blocked"}
  /\ generation \notin faulted
  =>
    \A h \in current.icmp :
      /\ tasks[generation][h].pc \notin {"absent", "exited"}
      /\ tasks[generation][h].address = identity[h]

-----------------------------------------------------------------------------
(* Liveness.                                                               *)

\* The steps of the task of host h that only wait to be scheduled.
TaskRuns(g, h) ==
  ReadCatalog(g, h) \/ LoadState(g, h) \/ Persist(g, h) \/ RetryPersist(g, h)

\* What the runtime and the code schedule: an awaited step of a task or of the manager
\* that can be taken is taken; a closure runs; tokio's semaphore is first come, first
\* served, so a task that waits for the permit gets it.  Nothing is assumed about
\* ticks, signals, crashes and errors.
Fairness ==
  /\ WF_vars(WaitForMutex \/ CommitReload \/ PublishReload \/ SwapGeneration)
  /\ WF_vars(EnterClosure \/ RejectStale \/ CommitClosure)
  /\ \A g \in Generations :
       /\ WF_vars(ModuleReturns(g) \/ ModuleDropped(g))
       /\ WF_vars(ReceiveExit(g))
       /\ \A h \in Hosts : WF_vars(TaskRuns(g, h)) /\ SF_vars(Submit(g, h))

FairSpec == Spec /\ Fairness

\* A check that was made is stored, or its task is aborted: retries end when the
\* database works again, and no other task keeps the permit from it.  (run_job holds
\* the check until persist succeeds.)
ChecksSettle ==
  \A g \in Generations, h \in Hosts :
    tasks[g][h].pc = "observed" ~>
      \/ tasks[g][h].pc \in {"waiting", "exited", "absent"}
      \/ status # "running"

\* A SIGHUP is dealt with: the manager is never left waiting for a lock that a
\* database call, a retrying task or an aborted task keeps.
ReloadCompletes == reload # "idle" ~> reload = "idle"

\* The tasks of a replaced generation end, also those that retry a write for a host
\* that the reload removed, which fails with NotFound for ever.
ReplacedTasksEnd ==
  \A g \in Generations :
    g < generation ~>
      \/ \A h \in Hosts : tasks[g][h].pc = "absent"
      \/ status # "running"
=============================================================================
