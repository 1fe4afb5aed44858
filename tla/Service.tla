------------------------------ MODULE Service ------------------------------
(***************************************************************************)
(* The process as its clients and its operator see it (src/src/main.rs,    *)
(* src/src/api/auth.rs): it starts from a file, takes another one at       *)
(* SIGHUP, and answers authorized requests all along.                      *)
(*                                                                         *)
(* Threads.  The manager runs on the main thread. From for_reload to the   *)
(* new monitors there is no await, so that it takes the next signal only   *)
(* then. Requests run on the HTTP server's worker threads: a reload meets  *)
(* them at every step, but for the locks on the token, the modules and the *)
(* hosts that it holds. A file that is not accepted, at a start or at a    *)
(* reload, is logged and changes nothing: there is no action for it.       *)
(*                                                                         *)
(* The tasks behind monitors, and what an aborted one may still do, are in *)
(* MonitorGenerations; pages and rows of a read in CatalogReads.           *)
(***************************************************************************)
EXTENDS Configuration

CONSTANTS
  Files,       \* what the file can hold when it is read
  Clients,
  NoConfig,    \* no AppConfig
  NoAnswer

ASSUME ServiceAssumption == Files \subseteq RawConfig /\ NoConfig \notin AppConfig

VARIABLES
  status,      \* of the process
  loopback,    \* the listener's address is of the loopback interface
  config,      \* the manager's AppConfig
  monitors,    \* the hosts, by module, with a task
  reload,      \* how far the manager is in its SIGHUP branch
  next,        \* the configuration it is about to use
  token,       \* ApiState::api_token
  modules,     \* ApiState::module_config
  catalog,     \* SqliteStorage::hosts
  stored,      \* the identities in the database
  session      \* the request each client has made

processVars == <<status, loopback, config, monitors>>
reloadVars == <<reload, next>>
sharedVars == <<token, modules, catalog, stored>>
vars == <<processVars, reloadVars, sharedVars, session>>

Acceptable == {f \in Files : Accepted(f)}
Credentials == Tokens \cup {NoToken}

NoModules ==
  [m \in Modules |-> [enabled |-> FALSE, interval |-> 0, timeout |-> 0, concurrency |-> 0]]

Identities(hosts) == {<<h.id, h.address>> : h \in hosts}

\* What module_catalog says is enabled.
Gates(settings) == {m \in Modules : settings[m].enabled}

View(c) == [token |-> c.token, optIn |-> c.optIn, hosts |-> c.hosts,
            modules |-> Gates(c.modules)]

Stages == {"idle", "asked", "admitted", "refused", "answered"}
IdleSession == [stage |-> "idle", credential |-> NoToken, shown |-> NoAnswer]

TypeOK ==
  /\ status \in {"down", "serving"}
  /\ loopback \in BOOLEAN
  /\ config \in AppConfig \cup {NoConfig}
  /\ monitors \subseteq Host \X Modules
  /\ reload \in {"idle", "prepared", "locked", "committed", "published", "swapped"}
  /\ next \in AppConfig \cup {NoConfig}
  /\ token \in Credentials
  /\ modules \in [Modules -> GlobalModule]
  /\ catalog \subseteq Host
  /\ stored \subseteq Identifiers \X Addresses
  /\ DOMAIN session = Clients
  /\ \A c \in Clients : /\ DOMAIN session[c] = {"stage", "credential", "shown"}
                        /\ session[c].stage \in Stages
                        /\ session[c].credential \in Credentials

Init ==
  /\ status = "down" /\ loopback = TRUE /\ config = NoConfig /\ monitors = {}
  /\ reload = "idle" /\ next = NoConfig
  /\ token = NoToken /\ modules = NoModules /\ catalog = {} /\ stored = {}
  /\ session = [c \in Clients |-> IdleSession]

-----------------------------------------------------------------------------
(* The process.                                                            *)

\* main, up to the server's and the manager's first steps.
Start(f) ==
  LET c == Resolve(f)
  IN  /\ status = "down"
      /\ Storable(c)
      /\ status' = "serving"
      /\ loopback' = f.loopback
      /\ config' = c
      /\ monitors' = Monitored(c)
      /\ token' = c.token /\ modules' = c.modules /\ catalog' = c.hosts
      /\ stored' = Identities(c.hosts)
      /\ UNCHANGED <<reloadVars, session>>

\* main returns an error once the storage is open: the address is in use, say.
StartFails(f) ==
  /\ status = "down"
  /\ Storable(Resolve(f))
  /\ stored' = Identities(Resolve(f).hosts)
  /\ UNCHANGED <<processVars, reloadVars, token, modules, catalog, session>>

\* The process returns, or is killed, wherever it is. The database stays.
ProcessEnds ==
  /\ status = "serving"
  /\ status' = "down" /\ loopback' = TRUE /\ config' = NoConfig /\ monitors' = {}
  /\ reload' = "idle" /\ next' = NoConfig
  /\ token' = NoToken /\ modules' = NoModules /\ catalog' = {}
  /\ session' = [c \in Clients |-> IdleSession]
  /\ UNCHANGED stored

-----------------------------------------------------------------------------
(* A reload: the SIGHUP branch of manage_monitors.                         *)

\* Variant: the configuration keeps the address the file asks for.
ForReloadRebound(c, running) == c

\* for_reload: what belongs to the running process stays as it is.
ForReload(c, running) == [c EXCEPT !.loopback = running.loopback]

\* Variant: only the file's own address counts.
SafeForFile(c, running) == Protected(c.loopback, c.token, c.optIn)

\* Its condition: the token may go only if the running listener is not public.
SafeForReload(c, running) == Protected(running.loopback, c.token, c.optIn)

PrepareReload(f) ==
  /\ status = "serving" /\ reload = "idle"
  /\ reload' = "prepared" /\ next' = Resolve(f)
  /\ UNCHANGED <<processVars, sharedVars, session>>

RefuseReload ==
  /\ reload = "prepared" /\ ~SafeForReload(next, config)
  /\ reload' = "idle" /\ next' = NoConfig
  /\ UNCHANGED <<processVars, sharedVars, session>>

\* apply_reloaded_config and replace_configuration, up to their last lock.
LockShared ==
  /\ reload = "prepared" /\ SafeForReload(next, config)
  /\ reload' = "locked" /\ next' = ForReload(next, config)
  /\ UNCHANGED <<processVars, sharedVars, session>>

\* Variant: the new token is in force although the database refused.
FailReloadWithToken ==
  /\ reload = "locked"
  /\ reload' = "idle" /\ next' = NoConfig
  /\ token' = next.token
  /\ UNCHANGED <<processVars, modules, catalog, stored, session>>

\* The database is busy, or full.
FailReload ==
  /\ reload = "locked"
  /\ reload' = "idle" /\ next' = NoConfig
  /\ UNCHANGED <<processVars, sharedVars, session>>

CommitReload ==
  /\ reload = "locked" /\ Storable(next)
  /\ reload' = "committed"
  /\ stored' = Identities(next.hosts)
  /\ UNCHANGED <<processVars, next, token, modules, catalog, session>>

PublishReload ==
  /\ reload = "committed"
  /\ reload' = "published"
  /\ catalog' = next.hosts
  /\ UNCHANGED <<processVars, next, token, modules, stored, session>>

SwapShared ==
  /\ reload = "published"
  /\ reload' = "swapped"
  /\ token' = next.token /\ modules' = next.modules
  /\ UNCHANGED <<processVars, next, catalog, stored, session>>

\* abort and spawn_monitor_generation.
SwapMonitors ==
  /\ reload = "swapped"
  /\ reload' = "idle" /\ next' = NoConfig
  /\ config' = next /\ monitors' = Monitored(next)
  /\ UNCHANGED <<status, loopback, sharedVars, session>>

-----------------------------------------------------------------------------
(* Requests.                                                               *)

\* Variant: the token's lock is released before the new token is there.
TokenFreeEarly == reload \notin {"locked", "committed"}

\* Whether a reader gets the lock on the token.
TokenFree == reload \notin {"locked", "committed", "published"}

\* The same for the modules.
ModulesFree == reload \notin {"locked", "committed", "published"}

\* And for the hosts, which the storage releases once it has published them.
HostsFree == reload \notin {"locked", "committed"}

To(c, stage) == session' = [session EXCEPT ![c].stage = stage]

Ask(c, credential) ==
  /\ status = "serving"
  /\ session[c].stage = "idle"
  /\ session' = [session EXCEPT ![c].stage = "asked", ![c].credential = credential]
  /\ UNCHANGED <<processVars, reloadVars, sharedVars>>

\* authorize.
Authorize(c) ==
  /\ session[c].stage = "asked"
  /\ TokenFree
  /\ To(c, IF token \in {NoToken, session[c].credential} THEN "admitted" ELSE "refused")
  /\ UNCHANGED <<processVars, reloadVars, sharedVars>>

Answer(c, shown) ==
  /\ session[c].stage = "admitted"
  /\ session' = [session EXCEPT ![c].stage = "answered", ![c].shown = shown]
  /\ UNCHANGED <<processVars, reloadVars, sharedVars>>

\* all_hosts, and whatever else looks up the catalog.
ReadHosts(c) == HostsFree /\ Answer(c, <<"hosts", catalog>>)

\* module_catalog.
ReadModules(c) == ModulesFree /\ Answer(c, <<"modules", Gates(modules)>>)

Leave(c) ==
  /\ session[c].stage \in {"refused", "answered"}
  /\ session' = [session EXCEPT ![c] = IdleSession]
  /\ UNCHANGED <<processVars, reloadVars, sharedVars>>

-----------------------------------------------------------------------------
Next ==
  \/ \E f \in Acceptable : Start(f) \/ StartFails(f) \/ PrepareReload(f)
  \/ ProcessEnds
  \/ RefuseReload \/ LockShared \/ FailReload \/ CommitReload
  \/ PublishReload \/ SwapShared \/ SwapMonitors
  \/ \E c \in Clients : \/ \E credential \in Credentials : Ask(c, credential)
                        \/ Authorize(c) \/ ReadHosts(c) \/ ReadModules(c) \/ Leave(c)

Spec == Init /\ [][Next]_vars

-----------------------------------------------------------------------------
(* Properties.                                                             *)

\* A reload is in force from the moment the catalog is published: whoever could still
\* see something older waits for a lock.
InForce == IF reload \in {"published", "swapped"} THEN View(next) ELSE View(config)

\* Every host's enabled module is enabled at all.
Gated(c) == \A h \in c.hosts, m \in Modules : Enabled(h, m) => c.modules[m].enabled

\* What a file that was accepted comes to.
Served == {View(Resolve(f)) : f \in Acceptable}

Sound(c) ==
  c # NoConfig /\ Storable(c) /\ Gated(c) /\ View(c) \in Served

ConfigInv ==
  status = "serving" =>
    /\ Sound(config)
    /\ loopback = config.loopback
    /\ Protected(loopback, config.token, config.optIn)
    /\ monitors = Monitored(config)

NextInv ==
  /\ reload = "idle" <=> next = NoConfig
  /\ reload # "idle" => status = "serving" /\ Sound(next)
  /\ reload \notin {"idle", "prepared"} =>
       next.loopback = loopback /\ Protected(loopback, next.token, next.optIn)

SharedInv ==
  status = "serving" =>
    /\ stored = Identities(IF reload \in {"committed", "published", "swapped"}
                             THEN next.hosts ELSE config.hosts)
    /\ catalog = InForce.hosts
    /\ token = IF reload = "swapped" THEN next.token ELSE config.token
    /\ modules = IF reload = "swapped" THEN next.modules ELSE config.modules

SessionInv == status = "down" => session = [c \in Clients |-> IdleSession]

\* The inductive invariant.
IInv == TypeOK /\ ConfigInv /\ NextInv /\ SharedInv /\ SessionInv

\* The process never listens on a public address without a token unless the configuration
\* in force opts in to that: for_reload judges a new token by the listener that is bound,
\* not by the address in the file (src/src/config.rs:133).
ListenerGuarded ==
  status = "serving" /\ TokenFree => Protected(loopback, token, InForce.optIn)

\* Between two reloads, all parts of the process use one and the same configuration, and
\* the database has its hosts: a reload that fails anywhere leaves no part of itself
\* (src/src/main.rs:202).
OneConfigurationInForce ==
  status = "serving" /\ reload \in {"idle", "prepared"} =>
    /\ loopback = config.loopback
    /\ token = config.token /\ modules = config.modules
    /\ catalog = config.hosts /\ stored = Identities(config.hosts)
    /\ monitors = Monitored(config)

\* Every check that readyz counts as enabled has a task: no host of the catalog has a
\* module on that is off for the process, which would leave readyz waiting for ever
\* (src/src/config.rs:328).
EnabledHostsAreMonitored ==
  status = "serving" /\ reload = "idle" =>
    \A h \in catalog, m \in Modules : Enabled(h, m) => <<h, m>> \in monitors

\* The storage never turns down, for what it says, a configuration that validation took:
\* only a database error fails a reload that got this far
\* (src/src/storage/sqlite/mod.rs:239).
StorageTakesAcceptedFiles == reload # "idle" => Storable(next)

Contract == INSTANCE ServiceContract
  WITH up <- status = "serving", Views <- Served,
       inForce <- IF status = "serving" THEN InForce ELSE NoConfig

\* A reload is atomic for the clients: at every moment one configuration decides who is
\* admitted and what is shown, whatever lock of apply_reloaded_config is already free
\* (src/src/main.rs:311).
ContractSpec == Contract!Spec
=============================================================================
