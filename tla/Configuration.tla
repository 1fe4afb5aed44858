--------------------------- MODULE Configuration ---------------------------
(***************************************************************************)
(* What the service makes of its file (src/src/config.rs): which files it  *)
(* accepts, and the AppConfig it resolves an accepted one to.              *)
(*                                                                         *)
(* Text is abstracted: parses says that the file is TOML with fields,     *)
(* types of values, modules, check IDs and a token that the code takes;    *)
(* WellFormed and Destinations are the identifiers and the addresses made  *)
(* of the characters that are allowed. A list of groups or of members is a *)
(* set, for the code sorts the one, removes doubles, and only searches the *)
(* other.                                                                  *)
(***************************************************************************)
EXTENDS Naturals, Sequences

CONSTANTS
  Identifiers,    \* of hosts, groups and TCP checks
  WellFormed,     \* those that validate_id takes
  Addresses,
  Destinations,   \* those that validate_address takes
  Tokens, NoToken,
  Unset,          \* Option::None of a setting
  MaxDuration,    \* validation::MAX_DURATION, in the unit of the least duration
  Second,         \* the least interval of a maintenance job
  Day,            \* the least history retention
  MaxConcurrency, MaxWorkers, MaxChecks,
  MaxBatch, MaxPages, MaxPercent,
  MaxBytes        \* the greatest integer of the database

ASSUME ConfigurationAssumption ==
  /\ WellFormed \subseteq Identifiers
  /\ Destinations \subseteq Addresses
  /\ NoToken \notin Tokens
  /\ Unset \notin BOOLEAN \cup Nat
  /\ {MaxDuration, Second, Day} \subseteq Nat
  /\ {MaxConcurrency, MaxWorkers, MaxChecks, MaxBatch, MaxPages, MaxPercent,
      MaxBytes} \subseteq Nat

Modules == {"icmp", "usage", "tcp"}

Option(S) == S \cup {Unset}
Or(option, default) == IF option = Unset THEN default ELSE option

-----------------------------------------------------------------------------
(* The file, and the configuration it is resolved to.                      *)

GlobalModule == [enabled : BOOLEAN, interval : Nat, timeout : Nat, concurrency : Nat]
HostModule == [enabled : BOOLEAN, interval : Nat, timeout : Nat]
RawHostModule == [enabled : Option(BOOLEAN), interval : Option(Nat), timeout : Option(Nat)]

\* HistoryConfig: the tiers from the finest, and the events.
History == [tiers : [1 .. 4 -> Nat], events : Nat]

\* MaintenanceConfig.
Maintenance == [intervals : [1 .. 4 -> Nat], batch : Nat, pages : Nat, percent : Nat,
                bytes : Nat]

RawHost == [id : Identifiers, address : Addresses, groups : SUBSET Identifiers,
            modules : [Modules -> RawHostModule], verify : Option(BOOLEAN),
            checks : Seq(Identifiers)]

\* members is [groups], Unset for a group that is not there; tuned are the groups in
\* [group_settings], and settings their ssh_verify_host_key.
RawConfig == [parses : BOOLEAN, loopback : BOOLEAN, token : Tokens \cup {NoToken},
              optIn : BOOLEAN, workers : Option(Nat), retention : Nat, history : History,
              maintenance : Maintenance,
              modules : [Modules -> GlobalModule], thresholds : Nat \X Nat,
              verify : BOOLEAN, samples : Nat,
              members : [Identifiers -> Option(SUBSET Identifiers)],
              tuned : SUBSET Identifiers, settings : [Identifiers -> Option(BOOLEAN)],
              hosts : Seq(RawHost)]

Host == [id : Identifiers, address : Addresses, groups : SUBSET Identifiers,
         modules : [Modules -> HostModule], verify : BOOLEAN, checks : Seq(Identifiers)]

AppConfig == [loopback : BOOLEAN, token : Tokens \cup {NoToken}, optIn : BOOLEAN,
              retention : Nat, history : History, maintenance : Maintenance, samples : Nat,
              modules : [Modules -> GlobalModule], hosts : SUBSET Host]

-----------------------------------------------------------------------------
(* Resolving a file.                                                       *)

Listed(raw) == {raw.hosts[i] : i \in DOMAIN raw.hosts}

RootGroups(raw) == {g \in Identifiers : raw.members[g] # Unset}

\* The groups a host names and those that name it.
GroupsOf(raw, host) ==
  host.groups \cup {g \in RootGroups(raw) : host.id \in raw.members[g]}

\* group_settings_usage_ssh_verify_host_key: what the groups of a host say together,
\* in whatever order they are listed.
GroupVerify(raw, groups) ==
  LET configured == {raw.settings[g] : g \in groups \cap raw.tuned} \ {Unset}
  IN  IF configured = {} THEN Unset ELSE FALSE \notin configured

\* resolve_host of a module.
ResolveModule(global, own) ==
  [enabled |-> Or(own.enabled, global.enabled),
   interval |-> Or(own.interval, global.interval),
   timeout |-> Or(own.timeout, global.timeout)]

ResolveHost(raw, host) ==
  [id |-> host.id, address |-> host.address, groups |-> GroupsOf(raw, host),
   modules |-> [m \in Modules |-> ResolveModule(raw.modules[m], host.modules[m])],
   verify |-> Or(host.verify, Or(GroupVerify(raw, GroupsOf(raw, host)), raw.verify)),
   checks |-> host.checks]

\* into_app_config. The hosts have different identifiers by then.
Resolve(raw) ==
  [loopback |-> raw.loopback, token |-> raw.token, optIn |-> raw.optIn,
   retention |-> raw.retention, history |-> raw.history,
   maintenance |-> raw.maintenance, samples |-> raw.samples,
   modules |-> raw.modules, hosts |-> {ResolveHost(raw, h) : h \in Listed(raw)}]

-----------------------------------------------------------------------------
(* Accepting a file.                                                       *)

ValidDuration(d) == d \in 1 .. MaxDuration

\* HistoryConfig::validate.
ValidHistory(history) ==
  /\ \A i \in 1 .. 4 : ValidDuration(history.tiers[i]) /\ history.tiers[i] >= Day
  /\ ValidDuration(history.events) /\ history.events >= Day
  /\ \A i \in 1 .. 3 : history.tiers[i] <= history.tiers[i + 1]

\* MaintenanceConfig::validate.
ValidMaintenance(maintenance) ==
  /\ \A i \in 1 .. 4 : /\ ValidDuration(maintenance.intervals[i])
                       /\ maintenance.intervals[i] >= Second
  /\ maintenance.bytes <= MaxBytes
  /\ maintenance.batch \in 1 .. MaxBatch
  /\ maintenance.pages \in 1 .. MaxPages
  /\ maintenance.percent \in 1 .. MaxPercent

ValidCoreSettings(raw) ==
  /\ ValidDuration(raw.retention)
  /\ ValidHistory(raw.history)
  /\ ValidMaintenance(raw.maintenance)
  /\ raw.workers = Unset \/ raw.workers \in 1 .. MaxWorkers
  /\ raw.hosts # <<>>

\* Whether a listener may serve with this token and this opt-in.
Protected(private, secret, optIn) == private \/ secret # NoToken \/ optIn

ValidAuthSettings(raw) == Protected(raw.loopback, raw.token, raw.optIn)

\* validate_module_config, enabled or not.
ValidModules(raw) ==
  /\ \A m \in Modules :
       /\ ValidDuration(raw.modules[m].interval)
       /\ ValidDuration(raw.modules[m].timeout)
       /\ raw.modules[m].concurrency \in 1 .. MaxConcurrency
  /\ raw.thresholds[1] > 0 /\ raw.thresholds[2] > 0
  /\ ValidDuration(raw.samples)

ValidHostIds(raw) ==
  /\ \A i \in DOMAIN raw.hosts : raw.hosts[i].id \in WellFormed
  /\ \A i, j \in DOMAIN raw.hosts : raw.hosts[i].id = raw.hosts[j].id => i = j

ValidRootGroups(raw) ==
  \A g \in RootGroups(raw) :
    /\ g \in WellFormed
    /\ raw.members[g] # {}
    /\ \A id \in raw.members[g] : id \in WellFormed /\ \E h \in Listed(raw) : h.id = id

ValidGroupSettings(raw) ==
  \A g \in raw.tuned :
    g \in WellFormed /\ \E h \in Listed(raw) : g \in GroupsOf(raw, h)

\* ResolvedTcpHostConfig::validate.
ValidTcp(host) ==
  /\ ValidDuration(host.modules.tcp.interval)
  /\ ValidDuration(host.modules.tcp.timeout)
  /\ Len(host.checks) <= MaxChecks
  /\ \A i, j \in DOMAIN host.checks : host.checks[i] = host.checks[j] => i = j

\* Variant: a host may enable a module that is disabled.
ValidHostUngated(raw, host) ==
  LET resolved == ResolveHost(raw, host)
  IN  /\ host.address \in Destinations
      /\ resolved.groups # {} /\ resolved.groups \subseteq WellFormed
      /\ \A m \in {"icmp", "usage"} : /\ ValidDuration(resolved.modules[m].interval)
                                      /\ ValidDuration(resolved.modules[m].timeout)
      /\ ValidTcp(resolved)

\* Variant: the resolved durations of a host are not looked at.
ValidHostUntimed(raw, host) ==
  LET resolved == ResolveHost(raw, host)
  IN  /\ host.address \in Destinations
      /\ resolved.groups # {} /\ resolved.groups \subseteq WellFormed
      /\ \A m \in Modules : resolved.modules[m].enabled => raw.modules[m].enabled
      /\ ValidTcp(resolved)

\* The checks of into_app_config for one host. An enabled module of a host needs the
\* global module, and the durations are those the host ends up with.
ValidHost(raw, host) ==
  LET resolved == ResolveHost(raw, host)
  IN  /\ host.address \in Destinations
      /\ resolved.groups # {} /\ resolved.groups \subseteq WellFormed
      /\ \A m \in Modules : resolved.modules[m].enabled => raw.modules[m].enabled
      /\ \A m \in {"icmp", "usage"} : /\ ValidDuration(resolved.modules[m].interval)
                                      /\ ValidDuration(resolved.modules[m].timeout)
      /\ ValidTcp(resolved)

\* from_path: read, parse and validate.
Accepted(raw) ==
  /\ raw.parses
  /\ ValidCoreSettings(raw)
  /\ ValidAuthSettings(raw)
  /\ ValidModules(raw)
  /\ ValidHostIds(raw)
  /\ ValidRootGroups(raw)
  /\ ValidGroupSettings(raw)
  /\ \A h \in Listed(raw) : ValidHost(raw, h)

-----------------------------------------------------------------------------
(* What the storage and the modules ask of a configuration.                *)

\* Host::validate.
StorableHost(host) ==
  /\ host.id \in WellFormed
  /\ host.address \in Destinations
  /\ \A m \in {"icmp", "usage"} : /\ ValidDuration(host.modules[m].interval)
                                  /\ ValidDuration(host.modules[m].timeout)
  /\ ValidTcp(host)

\* The validation of open, of the retention setters and of update_configuration.
Storable(c) ==
  /\ \A h \in c.hosts : StorableHost(h)
  /\ \A h, k \in c.hosts : h.id = k.id => h = k
  /\ ValidHistory(c.history) /\ ValidMaintenance(c.maintenance)
  /\ ValidDuration(c.retention) /\ ValidDuration(c.samples)

\* A host's module has something to check.
Enabled(host, m) ==
  host.modules[m].enabled /\ (m = "tcp" => host.checks # <<>>)

\* prepare() of the modules: the hosts, by module, that get a task.
Monitored(c) ==
  {p \in c.hosts \X Modules : c.modules[p[2]].enabled /\ Enabled(p[1], p[2])}
=============================================================================
