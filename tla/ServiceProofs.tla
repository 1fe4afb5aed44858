--------------------------- MODULE ServiceProofs ---------------------------
(***************************************************************************)
(* Proofs about Configuration and Service: what validation guarantees, the *)
(* inductive invariant, and that Service implements ServiceContract.       *)
(***************************************************************************)
EXTENDS Service, TLAPS

-----------------------------------------------------------------------------
(* What an accepted file is resolved to.                                   *)

LEMMA OrType ==
  ASSUME NEW S, NEW option \in Option(S), NEW default \in S
  PROVE  Or(option, default) \in S
BY DEF Or, Option

LEMMA GroupVerifyType ==
  ASSUME NEW raw \in RawConfig, NEW groups
  PROVE  GroupVerify(raw, groups) \in Option(BOOLEAN)
BY DEF GroupVerify, Option

LEMMA ResolveModuleType ==
  ASSUME NEW global \in GlobalModule, NEW own \in RawHostModule
  PROVE  ResolveModule(global, own) \in HostModule
<1>1. Or(own.enabled, global.enabled) \in BOOLEAN
  BY OrType DEF GlobalModule, RawHostModule
<1>2. Or(own.interval, global.interval) \in Nat
  BY OrType DEF GlobalModule, RawHostModule
<1>3. Or(own.timeout, global.timeout) \in Nat
  BY OrType DEF GlobalModule, RawHostModule
<1> QED BY <1>1, <1>2, <1>3 DEF ResolveModule, HostModule

LEMMA ResolveHostType ==
  ASSUME NEW raw \in RawConfig, NEW host \in RawHost
  PROVE  ResolveHost(raw, host) \in Host
<1>1. GroupsOf(raw, host) \in SUBSET Identifiers
  BY DEF GroupsOf, RootGroups, RawHost
<1>2. \A m \in Modules : ResolveModule(raw.modules[m], host.modules[m]) \in HostModule
  BY ResolveModuleType DEF RawConfig, RawHost
<1>3. Or(host.verify, Or(GroupVerify(raw, GroupsOf(raw, host)), raw.verify)) \in BOOLEAN
  <2>1. Or(GroupVerify(raw, GroupsOf(raw, host)), raw.verify) \in BOOLEAN
    BY OrType, GroupVerifyType DEF RawConfig
  <2> QED BY <2>1, OrType DEF RawHost
<1>4. host.id \in Identifiers /\ host.address \in Addresses /\ host.checks \in Seq(Identifiers)
  BY DEF RawHost
<1> QED BY <1>1, <1>2, <1>3, <1>4 DEF ResolveHost, Host

LEMMA ResolveType ==
  ASSUME NEW raw \in RawConfig
  PROVE  Resolve(raw) \in AppConfig
<1>1. \A h \in Listed(raw) : h \in RawHost
  BY DEF Listed, RawConfig
<1>2. {ResolveHost(raw, h) : h \in Listed(raw)} \in SUBSET Host
  BY <1>1, ResolveHostType
<1>3. /\ raw.loopback \in BOOLEAN /\ raw.token \in Tokens \cup {NoToken}
      /\ raw.optIn \in BOOLEAN /\ raw.retention \in Nat /\ raw.history \in History
      /\ raw.maintenance \in Maintenance /\ raw.samples \in Nat
      /\ raw.modules \in [Modules -> GlobalModule]
  BY DEF RawConfig
<1> QED BY <1>2, <1>3 DEF Resolve, AppConfig

\* Whatever file validation takes, the storage's own validation of its hosts and of its
\* policies takes what the file is resolved to: the two never disagree.
THEOREM AcceptedIsStorable ==
  ASSUME NEW raw \in RawConfig, Accepted(raw)
  PROVE  Storable(Resolve(raw))
<1> DEFINE c == Resolve(raw)
<1>1. \A h \in c.hosts : \E i \in DOMAIN raw.hosts : h = ResolveHost(raw, raw.hosts[i])
  BY DEF Resolve, Listed
<1>2. ASSUME NEW i \in DOMAIN raw.hosts
      PROVE  StorableHost(ResolveHost(raw, raw.hosts[i]))
  <2>1. ValidHost(raw, raw.hosts[i]) /\ raw.hosts[i].id \in WellFormed
    BY DEF Accepted, Listed, ValidHostIds
  <2>2. /\ ResolveHost(raw, raw.hosts[i]).id = raw.hosts[i].id
        /\ ResolveHost(raw, raw.hosts[i]).address = raw.hosts[i].address
    BY DEF ResolveHost
  <2> QED BY <2>1, <2>2 DEF ValidHost, StorableHost
<1>3. ASSUME NEW h \in c.hosts, NEW k \in c.hosts, h.id = k.id
      PROVE  h = k
  <2>1. PICK i \in DOMAIN raw.hosts : h = ResolveHost(raw, raw.hosts[i])
    BY <1>1
  <2>2. PICK j \in DOMAIN raw.hosts : k = ResolveHost(raw, raw.hosts[j])
    BY <1>1
  <2>3. raw.hosts[i].id = raw.hosts[j].id
    BY <1>3, <2>1, <2>2 DEF ResolveHost
  <2>4. i = j
    BY <2>3 DEF Accepted, ValidHostIds
  <2> QED BY <2>1, <2>2, <2>4
<1>4. /\ c.history = raw.history /\ c.maintenance = raw.maintenance
      /\ c.retention = raw.retention /\ c.samples = raw.samples
  BY DEF Resolve
<1>5. /\ ValidHistory(raw.history) /\ ValidMaintenance(raw.maintenance)
      /\ ValidDuration(raw.retention) /\ ValidDuration(raw.samples)
  BY DEF Accepted, ValidCoreSettings, ValidModules
<1>6. \A h \in c.hosts : StorableHost(h)
  BY <1>1, <1>2
<1> QED BY <1>3, <1>4, <1>5, <1>6 DEF Storable

\* Validation takes no file that turns a module on for a host and off for the process.
THEOREM AcceptedIsGated ==
  ASSUME NEW raw \in RawConfig, Accepted(raw)
  PROVE  Gated(Resolve(raw))
<1> DEFINE c == Resolve(raw)
<1>1. ASSUME NEW h \in c.hosts, NEW m \in Modules, Enabled(h, m)
      PROVE  c.modules[m].enabled
  <2>1. PICK i \in DOMAIN raw.hosts : h = ResolveHost(raw, raw.hosts[i])
    BY DEF Resolve, Listed
  <2>2. ValidHost(raw, raw.hosts[i])
    BY DEF Accepted, Listed
  <2>3. h.modules[m].enabled
    BY <1>1 DEF Enabled
  <2>4. c.modules = raw.modules
    BY DEF Resolve
  <2> QED BY <2>1, <2>2, <2>3, <2>4 DEF ValidHost
<1> QED BY <1>1 DEF Gated

-----------------------------------------------------------------------------
(* The inductive invariant.                                                *)

\* What an accepted file comes to is sound, whatever is in it.
LEMMA AcceptableIsSound ==
  ASSUME NEW f \in Acceptable
  PROVE  /\ f \in RawConfig /\ Resolve(f) \in AppConfig /\ Sound(Resolve(f))
         /\ Resolve(f).loopback = f.loopback
         /\ Protected(f.loopback, Resolve(f).token, Resolve(f).optIn)
<1>1. f \in RawConfig /\ Accepted(f)
  BY ServiceAssumption DEF Acceptable
<1>2. Resolve(f) \in AppConfig /\ Resolve(f) # NoConfig
  BY <1>1, ResolveType, ServiceAssumption
<1>3. Storable(Resolve(f)) /\ Gated(Resolve(f))
  BY <1>1, AcceptedIsStorable, AcceptedIsGated
<1>4. View(Resolve(f)) \in Served
  BY DEF Served
<1>5. /\ Resolve(f).loopback = f.loopback
      /\ Protected(f.loopback, Resolve(f).token, Resolve(f).optIn)
  BY <1>1 DEF Accepted, ValidAuthSettings, Resolve
<1> QED BY <1>1, <1>2, <1>3, <1>4, <1>5 DEF Sound

LEMMA ConfigParts ==
  ASSUME NEW c \in AppConfig
  PROVE  /\ c.loopback \in BOOLEAN /\ c.token \in Credentials
         /\ c.modules \in [Modules -> GlobalModule] /\ c.hosts \subseteq Host
         /\ Monitored(c) \subseteq Host \X Modules
         /\ Identities(c.hosts) \subseteq Identifiers \X Addresses
<1>1. /\ c.loopback \in BOOLEAN /\ c.token \in Credentials
      /\ c.modules \in [Modules -> GlobalModule] /\ c.hosts \subseteq Host
  BY DEF AppConfig, Credentials
<1>2. Monitored(c) \subseteq Host \X Modules
  BY <1>1 DEF Monitored
<1>3. Identities(c.hosts) \subseteq Identifiers \X Addresses
  BY <1>1 DEF Identities, Host
<1> QED BY <1>1, <1>2, <1>3

\* for_reload changes the listener's address and nothing else.
LEMMA ForReloadKeeps ==
  ASSUME NEW c \in AppConfig, NEW running \in AppConfig, Sound(c)
  PROVE  LET r == ForReload(c, running)
         IN  /\ r \in AppConfig /\ Sound(r)
             /\ r.loopback = running.loopback /\ r.token = c.token /\ r.optIn = c.optIn
             /\ r.hosts = c.hosts /\ r.modules = c.modules
<1> DEFINE r == ForReload(c, running)
<1>1. /\ r \in AppConfig /\ r.loopback = running.loopback
      /\ r.token = c.token /\ r.optIn = c.optIn /\ r.hosts = c.hosts
      /\ r.modules = c.modules /\ r.history = c.history /\ r.maintenance = c.maintenance
      /\ r.retention = c.retention /\ r.samples = c.samples
  BY DEF ForReload, AppConfig
<1>2. r # NoConfig
  BY <1>1, ServiceAssumption
<1>3. Storable(r) /\ Gated(r)
  BY <1>1 DEF Sound, Storable, Gated
<1>4. View(r) = View(c)
  BY <1>1 DEF View
<1> QED BY <1>1, <1>2, <1>3, <1>4 DEF Sound

LEMMA IInvInit == Init => IInv
<1> SUFFICES ASSUME Init PROVE IInv
  OBVIOUS
<1>1. NoModules \in [Modules -> GlobalModule]
  BY DEF NoModules, GlobalModule
<1>2. TypeOK
  BY <1>1 DEF Init, TypeOK, Credentials, IdleSession, Stages
<1>3. ConfigInv /\ NextInv /\ SharedInv /\ SessionInv
  BY DEF Init, ConfigInv, NextInv, SharedInv, SessionInv
<1> QED BY <1>2, <1>3 DEF IInv

LEMMA StartInv ==
  ASSUME IInv, NEW f \in Acceptable, Start(f)
  PROVE  IInv'
<1> DEFINE c == Resolve(f)
<1>1. /\ c \in AppConfig /\ Sound(c) /\ c.loopback = f.loopback
      /\ Protected(f.loopback, c.token, c.optIn)
  BY AcceptableIsSound
<1>2. /\ config' = c /\ loopback' = c.loopback /\ status' = "serving"
      /\ reload = "idle" /\ reload' = "idle" /\ next' = next /\ next = NoConfig
      /\ monitors' = Monitored(c) /\ stored' = Identities(c.hosts)
      /\ token' = c.token /\ modules' = c.modules /\ catalog' = c.hosts
      /\ session' = session
  BY <1>1 DEF Start, reloadVars, IInv, NextInv
<1>3. TypeOK'
  BY <1>1, <1>2, ConfigParts DEF IInv, TypeOK
<1>4. ConfigInv' /\ NextInv' /\ SessionInv'
  BY <1>1, <1>2 DEF ConfigInv, NextInv, SessionInv
<1>5. SharedInv'
  BY <1>1, <1>2 DEF SharedInv, InForce, View
<1> QED BY <1>3, <1>4, <1>5 DEF IInv

LEMMA StartFailsInv ==
  ASSUME IInv, NEW f \in Acceptable, StartFails(f)
  PROVE  IInv'
<1>1. Resolve(f) \in AppConfig
  BY AcceptableIsSound
<1>2. stored' \subseteq Identifiers \X Addresses
  BY <1>1, ConfigParts DEF StartFails
<1> QED
  BY <1>2 DEF StartFails, processVars, reloadVars, IInv, TypeOK, ConfigInv, NextInv,
              SharedInv, InForce, SessionInv

LEMMA ProcessEndsInv ==
  ASSUME IInv, ProcessEnds
  PROVE  IInv'
<1>1. NoModules \in [Modules -> GlobalModule]
  BY DEF NoModules, GlobalModule
<1>2. TypeOK'
  BY <1>1 DEF ProcessEnds, IInv, TypeOK, Credentials, IdleSession, Stages
<1> QED BY <1>2 DEF ProcessEnds, IInv, ConfigInv, NextInv, SharedInv, SessionInv

LEMMA PrepareReloadInv ==
  ASSUME IInv, NEW f \in Acceptable, PrepareReload(f)
  PROVE  IInv'
<1>1. Resolve(f) \in AppConfig /\ Sound(Resolve(f))
  BY AcceptableIsSound
<1> QED
  BY <1>1 DEF PrepareReload, processVars, sharedVars, IInv, TypeOK, ConfigInv, NextInv,
              SharedInv, InForce, SessionInv, Sound

LEMMA LockSharedInv ==
  ASSUME IInv, LockShared
  PROVE  IInv'
<1> DEFINE r == ForReload(next, config)
<1>1. /\ status = "serving" /\ Sound(next) /\ Sound(config)
      /\ next \in AppConfig /\ config \in AppConfig
      /\ loopback = config.loopback
  BY DEF LockShared, IInv, NextInv, ConfigInv, TypeOK, Sound
<1>2. /\ r \in AppConfig /\ Sound(r) /\ r.loopback = loopback
      /\ r.token = next.token /\ r.optIn = next.optIn
  BY <1>1, ForReloadKeeps
<1>3. Protected(loopback, r.token, r.optIn)
  BY <1>1, <1>2 DEF LockShared, SafeForReload
<1>4. /\ reload = "prepared" /\ reload' = "locked" /\ next' = r
      /\ UNCHANGED <<processVars, sharedVars, session>>
  BY DEF LockShared
<1> HIDE DEF r
<1>5. TypeOK'
  BY <1>2, <1>4 DEF processVars, sharedVars, IInv, TypeOK
<1>6. NextInv'
  BY <1>1, <1>2, <1>3, <1>4 DEF processVars, NextInv, Sound
<1>7. ConfigInv' /\ SharedInv' /\ SessionInv'
  BY <1>4 DEF processVars, sharedVars, IInv, ConfigInv, SharedInv, InForce, SessionInv
<1> QED BY <1>5, <1>6, <1>7 DEF IInv

\* The steps that end a reload without a change.
LEMMA GiveUpInv ==
  ASSUME IInv, RefuseReload \/ FailReload
  PROVE  IInv'
BY DEF RefuseReload, FailReload, processVars, sharedVars, IInv, TypeOK, ConfigInv, NextInv,
       SharedInv, InForce, SessionInv

LEMMA CommitReloadInv ==
  ASSUME IInv, CommitReload
  PROVE  IInv'
<1>1. next \in AppConfig
  BY DEF CommitReload, IInv, NextInv, TypeOK
<1>2. stored' \subseteq Identifiers \X Addresses
  BY <1>1, ConfigParts DEF CommitReload
<1> QED
  BY <1>2 DEF CommitReload, processVars, IInv, TypeOK, ConfigInv, NextInv, SharedInv,
              InForce, SessionInv

LEMMA PublishReloadInv ==
  ASSUME IInv, PublishReload
  PROVE  IInv'
<1>1. next \in AppConfig
  BY DEF PublishReload, IInv, NextInv, TypeOK
<1>2. catalog' \subseteq Host
  BY <1>1, ConfigParts DEF PublishReload
<1>3. catalog' = InForce'.hosts
  BY DEF PublishReload, InForce, View
<1> QED
  BY <1>2, <1>3 DEF PublishReload, processVars, IInv, TypeOK, ConfigInv, NextInv, SharedInv,
                    InForce, SessionInv

LEMMA SwapSharedInv ==
  ASSUME IInv, SwapShared
  PROVE  IInv'
<1>1. next \in AppConfig
  BY DEF SwapShared, IInv, NextInv, TypeOK
<1>2. token' \in Credentials /\ modules' \in [Modules -> GlobalModule]
  BY <1>1, ConfigParts DEF SwapShared
<1> QED
  BY <1>2 DEF SwapShared, processVars, IInv, TypeOK, ConfigInv, NextInv, SharedInv,
              InForce, SessionInv

LEMMA SwapMonitorsInv ==
  ASSUME IInv, SwapMonitors
  PROVE  IInv'
<1>1. /\ next \in AppConfig /\ Sound(next) /\ status = "serving"
      /\ next.loopback = loopback /\ Protected(loopback, next.token, next.optIn)
  BY DEF SwapMonitors, IInv, NextInv, TypeOK
<1>2. /\ reload = "swapped" /\ reload' = "idle" /\ next' = NoConfig /\ config' = next
      /\ monitors' = Monitored(next) /\ UNCHANGED <<status, loopback, sharedVars, session>>
  BY DEF SwapMonitors
<1>3. TypeOK'
  BY <1>1, <1>2, ConfigParts DEF sharedVars, IInv, TypeOK
<1>4. ConfigInv' /\ NextInv' /\ SessionInv'
  BY <1>1, <1>2 DEF IInv, ConfigInv, NextInv, SessionInv
<1>5. SharedInv'
  BY <1>1, <1>2 DEF sharedVars, IInv, SharedInv, InForce, View
<1> QED BY <1>3, <1>4, <1>5 DEF IInv

\* A request changes its own session and nothing else.
LEMMA RequestInv ==
  ASSUME IInv, NEW c \in Clients,
         \/ \E credential \in Credentials : Ask(c, credential)
         \/ Authorize(c) \/ ReadHosts(c) \/ ReadModules(c) \/ Leave(c)
  PROVE  IInv'
<1> DEFINE SessionType(s) ==
             /\ DOMAIN s = Clients
             /\ \A d \in Clients : /\ DOMAIN s[d] = {"stage", "credential", "shown"}
                                   /\ s[d].stage \in Stages
                                   /\ s[d].credential \in Credentials
<1>1. UNCHANGED <<processVars, reloadVars, sharedVars>>
  BY DEF Ask, Authorize, ReadHosts, ReadModules, Answer, Leave
<1>2. status = "serving"
  <2>1. status = "down" => session[c].stage = "idle"
    BY DEF IInv, SessionInv, IdleSession
  <2>2. status = "serving" \/ session[c].stage \in {"asked", "admitted", "refused", "answered"}
    BY DEF Ask, Authorize, ReadHosts, ReadModules, Answer, Leave
  <2> QED BY <2>1, <2>2 DEF IInv, TypeOK
<1>3. SessionType(session')
  <2> USE DEF IInv, TypeOK, Stages, Credentials
  <2>1. ASSUME NEW credential \in Credentials, Ask(c, credential) PROVE SessionType(session')
    BY <2>1 DEF Ask
  <2>2. CASE Authorize(c)
    BY <2>2 DEF Authorize, To
  <2>3. ASSUME NEW shown, Answer(c, shown) PROVE SessionType(session')
    BY <2>3 DEF Answer
  <2>4. CASE Leave(c)
    BY <2>4 DEF Leave, IdleSession
  <2> QED BY <2>1, <2>2, <2>3, <2>4 DEF ReadHosts, ReadModules
<1> QED
  BY <1>1, <1>2, <1>3 DEF processVars, reloadVars, sharedVars, IInv, TypeOK, ConfigInv,
                          NextInv, SharedInv, InForce, SessionInv

LEMMA IInvNext == IInv /\ [Next]_vars => IInv'
<1> SUFFICES ASSUME IInv, [Next]_vars PROVE IInv'
  OBVIOUS
<1>1. ASSUME NEW f \in Acceptable, Start(f) PROVE IInv'
  BY <1>1, StartInv
<1>2. ASSUME NEW f \in Acceptable, StartFails(f) PROVE IInv'
  BY <1>2, StartFailsInv
<1>3. ASSUME NEW f \in Acceptable, PrepareReload(f) PROVE IInv'
  BY <1>3, PrepareReloadInv
<1>4. CASE ProcessEnds
  BY <1>4, ProcessEndsInv
<1>5. CASE RefuseReload \/ FailReload
  BY <1>5, GiveUpInv
<1>6. CASE LockShared
  BY <1>6, LockSharedInv
<1>7. CASE CommitReload
  BY <1>7, CommitReloadInv
<1>8. CASE PublishReload
  BY <1>8, PublishReloadInv
<1>9. CASE SwapShared
  BY <1>9, SwapSharedInv
<1>10. CASE SwapMonitors
  BY <1>10, SwapMonitorsInv
<1>11. ASSUME NEW c \in Clients,
              \/ \E credential \in Credentials : Ask(c, credential)
              \/ Authorize(c) \/ ReadHosts(c) \/ ReadModules(c) \/ Leave(c)
       PROVE  IInv'
  BY <1>11, RequestInv
<1>12. CASE UNCHANGED vars
  BY <1>12 DEF vars, processVars, reloadVars, sharedVars, IInv, TypeOK, ConfigInv, NextInv,
               SharedInv, InForce, SessionInv
<1> QED
  BY <1>1, <1>2, <1>3, <1>4, <1>5, <1>6, <1>7, <1>8, <1>9, <1>10, <1>11, <1>12 DEF Next

\* The inductive invariant, for every set of files and of clients.
THEOREM IInvHolds == Spec => []IInv
BY IInvInit, IInvNext, PTL DEF Spec

\* A public listener is never without a guard that its operator did not give up.
THEOREM ListenerGuardedHolds == Spec => []ListenerGuarded
<1>1. IInv => ListenerGuarded
  BY DEF IInv, TypeOK, ConfigInv, NextInv, SharedInv, InForce, View, TokenFree,
         ListenerGuarded
<1> QED BY <1>1, IInvHolds, PTL

\* Between reloads one configuration is in force everywhere, whatever failed before.
THEOREM OneConfigurationInForceHolds == Spec => []OneConfigurationInForce
<1>1. IInv => OneConfigurationInForce
  BY DEF IInv, ConfigInv, SharedInv, InForce, View, OneConfigurationInForce
<1> QED BY <1>1, IInvHolds, PTL

\* Every enabled check that a client can see has a task.
THEOREM EnabledHostsAreMonitoredHolds == Spec => []EnabledHostsAreMonitored
<1>1. IInv => EnabledHostsAreMonitored
  BY DEF IInv, ConfigInv, SharedInv, InForce, View, EnabledHostsAreMonitored, Sound, Gated,
         Monitored
<1> QED BY <1>1, IInvHolds, PTL

\* The storage takes whatever a reload brings as far as to it.
THEOREM StorageTakesAcceptedFilesHolds == Spec => []StorageTakesAcceptedFiles
<1>1. IInv => StorageTakesAcceptedFiles
  BY DEF IInv, NextInv, Sound, StorageTakesAcceptedFiles
<1> QED BY <1>1, IInvHolds, PTL

-----------------------------------------------------------------------------
(* The refinement.                                                         *)

\* What the contract sees.
ContractInForce == IF status = "serving" THEN InForce ELSE NoConfig

LEMMA ContractInit == Init => Contract!Init
BY DEF Init, IdleSession, Contract!Init, Contract!Idle

LEMMA StartIsStart ==
  ASSUME IInv, NEW f \in Acceptable, Start(f)
  PROVE  Contract!Start
<1> DEFINE c == Resolve(f)
<1>1. /\ View(c) \in Served /\ Protected(f.loopback, c.token, c.optIn)
  BY AcceptableIsSound DEF Sound
<1>2. /\ status # "serving" /\ status' = "serving" /\ loopback' = f.loopback
      /\ InForce' = View(c) /\ session' = session
  BY DEF Start, reloadVars, IInv, NextInv, InForce
<1>3. ContractInForce' = View(c)
  BY <1>2 DEF ContractInForce
<1>4. Contract!Guarded(~loopback', View(c))
  BY <1>1, <1>2 DEF Contract!Guarded, Protected, View
<1> QED BY <1>1, <1>2, <1>3, <1>4 DEF Contract!Start, ContractInForce

LEMMA PublishIsSwitch ==
  ASSUME IInv, PublishReload
  PROVE  Contract!Switch
<1>1. /\ status = "serving" /\ View(next) \in Served
      /\ Protected(loopback, next.token, next.optIn)
  BY DEF PublishReload, IInv, NextInv, Sound
<1>2. /\ status' = "serving" /\ UNCHANGED <<loopback, session>> /\ InForce' = View(next)
  BY <1>1 DEF PublishReload, processVars, InForce
<1>3. Contract!Guarded(~loopback, View(next))
  BY <1>1 DEF Contract!Guarded, Protected, View
<1> QED BY <1>1, <1>2, <1>3 DEF Contract!Switch, ContractInForce

LEMMA EndIsStop ==
  ASSUME ProcessEnds
  PROVE  Contract!Stop
BY DEF ProcessEnds, IdleSession, Contract!Stop, Contract!Idle

\* Nothing the contract sees changes in the other steps of the process.
LEMMA Hidden ==
  ASSUME IInv,
         \/ \E f \in Acceptable : StartFails(f) \/ PrepareReload(f)
         \/ RefuseReload \/ LockShared \/ FailReload \/ CommitReload
         \/ SwapShared \/ SwapMonitors
         \/ UNCHANGED vars
  PROVE  UNCHANGED <<status, loopback, ContractInForce, session>>
<1>1. UNCHANGED <<status, loopback, session>>
  BY DEF StartFails, PrepareReload, RefuseReload, LockShared, FailReload, CommitReload,
         SwapShared, SwapMonitors, vars, processVars, reloadVars, sharedVars
<1>2. InForce' = InForce
  BY DEF StartFails, PrepareReload, RefuseReload, LockShared, FailReload, CommitReload,
         SwapShared, SwapMonitors, vars, processVars, reloadVars, sharedVars, InForce
<1> QED BY <1>1, <1>2 DEF ContractInForce

LEMMA RequestIsRequest ==
  ASSUME IInv, NEW c \in Clients,
         \/ \E credential \in Credentials : Ask(c, credential)
         \/ Authorize(c) \/ ReadHosts(c) \/ ReadModules(c) \/ Leave(c)
  PROVE  Contract!Next
<1>1. UNCHANGED <<processVars, reloadVars, sharedVars>>
  BY DEF Ask, Authorize, ReadHosts, ReadModules, Answer, Leave
<1>2. UNCHANGED <<status, loopback, InForce, ContractInForce>>
  BY <1>1 DEF processVars, reloadVars, InForce, ContractInForce
<1>3. status = "serving"
  <2>1. status = "down" => session[c].stage = "idle"
    BY DEF IInv, SessionInv, IdleSession
  <2>2. status = "serving" \/ session[c].stage \in {"asked", "admitted", "refused", "answered"}
    BY DEF Ask, Authorize, ReadHosts, ReadModules, Answer, Leave
  <2> QED BY <2>1, <2>2 DEF IInv, TypeOK
<1>4. /\ ContractInForce = InForce
      /\ TokenFree => token = InForce.token
      /\ ModulesFree => Gates(modules) = InForce.modules
      /\ catalog = InForce.hosts
  BY <1>3 DEF IInv, TypeOK, SharedInv, InForce, ContractInForce, View, TokenFree, ModulesFree
<1>5. ASSUME NEW credential \in Credentials, Ask(c, credential)
      PROVE  Contract!Ask(c, credential)
  BY <1>2, <1>5 DEF Ask, Contract!Ask, ContractInForce
<1>6. CASE Authorize(c)
  <2>1. (token \in {NoToken, session[c].credential})
          = Contract!Admits(session[c].credential)
    BY <1>3, <1>4, <1>6 DEF Authorize, Contract!Admits
  <2>2. Contract!Decide(c)
    BY <1>2, <1>3, <1>6, <2>1 DEF Authorize, To, Contract!Decide, ContractInForce
  <2> QED BY <2>2 DEF Contract!Next
<1>7. CASE ReadHosts(c) \/ ReadModules(c)
  <2>1. PICK a \in Contract!Answers(InForce) : Answer(c, a)
    BY <1>4, <1>7 DEF ReadHosts, ReadModules, Contract!Answers
  <2>2. Contract!Answer(c)
    BY <1>2, <1>3, <1>4, <2>1 DEF Answer, Contract!Answer, ContractInForce
  <2> QED BY <2>2 DEF Contract!Next
<1>8. CASE Leave(c)
  BY <1>2, <1>8 DEF Leave, IdleSession, Contract!Leave, Contract!Idle, Contract!Next,
                    ContractInForce
<1> QED BY <1>5, <1>6, <1>7, <1>8 DEF Contract!Next

LEMMA StepRefines == IInv /\ [Next]_vars => [Contract!Next]_(Contract!vars)
<1> SUFFICES ASSUME IInv, [Next]_vars
             PROVE  Contract!Next \/ UNCHANGED <<status, loopback, ContractInForce, session>>
  BY DEF Contract!vars, ContractInForce
<1>1. ASSUME NEW f \in Acceptable, Start(f) PROVE Contract!Next
  BY <1>1, StartIsStart DEF Contract!Next
<1>2. CASE PublishReload
  BY <1>2, PublishIsSwitch DEF Contract!Next
<1>3. CASE ProcessEnds
  BY <1>3, EndIsStop DEF Contract!Next
<1>4. ASSUME NEW c \in Clients,
             \/ \E credential \in Credentials : Ask(c, credential)
             \/ Authorize(c) \/ ReadHosts(c) \/ ReadModules(c) \/ Leave(c)
      PROVE  Contract!Next
  BY <1>4, RequestIsRequest
<1> QED BY <1>1, <1>2, <1>3, <1>4, Hidden DEF Next

\* The service keeps its contract: for its clients a reload is one step.
THEOREM ContractHolds == Spec => ContractSpec
BY ContractInit, IInvHolds, StepRefines, PTL DEF Spec, ContractSpec, Contract!Spec
=============================================================================
