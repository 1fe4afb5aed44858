----------------------- MODULE MonitorGenerationsProofs -----------------------
(* The inductive invariant of MonitorGenerations, and what follows from it: *)
(* the monitors implement the ledger of StatusLedger, and the manager stops *)
(* only on a fault and leaves no host without a task.  For any number of   *)
(* hosts, reloads, restarts and errors.                                    *)
EXTENDS MonitorGenerationsInv, TLAPS

-----------------------------------------------------------------------------
(* The ledger.                                                             *)

\* A check takes a state to a state (check_once keeps the counters in u32).
LEMMA CheckedType ==
  ASSUME NEW s \in State, NEW a \in Addresses, NEW ok \in BOOLEAN, NEW at \in Nat
  PROVE  /\ Checked(s, a, ok, at) \in State
         /\ Checked(s, a, ok, at).address = a
         /\ Checked(s, a, ok, at).checkedAt = at
  BY IcmpCheckAssumption DEF Checked, Succeed, Fail, State, Statuses, Counter, Saturating

\* The event of a check is a transition record.
LEMMA EventType ==
  ASSUME NEW s \in State, NEW t \in State
  PROVE  /\ EventOf(s, t) \in Event
         /\ EventOf(s, t).from = EventOf(s, t).to <=> s.status = t.status
  BY DEF EventOf, Event, State, NoEvent, Statuses

LEMMA FreshType == Fresh \in State /\ Fresh.status = "unknown"
  BY IcmpCheckAssumption DEF Fresh, State, Statuses, Counter

\* The rows of a host's log never are from a later life than its present one.
LifeInv ==
  \A h \in Hosts : \A i \in 1 .. Len(log[h]) : log[h][i].life <= life[h]

LedgerInv ==
  /\ LedgerTypeOK
  /\ LifeInv
  /\ RowsBelongToIdentity
  /\ TransitionsChain

LEMMA LedgerInitInv == LedgerInit => LedgerInv
  <1>. SUFFICES ASSUME LedgerInit PROVE LedgerInv
    OBVIOUS
  <1>1. LedgerTypeOK
    BY FreshType DEF LedgerInit, LedgerTypeOK, AddressMap
  <1>2. LifeInv /\ RowsBelongToIdentity
    BY DEF LedgerInit, LifeInv, RowsBelongToIdentity
  <1>3. TransitionsChain
    <2>. SUFFICES ASSUME NEW h \in Hosts
                  PROVE  latest[h].status = LoggedStatus(h) /\ 1 .. Len(log[h]) = {}
      BY DEF TransitionsChain
    <2>1. log[h] = <<>> /\ latest[h] = Fresh
      BY DEF LedgerInit
    <2>2. latest[h].status = LoggedStatus(h)
      BY <2>1, FreshType DEF LoggedStatus
    <2>3. 1 .. Len(log[h]) = {}
      BY <2>1
    <2>. QED
      BY <2>2, <2>3
  <1>. QED
    BY <1>1, <1>2, <1>3 DEF LedgerInv

\* One stored check keeps the invariant.
LEMMA StoreCheckInv ==
  ASSUME LedgerInv, NEW h \in Hosts, NEW ok \in BOOLEAN, NEW at \in Instants,
         StoreCheck(h, ok, at)
  PROVE  LedgerInv'
  <1>. DEFINE s == Checked(latest[h], identity[h], ok, at)
              e == EventOf(latest[h], s)
              entry == [from |-> e.from, to |-> e.to, at |-> e.at, life |-> life[h]]
  <1>1. /\ identity[h] \in Addresses
        /\ latest[h] \in State
        /\ life[h] \in Nat
        /\ log[h] \in Seq(LogEntry)
        /\ at \in Nat
    BY IcmpCheckAssumption DEF LedgerInv, LedgerTypeOK, StoreCheck, AddressMap
  <1>2. s \in State /\ s.address = identity[h]
    BY <1>1, CheckedType
  <1>a. e \in Event /\ (e.from = e.to <=> s.status = latest[h].status)
    <2>. HIDE DEF s
    <2>. QED
      BY <1>1, <1>2, EventType
  <1>3. /\ latest' = [latest EXCEPT ![h] = s]
        /\ log' = [log EXCEPT ![h] = Logged(@, e, life[h])]
        /\ identity' = identity
        /\ life' = life
    BY DEF StoreCheck
  <1>b. e.from # e.to => e.from = latest[h].status /\ e.to = s.status
    <2>. HIDE DEF s
    <2>. QED
      BY DEF EventOf, NoEvent
  <1>. HIDE DEF s, e
  <1>4. entry \in LogEntry
    BY <1>1, <1>a DEF Event, LogEntry
  <1>5. CASE e.from = e.to
    <2>1. log' = log
      BY <1>3, <1>5 DEF Logged, LedgerInv, LedgerTypeOK
    <2>2. s.status = latest[h].status
      BY <1>5, <1>a
    <2>3. LedgerTypeOK' /\ LifeInv'
      BY <1>2, <1>3, <2>1 DEF LedgerInv, LedgerTypeOK, LifeInv
    <2>4. RowsBelongToIdentity'
      BY <1>2, <1>3 DEF LedgerInv, LedgerTypeOK, RowsBelongToIdentity
    <2>5. \A k \in Hosts : latest'[k].status = latest[k].status
      BY <1>3, <2>2 DEF LedgerInv, LedgerTypeOK
    <2>6. TransitionsChain'
      BY <1>3, <2>1, <2>5 DEF LedgerInv, TransitionsChain, LoggedStatus
    <2>. QED
      BY <2>3, <2>4, <2>6 DEF LedgerInv
  <1>6. CASE e.from # e.to
    <2>1. log' = [log EXCEPT ![h] = Append(log[h], entry)]
      BY <1>3, <1>6 DEF Logged, LedgerInv, LedgerTypeOK
    <2>2. e.from = latest[h].status /\ e.to = s.status
      BY <1>6, <1>b
    <2>3. LedgerTypeOK'
      <3>1. Append(log[h], entry) \in Seq(LogEntry)
        BY <1>1, <1>4
      <3>2. log' \in [Hosts -> Seq(LogEntry)]
        BY <2>1, <3>1 DEF LedgerInv, LedgerTypeOK
      <3>3. latest' \in [Hosts -> State]
        BY <1>2, <1>3 DEF LedgerInv, LedgerTypeOK
      <3>. QED
        BY <1>3, <3>2, <3>3 DEF LedgerInv, LedgerTypeOK
    <2>4. LifeInv'
      <3>. SUFFICES ASSUME NEW k \in Hosts, NEW i \in 1 .. Len(log'[k])
                    PROVE  log'[k][i].life <= life[k]
        BY <1>3 DEF LifeInv
      <3>1. CASE k # h
        BY <2>1, <3>1 DEF LedgerInv, LedgerTypeOK, LifeInv
      <3>2. CASE k = h
        <4>1. log'[h] = Append(log[h], entry)
          BY <2>1 DEF LedgerInv, LedgerTypeOK
        <4>2. i \in 1 .. Len(log[h]) \/ log'[h][i] = entry
          BY <1>1, <3>2, <4>1
        <4>3. i \in 1 .. Len(log[h]) => log'[h][i] = log[h][i]
          BY <1>1, <4>1
        <4>. QED
          BY <1>1, <3>2, <4>2, <4>3 DEF LedgerInv, LifeInv
      <3>. QED
        BY <3>1, <3>2
    <2>5. RowsBelongToIdentity'
      BY <1>2, <1>3 DEF LedgerInv, LedgerTypeOK, RowsBelongToIdentity
    <2>6. ASSUME NEW k \in Hosts
          PROVE  /\ latest'[k].status = LoggedStatus(k)'
                 /\ \A i \in 1 .. Len(log'[k]) :
                      /\ log'[k][i].from # log'[k][i].to
                      /\ log'[k][i].from =
                           IF i > 1 /\ log'[k][i-1].life = log'[k][i].life
                             THEN log'[k][i-1].to ELSE "unknown"
      <3>1. CASE k # h
        BY <1>3, <2>1, <3>1 DEF LedgerInv, LedgerTypeOK, TransitionsChain, LoggedStatus
      <3>2. CASE k = h
        <4>1. /\ log'[h] = Append(log[h], entry)
              /\ Len(log'[h]) = Len(log[h]) + 1
              /\ log'[h][Len(log[h]) + 1] = entry
              /\ \A i \in 1 .. Len(log[h]) : log'[h][i] = log[h][i]
              /\ Len(log[h]) \in Nat
          BY <1>1, <1>4, <2>1 DEF LedgerInv, LedgerTypeOK
        <4>2. latest'[h].status = LoggedStatus(h)'
          BY <1>1, <1>2, <1>3, <2>2, <4>1 DEF LoggedStatus, LedgerInv, LedgerTypeOK
        <4>3. entry.from = IF Len(log[h]) > 0 /\ log[h][Len(log[h])].life = life[h]
                             THEN log[h][Len(log[h])].to ELSE "unknown"
          BY <1>1, <2>2 DEF LedgerInv, TransitionsChain, LoggedStatus
        <4>. QED
          BY <1>1, <1>6, <3>2, <4>1, <4>2, <4>3 DEF LedgerInv, TransitionsChain
      <3>. QED
        BY <3>1, <3>2
    <2>. QED
      BY <2>3, <2>4, <2>5, <2>6 DEF LedgerInv, TransitionsChain
  <1>. QED
    BY <1>5, <1>6

\* A new configuration keeps the invariant.
LEMMA ReconfigureInv ==
  ASSUME LedgerInv, NEW c \in AddressMap, Reconfigure(c)
  PROVE  LedgerInv'
  <1>1. LedgerTypeOK'
    BY FreshType DEF LedgerInv, LedgerTypeOK, Reconfigure
  <1>2. LifeInv'
    <2>. SUFFICES ASSUME NEW h \in Hosts, NEW i \in 1 .. Len(log[h])
                  PROVE  log[h][i].life <= life'[h]
      BY DEF LifeInv, Reconfigure
    <2>1. log[h][i].life <= life[h] /\ log[h][i].life \in Nat /\ life[h] \in Nat
      <3>1. log[h] \in Seq(LogEntry) /\ life[h] \in Nat
        BY DEF LedgerInv, LedgerTypeOK
      <3>2. log[h][i] \in LogEntry
        BY <3>1
      <3>. QED
        BY <3>1, <3>2 DEF LogEntry, LedgerInv, LifeInv
    <2>2. life'[h] = life[h] \/ life'[h] = life[h] + 1
      BY DEF Reconfigure
    <2>. QED
      BY <2>1, <2>2
  <1>3. RowsBelongToIdentity'
    BY DEF LedgerInv, RowsBelongToIdentity, Reconfigure, KeepsIdentity
  <1>4. ASSUME NEW h \in Hosts PROVE latest'[h].status = LoggedStatus(h)'
    <2>1. CASE KeepsIdentity(h, c)
      BY <2>1 DEF LedgerInv, TransitionsChain, LoggedStatus, Reconfigure
    <2>2. CASE ~KeepsIdentity(h, c)
      <3>1. log[h] # <<>> => log[h][Len(log[h])].life # life[h] + 1
        BY DEF LedgerInv, LedgerTypeOK, LogEntry, LifeInv
      <3>. QED
        BY <2>2, <3>1, FreshType DEF LoggedStatus, Reconfigure
    <2>. QED
      BY <2>1, <2>2
  <1>5. TransitionsChain'
    BY <1>4 DEF LedgerInv, TransitionsChain, Reconfigure
  <1>. QED
    BY <1>1, <1>2, <1>3, <1>5 DEF LedgerInv

\* The ledger's types, and its two promises: rows belong to the identity they were
\* measured for, and transitions form a chain that ends in the stored status.
THEOREM LedgerCorrect == LedgerSpec => [](LedgerTypeOK /\ RowsBelongToIdentity /\ TransitionsChain)
  <1>1. LedgerInit => LedgerInv
    BY LedgerInitInv
  <1>2. LedgerInv /\ [LedgerNext]_ledgerVars => LedgerInv'
    <2>. SUFFICES ASSUME LedgerInv, [LedgerNext]_ledgerVars PROVE LedgerInv'
      OBVIOUS
    <2>1. CASE UNCHANGED ledgerVars
      BY <2>1 DEF ledgerVars, LedgerInv, LedgerTypeOK, LifeInv, RowsBelongToIdentity,
                  TransitionsChain, LoggedStatus
    <2>2. CASE LedgerNext
      BY <2>2, StoreCheckInv, ReconfigureInv DEF LedgerNext
    <2>. QED
      BY <2>1, <2>2
  <1>3. LedgerInv => LedgerTypeOK /\ RowsBelongToIdentity /\ TransitionsChain
    BY DEF LedgerInv
  <1>. QED
    BY <1>1, <1>2, <1>3, PTL DEF LedgerSpec

-----------------------------------------------------------------------------
(* Types and effects of the helpers.                                       *)

LEMMA ConfigType ==
  /\ NoConfig \in Config
  /\ \A c \in Configs :
       /\ c \in Config
       /\ c.address \in AddressMap
       /\ c.icmp \subseteq Hosts
       /\ \A h \in c.icmp : c.address[h] \in Addresses
  BY GenerationsAssumption DEF Config, NoConfig, ValidConfig, Configured, AddressMap

LEMMA NoneTypes ==
  /\ NoTask \in Task
  /\ NoWriter \in Writer
  /\ NoEvent \in Event
  /\ 0 \in Generations
  /\ "none" \notin {"submitted", "entered"}
  <1>1. NoEvent \in Event
    BY DEF NoEvent, Event, Statuses
  <1>2. 0 \in Generations
    BY GenerationsAssumption DEF Generations
  <1>. QED
    BY <1>1, <1>2, FreshType DEF NoTask, Task, Pcs, NoWriter, Writer

LEMMA SpawnedType ==
  ASSUME NEW c \in Configs
  PROVE  /\ Spawned(c) \in [Hosts -> Task]
         /\ \A h \in Hosts :
              /\ Spawned(c)[h].pc = IF h \in c.icmp THEN "start" ELSE "absent"
              /\ h \in c.icmp => Spawned(c)[h].address = c.address[h]
  <1>. DEFINE New(a) == [pc |-> "start", address |-> a, state |-> Fresh, event |-> NoEvent]
  <1>1. \A h \in c.icmp : c.address[h] \in Addresses
    BY ConfigType
  <1>2. \A a \in Addresses : New(a) \in Task /\ New(a).pc = "start" /\ New(a).address = a
    BY FreshType, NoneTypes DEF Task, Pcs
  <1>3. NoTask.pc = "absent"
    BY DEF NoTask
  <1>4. Spawned(c) = [h \in Hosts |-> IF h \in c.icmp THEN New(c.address[h]) ELSE NoTask]
    BY DEF Spawned
  <1>. HIDE DEF New
  <1>. QED
    BY <1>1, <1>2, <1>3, <1>4, NoneTypes

\* Every task has type Task.
TasksType == tasks \in [Generations -> [Hosts -> Task]]

\* The step moves the task of host h in generation g to pc, and changes nothing else
\* in any task.
OnlyPc(g, h, pc) ==
  \A k \in Generations, i \in Hosts :
    /\ tasks'[k][i].pc = IF k = g /\ i = h THEN pc ELSE tasks[k][i].pc
    /\ tasks'[k][i].address = tasks[k][i].address
    /\ tasks'[k][i].state = tasks[k][i].state
    /\ tasks'[k][i].event = tasks[k][i].event

LEMMA SetPcEffect ==
  ASSUME TasksType, NEW g \in Generations, NEW h \in Hosts, NEW pc \in Pcs,
         tasks' = [tasks EXCEPT ![g][h].pc = pc]
  PROVE  TasksType' /\ OnlyPc(g, h, pc)
  <1>1. tasks[g][h] \in Task
    BY DEF TasksType
  <1>2. /\ [tasks[g][h] EXCEPT !.pc = pc] \in Task
        /\ [tasks[g][h] EXCEPT !.pc = pc].pc = pc
        /\ [tasks[g][h] EXCEPT !.pc = pc].address = tasks[g][h].address
        /\ [tasks[g][h] EXCEPT !.pc = pc].state = tasks[g][h].state
        /\ [tasks[g][h] EXCEPT !.pc = pc].event = tasks[g][h].event
    BY <1>1 DEF Task
  <1>3. \A k \in Generations, i \in Hosts :
          tasks'[k][i] = IF k = g /\ i = h THEN [tasks[g][h] EXCEPT !.pc = pc] ELSE tasks[k][i]
    BY DEF TasksType
  <1>4. TasksType'
    <2>1. tasks' = [tasks EXCEPT ![g] = [tasks[g] EXCEPT ![h] = [tasks[g][h] EXCEPT !.pc = pc]]]
      OBVIOUS
    <2>2. [tasks[g] EXCEPT ![h] = [tasks[g][h] EXCEPT !.pc = pc]] \in [Hosts -> Task]
      BY <1>2 DEF TasksType
    <2>. QED
      BY <2>1, <2>2 DEF TasksType
  <1>5. ASSUME NEW k \in Generations, NEW i \in Hosts
        PROVE  /\ tasks'[k][i].pc = IF k = g /\ i = h THEN pc ELSE tasks[k][i].pc
               /\ tasks'[k][i].address = tasks[k][i].address
               /\ tasks'[k][i].state = tasks[k][i].state
               /\ tasks'[k][i].event = tasks[k][i].event
    <2>1. CASE k = g /\ i = h
      BY <1>2, <1>3, <2>1
    <2>2. CASE ~(k = g /\ i = h)
      BY <1>3, <2>2
    <2>. QED
      BY <2>1, <2>2
  <1>. QED
    BY <1>4, <1>5 DEF OnlyPc

LEMMA MoveEffect ==
  ASSUME TasksType, NEW g \in Generations, NEW h \in Hosts, NEW from, NEW to \in Pcs,
         Move(g, h, from, to)
  PROVE  TasksType' /\ OnlyPc(g, h, to) /\ tasks[g][h].pc = from
  BY SetPcEffect DEF Move

\* The end of a closure moves the task that waits for it, if there is one.
LEMMA FinishEffect ==
  ASSUME TasksType, writer \in Writer, writer.host \in Hosts, NEW to \in Pcs, Finish(to)
  PROVE  /\ writer' = NoWriter
         /\ TasksType'
         /\ OnlyPc(writer.gen, writer.host,
                   IF tasks[writer.gen][writer.host].pc = "writing"
                     THEN to ELSE tasks[writer.gen][writer.host].pc)
  <1>1. writer.gen \in Generations
    BY DEF Writer
  <1>2. CASE tasks[writer.gen][writer.host].pc = "writing"
    BY <1>1, <1>2, SetPcEffect DEF Finish
  <1>3. CASE tasks[writer.gen][writer.host].pc # "writing"
    BY <1>1, <1>3 DEF Finish, TasksType, OnlyPc
  <1>. QED
    BY <1>2, <1>3

-----------------------------------------------------------------------------
(* The process starts and ends.                                            *)

\* Without tasks, closures and transitions to come, nothing can be out of step.
LEMMA NoTaskData ==
  ASSUME \A h \in Hosts : tasks[generation][h].pc \in {"absent", "start"},
         writer.phase = "none"
  PROVE  DataInv
  BY DEF DataInv, Checking

LEMMA InitInv == Init => IInv
  <1>. SUFFICES ASSUME Init PROVE IInv
    OBVIOUS
  <1>1. LedgerTypeOK
    BY FreshType DEF Init, LedgerInit, LedgerTypeOK, AddressMap
  <1>2. TypeOK
    BY <1>1, NoneTypes, ConfigType DEF Init, TypeOK, Config
  <1>3. \A g \in Generations, h \in Hosts : tasks[g][h].pc = "absent"
    BY DEF Init, NoTask
  <1>4. writer.phase = "none" /\ generation \in Generations
    BY NoneTypes DEF Init, NoWriter
  <1>5. FenceInv
    BY <1>4, GenerationsAssumption DEF Init, FenceInv, Generations
  <1>6. ConfigInv /\ TaskInv /\ WriterInv
    BY <1>3, <1>4 DEF Init, ConfigInv, TaskInv, WriterInv
  <1>7. DataInv
    BY <1>3, <1>4, NoTaskData
  <1>8. LogInv
    <2>. SUFFICES ASSUME NEW h \in Hosts PROVE 1 .. Len(log[h]) = {}
      BY DEF LogInv
    <2>1. log[h] = <<>>
      BY DEF Init, LedgerInit
    <2>. QED
      BY <2>1
  <1>9. FaultInv
    BY <1>3, <1>4 DEF Init, FaultInv, NoConfig
  <1>. QED
    BY <1>2, <1>5, <1>6, <1>7, <1>8, <1>9 DEF IInv

LEMMA ReconfigureType ==
  ASSUME LedgerTypeOK, NEW c \in AddressMap, Reconfigure(c)
  PROVE  LedgerTypeOK'
  BY FreshType DEF LedgerTypeOK, Reconfigure

LEMMA StartInv ==
  ASSUME IInv, NEW c \in Configs, Start(c)
  PROVE  IInv'
  <1>1. c \in Config /\ c.address \in AddressMap /\ c.icmp \subseteq Hosts
    BY ConfigType
  <1>2. /\ generation' = 0 /\ fence' = 0 /\ reload' = "idle" /\ status' = "running"
        /\ current' = c /\ next' = c /\ catalog' = c.address /\ identity' = c.address
        /\ writer' = NoWriter /\ exits' = {} /\ faulted' = {}
        /\ writeGen' = [g \in Generations |-> 0]
        /\ UNCHANGED <<log, clock>>
    BY DEF Start, Reconfigure
  <1>3. /\ tasks' = [g \in Generations |-> IF g = 0 THEN Spawned(c) ELSE [h \in Hosts |-> NoTask]]
        /\ module' = [g \in Generations |-> IF g = 0 THEN ModuleFor(c) ELSE "none"]
    BY DEF Start
  <1>4. \A h \in Hosts :
          /\ tasks'[0][h].pc = IF h \in c.icmp THEN "start" ELSE "absent"
          /\ h \in c.icmp => tasks'[0][h].address = c.address[h]
    BY <1>3, SpawnedType, NoneTypes
  <1>5. \A g \in Generations, h \in Hosts : g # 0 => tasks'[g][h].pc = "absent"
    BY <1>3 DEF NoTask
  <1>6. TypeOK'
    <2>1. LedgerTypeOK'
      BY <1>1, ReconfigureType DEF IInv, TypeOK, Start
    <2>2. tasks' \in [Generations -> [Hosts -> Task]]
      BY <1>3, SpawnedType, NoneTypes
    <2>3. module' \in [Generations -> {"none", "running", "aborted"}]
      BY <1>3 DEF ModuleFor
    <2>4. /\ clock' \in Nat /\ starts' \in Nat /\ storeErrors' \in Nat
          /\ loadErrors' \in Nat /\ rejected' \in Nat
      BY DEF IInv, TypeOK, Start
    <2>5. c.address \in AddressMap
      BY <1>1
    <2>. QED
      BY <1>1, <1>2, <2>1, <2>2, <2>3, <2>4, NoneTypes DEF TypeOK
  <1>7. FenceInv'
    BY <1>2, NoneTypes DEF FenceInv, Generations
  <1>8. ConfigInv'
    BY <1>2 DEF ConfigInv, Settled
  <1>9. TaskInv'
    BY <1>2, <1>3, <1>4, <1>5, SMTT(30) DEF TaskInv, Generations
  <1>10. WriterInv'
    BY <1>2, <1>4, <1>5 DEF WriterInv, NoWriter
  <1>11. DataInv'
    BY <1>2, <1>4 DEF DataInv, Checking, NoWriter
  <1>12. LogInv'
    BY <1>2 DEF IInv, LogInv
  <1>13. FaultInv'
    <2>1. module'[0] = ModuleFor(c)
      BY <1>3, NoneTypes
    <2>. QED
      BY <1>1, <1>2, <1>4, <2>1 DEF FaultInv, ModuleFor
  <1>. QED
    BY <1>6, <1>7, <1>8, <1>9, <1>10, <1>11, <1>12, <1>13 DEF IInv

LEMMA ProcessEndsInv ==
  ASSUME IInv, ProcessEnds
  PROVE  IInv'
  <1>1. /\ generation' = 0 /\ fence' = 0 /\ reload' = "idle" /\ status' = "down"
        /\ current' = NoConfig /\ next' = NoConfig /\ catalog' = NoConfig.address
        /\ writer' = NoWriter /\ exits' = {} /\ faulted' = {}
        /\ writeGen' = [g \in Generations |-> 0]
        /\ module' = [g \in Generations |-> "none"]
        /\ tasks' = [g \in Generations |-> [h \in Hosts |-> NoTask]]
        /\ UNCHANGED <<ledgerVars, clock, starts, storeErrors, loadErrors, rejected>>
    BY DEF ProcessEnds
  <1>2. \A g \in Generations, h \in Hosts : tasks'[g][h].pc = "absent"
    BY <1>1 DEF NoTask
  <1>3. TypeOK'
    BY <1>1, NoneTypes, ConfigType DEF IInv, TypeOK, LedgerTypeOK, ledgerVars, Config
  <1>4. FenceInv' /\ ConfigInv'
    BY <1>1, NoneTypes DEF FenceInv, ConfigInv, Generations
  <1>5. TaskInv' /\ WriterInv'
    BY <1>1, <1>2, NoneTypes DEF TaskInv, WriterInv, NoWriter
  <1>6. DataInv' /\ FaultInv'
    BY <1>1, <1>2, NoneTypes DEF DataInv, Checking, NoWriter, FaultInv, NoConfig
  <1>7. LogInv'
    BY <1>1 DEF IInv, LogInv, ledgerVars
  <1>. QED
    BY <1>3, <1>4, <1>5, <1>6, <1>7 DEF IInv

-----------------------------------------------------------------------------
(* The manager.                                                            *)

\* A step that leaves the ledger, the clock, the tasks and the writer alone keeps tasks
\* and database in step.
LEMMA DataFrame ==
  ASSUME DataInv, Settled' => Settled,
         UNCHANGED <<latest, log, identity, clock, tasks, writer, generation>>
  PROVE  DataInv'
  BY DEF DataInv, Pending, Ahead, Stored, AlreadyLogged, Checking

LEMMA PrepareReloadInv ==
  ASSUME IInv, NEW c \in Configs, PrepareReload(c)
  PROVE  IInv'
  <1>1. /\ status = "running" /\ reload = "idle" /\ generation < MaxReloads
        /\ reload' = "prepared" /\ next' = c
        /\ UNCHANGED <<ledgerVars, storageVars, tasks, boundVars, status, current,
                       generation, module, exits, writeGen>>
    BY DEF PrepareReload
  <1>2. TypeOK'
    BY <1>1, ConfigType DEF IInv, TypeOK, LedgerTypeOK, ledgerVars, storageVars, boundVars
  <1>3. FenceInv' /\ ConfigInv' /\ FaultInv'
    BY <1>1 DEF IInv, FenceInv, ConfigInv, FaultInv, Settled, ledgerVars, storageVars,
                boundVars
  <1>4. TaskInv' /\ WriterInv'
    BY <1>1 DEF IInv, TaskInv, WriterInv, Settled, ledgerVars, storageVars, boundVars
  <1>5. DataInv' /\ LogInv'
    BY <1>1, DataFrame DEF IInv, LogInv, Settled, ledgerVars, storageVars, boundVars
  <1>. QED
    BY <1>2, <1>3, <1>4, <1>5 DEF IInv

LEMMA RejectReloadInv ==
  ASSUME IInv, RejectReload
  PROVE  IInv'
  <1>1. /\ status = "running" /\ reload \in {"prepared", "blocked"}
        /\ reload' = "idle" /\ next' = current /\ rejected' = rejected + 1
        /\ UNCHANGED <<ledgerVars, storageVars, tasks, status, current, generation,
                       module, exits, writeGen, clock, starts, storeErrors, loadErrors,
                       faulted>>
    BY DEF RejectReload
  <1>2. TypeOK'
    BY <1>1 DEF IInv, TypeOK, LedgerTypeOK, ledgerVars, storageVars
  <1>3. FenceInv' /\ ConfigInv' /\ FaultInv'
    BY <1>1 DEF IInv, FenceInv, ConfigInv, FaultInv, Settled, ledgerVars, storageVars
  <1>4. TaskInv' /\ WriterInv'
    BY <1>1 DEF IInv, TaskInv, WriterInv, Settled, ledgerVars, storageVars
  <1>5. DataInv' /\ LogInv'
    BY <1>1, DataFrame DEF IInv, LogInv, Settled, ledgerVars, storageVars
  <1>. QED
    BY <1>2, <1>3, <1>4, <1>5 DEF IInv

LEMMA WaitForMutexInv ==
  ASSUME IInv, WaitForMutex
  PROVE  IInv'
  <1>1. /\ status = "running" /\ reload = "prepared" /\ reload' = "blocked"
        /\ UNCHANGED <<ledgerVars, storageVars, tasks, boundVars, status, next, current,
                       generation, module, exits, writeGen>>
    BY DEF WaitForMutex
  <1>2. TypeOK'
    BY <1>1 DEF IInv, TypeOK, LedgerTypeOK, ledgerVars, storageVars, boundVars
  <1>3. FenceInv' /\ ConfigInv' /\ FaultInv'
    BY <1>1 DEF IInv, FenceInv, ConfigInv, FaultInv, Settled, ledgerVars, storageVars,
                boundVars
  <1>4. TaskInv' /\ WriterInv'
    BY <1>1 DEF IInv, TaskInv, WriterInv, Settled, ledgerVars, storageVars, boundVars
  <1>5. DataInv' /\ LogInv'
    BY <1>1, DataFrame DEF IInv, LogInv, Settled, ledgerVars, storageVars, boundVars
  <1>. QED
    BY <1>2, <1>3, <1>4, <1>5 DEF IInv

LEMMA CommitReloadInv ==
  ASSUME IInv, CommitReload
  PROVE  IInv'
  <1>1. /\ status = "running" /\ reload \in {"prepared", "blocked"}
        /\ writer.phase # "entered"
        /\ reload' = "committed" /\ identity' = next.address /\ log' = log
        /\ UNCHANGED <<storageVars, tasks, boundVars, status, next, current, generation,
                       module, exits, writeGen>>
    BY DEF CommitReload, MutexFree, Reconfigure
  <1>2. next.address \in AddressMap
    BY DEF IInv, TypeOK, Config
  <1>3. TypeOK'
    <2>1. LedgerTypeOK'
      BY <1>2, ReconfigureType DEF IInv, TypeOK, CommitReload
    <2>. QED
      BY <1>1, <2>1 DEF IInv, TypeOK, storageVars, boundVars
  <1>4. FenceInv' /\ ConfigInv' /\ FaultInv'
    BY <1>1 DEF IInv, FenceInv, ConfigInv, FaultInv, Settled, storageVars, boundVars
  <1>5. TaskInv' /\ WriterInv'
    BY <1>1 DEF IInv, TaskInv, WriterInv, Settled, storageVars, boundVars
  <1>6. DataInv' /\ LogInv'
    BY <1>1 DEF IInv, DataInv, LogInv, Settled, boundVars
  <1>. QED
    BY <1>3, <1>4, <1>5, <1>6 DEF IInv

LEMMA PublishReloadInv ==
  ASSUME IInv, PublishReload
  PROVE  IInv'
  <1>1. /\ status = "running" /\ reload = "committed"
        /\ fence' = fence + 1 /\ catalog' = next.address /\ reload' = "published"
        /\ UNCHANGED <<ledgerVars, tasks, boundVars, writer, status, next, current,
                       generation, module, exits, writeGen>>
    BY DEF PublishReload
  <1>2. fence' \in Generations
    BY <1>1, GenerationsAssumption DEF IInv, TypeOK, FenceInv, Generations
  <1>3. TypeOK'
    BY <1>1, <1>2 DEF IInv, TypeOK, LedgerTypeOK, Config, ledgerVars, boundVars
  <1>4. FenceInv' /\ ConfigInv' /\ FaultInv'
    BY <1>1 DEF IInv, FenceInv, ConfigInv, FaultInv, Settled, ledgerVars, boundVars
  <1>5. TaskInv' /\ WriterInv'
    BY <1>1 DEF IInv, TaskInv, WriterInv, Settled, boundVars
  <1>6. DataInv' /\ LogInv'
    BY <1>1 DEF IInv, DataInv, LogInv, Settled, ledgerVars, boundVars
  <1>. QED
    BY <1>3, <1>4, <1>5, <1>6 DEF IInv

LEMMA SwapGenerationInv ==
  ASSUME IInv, SwapGeneration
  PROVE  IInv'
  <1>. DEFINE g == generation + 1
  <1>1. /\ status = "running" /\ reload = "published" /\ writer.phase # "entered"
        /\ generation' = g /\ reload' = "idle" /\ current' = next
        /\ module' = [module EXCEPT ![generation] = IF @ = "running" THEN "aborted" ELSE @,
                                    ![g] = ModuleFor(next)]
        /\ writeGen' = [writeGen EXCEPT ![g] = fence]
        /\ tasks' = [tasks EXCEPT ![g] = Spawned(next)]
        /\ UNCHANGED <<ledgerVars, storageVars, boundVars, status, next, exits>>
    BY DEF SwapGeneration, MutexFree
  <1>2. /\ generation \in Generations /\ g \in Generations /\ g # generation
        /\ fence = g
        /\ generation \in Nat
    BY <1>1, GenerationsAssumption DEF IInv, TypeOK, FenceInv, Generations
  <1>3. /\ next \in Configs /\ next.icmp \subseteq Hosts
        /\ identity = next.address /\ catalog = next.address
    BY <1>1, ConfigType DEF IInv, ConfigInv, Settled
  <1>. HIDE DEF g
  <1>4. /\ \A h \in Hosts :
             /\ tasks'[g][h].pc = IF h \in next.icmp THEN "start" ELSE "absent"
             /\ h \in next.icmp => tasks'[g][h].address = next.address[h]
        /\ \A k \in Generations : k # g => tasks'[k] = tasks[k]
        /\ tasks' \in [Generations -> [Hosts -> Task]]
    BY <1>1, <1>2, <1>3, SpawnedType DEF IInv, TypeOK
  <1>5. /\ module'[g] = ModuleFor(next)
        /\ \A k \in Generations : k # g /\ k # generation => module'[k] = module[k]
        /\ module' \in [Generations -> {"none", "running", "aborted"}]
    BY <1>1, <1>2 DEF IInv, TypeOK, ModuleFor
  <1>6. TypeOK'
    BY <1>1, <1>2, <1>4, <1>5
    DEF IInv, TypeOK, LedgerTypeOK, ledgerVars, storageVars, boundVars
  <1>7. FenceInv'
    <2>1. \A k \in 0 .. g : k \in 0 .. generation \/ k = g
      BY <1>2 DEF g
    <2>2. \A k \in 0 .. g : writeGen'[k] = k
      BY <1>1, <1>2, <2>1 DEF IInv, TypeOK, FenceInv, Generations
    <2>. QED
      BY <1>1, <1>2, <2>2 DEF FenceInv, storageVars
  <1>8. ConfigInv'
    BY <1>1, <1>3 DEF ConfigInv, Settled, ledgerVars, storageVars
  <1>9. TaskInv'
    <2>1. \A k \in Generations : k > g => k > generation /\ k # g /\ k # generation
      BY <1>2 DEF g, Generations
    <2>. QED
      BY <1>1, <1>2, <1>4, <1>5, <2>1 DEF IInv, TaskInv
  <1>10. WriterInv'
    <2>1. writer.phase # "none" => writer.gen # g /\ writer.gen \in Generations
      BY <1>2 DEF g, IInv, TypeOK, WriterInv, Writer, Generations
    <2>2. writer.phase # "none" => writer.gen <= g
      BY <1>2 DEF g, IInv, TypeOK, WriterInv, Writer, Generations
    <2>. QED
      BY <1>1, <1>4, <2>1, <2>2 DEF IInv, WriterInv, storageVars
  <1>11. DataInv'
    <2>1. writer.phase # "none" => writer.gen # g
      BY <1>2 DEF g, IInv, TypeOK, WriterInv, Writer, Generations
    <2>. QED
      BY <1>1, <1>4, <2>1 DEF DataInv, Checking, storageVars
  <1>12. LogInv'
    BY <1>1 DEF IInv, LogInv, ledgerVars, boundVars
  <1>13. FaultInv'
    <2>1. g \notin exits
      BY <1>2 DEF g, IInv, TaskInv
    <2>. QED
      BY <1>1, <1>3, <1>4, <1>5, <2>1 DEF FaultInv, ModuleFor, boundVars
  <1>. QED
    BY <1>6, <1>7, <1>8, <1>9, <1>10, <1>11, <1>12, <1>13 DEF IInv

\* The end of a module keeps the invariant if the running generation's module only
\* ends after a fault.
LEMMA EndModuleInv ==
  ASSUME IInv, NEW g \in Generations, module[g] # "none",
         g = generation => generation \in faulted,
         EndModule(g)
  PROVE  IInv'
  <1>1. /\ status = "running" /\ reload \in {"idle", "prepared"}
        /\ module' = [module EXCEPT ![g] = "none"]
        /\ tasks' = [tasks EXCEPT ![g] = [h \in Hosts |-> NoTask]]
        /\ exits' = exits \cup {g}
        /\ UNCHANGED <<ledgerVars, storageVars, boundVars, status, reload, next, current,
                       generation, writeGen>>
    BY DEF EndModule, MainThreadFree
  <1>2. /\ generation \in Generations /\ ~(g > generation)
    BY DEF IInv, TypeOK, TaskInv
  <1>3. /\ \A h \in Hosts : tasks'[g][h] = NoTask
        /\ \A k \in Generations : k # g => tasks'[k] = tasks[k]
        /\ tasks' \in [Generations -> [Hosts -> Task]]
    BY <1>1, NoneTypes DEF IInv, TypeOK
  <1>4. /\ module'[g] = "none"
        /\ \A k \in Generations : k # g => module'[k] = module[k]
        /\ module' \in [Generations -> {"none", "running", "aborted"}]
    BY <1>1 DEF IInv, TypeOK
  <1>5. NoTask.pc = "absent"
    BY DEF NoTask
  <1>6. TypeOK'
    BY <1>1, <1>3, <1>4
    DEF IInv, TypeOK, LedgerTypeOK, ledgerVars, storageVars, boundVars
  <1>7. FenceInv' /\ ConfigInv'
    BY <1>1 DEF IInv, FenceInv, ConfigInv, Settled, ledgerVars, storageVars
  <1>8. TaskInv'
    BY <1>1, <1>2, <1>3, <1>4, <1>5 DEF IInv, TaskInv
  <1>9. WriterInv'
    <2>1. writer.phase # "none" => writer.gen \in Generations
      BY DEF IInv, TypeOK, Writer
    <2>. QED
      BY <1>1, <1>3, <1>5, <2>1 DEF IInv, WriterInv, Settled, storageVars
  <1>10. DataInv'
    <2>1. CASE g = generation
      BY <1>1, <1>3, <1>5, <2>1
      DEF IInv, DataInv, Pending, Ahead, Stored, AlreadyLogged, Checking, Settled,
          ledgerVars, storageVars, boundVars
    <2>2. CASE g # generation
      BY <1>1, <1>2, <1>3, <2>2
      DEF IInv, DataInv, Pending, Ahead, Stored, AlreadyLogged, Checking, Settled,
          ledgerVars, storageVars, boundVars
    <2>. QED
      BY <2>1, <2>2
  <1>11. LogInv'
    BY <1>1 DEF IInv, LogInv, ledgerVars, boundVars
  <1>12. FaultInv'
    BY <1>1, <1>2, <1>3, <1>4, <1>5 DEF IInv, FaultInv, boundVars
  <1>. QED
    BY <1>6, <1>7, <1>8, <1>9, <1>10, <1>11, <1>12 DEF IInv

LEMMA ModuleReturnsInv ==
  ASSUME IInv, NEW g \in Generations, ModuleReturns(g)
  PROVE  IInv'
  <1>1. module[g] = "running" /\ EndModule(g) /\ reload # "published"
    BY DEF ModuleReturns, EndModule, MainThreadFree
  <1>2. g = generation => generation \in faulted
    <2>1. CASE \E h \in Hosts : tasks[g][h].pc = "exited"
      BY <1>1, <2>1 DEF IInv, FaultInv
    <2>2. CASE \A h \in Hosts : tasks[g][h].pc = "absent"
      BY <1>1, <2>2 DEF IInv, FaultInv, TypeOK, Config
    <2>. QED
      BY <2>1, <2>2 DEF ModuleReturns
  <1>. QED
    BY <1>1, <1>2, EndModuleInv

LEMMA ModuleDroppedInv ==
  ASSUME IInv, NEW g \in Generations, ModuleDropped(g)
  PROVE  IInv'
  <1>1. module[g] = "aborted" /\ EndModule(g) /\ g # generation
    BY DEF ModuleDropped, IInv, FaultInv
  <1>. QED
    BY <1>1, EndModuleInv

LEMMA ReceiveExitInv ==
  ASSUME IInv, NEW g \in Generations, ReceiveExit(g)
  PROVE  IInv'
  <1>1. /\ status = "running" /\ reload = "idle" /\ g \in exits
        /\ exits' = exits \ {g}
        /\ status' = IF g = generation THEN "stopped" ELSE status
        /\ UNCHANGED <<ledgerVars, storageVars, tasks, boundVars, reload, next, current,
                       generation, module, writeGen>>
    BY DEF ReceiveExit
  <1>2. TypeOK'
    BY <1>1 DEF IInv, TypeOK, LedgerTypeOK, ledgerVars, storageVars, boundVars
  <1>3. FenceInv' /\ ConfigInv' /\ FaultInv'
    BY <1>1 DEF IInv, FenceInv, ConfigInv, FaultInv, Settled, ledgerVars, storageVars,
                boundVars
  <1>4. TaskInv' /\ WriterInv'
    BY <1>1 DEF IInv, TaskInv, WriterInv, Settled, storageVars
  <1>5. DataInv' /\ LogInv'
    BY <1>1, DataFrame DEF IInv, LogInv, Settled, ledgerVars, storageVars, boundVars
  <1>. QED
    BY <1>2, <1>3, <1>4, <1>5 DEF IInv

-----------------------------------------------------------------------------
(* The tasks.                                                              *)

\* Tasks stay in step with an unchanged ledger when what they and the closure hold
\* after the step was pending before it.
LEMMA DataKept ==
  ASSUME UNCHANGED <<latest, log, identity, clock, generation>>,
         \A i \in Hosts :
           tasks'[generation][i].pc = "waiting" => tasks'[generation][i].state = latest[i],
         \A i \in Hosts :
           i \in Checking(generation)' =>
             Pending(i, tasks'[generation][i].state, tasks'[generation][i].event),
         writer'.phase # "none" /\ writer'.gen = generation =>
           Pending(writer'.host, writer'.state, writer'.event)
  PROVE  DataInv'
  <1>1. \A i \in Hosts :
          i \in Checking(generation)' =>
            Pending(i, tasks[generation][i].state, tasks[generation][i].event)'
    BY DEF Pending, Ahead, Stored, AlreadyLogged
  <1>2. writer'.phase # "none" /\ writer'.gen = generation =>
          Pending(writer.host, writer.state, writer.event)'
    BY DEF Pending, Ahead, Stored, AlreadyLogged
  <1>. QED
    BY <1>1, <1>2 DEF DataInv

\* A task may move between two program counters at which it has the same duties
\* towards the database.
LEMMA TaskMoves ==
  ASSUME IInv, TasksType', NEW g \in Generations, NEW h \in Hosts, NEW pc \in Pcs,
         OnlyPc(g, h, pc),
         status = "running", tasks[g][h].pc \notin {"absent", "writing"},
         pc \notin {"absent", "waiting", "writing"},
         h \in Checking(g) \/ pc \notin {"observed", "queued", "backoff"},
         pc = "exited" /\ g = generation /\ reload # "published" => g \in faulted',
         UNCHANGED <<ledgerVars, managerVars, storageVars, clock, starts, storeErrors,
                     rejected>>,
         loadErrors' \in Nat, faulted' \in SUBSET Generations, faulted \subseteq faulted'
  PROVE  IInv'
  <1>. USE DEF ledgerVars, managerVars, storageVars
  <1>1. TypeOK'
    BY DEF IInv, TypeOK, LedgerTypeOK, TasksType
  <1>2. FenceInv' /\ ConfigInv'
    BY DEF IInv, FenceInv, ConfigInv, Settled
  <1>3. generation \in Generations
    BY DEF IInv, TypeOK
  <1>4. TaskInv'
    BY <1>3 DEF IInv, TaskInv, OnlyPc
  <1>5. WriterInv'
    <2>1. writer.phase # "none" => writer.gen \in Generations
      BY DEF IInv, TypeOK, Writer
    <2>. QED
      BY <2>1 DEF IInv, WriterInv, Settled, OnlyPc
  <1>6. DataInv'
    <2>. SUFFICES ASSUME Settled
                  PROVE  DataInv'
      BY DEF DataInv, Settled
    <2>1. \A i \in Hosts :
            /\ tasks'[generation][i].pc = "waiting" => tasks[generation][i].pc = "waiting"
            /\ i \in Checking(generation)' => i \in Checking(generation)
            /\ tasks'[generation][i].state = tasks[generation][i].state
            /\ tasks'[generation][i].event = tasks[generation][i].event
      BY <1>3 DEF Checking, OnlyPc
    <2>2. \A i \in Hosts :
            i \in Checking(generation) =>
              Pending(i, tasks'[generation][i].state, tasks'[generation][i].event)
      BY <2>1 DEF IInv, DataInv
    <2>. QED
      BY <2>1, <2>2, DataKept DEF IInv, DataInv
  <1>7. LogInv'
    BY DEF IInv, LogInv
  <1>8. FaultInv'
    <2>1. \A i \in current.icmp : i \in Hosts
      BY DEF IInv, TypeOK, Config
    <2>. QED
      BY <1>3, <2>1 DEF IInv, FaultInv, OnlyPc
  <1>. QED
    BY <1>1, <1>2, <1>4, <1>5, <1>6, <1>7, <1>8 DEF IInv

LEMMA ReadCatalogInv ==
  ASSUME IInv, NEW g \in Generations, NEW h \in Hosts, ReadCatalog(g, h)
  PROVE  IInv'
  <1>. DEFINE pc == IF catalog[h] = NoAddress THEN "exited" ELSE "loading"
  <1>1. /\ status = "running" /\ reload \in {"idle", "prepared"}
        /\ Move(g, h, "start", pc)
        /\ UNCHANGED <<ledgerVars, managerVars, storageVars, boundVars>>
    BY DEF ReadCatalog, MainThreadFree
  <1>2. pc \in Pcs /\ TasksType
    BY DEF Pcs, IInv, TypeOK, TasksType
  <1>3. TasksType' /\ OnlyPc(g, h, pc) /\ tasks[g][h].pc = "start"
    BY <1>1, <1>2, MoveEffect
  <1>4. g = generation => catalog[h] # NoAddress
    BY <1>1, <1>3, ConfigType, IcmpCheckAssumption DEF IInv, TaskInv, ConfigInv
  <1>. QED
    BY <1>1, <1>2, <1>3, <1>4, TaskMoves DEF IInv, TypeOK, boundVars

LEMMA LoadFailsInv ==
  ASSUME IInv, NEW g \in Generations, NEW h \in Hosts, LoadFails(g, h)
  PROVE  IInv'
  <1>1. /\ status = "running"
        /\ Move(g, h, "loading", "exited")
        /\ loadErrors' = loadErrors + 1
        /\ faulted' = faulted \cup {g}
        /\ UNCHANGED <<ledgerVars, managerVars, storageVars, clock, starts, storeErrors,
                       rejected>>
    BY DEF LoadFails
  <1>2. "exited" \in Pcs /\ TasksType
    BY DEF Pcs, IInv, TypeOK, TasksType
  <1>3. TasksType' /\ OnlyPc(g, h, "exited") /\ tasks[g][h].pc = "loading"
    BY <1>1, <1>2, MoveEffect
  <1>4. loadErrors' \in Nat /\ faulted' \in SUBSET Generations
    BY <1>1 DEF IInv, TypeOK
  <1>. QED
    BY <1>1, <1>2, <1>3, <1>4, TaskMoves

LEMMA PersistInv ==
  ASSUME IInv, NEW g \in Generations, NEW h \in Hosts, Persist(g, h)
  PROVE  IInv'
  <1>. DEFINE pc == IF catalog[h] = NoAddress THEN "backoff" ELSE "queued"
  <1>1. /\ status = "running"
        /\ Move(g, h, "observed", pc)
        /\ UNCHANGED <<ledgerVars, managerVars, storageVars, boundVars>>
    BY DEF Persist, MainThreadFree
  <1>2. pc \in Pcs /\ TasksType
    BY DEF Pcs, IInv, TypeOK, TasksType
  <1>3. TasksType' /\ OnlyPc(g, h, pc) /\ tasks[g][h].pc = "observed"
    BY <1>1, <1>2, MoveEffect
  <1>. QED
    BY <1>1, <1>2, <1>3, TaskMoves DEF IInv, TypeOK, boundVars, Checking

LEMMA RetryPersistInv ==
  ASSUME IInv, NEW g \in Generations, NEW h \in Hosts, RetryPersist(g, h)
  PROVE  IInv'
  <1>1. /\ status = "running"
        /\ Move(g, h, "backoff", "observed")
        /\ UNCHANGED <<ledgerVars, managerVars, storageVars, boundVars>>
    BY DEF RetryPersist, MainThreadFree
  <1>2. "observed" \in Pcs /\ TasksType
    BY DEF Pcs, IInv, TypeOK, TasksType
  <1>3. TasksType' /\ OnlyPc(g, h, "observed") /\ tasks[g][h].pc = "backoff"
    BY <1>1, <1>2, MoveEffect
  <1>. QED
    BY <1>1, <1>2, <1>3, TaskMoves DEF IInv, TypeOK, boundVars, Checking

\* A task that gets a new record: t for host h of generation g.
LEMMA SetTaskEffect ==
  ASSUME TasksType, NEW g \in Generations, NEW h \in Hosts, NEW t \in Task,
         tasks' = [tasks EXCEPT ![g][h] = t]
  PROVE  /\ TasksType'
         /\ \A k \in Generations, i \in Hosts :
              tasks'[k][i] = IF k = g /\ i = h THEN t ELSE tasks[k][i]
  <1>1. tasks' = [tasks EXCEPT ![g] = [tasks[g] EXCEPT ![h] = t]]
    OBVIOUS
  <1>2. [tasks[g] EXCEPT ![h] = t] \in [Hosts -> Task]
    BY DEF TasksType
  <1>3. TasksType'
    BY <1>1, <1>2 DEF TasksType
  <1>. QED
    BY <1>3 DEF TasksType

LEMMA LoadStateInv ==
  ASSUME IInv, NEW g \in Generations, NEW h \in Hosts, LoadState(g, h)
  PROVE  IInv'
  <1>. USE DEF ledgerVars, managerVars, storageVars, boundVars
  <1>1. /\ status = "running" /\ tasks[g][h].pc = "loading"
        /\ UNCHANGED <<ledgerVars, managerVars, storageVars, boundVars>>
    BY DEF LoadState
  <1>2. TasksType /\ tasks[g][h] \in Task /\ generation \in Generations /\ latest[h] \in State
    BY DEF IInv, TypeOK, LedgerTypeOK, TasksType
  <1>3. \E t \in Task :
          /\ tasks' = [tasks EXCEPT ![g][h] = t]
          /\ t.pc = "waiting" /\ t.address = tasks[g][h].address /\ t.state = latest[h]
    <2>. DEFINE u == [pc |-> "waiting", address |-> tasks[g][h].address,
                      state |-> latest[h], event |-> NoEvent]
    <2>1. u \in Task
      BY <1>2, NoneTypes DEF Task, Pcs
    <2>2. tasks' = [tasks EXCEPT ![g][h] = u]
      BY DEF LoadState
    <2>. QED
      BY <2>1, <2>2
  <1>4. PICK t \in Task :
          /\ tasks' = [tasks EXCEPT ![g][h] = t]
          /\ t.pc = "waiting" /\ t.address = tasks[g][h].address /\ t.state = latest[h]
    BY <1>3
  <1>5. /\ TasksType'
        /\ \A k \in Generations, i \in Hosts :
             tasks'[k][i] = IF k = g /\ i = h THEN t ELSE tasks[k][i]
    BY <1>2, <1>4, SetTaskEffect, ZenonT(40)
  <1>6. t.pc = "waiting" /\ t.address = tasks[g][h].address /\ t.state = latest[h]
    BY <1>4
  <1>7. TypeOK'
    BY <1>1, <1>5 DEF IInv, TypeOK, LedgerTypeOK, TasksType
  <1>8. FenceInv' /\ ConfigInv' /\ LogInv'
    BY <1>1 DEF IInv, FenceInv, ConfigInv, LogInv, Settled
  <1>9. TaskInv'
    BY <1>1, <1>2, <1>5, <1>6 DEF IInv, TaskInv
  <1>10. WriterInv'
    <2>1. writer.phase # "none" => writer.gen \in Generations
      BY DEF IInv, TypeOK, Writer
    <2>. QED
      BY <1>1, <1>5, <1>6, <2>1 DEF IInv, WriterInv, Settled
  <1>11. DataInv'
    <2>. SUFFICES ASSUME Settled
                  PROVE  DataInv'
      BY <1>1 DEF DataInv, Settled
    <2>1. \A i \in Hosts :
            i \in Checking(generation)' =>
              /\ i \in Checking(generation)
              /\ tasks'[generation][i] = tasks[generation][i]
      BY <1>1, <1>2, <1>5, <1>6 DEF Checking
    <2>2. \A i \in Hosts :
            tasks'[generation][i].pc = "waiting" => tasks'[generation][i].state = latest[i]
      BY <1>2, <1>5, <1>6 DEF IInv, DataInv
    <2>. QED
      BY <1>1, <2>1, <2>2, DataKept DEF IInv, DataInv
  <1>12. FaultInv'
    <2>1. \A i \in current.icmp : i \in Hosts
      BY DEF IInv, TypeOK, Config
    <2>. QED
      BY <1>1, <1>2, <1>5, <1>6, <2>1 DEF IInv, FaultInv
  <1>. QED
    BY <1>7, <1>8, <1>9, <1>10, <1>11, <1>12 DEF IInv

LEMMA ObserveInv ==
  ASSUME IInv, NEW g \in Generations, NEW h \in Hosts, NEW ok \in BOOLEAN,
         Observe(g, h, ok)
  PROVE  IInv'
  <1>. USE DEF ledgerVars, managerVars, storageVars
  <1>. DEFINE old == tasks[g][h]
              seen == Checked(old.state, old.address, ok, clock + 1)
              e == EventOf(old.state, seen)
  <1>1. /\ status = "running" /\ reload \in {"idle", "prepared"}
        /\ old.pc = "waiting" /\ clock + 1 \in Instants /\ clock' = clock + 1
        /\ UNCHANGED <<ledgerVars, managerVars, storageVars, starts, storeErrors,
                       loadErrors, rejected, faulted>>
    BY DEF Observe, MainThreadFree
  <1>2. /\ TasksType /\ old \in Task /\ generation \in Generations
        /\ clock \in Nat /\ clock' \in Nat
    BY <1>1 DEF IInv, TypeOK, LedgerTypeOK, TasksType
  <1>3. g = generation => old.address = identity[h] /\ old.address \in Addresses
    BY <1>1, ConfigType DEF IInv, TaskInv, ConfigInv, Settled
  <1>4. seen \in State /\ e \in Event
    <2>1. seen \in State
      BY <1>2, IcmpCheckAssumption
      DEF Task, Checked, Succeed, Fail, State, Statuses, Counter, Saturating
    <2>2. old.state \in State
      BY <1>2 DEF Task
    <2>. HIDE DEF seen
    <2>. QED
      BY <2>1, <2>2, EventType
  <1>5. \E t \in Task :
          /\ tasks' = [tasks EXCEPT ![g][h] = t]
          /\ t.pc = "observed" /\ t.address = old.address /\ t.state = seen /\ t.event = e
    <2>. DEFINE u == [pc |-> "observed", address |-> old.address, state |-> seen, event |-> e]
    <2>1. tasks' = [tasks EXCEPT ![g][h] = u]
      BY DEF Observe
    <2>. HIDE DEF seen, e
    <2>2. u \in Task
      BY <1>2, <1>4 DEF Task, Pcs
    <2>. QED
      BY <2>1, <2>2
  <1>6. PICK t \in Task :
          /\ tasks' = [tasks EXCEPT ![g][h] = t]
          /\ t.pc = "observed" /\ t.address = old.address /\ t.state = seen /\ t.event = e
    BY <1>5
  <1>7. /\ TasksType'
        /\ \A k \in Generations, i \in Hosts :
             tasks'[k][i] = IF k = g /\ i = h THEN t ELSE tasks[k][i]
    BY <1>2, <1>6, SetTaskEffect, ZenonT(40)
  <1>8. t.pc = "observed" /\ t.address = old.address
    BY <1>6
  <1>9. TypeOK'
    BY <1>1, <1>2, <1>7 DEF IInv, TypeOK, LedgerTypeOK, TasksType
  <1>10. FenceInv' /\ ConfigInv'
    BY <1>1 DEF IInv, FenceInv, ConfigInv, Settled
  <1>11. TaskInv'
    BY <1>1, <1>2, <1>7, <1>8 DEF IInv, TaskInv
  <1>12. WriterInv'
    <2>1. writer.phase # "none" => writer.gen \in Generations
      BY DEF IInv, TypeOK, Writer
    <2>. QED
      BY <1>1, <1>7, <1>8, <2>1 DEF IInv, WriterInv, Settled
  <1>13. LogInv'
    <2>. SUFFICES ASSUME NEW k \in Hosts, NEW i \in 1 .. Len(log[k])
                  PROVE  log[k][i].at <= clock'
      BY <1>1 DEF LogInv
    <2>1. log[k] \in Seq(LogEntry)
      BY DEF IInv, TypeOK, LedgerTypeOK
    <2>2. log[k][i] \in LogEntry
      BY <2>1
    <2>. QED
      BY <1>1, <1>2, <2>2 DEF IInv, LogInv, LogEntry
  <1>14. DataInv'
    <2>1. g = generation => Ahead(h, t.state, t.event)'
      <3>. SUFFICES ASSUME g = generation
                    PROVE  Ahead(h, t.state, t.event)'
        OBVIOUS
      <3>1. old.state = latest[h]
        BY <1>1 DEF IInv, DataInv, Settled
      <3>2. seen.checkedAt = clock + 1
        BY DEF Checked, Succeed, Fail
      <3>3. seen = Checked(latest[h], identity[h], ok, seen.checkedAt)
        BY <1>3, <3>1, <3>2
      <3>4. e = EventOf(latest[h], seen)
        BY <3>1
      <3>5. \A i \in 1 .. Len(log[h]) : log[h][i].at < clock + 1
        <4>. SUFFICES ASSUME NEW i \in 1 .. Len(log[h])
                      PROVE  log[h][i].at < clock + 1
          OBVIOUS
        <4>1. log[h] \in Seq(LogEntry)
          BY DEF IInv, TypeOK, LedgerTypeOK
        <4>2. log[h][i] \in LogEntry
          BY <4>1
        <4>. QED
          BY <1>2, <4>2 DEF IInv, LogInv, LogEntry
      <3>. HIDE DEF seen, e
      <3>. QED
        BY <1>1, <1>2, <1>6, <3>2, <3>3, <3>4, <3>5 DEF Ahead
    <2>2. \A i \in Hosts :
            i \in Checking(generation) =>
              Pending(i, tasks[generation][i].state, tasks[generation][i].event)
      BY <1>1 DEF IInv, DataInv, Settled
    <2>3. ASSUME NEW i \in Hosts, NEW s, NEW v, Pending(i, s, v) PROVE Pending(i, s, v)'
      <3>1. CASE Ahead(i, s, v)
        <4>1. s.checkedAt \in Nat
          BY <3>1, IcmpCheckAssumption DEF Ahead
        <4>. QED
          BY <1>1, <1>2, <3>1, <4>1 DEF Pending, Ahead
      <3>2. CASE Stored(i, s, v)
        BY <1>1, <3>2 DEF Pending, Stored, AlreadyLogged
      <3>. QED
        BY <2>3, <3>1, <3>2 DEF Pending
    <2>. QED
      BY <1>1, <1>2, <1>7, <1>8, <2>1, <2>2, <2>3
      DEF IInv, WriterInv, DataInv, Pending, Checking, Settled
  <1>15. FaultInv'
    <2>1. \A i \in current.icmp : i \in Hosts
      BY DEF IInv, TypeOK, Config
    <2>. QED
      BY <1>1, <1>2, <1>7, <1>8, <2>1 DEF IInv, FaultInv
  <1>. QED
    BY <1>9, <1>10, <1>11, <1>12, <1>13, <1>14, <1>15 DEF IInv

LEMMA SubmitInv ==
  ASSUME IInv, NEW g \in Generations, NEW h \in Hosts, Submit(g, h)
  PROVE  IInv'
  <1>. USE DEF ledgerVars, managerVars, boundVars
  <1>1. /\ status = "running" /\ reload \in {"idle", "prepared"} /\ writer.phase = "none"
        /\ Move(g, h, "queued", "writing")
        /\ UNCHANGED <<ledgerVars, managerVars, catalog, fence, boundVars>>
    BY DEF Submit, MainThreadFree
  <1>2. /\ TasksType /\ tasks[g][h] \in Task /\ generation \in Generations
        /\ "writing" \in Pcs
    BY DEF IInv, TypeOK, TasksType, Pcs
  <1>3. TasksType' /\ OnlyPc(g, h, "writing") /\ tasks[g][h].pc = "queued"
    BY <1>1, <1>2, MoveEffect
  <1>4. /\ writer' \in Writer
        /\ writer'.phase = "submitted" /\ writer'.gen = g /\ writer'.host = h
        /\ writer'.state = tasks[g][h].state /\ writer'.event = tasks[g][h].event
    BY <1>2 DEF Submit, Writer, Task
  <1>5. g <= generation
    BY <1>2, <1>3 DEF IInv, TaskInv, Generations
  <1>6. TypeOK'
    BY <1>1, <1>3, <1>4 DEF IInv, TypeOK, LedgerTypeOK, TasksType
  <1>7. FenceInv' /\ ConfigInv' /\ LogInv'
    BY <1>1 DEF IInv, FenceInv, ConfigInv, LogInv, Settled
  <1>8. TaskInv'
    BY <1>1, <1>2, <1>3 DEF IInv, TaskInv, OnlyPc
  <1>9. WriterInv'
    <2>1. \A k \in Generations, i \in Hosts : tasks[k][i].pc # "writing"
      BY <1>1 DEF IInv, WriterInv
    <2>2. g = generation => h \in current.icmp
      BY <1>3 DEF IInv, TaskInv
    <2>. QED
      BY <1>1, <1>3, <1>4, <1>5, <2>1, <2>2 DEF WriterInv, OnlyPc
  <1>10. DataInv'
    <2>. SUFFICES ASSUME Settled
                  PROVE  DataInv'
      BY <1>1 DEF DataInv, Settled
    <2>1. \A i \in Hosts :
            /\ i \in Checking(generation)' => i \in Checking(generation)
            /\ tasks'[generation][i].pc = "waiting" => tasks[generation][i].pc = "waiting"
            /\ tasks'[generation][i].state = tasks[generation][i].state
            /\ tasks'[generation][i].event = tasks[generation][i].event
      BY <1>1, <1>2, <1>3 DEF Checking, OnlyPc
    <2>2. \A i \in Hosts :
            i \in Checking(generation) =>
              Pending(i, tasks[generation][i].state, tasks[generation][i].event)
      BY DEF IInv, DataInv
    <2>3. g = generation => h \in Checking(generation)
      BY <1>3 DEF Checking
    <2>. QED
      BY <1>1, <1>4, <2>1, <2>2, <2>3, DataKept DEF IInv, DataInv
  <1>11. FaultInv'
    <2>1. \A i \in current.icmp : i \in Hosts
      BY DEF IInv, TypeOK, Config
    <2>. QED
      BY <1>1, <1>2, <1>3, <2>1 DEF IInv, FaultInv, OnlyPc
  <1>. QED
    BY <1>6, <1>7, <1>8, <1>9, <1>10, <1>11 DEF IInv

-----------------------------------------------------------------------------
(* The closures.                                                           *)

LEMMA EnterClosureInv ==
  ASSUME IInv, EnterClosure
  PROVE  IInv'
  <1>. USE DEF ledgerVars, managerVars, boundVars
  <1>1. /\ writer.phase = "submitted" /\ reload # "committed"
        /\ writeGen[writer.gen] = fence
        /\ writer' = [writer EXCEPT !.phase = "entered"]
        /\ UNCHANGED <<ledgerVars, managerVars, catalog, fence, tasks, boundVars>>
    BY DEF EnterClosure, MutexFree
  <1>2. writer \in Writer
    BY DEF IInv, TypeOK
  <1>3. /\ writer' \in Writer
        /\ writer'.phase = "entered"
        /\ writer'.gen = writer.gen /\ writer'.host = writer.host
        /\ writer'.state = writer.state /\ writer'.event = writer.event
    BY <1>1, <1>2 DEF Writer
  <1>4. Settled /\ writer.gen = generation
    <2>1. writer.gen \in 0 .. generation
      BY <1>1, <1>2 DEF IInv, TypeOK, WriterInv, Writer, Generations
    <2>2. writer.gen = fence
      BY <1>1, <2>1 DEF IInv, FenceInv
    <2>3. reload # "published"
      BY <2>1, <2>2, GenerationsAssumption DEF IInv, FenceInv, TypeOK, Generations
    <2>. QED
      BY <1>1, <2>2, <2>3 DEF IInv, FenceInv, TypeOK, Settled
  <1>5. TypeOK'
    BY <1>1, <1>3 DEF IInv, TypeOK, LedgerTypeOK
  <1>6. FenceInv' /\ ConfigInv' /\ LogInv' /\ TaskInv' /\ FaultInv'
    BY <1>1 DEF IInv, FenceInv, ConfigInv, LogInv, TaskInv, FaultInv, Settled
  <1>7. WriterInv'
    BY <1>1, <1>3, <1>4 DEF IInv, WriterInv, Settled
  <1>8. DataInv'
    <2>1. Checking(generation)' = Checking(generation)
      BY <1>1 DEF Checking
    <2>. QED
      BY <1>1, <1>3, <1>4, <2>1, DataKept DEF IInv, DataInv
  <1>. QED
    BY <1>5, <1>6, <1>7, <1>8 DEF IInv

\* The end of a closure that does not touch the database: the task it leaves behind
\* goes on at pc, with its observation still pending.
LEMMA EndClosureInv ==
  ASSUME IInv, writer.phase # "none", NEW pc \in {"backoff", "exited"}, Finish(pc),
         pc = "exited" /\ writer.gen = generation => reload = "published",
         UNCHANGED <<ledgerVars, managerVars, catalog, fence, clock, starts, loadErrors,
                     rejected, faulted>>,
         storeErrors' \in Nat
  PROVE  IInv'
  <1>. USE DEF ledgerVars, managerVars
  <1>. DEFINE g == writer.gen
              h == writer.host
  <1>1. /\ TasksType /\ generation \in Generations /\ pc \in Pcs
        /\ writer \in Writer /\ g \in Generations /\ h \in Hosts
        /\ tasks[g][h].pc \in {"writing", "absent"} /\ status # "down"
    BY DEF IInv, TypeOK, TasksType, Pcs, Writer, WriterInv
  <1>2. /\ writer' = NoWriter /\ TasksType'
        /\ OnlyPc(g, h, IF tasks[g][h].pc = "writing" THEN pc ELSE tasks[g][h].pc)
    BY <1>1, FinishEffect
  <1>3. NoWriter \in Writer /\ NoWriter.phase = "none"
    BY NoneTypes DEF NoWriter
  <1>. HIDE DEF g, h
  <1>4. \A k \in Generations, i \in Hosts :
          /\ tasks'[k][i].pc # "writing"
          /\ \/ tasks'[k][i].pc = tasks[k][i].pc
             \/ /\ k = g /\ i = h
                /\ tasks'[k][i].pc = pc
                /\ tasks[k][i].pc = "writing"
    BY <1>1, <1>2 DEF IInv, WriterInv, OnlyPc, g, h
  <1>5. TypeOK'
    BY <1>2, <1>3 DEF IInv, TypeOK, LedgerTypeOK, TasksType
  <1>6. FenceInv' /\ ConfigInv' /\ LogInv'
    BY DEF IInv, FenceInv, ConfigInv, LogInv, Settled
  <1>7. TaskInv'
    BY <1>1, <1>2, <1>4 DEF IInv, TaskInv, OnlyPc
  <1>8. WriterInv'
    BY <1>2, <1>3, <1>4 DEF WriterInv
  <1>9. DataInv'
    <2>. SUFFICES ASSUME Settled
                  PROVE  DataInv'
      BY DEF DataInv, Settled
    <2>1. \A i \in Hosts :
            /\ i \in Checking(generation)' => i \in Checking(generation)
            /\ tasks'[generation][i].pc = "waiting" => tasks[generation][i].pc = "waiting"
            /\ tasks'[generation][i].state = tasks[generation][i].state
            /\ tasks'[generation][i].event = tasks[generation][i].event
      BY <1>1, <1>2, <1>4 DEF Checking, OnlyPc
    <2>. QED
      BY <1>2, <1>3, <2>1, DataKept DEF IInv, DataInv
  <1>10. FaultInv'
    <2>1. \A i \in current.icmp : i \in Hosts
      BY DEF IInv, TypeOK, Config
    <2>. QED
      BY <1>1, <1>4, <2>1 DEF IInv, FaultInv, g
  <1>. QED
    BY <1>5, <1>6, <1>7, <1>8, <1>9, <1>10 DEF IInv

LEMMA RejectStaleInv ==
  ASSUME IInv, RejectStale
  PROVE  IInv'
  <1>1. /\ writer.phase # "none" /\ writeGen[writer.gen] # fence /\ Finish("exited")
        /\ UNCHANGED <<ledgerVars, managerVars, catalog, fence, boundVars>>
    BY DEF RejectStale
  <1>2. writer.gen = generation => reload = "published"
    BY <1>1 DEF IInv, FenceInv, TypeOK, Generations
  <1>. QED
    BY <1>1, <1>2, EndClosureInv DEF IInv, TypeOK, boundVars

LEMMA FailClosureInv ==
  ASSUME IInv, FailClosure
  PROVE  IInv'
  BY EndClosureInv DEF FailClosure, IInv, TypeOK

\* What a closure of the running generation stores is one check of the ledger, or what
\* the ledger holds already.
LEMMA StoreResultImplements ==
  ASSUME IInv, writer.phase = "entered", StoreResult,
         NEW h, h = writer.host, NEW s, s = writer.state, NEW e, e = writer.event
  PROVE  /\ [LedgerNext]_ledgerVars
         /\ Stored(h, s, e)'
         /\ latest' = [latest EXCEPT ![h] = s]
         /\ \/ log' = log
            \/ \E x \in LogEntry :
                 x.at <= clock /\ log' = [log EXCEPT ![h] = Append(log[h], x)]
  <1>1. /\ h \in Hosts /\ s \in State /\ e \in Event
        /\ Pending(h, s, e)
        /\ latest \in [Hosts -> State] /\ log \in [Hosts -> Seq(LogEntry)]
        /\ life[h] \in Nat
    BY DEF IInv, TypeOK, LedgerTypeOK, Writer, WriterInv, DataInv
  <1>2. /\ latest' = [latest EXCEPT ![h] = s]
        /\ log' = [log EXCEPT ![h] = IF AlreadyLogged(h, e) THEN @ ELSE Logged(@, e, life[h])]
        /\ UNCHANGED <<identity, life>>
    BY DEF StoreResult
  <1>3. latest'[h] = s
    BY <1>1, <1>2
  <1>4. CASE Stored(h, s, e)
    <2>1. log' = log
      <3>1. CASE AlreadyLogged(h, e)
        BY <1>1, <1>2, <3>1
      <3>2. CASE ~AlreadyLogged(h, e)
        BY <1>1, <1>2, <1>4, <3>2 DEF Stored, Logged
      <3>. QED
        BY <3>1, <3>2
    <2>2. latest' = latest
      BY <1>1, <1>2, <1>4 DEF Stored
    <2>. QED
      BY <1>2, <1>4, <2>1, <2>2, SMTT(30) DEF ledgerVars, Stored, AlreadyLogged
  <1>5. CASE Ahead(h, s, e)
    <2>1. PICK ok \in BOOLEAN : s = Checked(latest[h], identity[h], ok, s.checkedAt)
      BY <1>5 DEF Ahead
    <2>2. /\ s.checkedAt \in Instants /\ s.checkedAt \in Nat
          /\ e = EventOf(latest[h], s)
          /\ \A i \in 1 .. Len(log[h]) : log[h][i].at < s.checkedAt
      BY <1>5, IcmpCheckAssumption DEF Ahead
    <2>3. e.from # e.to => e.at = s.checkedAt
      BY <2>2 DEF EventOf, NoEvent
    <2>4. e.from # e.to => ~AlreadyLogged(h, e)
      <3>. SUFFICES ASSUME e.from # e.to, NEW i \in 1 .. Len(log[h]), log[h][i].at = e.at
                    PROVE  FALSE
        BY DEF AlreadyLogged
      <3>. QED
        BY <2>2, <2>3
    <2>5. log' = [log EXCEPT ![h] = Logged(@, e, life[h])]
      BY <1>1, <1>2, <2>4 DEF Logged
    <2>6. identity[h] # NoAddress
      BY <1>1, ConfigType, IcmpCheckAssumption DEF IInv, WriterInv, ConfigInv
    <2>7. StoreCheck(h, ok, s.checkedAt)
      BY <1>2, <2>1, <2>2, <2>5, <2>6 DEF StoreCheck
    <2>8. LedgerNext
      BY <1>1, <2>2, <2>7 DEF LedgerNext
    <2>. DEFINE entry == [from |-> e.from, to |-> e.to, at |-> e.at, life |-> life[h]]
    <2>9. CASE e.from = e.to
      <3>1. log' = log
        BY <1>1, <2>5, <2>9 DEF Logged
      <3>. QED
        BY <1>2, <1>3, <2>8, <2>9, <3>1 DEF Stored
    <2>10. CASE e.from # e.to
      <3>1. log' = [log EXCEPT ![h] = Append(log[h], entry)]
        BY <1>1, <2>5, <2>10 DEF Logged
      <3>2. log[h] \in Seq(LogEntry) /\ entry \in LogEntry
        BY <1>1 DEF LogEntry, Event
      <3>3. entry.from = e.from /\ entry.to = e.to /\ entry.at = e.at
        OBVIOUS
      <3>4. entry.at <= clock
        BY <1>5, <2>3, <2>10, <3>3 DEF Ahead
      <3>. HIDE DEF entry
      <3>5. log'[h] = Append(log[h], entry)
        BY <1>1, <3>1
      <3>6. /\ Len(log[h]) + 1 \in 1 .. Len(log'[h])
            /\ log'[h][Len(log[h]) + 1] = entry
        BY <3>2, <3>5
      <3>7. AlreadyLogged(h, e)'
        BY <3>3, <3>6 DEF AlreadyLogged
      <3>. QED
        BY <1>2, <1>3, <2>8, <3>1, <3>2, <3>4, <3>7 DEF Stored
    <2>. QED
      BY <2>9, <2>10
  <1>. QED
    BY <1>1, <1>4, <1>5 DEF Pending

\* The end of a closure that has stored its result: the task it leaves behind goes on
\* at pc.
LEMMA StoreClosureInv ==
  ASSUME IInv, writer.phase = "entered", StoreResult,
         NEW pc \in {"waiting", "backoff"}, Finish(pc),
         UNCHANGED <<managerVars, catalog, fence, clock, starts, loadErrors, rejected,
                     faulted>>,
         storeErrors' \in Nat
  PROVE  IInv'
  <1>. USE DEF managerVars
  <1>1. PICK h, s, e : h = writer.host /\ s = writer.state /\ e = writer.event
    OBVIOUS
  <1>2. /\ TasksType /\ generation \in Generations /\ pc \in Pcs
        /\ h \in Hosts /\ s \in State /\ writer \in Writer
        /\ writer.gen = generation /\ Settled
        /\ latest \in [Hosts -> State] /\ log \in [Hosts -> Seq(LogEntry)]
        /\ tasks[generation][h].pc \in {"writing", "absent"}
        /\ clock \in Nat
    BY <1>1 DEF IInv, TypeOK, LedgerTypeOK, TasksType, Pcs, Writer, WriterInv
  <1>3. /\ writer' = NoWriter /\ TasksType'
        /\ OnlyPc(generation, h, IF tasks[generation][h].pc = "writing"
                                   THEN pc ELSE tasks[generation][h].pc)
    BY <1>1, <1>2, FinishEffect
  <1>4. NoWriter \in Writer /\ NoWriter.phase = "none"
    BY NoneTypes DEF NoWriter
  <1>5. /\ Stored(h, s, e)'
        /\ latest' = [latest EXCEPT ![h] = s]
        /\ \/ log' = log
           \/ \E x \in LogEntry :
                x.at <= clock /\ log' = [log EXCEPT ![h] = Append(log[h], x)]
        /\ UNCHANGED <<identity, life>>
    BY <1>1, StoreResultImplements DEF StoreResult
  <1>6. \A k \in Generations, i \in Hosts :
          /\ tasks'[k][i].pc # "writing"
          /\ \/ tasks'[k][i].pc = tasks[k][i].pc
             \/ /\ k = generation /\ i = h
                /\ tasks'[k][i].pc = pc
                /\ tasks[k][i].pc = "writing"
    BY <1>1, <1>2, <1>3 DEF IInv, WriterInv, OnlyPc
  <1>7. TypeOK'
    <2>1. latest' \in [Hosts -> State]
      BY <1>2, <1>5
    <2>2. log' \in [Hosts -> Seq(LogEntry)]
      <3>1. CASE log' = log
        BY <1>2, <3>1
      <3>2. CASE log' # log
        <4>1. PICK x \in LogEntry : log' = [log EXCEPT ![h] = Append(log[h], x)]
          BY <1>5, <3>2
        <4>2. Append(log[h], x) \in Seq(LogEntry)
          BY <1>2
        <4>. QED
          BY <1>2, <4>1, <4>2
      <3>. QED
        BY <3>1, <3>2
    <2>. QED
      BY <1>3, <1>4, <1>5, <2>1, <2>2 DEF IInv, TypeOK, LedgerTypeOK, TasksType
  <1>8. FenceInv' /\ ConfigInv'
    BY <1>5 DEF IInv, FenceInv, ConfigInv, Settled
  <1>9. TaskInv'
    <2>1. \A k \in Generations, i \in Hosts :
            tasks[k][i].pc = "absent" => tasks'[k][i].pc = "absent"
      BY <1>6
    <2>2. \A i \in Hosts :
            /\ tasks'[generation][i].pc # "absent" => tasks[generation][i].pc # "absent"
            /\ tasks'[generation][i].address = tasks[generation][i].address
      BY <1>2, <1>3, <1>6 DEF OnlyPc
    <2>. QED
      BY <1>2, <2>1, <2>2 DEF IInv, TaskInv
  <1>10. WriterInv'
    BY <1>3, <1>4, <1>6 DEF WriterInv
  <1>11. LogInv'
    <2>. SUFFICES ASSUME NEW k \in Hosts, NEW i \in 1 .. Len(log'[k])
                  PROVE  log'[k][i].at <= clock
      BY DEF LogInv
    <2>1. CASE log'[k] = log[k]
      BY <2>1 DEF IInv, LogInv
    <2>2. CASE log'[k] # log[k]
      <3>1. PICK x \in LogEntry : x.at <= clock /\ log' = [log EXCEPT ![h] = Append(log[h], x)]
        BY <1>5, <2>2
      <3>2. k = h /\ log'[k] = Append(log[k], x) /\ log[k] \in Seq(LogEntry)
        BY <1>2, <2>2, <3>1
      <3>3. \/ i \in 1 .. Len(log[k]) /\ log'[k][i] = log[k][i]
            \/ log'[k][i] = x
        BY <3>2
      <3>. QED
        BY <3>1, <3>3 DEF IInv, LogInv
    <2>. QED
      BY <2>1, <2>2
  <1>12. DataInv'
    <2>1. ASSUME NEW i \in Hosts, i # h, NEW t, NEW v, Pending(i, t, v)
          PROVE  Pending(i, t, v)'
      <3>1. latest'[i] = latest[i] /\ log'[i] = log[i]
        BY <1>2, <1>5, <2>1
      <3>. QED
        BY <1>5, <2>1, <3>1 DEF Pending, Ahead, Stored, AlreadyLogged
    <2>2. ASSUME NEW i \in Hosts
          PROVE  /\ tasks'[generation][i].pc = "waiting" =>
                      tasks'[generation][i].state = latest'[i]
                 /\ i \in Checking(generation)' =>
                      Pending(i, tasks[generation][i].state, tasks[generation][i].event)'
      <3>1. PICK t, v : t = tasks'[generation][i].state /\ v = tasks'[generation][i].event
        OBVIOUS
      <3>2. t = tasks[generation][i].state /\ v = tasks[generation][i].event
        BY <1>2, <1>3, <3>1 DEF OnlyPc
      <3>3. CASE i = h
        <4>1. tasks[generation][h].pc = "writing" => t = s /\ v = e
          BY <1>1, <1>2, <3>2, <3>3 DEF IInv, WriterInv
        <4>2. latest'[h] = s
          BY <1>2, <1>5
        <4>3. i \in Checking(generation)' \/ tasks'[generation][i].pc = "waiting"
                => tasks[generation][h].pc = "writing"
          BY <1>2, <1>6, <3>3 DEF Checking
        <4>4. i \in Checking(generation)' => Pending(i, t, v)'
          BY <1>5, <3>3, <4>1, <4>3 DEF Pending
        <4>. QED
          BY <3>1, <3>3, <4>1, <4>2, <4>3, <4>4 DEF Pending, Ahead, Stored, AlreadyLogged
      <3>4. CASE i # h
        <4>1. tasks'[generation][i].pc = tasks[generation][i].pc
          BY <1>2, <1>6, <3>4
        <4>2. i \in Checking(generation)' => Pending(i, t, v)
          BY <1>2, <3>2, <4>1 DEF Checking, IInv, DataInv
        <4>3. i \in Checking(generation)' => Pending(i, t, v)'
          BY <2>1, <3>4, <4>2
        <4>4. tasks[generation][i].pc = "waiting" => t = latest[i]
          BY <1>2, <3>2 DEF IInv, DataInv
        <4>5. latest'[i] = latest[i]
          BY <1>2, <1>5, <3>4
        <4>. QED
          BY <3>1, <4>1, <4>3, <4>4, <4>5 DEF Pending, Ahead, Stored, AlreadyLogged
      <3>. QED
        BY <3>3, <3>4
    <2>. QED
      BY <1>3, <1>4, <2>2 DEF DataInv
  <1>13. FaultInv'
    <2>1. \A i \in current.icmp : i \in Hosts
      BY DEF IInv, TypeOK, Config
    <2>. QED
      BY <1>2, <1>6, <2>1 DEF IInv, FaultInv
  <1>. QED
    BY <1>7, <1>8, <1>9, <1>10, <1>11, <1>12, <1>13 DEF IInv

LEMMA CommitClosureInv ==
  ASSUME IInv, CommitClosure
  PROVE  IInv'
  BY StoreClosureInv DEF CommitClosure, boundVars, IInv, TypeOK

LEMMA CommitReportedFailedInv ==
  ASSUME IInv, CommitReportedFailed
  PROVE  IInv'
  BY StoreClosureInv DEF CommitReportedFailed, IInv, TypeOK

-----------------------------------------------------------------------------
(* Every step, and the theorems.                                           *)

LEMMA StutterInv ==
  ASSUME IInv, UNCHANGED vars
  PROVE  IInv'
  <1>1. TypeOK'
    BY DEF vars, ledgerVars, managerVars, storageVars, boundVars, IInv, TypeOK, LedgerTypeOK
  <1>2. FenceInv' /\ ConfigInv' /\ LogInv' /\ TaskInv' /\ WriterInv' /\ FaultInv'
    BY DEF vars, ledgerVars, managerVars, storageVars, boundVars, IInv, FenceInv,
           ConfigInv, LogInv, TaskInv, WriterInv, FaultInv, Settled
  <1>3. DataInv'
    BY DataFrame
    DEF vars, ledgerVars, managerVars, storageVars, boundVars, IInv, Settled
  <1>. QED
    BY <1>1, <1>2, <1>3 DEF IInv

LEMMA NextInv == IInv /\ [Next]_vars => IInv'
  <1>. SUFFICES ASSUME IInv, [Next]_vars PROVE IInv'
    OBVIOUS
  <1>1. CASE \E c \in Configs : Start(c)
    BY <1>1, StartInv
  <1>2. CASE ProcessEnds
    BY <1>2, ProcessEndsInv
  <1>3. CASE ManagerStep
    BY <1>3, PrepareReloadInv, RejectReloadInv, WaitForMutexInv, CommitReloadInv,
       PublishReloadInv, SwapGenerationInv, ModuleReturnsInv, ModuleDroppedInv, ReceiveExitInv
    DEF ManagerStep
  <1>4. CASE \E g \in Generations, h \in Hosts : TaskStep(g, h)
    BY <1>4, ReadCatalogInv, LoadStateInv, LoadFailsInv, ObserveInv, PersistInv,
       SubmitInv, RetryPersistInv
    DEF TaskStep
  <1>5. CASE ClosureStep
    BY <1>5, EnterClosureInv, RejectStaleInv, CommitClosureInv, FailClosureInv,
       CommitReportedFailedInv
    DEF ClosureStep
  <1>6. CASE AllQuiet \/ UNCHANGED vars
    BY <1>6, StutterInv DEF AllQuiet
  <1>. QED
    BY <1>1, <1>2, <1>3, <1>4, <1>5, <1>6 DEF Next

\* Every state of the monitors has its types, the fence and the generations count
\* together, and nothing of the running generation is out of step with the database.
THEOREM InductiveInvariant == Spec => []IInv
  <1>. QED
    BY InitInv, NextInv, PTL DEF Spec

THEOREM TypeCorrect == Spec => []TypeOK
  <1>1. IInv => TypeOK
    BY DEF IInv
  <1>. QED
    BY <1>1, InductiveInvariant, PTL

\* The manager stops the service only after a fault of the running generation: never
\* because a module of a replaced generation ended (manage_monitors, the exit branch).
THEOREM StopCorrect == Spec => []StopsOnlyOnFault
  <1>1. IInv => StopsOnlyOnFault
    BY DEF IInv, FaultInv, StopsOnlyOnFault
  <1>. QED
    BY <1>1, InductiveInvariant, PTL

\* No reload, rejected reload or restart leaves a host of the configuration in force
\* without a task that goes on checking it at its stored address.
THEOREM MonitoredCorrect == Spec => []EveryHostMonitored
  <1>1. IInv => EveryHostMonitored
    <2>. SUFFICES ASSUME IInv, status = "running",
                         reload \in {"idle", "prepared", "blocked"},
                         generation \notin faulted, NEW h \in current.icmp
                  PROVE  /\ tasks[generation][h].pc \notin {"absent", "exited"}
                         /\ tasks[generation][h].address = identity[h]
      BY DEF EveryHostMonitored
    <2>1. h \in Hosts /\ generation \in Generations
      BY DEF IInv, TypeOK, Config
    <2>2. module[generation] = "running"
      BY <2>1 DEF IInv, TypeOK, FaultInv
    <2>3. tasks[generation][h].pc \notin {"absent", "exited"}
      BY <2>1, <2>2 DEF IInv, FaultInv
    <2>. QED
      BY <2>1, <2>3 DEF IInv, TaskInv, ConfigInv, Settled
  <1>. QED
    BY <1>1, InductiveInvariant, PTL

\* A step of the monitors is a step of the ledger, or none.
LEMMA NextImplements == IInv /\ [Next]_vars => [LedgerNext]_ledgerVars
  <1>. SUFFICES ASSUME IInv, [Next]_vars PROVE [LedgerNext]_ledgerVars
    OBVIOUS
  <1>1. CASE \E c \in Configs : Start(c)
    BY <1>1, ConfigType DEF Start, LedgerNext
  <1>2. CASE ProcessEnds
    BY <1>2 DEF ProcessEnds
  <1>3. CASE CommitReload
    <2>1. next.address \in AddressMap
      BY DEF IInv, TypeOK, Config
    <2>. QED
      BY <1>3, <2>1 DEF CommitReload, LedgerNext
  <1>4. CASE ManagerStep /\ ~CommitReload
    BY <1>4 DEF ManagerStep, PrepareReload, RejectReload, WaitForMutex, PublishReload,
                SwapGeneration, ModuleReturns, ModuleDropped, EndModule, ReceiveExit, ledgerVars
  <1>5. CASE \E g \in Generations, h \in Hosts : TaskStep(g, h)
    BY <1>5 DEF TaskStep, ReadCatalog, LoadState, LoadFails, Observe, Persist, Submit,
                RetryPersist, ledgerVars
  <1>6. CASE CommitClosure \/ CommitReportedFailed
    <2>1. writer.phase = "entered" /\ StoreResult
      BY <1>6 DEF CommitClosure, CommitReportedFailed
    <2>. QED
      BY <2>1, StoreResultImplements
  <1>7. CASE EnterClosure \/ RejectStale \/ FailClosure
    BY <1>7 DEF EnterClosure, RejectStale, FailClosure, ledgerVars
  <1>8. CASE AllQuiet \/ UNCHANGED vars
    BY <1>8 DEF AllQuiet, vars, ledgerVars
  <1>. QED
    BY <1>1, <1>2, <1>3, <1>4, <1>5, <1>6, <1>7, <1>8 DEF Next, ClosureStep

\* The monitors implement the ledger: the database reads as if one sequential monitor
\* stored one check at a time, across reloads, crashes, retries and stale writers.
THEOREM Refinement == Spec => LedgerSpec
  <1>1. Init => LedgerInit
    BY DEF Init
  <1>. QED
    BY <1>1, NextImplements, InductiveInvariant, PTL DEF Spec, LedgerSpec

\* A stored state always belongs to the address the host has in host_identity.
THEOREM RowsCorrect == Spec => []RowsBelongToIdentity
  <1>. QED
    BY Refinement, LedgerCorrect, PTL

\* Stored transitions form a chain that ends in the stored status.
THEOREM ChainCorrect == Spec => []TransitionsChain
  <1>. QED
    BY Refinement, LedgerCorrect, PTL
=============================================================================
