----------------------- MODULE MonitorGenerationsInv -----------------------
(* The inductive invariant of MonitorGenerations, in named parts.  The runs *)
(* check it and MonitorGenerationsProofs proves it.                        *)
EXTENDS MonitorGenerations

\* The stored identities are those of the running generation: the manager is not
\* between the reload's transaction and the start of the next generation.
Settled == reload \in {"idle", "prepared", "blocked"}

\* Generations of tasks and of the writer fence count together, and the fence is one
\* ahead only while the next generation is not started yet.
FenceInv ==
  /\ fence = IF reload = "published" THEN generation + 1 ELSE generation
  /\ reload # "idle" => generation < MaxReloads
  /\ \A g \in 0 .. generation : writeGen[g] = g

\* The database and the catalog hold the running configuration, or during a reload
\* the next one.
ConfigInv ==
  status # "down" =>
    /\ current \in Configs
    /\ next \in Configs
    /\ identity = IF Settled THEN current.address ELSE next.address
    /\ catalog = IF reload = "published" THEN next.address ELSE current.address

\* Generations to come have no tasks and no module; the running one has tasks only
\* for the hosts of its configuration.
TaskInv ==
  /\ \A g \in Generations :
       g > generation =>
         /\ module[g] = "none"
         /\ g \notin exits
         /\ \A h \in Hosts : tasks[g][h].pc = "absent"
  /\ \A h \in Hosts :
       tasks[generation][h].pc # "absent" =>
         /\ status # "down"
         /\ h \in current.icmp
         /\ tasks[generation][h].address = current.address[h]

\* A closure and the task that waits for it hold the same observation; the closure
\* inside the critical section is the running generation's.
WriterInv ==
  /\ writer.phase # "none" =>
       /\ status # "down"
       /\ writer.host \in Hosts
       /\ writer.gen <= generation
       /\ writer.gen = generation => writer.host \in current.icmp
       /\ tasks[writer.gen][writer.host].pc \in {"writing", "absent"}
  /\ writer.phase = "entered" => Settled /\ writer.gen = generation
  /\ \A g \in Generations, h \in Hosts :
       tasks[g][h].pc = "writing" =>
         /\ writer.phase # "none"
         /\ writer.gen = g
         /\ writer.host = h
         /\ writer.state = tasks[g][h].state
         /\ writer.event = tasks[g][h].event

\* State s and event e are the stored state of host h advanced by one check ...
Ahead(h, s, e) ==
  /\ \E ok \in BOOLEAN : s = Checked(latest[h], identity[h], ok, s.checkedAt)
  /\ e = EventOf(latest[h], s)
  /\ s.checkedAt \in Instants
  /\ s.checkedAt <= clock
  /\ \A i \in 1 .. Len(log[h]) : log[h][i].at < s.checkedAt

\* ... or they are stored already, by a commit that reported a failure.
Stored(h, s, e) ==
  /\ s = latest[h]
  /\ e.from = e.to \/ AlreadyLogged(h, e)

Pending(h, s, e) == Ahead(h, s, e) \/ Stored(h, s, e)

\* Tasks and closures of the running generation are in step with the database.
DataInv ==
  Settled =>
    /\ \A h \in Hosts :
         /\ tasks[generation][h].pc = "waiting" => tasks[generation][h].state = latest[h]
         /\ h \in Checking(generation) =>
              Pending(h, tasks[generation][h].state, tasks[generation][h].event)
    /\ writer.phase # "none" /\ writer.gen = generation =>
         Pending(writer.host, writer.state, writer.event)

\* No transition is later than the clock.
LogInv == \A h \in Hosts : \A i \in 1 .. Len(log[h]) : log[h][i].at <= clock

\* Only a fault ends the running generation's tasks.
FaultInv ==
  /\ module[generation] # "aborted"
  /\ module[generation] = "running" =>
       /\ current.icmp # {}
       /\ \A h \in current.icmp : tasks[generation][h].pc # "absent"
  /\ module[generation] = "none" /\ current.icmp # {} => generation \in faulted
  /\ reload # "published" =>
       \A h \in Hosts : tasks[generation][h].pc = "exited" => generation \in faulted
  /\ generation \in exits => generation \in faulted
  /\ status = "stopped" => generation \in faulted

\* Whatever reloads, restarts, retries and errors happen, a task or closure of the
\* running generation is never behind or apart from what the database holds, and none
\* of an earlier generation can pass the fence (the generation check of with_inner).
IInv ==
  /\ TypeOK
  /\ FenceInv
  /\ ConfigInv
  /\ TaskInv
  /\ WriterInv
  /\ DataInv
  /\ LogInv
  /\ FaultInv
=============================================================================
