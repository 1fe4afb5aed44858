------------------------------- MODULE Probes -------------------------------
(***************************************************************************)
(* The probes of the ICMP tasks (src/src/backends) with what they share:   *)
(* the admission of resolver calls, which the operating system does not    *)
(* let one cancel, and the identifiers of echo requests.  A probe ends     *)
(* with an answer, at its deadline, or when a reload drops its task.       *)
(*                                                                         *)
(* All tasks run on one thread, so that a step is what happens between two *)
(* awaits.  Sockets are external: their answers are choices.  A TCP probe  *)
(* is one without an identifier.                                           *)
(***************************************************************************)
EXTENDS Integers, FiniteSets

CONSTANTS
  Tasks,
  NamedTasks,    \* those whose address is a name, not a literal
  DnsAdmission,  \* permits of DNS_ADMISSION
  Space,         \* how many identifiers there are, 2^16
  MaxReloads     \* bound

ASSUME ProbesAssumption ==
  /\ IsFiniteSet(Tasks)
  /\ DnsAdmission \in Nat \ {0}
  /\ Space \in Nat \ {0} /\ MaxReloads \in Nat

VARIABLES
  generation,  \* of the running modules; replaced tasks may linger
  pc,          \* per generation and task
  ident,       \* the identifier that a probe has taken, as a set
  free,        \* permits of DNS_ADMISSION
  orphans,     \* resolver calls that nobody waits for
  seed,        \* per backend, its counter: where the next scan begins.  Identifiers are
               \* counted from the backend's salt, which is random
  inflight     \* per backend

vars == <<generation, pc, ident, free, orphans, seed, inflight>>

Generations == 0 .. MaxReloads
Identifiers == 0 .. Space - 1

\* A resolver call runs for a probe that is "resolving"; when it is "resolved" the call has
\* ended and the probe goes on at its next poll.  "storing" is an observation that the
\* runner stores, as often as it takes.
Pcs == {"gone", "idle", "resolving", "resolved", "probing", "storing"}

TypeOK ==
  /\ generation \in Generations
  /\ pc \in [Generations -> [Tasks -> Pcs]]
  /\ ident \in [Generations -> [Tasks -> SUBSET Identifiers]]
  /\ free \in 0 .. DnsAdmission
  /\ orphans \in 0 .. DnsAdmission
  /\ seed \in [Generations -> Identifiers]
  /\ inflight \in [Generations -> SUBSET Identifiers]

Init ==
  /\ generation = 0
  /\ pc = [g \in Generations |-> [t \in Tasks |-> IF g = 0 THEN "idle" ELSE "gone"]]
  /\ ident = [g \in Generations |-> [t \in Tasks |-> {}]]
  /\ free = DnsAdmission /\ orphans = 0
  /\ seed = [g \in Generations |-> 1 % Space]
  /\ inflight = [g \in Generations |-> {}]

\* Calls that a probe waits for.
Calls == {p \in Generations \X Tasks : pc[p[1]][p[2]] = "resolving"}

Become(g, t, next) == pc' = [pc EXCEPT ![g][t] = next]

-----------------------------------------------------------------------------
(* Identifiers.                                                            *)

\* Variant: a counter that does not wrap.
Counted(i) == i + 1

\* wrapping_add(1)
Following(i) == (i + 1) % Space

\* How many identifiers a scan from i looks at before j.
Distance(i, j) == (j - i) % Space

\* Variant: the identifier is the counter.
AtSeed(used, s) == {s}

\* next_unique_identifier: the first one from s on that is not in use, as a set.
NextUnique(used, s) ==
  {i \in Identifiers \ used : \A j \in Identifiers \ used : Distance(s, i) <= Distance(s, j)}

\* An echo request, its address being known, needs an identifier.
SendEcho(g, t) ==
  /\ seed' = [seed EXCEPT ![g] = Following(@)]
  /\ \E i \in NextUnique(inflight[g], seed[g]) :
       /\ ident' = [ident EXCEPT ![g][t] = {i}]
       /\ inflight' = [inflight EXCEPT ![g] = @ \cup {i}]
       /\ Become(g, t, "probing")

\* "all 65536 icmp identifiers are in flight"
RunOut(g, t) ==
  /\ seed' = [seed EXCEPT ![g] = Following(@)]
  /\ NextUnique(inflight[g], seed[g]) = {}
  /\ Become(g, t, "storing")
  /\ UNCHANGED <<ident, inflight>>

-----------------------------------------------------------------------------
(* The steps of a task.                                                    *)

\* The interval ticks, the semaphore of the module has a permit, and the runner observes.
BeginLiteral(g, t) ==
  /\ pc[g][t] = "idle" /\ t \notin NamedTasks
  /\ SendEcho(g, t) \/ RunOut(g, t)
  /\ UNCHANGED <<generation, free, orphans>>

BeginName(g, t) ==
  /\ pc[g][t] = "idle" /\ t \in NamedTasks
  /\ free > 0 /\ free' = free - 1
  /\ Become(g, t, "resolving")
  /\ UNCHANGED <<generation, ident, orphans, seed, inflight>>

\* "DNS resolver is busy"
RefuseName(g, t) ==
  /\ pc[g][t] = "idle" /\ t \in NamedTasks
  /\ free = 0
  /\ Become(g, t, "storing")
  /\ UNCHANGED <<generation, ident, free, orphans, seed, inflight>>

Begin(g, t) == BeginLiteral(g, t) \/ BeginName(g, t) \/ RefuseName(g, t)

\* The resolver returns, and the closure gives its permit back.
CallEnds(g, t) ==
  /\ pc[g][t] = "resolving"
  /\ free' = free + 1
  /\ Become(g, t, "resolved")
  /\ UNCHANGED <<generation, ident, orphans, seed, inflight>>

\* The name has an address that can be probed.
Proceed(g, t) ==
  /\ pc[g][t] = "resolved"
  /\ SendEcho(g, t) \/ RunOut(g, t)
  /\ UNCHANGED <<generation, free, orphans>>

\* It has none: an error, no address, or IPv6 without a socket for it.
FailToResolve(g, t) ==
  /\ pc[g][t] = "resolved"
  /\ Become(g, t, "storing")
  /\ UNCHANGED <<generation, ident, free, orphans, seed, inflight>>

\* A probe's future is dropped: Release gives its identifier back, and a resolver call goes
\* on with the permit.
Leave(g, t, next) ==
  /\ Become(g, t, next)
  /\ inflight' = [inflight EXCEPT ![g] = @ \ ident[g][t]]
  /\ ident' = [ident EXCEPT ![g][t] = {}]
  /\ orphans' = IF pc[g][t] = "resolving" THEN orphans + 1 ELSE orphans
  /\ UNCHANGED <<generation, seed>>

\* A reply, or an error of the socket.
Answer(g, t) ==
  /\ pc[g][t] = "probing"
  /\ Leave(g, t, "storing")
  /\ UNCHANGED free

\* Variant: the deadline is that of the socket only.
DeadlineOfSocket(g, t) ==
  /\ pc[g][t] = "probing"
  /\ Leave(g, t, "storing")
  /\ UNCHANGED free

\* Variant: the permit belongs to the future.
DeadlineWithPermit(g, t) ==
  /\ pc[g][t] \in {"resolving", "resolved", "probing"}
  /\ Leave(g, t, "storing")
  /\ free' = IF pc[g][t] = "resolving" THEN free + 1 ELSE free

\* The timeout of the probe, which includes the resolver.
Deadline(g, t) ==
  /\ pc[g][t] \in {"resolving", "resolved", "probing"}
  /\ Leave(g, t, "storing")
  /\ UNCHANGED free

\* The observation is stored.
Store(g, t) ==
  /\ pc[g][t] = "storing"
  /\ Become(g, t, "idle")
  /\ UNCHANGED <<generation, ident, free, orphans, seed, inflight>>

OrphanEnds ==
  /\ orphans > 0 /\ orphans' = orphans - 1
  /\ free' = free + 1
  /\ UNCHANGED <<generation, pc, ident, seed, inflight>>

-----------------------------------------------------------------------------
(* Reloads.                                                                *)

\* New tasks with a backend of their own.
Reload ==
  /\ generation < MaxReloads /\ generation' = generation + 1
  /\ pc' = [pc EXCEPT ![generation + 1] = [t \in Tasks |-> "idle"]]
  /\ UNCHANGED <<ident, free, orphans, seed, inflight>>

\* A replaced task is dropped at the await where it is.  It may make steps before that: the
\* module is dropped first, and its tasks after it.
Drop(g, t) ==
  /\ g < generation /\ pc[g][t] # "gone"
  /\ Leave(g, t, "gone")
  /\ UNCHANGED free

Step(g, t) ==
  \/ Begin(g, t) \/ CallEnds(g, t) \/ Proceed(g, t) \/ FailToResolve(g, t)
  \/ Answer(g, t) \/ Deadline(g, t) \/ Store(g, t) \/ Drop(g, t)

Next ==
  \/ \E g \in Generations, t \in Tasks : Step(g, t)
  \/ OrphanEnds
  \/ Reload

Spec == Init /\ [][Next]_vars

\* Timers fire, the semaphore of the module serves its waiters, and an observation is stored
\* in the end.  Nothing is assumed of the resolver or of the sockets.
Fairness ==
  \A t \in Tasks : /\ WF_vars(Begin(generation, t))
                   /\ WF_vars(Deadline(generation, t))
                   /\ WF_vars(Store(generation, t))

FairSpec == Spec /\ Fairness

-----------------------------------------------------------------------------
(* Properties.                                                             *)

\* Probes of one backend that wait for a reply have different identifiers, however often the
\* counter has wrapped, and an identifier is in use only while its probe waits: it comes
\* back after a reply, an error, the deadline and the drop of the task.
IdentifiersInUse ==
  \A g \in Generations :
    /\ inflight[g] = UNION {ident[g][t] : t \in Tasks}
    /\ \A t \in Tasks : ident[g][t] # {} <=> pc[g][t] = "probing"
    /\ \A t, u \in Tasks : t # u => ident[g][t] \cap ident[g][u] = {}

\* "repeated deadlines cannot accumulate resolver work" (backends/dns.rs): there are never
\* more resolver calls than permits, those of replaced tasks and past deadlines included,
\* and a name is refused only when that many run.
ResolverIsBounded == free + orphans + Cardinality(Calls) = DnsAdmission

\* Every task of the running generation reports again and again, even if resolver calls
\* never return and hold every permit.
EveryTaskReports == \A t \in Tasks : []<>(pc[generation][t] = "storing")

=============================================================================
