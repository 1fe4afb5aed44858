----------------------------- MODULE Freshness -----------------------------
(***************************************************************************)
(* When the observations of a module's checks count as current             *)
(* (src/src/domain/host.rs, is_fresh) and when /readyz says "ready", beside *)
(* the time that the checks take: the runner's intervals, the permits, the *)
(* deadlines, the retries of failed writes and the reloads.                *)
(*                                                                         *)
(* One module with its tasks and its semaphore.  Time passes in steps; a   *)
(* step is possible when no task has anything to do.  Times are kept as     *)
(* what is left of them, and ages up to where they no longer matter, so     *)
(* that the model goes on for ever.  Writes take no time; one that is slow  *)
(* counts as one that fails.  A restart does to the tasks what a reload    *)
(* does.                                                                   *)
(***************************************************************************)
EXTENDS Integers, Sequences, FiniteSets, FiniteSetsExt

CONSTANTS
  Tasks,           \* the module's checks
  Configurations,  \* that a start or a reload can bring
  Concurrency,     \* permits of the module
  JitterPart,      \* 10: a first check is delayed by a tenth of its interval at most,
  LongestJitter,   \* 2000 ms: and by no more than this
  RetryDelay,      \* 250 ms
  \* Bound of the model.
  MaxFailures      \* writes that fail, of one generation of tasks

Configuration ==
  [interval : Nat \ {0}, timeout : Nat \ {0}, enabled : SUBSET Tasks, address : [Tasks -> Nat]]

ASSUME FreshnessAssumption ==
  /\ IsFiniteSet(Tasks)
  /\ IsFiniteSet(Configurations) /\ Configurations \subseteq Configuration
  /\ Concurrency \in Nat \ {0} /\ JitterPart \in Nat \ {0}
  /\ LongestJitter \in Nat /\ RetryDelay \in Nat \ {0} /\ MaxFailures \in Nat

VARIABLES
  config,    \* the configuration in force
  at,        \* per task, where it is
  due,       \* per task, the time to its next tick
  left,      \* per task, the time its probe has left, or to its next attempt to store
  seen,      \* per task, the age of the observation it has in hand
  queue,     \* tasks that wait for a permit (tokio's semaphore is fair)
  age,       \* latest_status: per check, the age of its row; Old without one
  running,   \* the time since the tasks were started (for the properties)
  failures

vars == <<config, at, due, left, seen, queue, age, running, failures>>

Pcs == {"off", "waiting", "queued", "probing", "storing"}

-----------------------------------------------------------------------------
(* Spans of time.                                                          *)

\* Variant: an observation is current up to the next one's deadline.
NextDeadline(c) == c.interval + c.timeout

\* is_fresh: two intervals and the deadline.
FreshFor(c) == 2 * c.interval + c.timeout

\* run_job: the largest delay of a first check.
Jitter(c) == Min({c.interval \div JitterPart, LongestJitter})

\* How long all checks take that are due at once, with the writes that fail meanwhile.
Round(c) ==
  ((Cardinality(Tasks) + Concurrency - 1) \div Concurrency) * c.timeout
    + MaxFailures * RetryDelay

\* How long after a check has begun the next one is due, or can be due: a probe may well
\* take longer than an interval.
Turn(c) == Max({c.interval, c.timeout})

\* An age from which on nothing is current.
Old == Max({FreshFor(c) : c \in Configurations} \cup
           {Turn(c) + Round(c) : c \in Configurations}) + 1

\* From when on the properties say something.
Settled(c) == Jitter(c) + Round(c) + 1

-----------------------------------------------------------------------------
(* Starts and reloads.                                                     *)

\* Tasks are spawned for the enabled checks, each with a delay of its own.
Spawn(c) ==
  /\ config' = c
  /\ at' = [t \in Tasks |-> IF t \in c.enabled THEN "waiting" ELSE "off"]
  /\ \E delay \in [c.enabled -> 0 .. Jitter(c)] :
       due' = [t \in Tasks |-> IF t \in c.enabled THEN delay[t] ELSE 0]
  /\ left' = [t \in Tasks |-> 0] /\ seen' = [t \in Tasks |-> 0]
  /\ queue' = <<>>
  /\ running' = 0 /\ failures' = 0

Init ==
  /\ config \in Configurations
  /\ at = [t \in Tasks |-> IF t \in config.enabled THEN "waiting" ELSE "off"]
  /\ \E delay \in [config.enabled -> 0 .. Jitter(config)] :
       due = [t \in Tasks |-> IF t \in config.enabled THEN delay[t] ELSE 0]
  /\ left = [t \in Tasks |-> 0] /\ seen = [t \in Tasks |-> 0]
  /\ queue = <<>> /\ age = [t \in Tasks |-> Old]
  /\ running = 0 /\ failures = 0

\* Tasks are aborted wherever they are, with what they have in hand; rows of hosts that
\* move are deleted (sync_identities), others stay and are judged by the new intervals.
Reload(new) ==
  /\ Spawn(new)
  /\ age' = [t \in Tasks |-> IF new.address[t] = config.address[t] THEN age[t] ELSE Old]

-----------------------------------------------------------------------------
(* A task of run_job.                                                      *)

\* interval.tick(), with MissedTickBehavior::Delay: the next tick is an interval after this
\* one, which may be late.
Tick(t) ==
  /\ at[t] = "waiting" /\ due[t] = 0
  /\ at' = [at EXCEPT ![t] = "queued"] /\ queue' = Append(queue, t)
  /\ due' = [due EXCEPT ![t] = config.interval]
  /\ UNCHANGED <<config, left, seen, age, running, failures>>

Holders == {t \in Tasks : at[t] \in {"probing", "storing"}}

\* A permit is free for the first task in the queue, which notes the time and probes.
Acquire(t) ==
  /\ queue # <<>> /\ t = Head(queue) /\ Cardinality(Holders) < Concurrency
  /\ queue' = Tail(queue)
  /\ at' = [at EXCEPT ![t] = "probing"]
  /\ left' = [left EXCEPT ![t] = config.timeout] /\ seen' = [seen EXCEPT ![t] = 0]
  /\ UNCHANGED <<config, due, age, running, failures>>

\* The probe is answered, or its deadline passes.
Observe(t) ==
  /\ at[t] = "probing"
  /\ at' = [at EXCEPT ![t] = "storing"] /\ left' = [left EXCEPT ![t] = 0]
  /\ UNCHANGED <<config, due, seen, queue, age, running, failures>>

\* Variant: the task sleeps for an interval after each check.
SleepAnInterval(t) == due' = [due EXCEPT ![t] = config.interval]

\* The interval goes on while the check is made.
NextTurn(t) == due' = due

Persist(t) ==
  /\ at[t] = "storing" /\ left[t] = 0
  /\ at' = [at EXCEPT ![t] = "waiting"]
  /\ age' = [age EXCEPT ![t] = seen[t]]
  /\ NextTurn(t)
  /\ UNCHANGED <<config, left, seen, queue, running, failures>>

\* The write is tried again, with the same observation and the permit kept.
FailToPersist(t) ==
  /\ at[t] = "storing" /\ left[t] = 0
  /\ failures < MaxFailures /\ failures' = failures + 1
  /\ left' = [left EXCEPT ![t] = RetryDelay]
  /\ UNCHANGED <<config, at, due, seen, queue, age, running>>

-----------------------------------------------------------------------------
(* Time.                                                                   *)

\* A task that has something to do now.
Urgent(t) ==
  \/ at[t] = "waiting" /\ due[t] = 0
  \/ at[t] \in {"probing", "storing"} /\ left[t] = 0

Less(timers) == [t \in Tasks |-> Max({timers[t] - 1, 0})]

TimePasses ==
  /\ ~\E t \in Tasks : Urgent(t)
  /\ queue # <<>> => Cardinality(Holders) = Concurrency
  /\ due' = Less(due) /\ left' = Less(left)
  /\ seen' = [t \in Tasks |-> IF t \in Holders THEN Min({seen[t] + 1, Old}) ELSE 0]
  /\ age' = [t \in Tasks |-> Min({age[t] + 1, Old})]
  /\ running' = Min({running + 1, Settled(config)})
  /\ UNCHANGED <<config, at, queue, failures>>

Next ==
  \/ \E new \in Configurations : Reload(new)
  \/ \E t \in Tasks :
       Tick(t) \/ Acquire(t) \/ Observe(t) \/ Persist(t) \/ FailToPersist(t)
  \/ TimePasses

Spec == Init /\ [][Next]_vars

-----------------------------------------------------------------------------
(* Properties.                                                             *)

\* HostResponse: icmp_stale and its like.
Stale(t) == t \notin config.enabled \/ age[t] > FreshFor(config)

\* readyz: as many checks are current as are enabled.
Ready ==
  Cardinality(config.enabled) = Cardinality({t \in config.enabled : ~Stale(t)})

\* No check falls behind: a while after the tasks were started, no row is older than an
\* interval (or a deadline that is longer) and a round of all checks, however they compete
\* for permits, whatever writes fail, and when a reload aborted the tasks before (run_job).
NoCheckFallsBehind ==
  running = Settled(config) =>
    \A t \in config.enabled : age[t] <= Turn(config) + Round(config)

\* /readyz says "ready" once the first round is over and goes on saying so, although reloads
\* change intervals, move hosts and enable checks - if a round of the checks takes no
\* longer than an interval and a deadline, or two intervals where these are shorter.
ReadyAfterFirstRound ==
  /\ running = Settled(config)
  /\ Round(config) <= config.interval + Min({config.interval, config.timeout})
  => Ready

=============================================================================
