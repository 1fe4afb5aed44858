---------------------------- MODULE Maintenance ----------------------------
(***************************************************************************)
(* The maintenance scheduler (src/src/storage/sqlite/jobs.rs and           *)
(* src/src/app/maintenance.rs): the table of jobs, the claim that is       *)
(* stored before a job is performed and the completion that is stored      *)
(* after it, over restarts, reloads and failed transactions.               *)
(*                                                                         *)
(* One scheduler task calls run_due_maintenance() every second.  Claim,    *)
(* work and completion are separate transactions of the writer; reloads    *)
(* come between them.  What a job does to the history is in module         *)
(* History; here it is a result.  The table maintenance_runs, messages and *)
(* durations are left out.                                                 *)
(***************************************************************************)
EXTENDS Integers, FiniteSets, FiniteSetsExt

CONSTANTS
  Jobs,            \* job ids, numbers in the order of the ids (JobKind::ALL)
  Policies,        \* the intervals a configuration can give to the jobs
  MoreDelay,       \* 1000 ms: a job that has more to do
  RetryDelay,      \* 5000 ms: a job that failed for the first time
  MaxDoublings,    \* 9: how often the retry delay doubles
  LongestDelay,    \* 3600000 ms: the longest retry delay
  RetryDelays,     \* the retry delay after 0, 1, ... MaxDoublings failures
  \* Bounds of the model.
  MaxTime,         \* the last instant
  MaxStarts,       \* starts of the process
  MaxReloads,      \* reloads
  MaxErrors        \* failed transactions and jobs

\* MaintenanceConfig::validate: an interval is a second or more, so none is shorter
\* than MoreDelay.
ASSUME MaintenanceAssumption ==
  /\ Jobs \subseteq Nat /\ IsFiniteSet(Jobs)
  /\ MoreDelay \in Nat \ {0} /\ RetryDelay \in Nat \ {0}
  /\ Policies \subseteq [Jobs -> {n \in Nat : n >= MoreDelay}]
  /\ MaxDoublings \in Nat /\ LongestDelay \in Nat /\ RetryDelay <= LongestDelay
  /\ RetryDelays \in [0 .. MaxDoublings -> 1 .. LongestDelay]
  /\ MaxTime \in Nat /\ MaxStarts \in Nat /\ MaxReloads \in Nat /\ MaxErrors \in Nat

VARIABLES
  now,        \* Utc::now()
  jobs,       \* maintenance_jobs: a function from the registered jobs
  policy,     \* Inner::maintenance_config
  scheduler,  \* where the scheduler task is
  claimed,    \* the job it has claimed
  result,     \* what perform_job returned
  overtaken,  \* how often others were claimed while a job was due (observation only)
  starts, reloads, errors

vars == <<now, jobs, policy, scheduler, claimed, result, overtaken, starts, reloads, errors>>
boundVars == <<starts, reloads, errors>>

\* down      no process
\* starting  the process is up, the interrupted jobs are not recovered yet
\* idle      between two calls of run_due_maintenance
\* claimed   a job is claimed and being performed
\* performed the job's completion is to be stored
Pcs == {"down", "starting", "idle", "claimed", "performed"}
Results == {"ok", "more", "error"}
NoJob == -1

Row == [status : {"pending", "running", "ok", "error", "interrupted"},
        next : Nat, failures : Nat]

Running == {j \in DOMAIN jobs : jobs[j].status = "running"}

\* The failures of a job are failed transactions: an interruption by a crash or a reload
\* does not count, and does not lengthen its retry delay.
TypeOK ==
  /\ now \in 0 .. MaxTime
  /\ DOMAIN jobs \in {{}, Jobs}
  /\ \A j \in DOMAIN jobs : jobs[j] \in Row /\ jobs[j].failures <= errors
  /\ policy \in Policies
  /\ scheduler \in Pcs
  /\ claimed \in Jobs \cup {NoJob}
  /\ result \in Results \cup {"none"}
  /\ overtaken \in [Jobs -> [Jobs -> Nat]]
  /\ starts \in 0 .. MaxStarts /\ reloads \in 0 .. MaxReloads /\ errors \in 0 .. MaxErrors

-----------------------------------------------------------------------------

\* Variant: a known job is left as it is.
RegisteredOnce(p) ==
  [j \in Jobs |-> IF j \in DOMAIN jobs
                    THEN jobs[j]
                    ELSE [status |-> "pending", next |-> now, failures |-> 0]]

\* Variant: the rows are replaced.
RegisteredAnew(p) ==
  [j \in Jobs |-> [status |-> "pending", failures |-> 0,
                   next |-> IF j \in DOMAIN jobs THEN Min({jobs[j].next, now + p[j]}) ELSE now]]

\* register_jobs: a new job is due at once, a known one an interval from now at the
\* latest.
Registered(p) ==
  [j \in Jobs |-> IF j \in DOMAIN jobs
                    THEN [jobs[j] EXCEPT !.next = Min({@, now + p[j]})]
                    ELSE [status |-> "pending", next |-> now, failures |-> 0]]

NotOvertaken == [j \in Jobs |-> [k \in Jobs |-> 0]]

Init ==
  /\ now = 0
  /\ jobs = << >>
  /\ policy \in Policies
  /\ scheduler = "down" /\ claimed = NoJob /\ result = "none"
  /\ overtaken = NotOvertaken
  /\ starts = 0 /\ reloads = 0 /\ errors = 0

Tick ==
  /\ now < MaxTime
  /\ now' = now + 1
  /\ UNCHANGED <<jobs, policy, scheduler, claimed, result, overtaken, boundVars>>

\* main: configure_maintenance, then the scheduler task is spawned.
Start(p) ==
  /\ scheduler = "down"
  /\ starts < MaxStarts
  /\ starts' = starts + 1
  /\ jobs' = Registered(p)
  /\ policy' = p
  /\ scheduler' = "starting"
  /\ overtaken' = NotOvertaken
  /\ UNCHANGED <<now, claimed, result, reloads, errors>>

\* The process ends at any time; only the table is left.
ProcessEnds ==
  /\ scheduler # "down"
  /\ scheduler' = "down" /\ claimed' = NoJob /\ result' = "none"
  /\ UNCHANGED <<now, jobs, policy, overtaken, boundVars>>

\* replace_configuration: jobs are registered and the policy is swapped.
Reload(p) ==
  /\ scheduler # "down"
  /\ reloads < MaxReloads
  /\ reloads' = reloads + 1
  /\ jobs' = Registered(p)
  /\ policy' = p
  /\ UNCHANGED <<now, scheduler, claimed, result, overtaken, starts, errors>>

\* Variant: the interrupted jobs are left as they are.
StartUnrecovered ==
  /\ scheduler = "starting"
  /\ scheduler' = "idle"
  /\ UNCHANGED <<now, jobs, policy, claimed, result, overtaken, boundVars>>

\* recover_maintenance: a job that was running when the process ended is due now.
RecoverMaintenance ==
  /\ scheduler = "starting"
  /\ jobs' = [j \in Jobs |-> IF j \in Running
                               THEN [jobs[j] EXCEPT !.status = "interrupted", !.next = now]
                               ELSE jobs[j]]
  /\ scheduler' = "idle"
  /\ UNCHANGED <<now, policy, claimed, result, overtaken, boundVars>>

\* The update fails: the scheduler task returns, and so does main.
RecoverFails ==
  /\ scheduler = "starting"
  /\ errors < MaxErrors
  /\ errors' = errors + 1
  /\ scheduler' = "down"
  /\ UNCHANGED <<now, jobs, policy, claimed, result, overtaken, starts, reloads>>

\* A job that is marked as running although no job is performed: its completion could
\* not be stored. It is to be retried.
Marked ==
  [j \in Jobs |-> IF j \in Running
                    THEN [status |-> "error", next |-> now + RetryDelay,
                          failures |-> jobs[j].failures + 1]
                    ELSE jobs[j]]

Due(table) == {j \in Jobs : table[j].next <= now}

\* Variant: the jobs are taken in the order of their ids.
FirstId(table) == {j \in Due(table) : \A k \in Due(table) : j <= k}

\* ORDER BY next_run_ms, id LIMIT 1
FirstDue(table) ==
  {j \in Due(table) :
     \A k \in Due(table) : \/ table[j].next < table[k].next
                           \/ table[j].next = table[k].next /\ j <= k}

\* The claim of run_due_maintenance, when a job is due.
ClaimJob ==
  /\ scheduler = "idle"
  /\ \E j \in FirstDue(Marked) :
      /\ jobs' = [Marked EXCEPT ![j].status = "running"]
      /\ scheduler' = "claimed"
      /\ claimed' = j
      /\ overtaken' = [k \in Jobs |->
                         IF k \in Due(Marked) \ {j}
                           THEN [overtaken[k] EXCEPT ![j] = @ + 1]
                           ELSE [i \in Jobs |-> 0]]
      /\ UNCHANGED <<now, policy, result, boundVars>>

\* No job is due; a job whose completion was lost is marked all the same.
ClaimNothing ==
  /\ scheduler = "idle"
  /\ Due(Marked) = {}
  /\ Running # {}
  /\ jobs' = Marked
  /\ UNCHANGED <<now, policy, scheduler, claimed, result, overtaken, boundVars>>

\* perform_job returns, with more to do or not.
PerformJob ==
  /\ scheduler = "claimed"
  /\ scheduler' = "performed"
  /\ result' \in {"ok", "more"}
  /\ UNCHANGED <<now, jobs, policy, claimed, overtaken, boundVars>>

\* A transaction of the job fails.
PerformFails ==
  /\ scheduler = "claimed"
  /\ errors < MaxErrors
  /\ errors' = errors + 1
  /\ scheduler' = "performed"
  /\ result' = "error"
  /\ UNCHANGED <<now, jobs, policy, claimed, overtaken, starts, reloads>>

Backoff(failures) == RetryDelays[Min({failures, MaxDoublings})]

Delay(j) ==
  CASE result = "ok"    -> policy[j]
    [] result = "more"  -> MoreDelay
    [] result = "error" -> Backoff(jobs[j].failures)

\* The completion of run_due_maintenance: the next run is set by the policy of now.
CompleteJob ==
  LET j == claimed
  IN  /\ scheduler = "performed"
      /\ jobs' = [jobs EXCEPT ![j] =
                    [status   |-> IF result = "error" THEN "error" ELSE "ok",
                     next     |-> now + Delay(j),
                     failures |-> IF result = "error" THEN @.failures + 1 ELSE 0]]
      /\ scheduler' = "idle" /\ claimed' = NoJob /\ result' = "none"
      /\ UNCHANGED <<now, policy, overtaken, boundVars>>

\* Variant: the scheduler's loop ends with the error.
LoopEnds ==
  /\ scheduler = "performed"
  /\ errors < MaxErrors
  /\ errors' = errors + 1
  /\ scheduler' = "ended" /\ claimed' = NoJob /\ result' = "none"
  /\ UNCHANGED <<now, jobs, policy, overtaken, starts, reloads>>

\* The completion cannot be stored; the scheduler goes on.
CompletionFails ==
  /\ scheduler = "performed"
  /\ errors < MaxErrors
  /\ errors' = errors + 1
  /\ scheduler' = "idle" /\ claimed' = NoJob /\ result' = "none"
  /\ UNCHANGED <<now, jobs, policy, overtaken, starts, reloads>>

Next ==
  \/ Tick
  \/ \E p \in Policies : Start(p) \/ Reload(p)
  \/ ProcessEnds
  \/ RecoverMaintenance \/ RecoverFails
  \/ ClaimJob \/ ClaimNothing
  \/ PerformJob \/ PerformFails
  \/ CompleteJob \/ CompletionFails

Spec == Init /\ [][Next]_vars

\* The scheduler's loop goes on: tokio's interval ticks, and its transactions return.
\* No fairness is assumed of time, reloads, crashes, starts and errors.
Fairness ==
  /\ WF_vars(RecoverMaintenance)
  /\ WF_vars(ClaimJob \/ ClaimNothing)
  /\ WF_vars(PerformJob)
  /\ WF_vars(CompleteJob)

FairSpec == Spec /\ Fairness

-----------------------------------------------------------------------------
(* Properties.                                                             *)

\* One job runs at a time, and while the scheduler performs one, the table says so,
\* whatever reloads register meanwhile (the persisted claim of run_due_maintenance).
ClaimIsStored ==
  /\ Cardinality(Running) <= 1
  /\ scheduler \in {"claimed", "performed"} => Running = {claimed}

\* A due job waits for each other job at most once: none is starved by one that always
\* has more to do, always fails or is always registered anew (ORDER BY next_run_ms).
OvertakenOnce == \A j, k \in Jobs : overtaken[j][k] <= 1

\* No job is postponed beyond its interval in the policy in force or the longest retry
\* delay, however many failures, reloads and restarts there were.
NeverPostponed ==
  scheduler # "down" =>
    \A j \in Jobs : jobs[j].next <= now + Max({policy[j], LongestDelay})

\* A due job is performed in the end, if the process goes on.
DueJobsRun ==
  \A j \in Jobs :
    (scheduler # "down" /\ j \notin Running /\ jobs[j].next <= now)
      ~> (scheduler = "down" \/ claimed = j)

\* A job does not stay marked as running: not after a crash, once the process is up
\* again, and not when its completion could not be stored.
ClaimsEnd ==
  \A j \in Jobs : j \in Running ~> (scheduler = "down" \/ j \notin Running)
=============================================================================
