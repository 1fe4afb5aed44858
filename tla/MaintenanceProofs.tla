--------------------------- MODULE MaintenanceProofs ---------------------------
(* The inductive invariant of Maintenance, and what follows from it, for any *)
(* jobs, intervals, retry delays and bounds.                                *)
EXTENDS Maintenance, FiniteSetTheorems, TLAPS

-----------------------------------------------------------------------------
(* Helpers.                                                                *)

LEMMA MinOfTwo ==
  ASSUME NEW a \in Int, NEW b \in Int
  PROVE  /\ Min({a, b}) \in {a, b}
         /\ Min({a, b}) <= a /\ Min({a, b}) <= b
  <1>1. \E x \in {a, b} : \A y \in {a, b} : x <= y
    <2>1. CASE a <= b
      BY <2>1
    <2>2. CASE b <= a
      BY <2>2
    <2>. QED
      BY <2>1, <2>2
  <1>. QED
    BY <1>1 DEF Min

LEMMA MaxOfTwo ==
  ASSUME NEW a \in Int, NEW b \in Int
  PROVE  /\ Max({a, b}) \in {a, b}
         /\ Max({a, b}) >= a /\ Max({a, b}) >= b
  <1>1. \E x \in {a, b} : \A y \in {a, b} : x >= y
    <2>1. CASE a <= b
      BY <2>1
    <2>2. CASE b <= a
      BY <2>2
    <2>. QED
      BY <2>1, <2>2
  <1>. QED
    BY <1>1 DEF Max

-----------------------------------------------------------------------------
(* The inductive invariant.                                                *)

\* The types of all but the table.
ControlType ==
  /\ now \in 0 .. MaxTime
  /\ policy \in Policies
  /\ scheduler \in Pcs
  /\ claimed \in Jobs \cup {NoJob}
  /\ result \in Results \cup {"none"}
  /\ overtaken \in [Jobs -> [Jobs -> Nat]]
  /\ starts \in 0 .. MaxStarts /\ reloads \in 0 .. MaxReloads /\ errors \in 0 .. MaxErrors

\* Once a process has started, every job has a row.
TableType ==
  /\ jobs = << >> \/ jobs \in [Jobs -> Row]
  /\ scheduler # "down" => jobs \in [Jobs -> Row]

\* At most one row is marked as running, and it is the scheduler's while it performs a job.
ClaimPart ==
  /\ \A j, k \in Running : j = k
  /\ scheduler \in {"claimed", "performed"} =>
       /\ claimed \in Jobs
       /\ jobs[claimed].status = "running"
  /\ scheduler = "performed" => result \in Results

\* Each failure that is counted, or is going to be, had an error of its own.
FailurePart ==
  /\ \A j \in DOMAIN jobs : jobs[j].failures <= errors
  /\ scheduler = "idle" => \A j \in Running : jobs[j].failures < errors
  /\ scheduler = "performed" /\ result = "error" => jobs[claimed].failures < errors

\* NeverPostponed, without a maximum.
SoonPart ==
  scheduler # "down" =>
    \A j \in Jobs : \/ jobs[j].next <= now + policy[j]
                    \/ jobs[j].next <= now + LongestDelay

\* A job k that was claimed while j was due is not taken again before j: it is running
\* or its next run is later.
OvertakenPart ==
  /\ \A j, k \in Jobs : overtaken[j][k] \in {0, 1}
  /\ scheduler = "starting" => \A j, k \in Jobs : overtaken[j][k] = 0
  /\ scheduler \in {"idle", "claimed", "performed"} =>
       \A j, k \in Jobs :
         overtaken[j][k] = 1 =>
           /\ j # k /\ jobs[j].status # "running" /\ jobs[j].next <= now
           /\ jobs[k].status = "running" \/ jobs[k].next > jobs[j].next

MaintenanceInv ==
  ControlType /\ TableType /\ ClaimPart /\ FailurePart /\ SoonPart /\ OvertakenPart

-----------------------------------------------------------------------------
(* What the helpers return.                                                *)

LEMMA PolicyType ==
  ASSUME NEW p \in Policies, NEW j \in Jobs
  PROVE  p[j] \in Nat /\ p[j] >= MoreDelay /\ p[j] >= 1
  BY MaintenanceAssumption

LEMMA Constants ==
  /\ MoreDelay \in Nat /\ MoreDelay >= 1
  /\ RetryDelay \in Nat /\ RetryDelay >= 1
  /\ LongestDelay \in Nat /\ RetryDelay <= LongestDelay
  /\ MaxTime \in Nat /\ MaxStarts \in Nat /\ MaxReloads \in Nat /\ MaxErrors \in Nat
  /\ Jobs \subseteq Nat /\ NoJob \notin Jobs
  BY MaintenanceAssumption DEF NoJob

\* Registering makes a row for every job and postpones none.
LEMMA RegisteredRows ==
  ASSUME NEW p \in Policies, now \in Nat, jobs = << >> \/ jobs \in [Jobs -> Row]
  PROVE  /\ Registered(p) \in [Jobs -> Row]
         /\ \A j \in Jobs :
              /\ Registered(p)[j].next <= now + p[j]
              /\ j \in DOMAIN jobs =>
                   /\ Registered(p)[j].status = jobs[j].status
                   /\ Registered(p)[j].failures = jobs[j].failures
                   /\ Registered(p)[j].next \in {jobs[j].next, now + p[j]}
                   /\ Registered(p)[j].next <= jobs[j].next
              /\ j \notin DOMAIN jobs =>
                   /\ Registered(p)[j].status = "pending"
                   /\ Registered(p)[j].failures = 0
  <1>. DEFINE New == [status |-> "pending", next |-> now, failures |-> 0]
              Sooner(j) == [jobs[j] EXCEPT !.next = Min({@, now + p[j]})]
  <1>1. ASSUME NEW j \in Jobs
        PROVE  New \in Row /\ New.next <= now + p[j]
    BY PolicyType DEF Row
  <1>2. ASSUME NEW j \in Jobs, j \in DOMAIN jobs
        PROVE  /\ Sooner(j) \in Row
               /\ Sooner(j).status = jobs[j].status /\ Sooner(j).failures = jobs[j].failures
               /\ Sooner(j).next \in {jobs[j].next, now + p[j]}
               /\ Sooner(j).next <= jobs[j].next /\ Sooner(j).next <= now + p[j]
    <2>1. jobs[j] \in Row
      <3>1. CASE jobs = << >>
        BY <3>1, <1>2
      <3>2. CASE jobs \in [Jobs -> Row]
        BY <3>2
      <3>. QED
        BY <3>1, <3>2
    <2>2. p[j] \in Nat
      BY PolicyType
    <2>3. jobs[j].next \in Int /\ now + p[j] \in Int
      BY <2>1, <2>2 DEF Row
    <2>4. /\ Min({jobs[j].next, now + p[j]}) \in {jobs[j].next, now + p[j]}
          /\ Min({jobs[j].next, now + p[j]}) <= jobs[j].next
          /\ Min({jobs[j].next, now + p[j]}) <= now + p[j]
      BY <2>3, MinOfTwo
    <2>. HIDE DEF Min
    <2>. QED
      BY <2>1, <2>2, <2>4 DEF Row
  <1>3. Registered(p) = [j \in Jobs |-> IF j \in DOMAIN jobs THEN Sooner(j) ELSE New]
    BY DEF Registered
  <1>. HIDE DEF Sooner
  <1>4. \A j \in Jobs : Registered(p)[j] = IF j \in DOMAIN jobs THEN Sooner(j) ELSE New
    BY <1>3
  <1>5. Registered(p) \in [Jobs -> Row]
    BY <1>1, <1>2, <1>3
  <1>. QED
    BY <1>1, <1>2, <1>4, <1>5

\* Marking ends every running row's run and leaves the others alone.
LEMMA MarkedRows ==
  ASSUME now \in Nat, jobs \in [Jobs -> Row]
  PROVE  /\ Marked \in [Jobs -> Row]
         /\ \A j \in Jobs :
              /\ jobs[j].status = "running" =>
                   /\ Marked[j].status = "error"
                   /\ Marked[j].next = now + RetryDelay
                   /\ Marked[j].failures = jobs[j].failures + 1
              /\ jobs[j].status # "running" => Marked[j] = jobs[j]
              /\ Marked[j].status # "running"
  BY Constants DEF Marked, Running, Row

\* A delay is positive, and bounded by the policy or by the longest retry delay.
LEMMA DelayBounds ==
  ASSUME NEW j \in Jobs, policy \in Policies, result \in Results, jobs[j] \in Row
  PROVE  /\ Delay(j) \in Nat /\ Delay(j) >= 1
         /\ Delay(j) <= policy[j] \/ Delay(j) <= LongestDelay
  <1>1. CASE result = "ok"
    BY <1>1, PolicyType DEF Delay
  <1>2. CASE result = "more"
    BY <1>2, PolicyType, Constants DEF Delay
  <1>3. CASE result = "error"
    <2>1. jobs[j].failures \in Nat
      BY DEF Row
    <2>2. Min({jobs[j].failures, MaxDoublings}) \in 0 .. MaxDoublings
      <3>1. MaxDoublings \in Nat
        BY MaintenanceAssumption
      <3>2. jobs[j].failures \in Int /\ MaxDoublings \in Int
        BY <2>1, <3>1
      <3>3. /\ Min({jobs[j].failures, MaxDoublings}) \in {jobs[j].failures, MaxDoublings}
            /\ Min({jobs[j].failures, MaxDoublings}) <= MaxDoublings
        BY <3>2, MinOfTwo
      <3>. HIDE DEF Min
      <3>. QED
        BY <2>1, <3>1, <3>3
    <2>3. Backoff(jobs[j].failures) \in 1 .. LongestDelay
      BY <2>2, MaintenanceAssumption DEF Backoff
    <2>. QED
      BY <1>3, <2>3, Constants DEF Delay
  <1>. QED
    BY <1>1, <1>2, <1>3 DEF Results

-----------------------------------------------------------------------------
(* The invariant is inductive.                                             *)

LEMMA InitiallyMaintained == Init => MaintenanceInv
  <1>. SUFFICES ASSUME Init PROVE MaintenanceInv
    OBVIOUS
  <1>. USE DEF Init
  <1>1. ControlType
    BY Constants DEF ControlType, Pcs, NotOvertaken
  <1>2. TableType /\ SoonPart
    BY DEF TableType, SoonPart
  <1>3. Running = {} /\ DOMAIN jobs = {}
    BY DEF Running
  <1>4. ClaimPart /\ FailurePart
    BY <1>3 DEF ClaimPart, FailurePart
  <1>5. OvertakenPart
    BY DEF OvertakenPart, NotOvertaken
  <1>. QED
    BY <1>1, <1>2, <1>4, <1>5 DEF MaintenanceInv

\* What the steps below start from.
LEMMA Basics ==
  ASSUME MaintenanceInv
  PROVE  /\ now \in Nat /\ errors \in Nat
         /\ jobs = << >> \/ jobs \in [Jobs -> Row]
         /\ Running = {j \in DOMAIN jobs : jobs[j].status = "running"}
         /\ scheduler # "down" => jobs \in [Jobs -> Row] /\ DOMAIN jobs = Jobs
         /\ \A j \in DOMAIN jobs : jobs[j] \in Row /\ j \in Jobs
  <1>1. now \in Nat /\ errors \in Nat
    BY Constants DEF MaintenanceInv, ControlType
  <1>2. \A j \in DOMAIN jobs : jobs[j] \in Row /\ j \in Jobs
    <2>1. CASE jobs = << >>
      BY <2>1
    <2>2. CASE jobs \in [Jobs -> Row]
      BY <2>2
    <2>. QED
      BY <2>1, <2>2 DEF MaintenanceInv, TableType
  <1>. QED
    BY <1>1, <1>2 DEF MaintenanceInv, TableType, Running

LEMMA StutterMaintained ==
  MaintenanceInv /\ UNCHANGED vars => MaintenanceInv'
  BY DEF vars, boundVars, MaintenanceInv, ControlType, TableType, ClaimPart, FailurePart,
         SoonPart, OvertakenPart, Running

LEMMA TickMaintained ==
  ASSUME MaintenanceInv, Tick
  PROVE  MaintenanceInv'
  <1>. USE DEF Tick, boundVars
  <1>1. ControlType' /\ TableType' /\ ClaimPart' /\ FailurePart'
    BY Constants DEF MaintenanceInv, ControlType, TableType, ClaimPart, FailurePart, Running
  <1>2. now' = now + 1 /\ now \in Nat /\ \A j \in DOMAIN jobs : jobs[j].next \in Int
    BY Basics DEF Row
  <1>3. SoonPart'
    <2>. SUFFICES ASSUME scheduler # "down", NEW j \in Jobs
                  PROVE  \/ jobs[j].next <= now' + policy[j]
                         \/ jobs[j].next <= now' + LongestDelay
      BY DEF SoonPart
    <2>1. \/ jobs[j].next <= now + policy[j]
          \/ jobs[j].next <= now + LongestDelay
      BY DEF MaintenanceInv, SoonPart
    <2>2. policy[j] \in Nat /\ LongestDelay \in Nat
      BY PolicyType, Constants DEF MaintenanceInv, ControlType
    <2>3. j \in DOMAIN jobs
      BY Basics
    <2>. QED
      BY <1>2, <2>1, <2>2, <2>3
  <1>4. OvertakenPart'
    <2>1. scheduler # "down" => \A j \in Jobs : jobs[j].next <= now => jobs[j].next <= now'
      BY <1>2, Basics
    <2>. QED
      BY <2>1 DEF MaintenanceInv, OvertakenPart, ControlType, Pcs
  <1>. QED
    BY <1>1, <1>3, <1>4 DEF MaintenanceInv

LEMMA StartMaintained ==
  ASSUME MaintenanceInv, NEW p \in Policies, Start(p)
  PROVE  MaintenanceInv'
  <1>. USE DEF Start, boundVars
  <1>1. now \in Nat /\ (jobs = << >> \/ jobs \in [Jobs -> Row])
    BY Basics
  <1>2. /\ jobs' \in [Jobs -> Row]
        /\ \A j \in Jobs :
             /\ jobs'[j].next <= now + p[j]
             /\ j \in DOMAIN jobs => /\ jobs'[j].status = jobs[j].status
                                    /\ jobs'[j].failures = jobs[j].failures
             /\ j \notin DOMAIN jobs => /\ jobs'[j].status = "pending"
                                       /\ jobs'[j].failures = 0
    BY <1>1, RegisteredRows
  <1>3. DOMAIN jobs' = Jobs
    BY <1>2
  <1>4. ControlType'
    BY Constants DEF MaintenanceInv, ControlType, Pcs, NotOvertaken
  <1>5. TableType'
    BY <1>2 DEF TableType
  <1>6. Running' = Running
    <2>1. \A j \in Jobs : jobs'[j].status = "running" <=> j \in Running
      BY <1>2 DEF Running
    <2>. QED
      BY <1>3, <2>1, Basics DEF Running
  <1>7. ClaimPart'
    BY <1>6 DEF MaintenanceInv, ClaimPart
  <1>8. FailurePart'
    BY <1>2, <1>3, Basics DEF MaintenanceInv, FailurePart
  <1>9. SoonPart'
    BY <1>2 DEF SoonPart
  <1>10. OvertakenPart'
    BY DEF OvertakenPart, NotOvertaken
  <1>. QED
    BY <1>4, <1>5, <1>7, <1>8, <1>9, <1>10 DEF MaintenanceInv

LEMMA ReloadMaintained ==
  ASSUME MaintenanceInv, NEW p \in Policies, Reload(p)
  PROVE  MaintenanceInv'
  <1>. USE DEF Reload, boundVars
  <1>1. now \in Nat /\ jobs \in [Jobs -> Row] /\ DOMAIN jobs = Jobs
    BY Basics
  <1>2. /\ jobs' \in [Jobs -> Row]
        /\ \A j \in Jobs :
             /\ jobs'[j].next <= now + p[j]
             /\ jobs'[j].next \in {jobs[j].next, now + p[j]}
             /\ jobs'[j].next <= jobs[j].next
             /\ jobs'[j].status = jobs[j].status
             /\ jobs'[j].failures = jobs[j].failures
    BY <1>1, RegisteredRows
  <1>3. DOMAIN jobs' = Jobs /\ Running' = Running
    BY <1>1, <1>2 DEF Running
  <1>4. ControlType' /\ TableType'
    BY <1>2, Constants DEF MaintenanceInv, ControlType, TableType
  <1>5. ClaimPart'
    BY <1>2, <1>3 DEF MaintenanceInv, ClaimPart
  <1>6. FailurePart'
    <2>1. scheduler = "performed" => jobs'[claimed].failures = jobs[claimed].failures
      BY <1>2 DEF MaintenanceInv, ClaimPart
    <2>2. \A j \in DOMAIN jobs' : jobs'[j].failures = jobs[j].failures
      BY <1>2, <1>3
    <2>. QED
      BY <1>1, <1>3, <2>1, <2>2 DEF MaintenanceInv, FailurePart, Running
  <1>7. SoonPart'
    BY <1>2 DEF SoonPart
  <1>8. OvertakenPart'
    <2>1. ASSUME NEW j \in Jobs, NEW k \in Jobs, jobs[j].next <= now
          PROVE  /\ jobs'[j].next <= now
                 /\ jobs[k].next > jobs[j].next => jobs'[k].next > jobs'[j].next
      <3>1. jobs[j].next \in Nat /\ jobs[k].next \in Nat
        BY <1>1 DEF Row
      <3>2. p[j] \in Nat /\ p[j] >= 1 /\ p[k] \in Nat /\ p[k] >= 1
        BY PolicyType
      <3>3. jobs'[j].next = jobs[j].next
        BY <1>1, <1>2, <2>1, <3>1, <3>2
      <3>. QED
        BY <1>1, <1>2, <2>1, <3>1, <3>2, <3>3
    <2>. QED
      BY <1>2, <2>1 DEF MaintenanceInv, OvertakenPart
  <1>. QED
    BY <1>4, <1>5, <1>6, <1>7, <1>8 DEF MaintenanceInv

LEMMA EndMaintained ==
  ASSUME MaintenanceInv, ProcessEnds \/ RecoverFails
  PROVE  MaintenanceInv'
  <1>. USE DEF ProcessEnds, RecoverFails, boundVars
  <1>1. scheduler' = "down" /\ jobs' = jobs /\ overtaken' = overtaken
    OBVIOUS
  <1>2. ControlType'
    BY Constants DEF MaintenanceInv, ControlType, Pcs
  <1>3. TableType' /\ ClaimPart' /\ SoonPart' /\ OvertakenPart'
    BY <1>1 DEF MaintenanceInv, TableType, ClaimPart, SoonPart, OvertakenPart, Running
  <1>4. errors' \in Nat /\ errors <= errors'
    BY Basics
  <1>5. FailurePart'
    BY <1>1, <1>4, Basics DEF MaintenanceInv, FailurePart, Row
  <1>. QED
    BY <1>2, <1>3, <1>5 DEF MaintenanceInv

LEMMA RecoverMaintained ==
  ASSUME MaintenanceInv, RecoverMaintenance
  PROVE  MaintenanceInv'
  <1>0. /\ scheduler = "starting" /\ scheduler' = "idle"
        /\ UNCHANGED <<now, policy, claimed, result, overtaken, boundVars>>
    BY DEF RecoverMaintenance
  <1>1. now \in Nat /\ jobs \in [Jobs -> Row] /\ DOMAIN jobs = Jobs
    BY <1>0, Basics
  <1>2. /\ jobs' \in [Jobs -> Row]
        /\ \A j \in Jobs :
             /\ jobs'[j].failures = jobs[j].failures
             /\ jobs'[j].next = now \/ jobs'[j].next = jobs[j].next
             /\ jobs'[j].status # "running"
    BY <1>1 DEF Running, Row, RecoverMaintenance
  <1>3. DOMAIN jobs' = Jobs /\ Running' = {}
    BY <1>2 DEF Running
  <1>4. ControlType' /\ TableType'
    BY <1>0, <1>2 DEF MaintenanceInv, ControlType, TableType, Pcs, boundVars
  <1>5. ClaimPart'
    BY <1>0, <1>3 DEF ClaimPart
  <1>6. FailurePart'
    BY <1>0, <1>1, <1>2, <1>3 DEF MaintenanceInv, FailurePart, boundVars
  <1>7. SoonPart'
    <2>. SUFFICES ASSUME NEW j \in Jobs
                  PROVE  \/ jobs'[j].next <= now + policy[j]
                         \/ jobs'[j].next <= now + LongestDelay
      BY <1>0 DEF SoonPart
    <2>1. policy[j] \in Nat /\ LongestDelay \in Nat
      BY PolicyType, Constants DEF MaintenanceInv, ControlType
    <2>2. \/ jobs[j].next <= now + policy[j]
          \/ jobs[j].next <= now + LongestDelay
      BY <1>0 DEF MaintenanceInv, SoonPart
    <2>. QED
      BY <1>1, <1>2, <2>1, <2>2
  <1>8. OvertakenPart'
    <2>1. \A j, k \in Jobs : overtaken'[j][k] = 0
      BY <1>0 DEF MaintenanceInv, OvertakenPart
    <2>. QED
      BY <1>0, <2>1 DEF OvertakenPart
  <1>. QED
    BY <1>4, <1>5, <1>6, <1>7, <1>8 DEF MaintenanceInv

\* What marking gives to a claim, or to finding no job due.
LEMMA MarkingMaintains ==
  ASSUME MaintenanceInv, scheduler = "idle"
  PROVE  /\ Marked \in [Jobs -> Row]
         /\ \A j \in Jobs :
              /\ Marked[j].status # "running"
              /\ Marked[j].failures <= errors
              /\ \/ Marked[j].next <= now + policy[j]
                 \/ Marked[j].next <= now + LongestDelay
         /\ \A j, k \in Jobs :
              overtaken[j][k] = 1 =>
                /\ j # k /\ Marked[j].next <= now
                /\ Marked[k].next > Marked[j].next
  <1>1. /\ now \in Nat /\ errors \in Nat
        /\ jobs \in [Jobs -> Row] /\ DOMAIN jobs = Jobs
    BY Basics
  <1>2. /\ Marked \in [Jobs -> Row]
        /\ \A j \in Jobs :
             /\ jobs[j].status = "running" =>
                  /\ Marked[j].next = now + RetryDelay
                  /\ Marked[j].failures = jobs[j].failures + 1
             /\ jobs[j].status # "running" => Marked[j] = jobs[j]
             /\ Marked[j].status # "running"
    BY <1>1, MarkedRows
  <1>3. ASSUME NEW j \in Jobs
        PROVE  /\ Marked[j].failures <= errors
               /\ \/ Marked[j].next <= now + policy[j]
                  \/ Marked[j].next <= now + LongestDelay
    <2>1. jobs[j].failures \in Nat /\ jobs[j].next \in Nat
      BY <1>1 DEF Row
    <2>2. /\ jobs[j].failures <= errors
          /\ jobs[j].status = "running" => jobs[j].failures < errors
          /\ jobs[j].next <= now + policy[j] \/ jobs[j].next <= now + LongestDelay
      BY <1>1 DEF MaintenanceInv, FailurePart, SoonPart, Running
    <2>. QED
      BY <1>1, <1>2, <2>1, <2>2, Constants
  <1>4. ASSUME NEW j \in Jobs, NEW k \in Jobs, overtaken[j][k] = 1
        PROVE  j # k /\ Marked[j].next <= now /\ Marked[k].next > Marked[j].next
    <2>1. /\ j # k /\ jobs[j].status # "running" /\ jobs[j].next <= now
          /\ jobs[k].status = "running" \/ jobs[k].next > jobs[j].next
      BY <1>4 DEF MaintenanceInv, OvertakenPart
    <2>2. jobs[j].next \in Nat /\ jobs[k].next \in Nat
      BY <1>1 DEF Row
    <2>. QED
      BY <1>1, <1>2, <2>1, <2>2, Constants
  <1>. QED
    BY <1>2, <1>3, <1>4

LEMMA ClaimJobMaintained ==
  ASSUME MaintenanceInv, ClaimJob
  PROVE  MaintenanceInv'
  <1>1. scheduler = "idle"
    BY DEF ClaimJob
  <1>2. PICK c \in FirstDue(Marked) :
          /\ jobs' = [Marked EXCEPT ![c].status = "running"]
          /\ scheduler' = "claimed" /\ claimed' = c
          /\ overtaken' = [k \in Jobs |->
                             IF k \in Due(Marked) \ {c}
                               THEN [overtaken[k] EXCEPT ![c] = @ + 1]
                               ELSE [i \in Jobs |-> 0]]
          /\ UNCHANGED <<now, policy, result, boundVars>>
    BY DEF ClaimJob
  <1>3. /\ Marked \in [Jobs -> Row]
        /\ \A j \in Jobs :
             /\ Marked[j].status # "running"
             /\ Marked[j].failures <= errors
             /\ \/ Marked[j].next <= now + policy[j]
                \/ Marked[j].next <= now + LongestDelay
        /\ \A j, k \in Jobs :
             overtaken[j][k] = 1 =>
               j # k /\ Marked[j].next <= now /\ Marked[k].next > Marked[j].next
    BY <1>1, MarkingMaintains
  <1>4. c \in Jobs /\ c \in Due(Marked)
    BY <1>2 DEF FirstDue, Due
  <1>5. /\ jobs' \in [Jobs -> Row] /\ DOMAIN jobs' = Jobs
        /\ \A j \in Jobs :
             /\ jobs'[j].status = "running" <=> j = c
             /\ jobs'[j].next = Marked[j].next
             /\ jobs'[j].failures = Marked[j].failures
    BY <1>2, <1>3, <1>4 DEF Row
  <1>6. ASSUME NEW j \in Jobs, overtaken[j][c] = 1
        PROVE  j \notin Due(Marked)
    <2>1. Marked[c].next > Marked[j].next /\ j # c
      BY <1>3, <1>4, <1>6
    <2>2. Marked[c].next \in Nat /\ Marked[j].next \in Nat
      BY <1>3, <1>4 DEF Row
    <2>. QED
      BY <1>2, <2>1, <2>2 DEF FirstDue
  <1>7. ASSUME NEW j \in Jobs, NEW k \in Jobs
        PROVE  /\ overtaken'[j][k] \in {0, 1}
               /\ overtaken'[j][k] = 1 =>
                    /\ j # c /\ j \in Due(Marked)
                    /\ k = c \/ overtaken[j][k] = 1
    <2>1. overtaken \in [Jobs -> [Jobs -> Nat]] /\ overtaken[j][k] \in {0, 1}
          /\ overtaken[j][c] \in {0, 1}
      BY <1>4 DEF MaintenanceInv, ControlType, OvertakenPart
    <2>2. CASE j \in Due(Marked) \ {c}
      <3>1. overtaken[j][c] = 0
        BY <1>6, <2>1, <2>2
      <3>2. overtaken'[j] = [overtaken[j] EXCEPT ![c] = @ + 1]
        BY <1>2, <2>2
      <3>3. overtaken'[j][k] = IF k = c THEN 1 ELSE overtaken[j][k]
        BY <2>1, <3>1, <3>2, <1>4
      <3>. QED
        BY <2>1, <2>2, <3>3
    <2>3. CASE j \notin Due(Marked) \ {c}
      BY <1>2, <2>3
    <2>. QED
      BY <2>2, <2>3
  <1>8. ControlType'
    <2>1. overtaken' \in [Jobs -> [Jobs -> Nat]]
      BY <1>2, <1>4 DEF MaintenanceInv, ControlType
    <2>. QED
      BY <1>2, <1>4, <2>1 DEF MaintenanceInv, ControlType, Pcs, boundVars
  <1>9. TableType'
    BY <1>5 DEF TableType
  <1>10. Running' = {c}
    BY <1>4, <1>5 DEF Running
  <1>11. ClaimPart'
    BY <1>2, <1>4, <1>5, <1>10 DEF ClaimPart
  <1>12. FailurePart'
    BY <1>2, <1>3, <1>5 DEF FailurePart, boundVars
  <1>13. SoonPart'
    BY <1>2, <1>3, <1>5 DEF SoonPart
  <1>14. OvertakenPart'
    <2>1. ASSUME NEW j \in Jobs, NEW k \in Jobs, overtaken'[j][k] = 1
          PROVE  /\ j # k /\ jobs'[j].status # "running" /\ jobs'[j].next <= now
                 /\ jobs'[k].status = "running" \/ jobs'[k].next > jobs'[j].next
      <3>1. j # c /\ Marked[j].next <= now /\ (k = c \/ overtaken[j][k] = 1)
        BY <1>7, <2>1 DEF Due
      <3>. QED
        BY <1>3, <1>5, <3>1
    <2>. QED
      BY <1>2, <1>7, <2>1 DEF OvertakenPart
  <1>. QED
    BY <1>8, <1>9, <1>11, <1>12, <1>13, <1>14 DEF MaintenanceInv

LEMMA ClaimNothingMaintained ==
  ASSUME MaintenanceInv, ClaimNothing
  PROVE  MaintenanceInv'
  <1>1. /\ scheduler = "idle" /\ Due(Marked) = {} /\ jobs' = Marked
        /\ UNCHANGED <<now, policy, scheduler, claimed, result, overtaken, boundVars>>
    BY DEF ClaimNothing
  <1>2. /\ Marked \in [Jobs -> Row]
        /\ \A j \in Jobs :
             /\ Marked[j].status # "running"
             /\ Marked[j].failures <= errors
             /\ \/ Marked[j].next <= now + policy[j]
                \/ Marked[j].next <= now + LongestDelay
        /\ \A j, k \in Jobs : overtaken[j][k] = 1 => Marked[j].next <= now
    BY <1>1, MarkingMaintains
  <1>3. DOMAIN jobs' = Jobs /\ Running' = {}
    BY <1>1, <1>2 DEF Running
  <1>4. \A j, k \in Jobs : overtaken'[j][k] = 0
    BY <1>1, <1>2 DEF Due, MaintenanceInv, OvertakenPart
  <1>5. ControlType' /\ TableType'
    BY <1>1, <1>2 DEF MaintenanceInv, ControlType, TableType, boundVars
  <1>6. ClaimPart' /\ FailurePart'
    BY <1>1, <1>2, <1>3 DEF ClaimPart, FailurePart, boundVars
  <1>7. SoonPart'
    BY <1>1, <1>2 DEF SoonPart
  <1>8. OvertakenPart'
    BY <1>4 DEF OvertakenPart
  <1>. QED
    BY <1>5, <1>6, <1>7, <1>8 DEF MaintenanceInv

LEMMA PerformMaintained ==
  ASSUME MaintenanceInv, PerformJob \/ PerformFails
  PROVE  MaintenanceInv'
  <1>1. /\ scheduler = "claimed" /\ scheduler' = "performed"
        /\ \/ result' \in {"ok", "more"} /\ errors' = errors
           \/ result' = "error" /\ errors < MaxErrors /\ errors' = errors + 1
        /\ UNCHANGED <<now, jobs, policy, claimed, overtaken, starts, reloads>>
    BY DEF PerformJob, PerformFails, boundVars
  <1>2. /\ errors \in Nat /\ errors' \in Nat /\ errors <= errors'
        /\ \A j \in DOMAIN jobs : jobs[j].failures \in Nat
    BY <1>1, Basics DEF Row
  <1>3. claimed \in DOMAIN jobs
    BY <1>1, Basics DEF MaintenanceInv, ClaimPart
  <1>4. ControlType'
    BY <1>1, <1>2, Constants DEF MaintenanceInv, ControlType, Pcs, Results
  <1>5. TableType' /\ ClaimPart'
    BY <1>1 DEF MaintenanceInv, TableType, ClaimPart, Running, Results
  <1>6. FailurePart'
    BY <1>1, <1>2, <1>3 DEF MaintenanceInv, FailurePart
  <1>7. SoonPart' /\ OvertakenPart'
    BY <1>1 DEF MaintenanceInv, SoonPart, OvertakenPart
  <1>. QED
    BY <1>4, <1>5, <1>6, <1>7 DEF MaintenanceInv

LEMMA CompletionFailsMaintained ==
  ASSUME MaintenanceInv, CompletionFails
  PROVE  MaintenanceInv'
  <1>1. /\ scheduler = "performed" /\ scheduler' = "idle"
        /\ claimed' = NoJob /\ result' = "none"
        /\ errors < MaxErrors /\ errors' = errors + 1
        /\ UNCHANGED <<now, jobs, policy, overtaken, starts, reloads>>
    BY DEF CompletionFails
  <1>2. /\ errors \in Nat
        /\ \A j \in DOMAIN jobs : jobs[j].failures \in Nat /\ jobs[j].failures <= errors
    BY Basics DEF Row, MaintenanceInv, FailurePart
  <1>3. ControlType'
    BY <1>1, <1>2, Constants DEF MaintenanceInv, ControlType, Pcs
  <1>4. TableType' /\ ClaimPart' /\ SoonPart' /\ OvertakenPart'
    BY <1>1 DEF MaintenanceInv, TableType, ClaimPart, SoonPart, OvertakenPart, Running
  <1>5. FailurePart'
    BY <1>1, <1>2 DEF FailurePart, Running
  <1>. QED
    BY <1>3, <1>4, <1>5 DEF MaintenanceInv

LEMMA CompleteMaintained ==
  ASSUME MaintenanceInv, CompleteJob
  PROVE  MaintenanceInv'
  <1>. DEFINE Done == [status   |-> IF result = "error" THEN "error" ELSE "ok",
                       next     |-> now + Delay(claimed),
                       failures |-> IF result = "error"
                                      THEN jobs[claimed].failures + 1 ELSE 0]
  <1>1. /\ scheduler = "performed" /\ scheduler' = "idle"
        /\ claimed' = NoJob /\ result' = "none"
        /\ jobs' = [jobs EXCEPT ![claimed] = Done]
        /\ UNCHANGED <<now, policy, overtaken, boundVars>>
    BY DEF CompleteJob
  <1>2. /\ now \in Nat /\ errors \in Nat /\ jobs \in [Jobs -> Row] /\ DOMAIN jobs = Jobs
        /\ claimed \in Jobs /\ policy \in Policies /\ result \in Results
        /\ jobs[claimed].status = "running"
    BY <1>1, Basics DEF MaintenanceInv, ClaimPart, ControlType
  <1>3. jobs[claimed] \in Row
    BY <1>2
  <1>4. /\ Delay(claimed) \in Nat /\ Delay(claimed) >= 1
        /\ Delay(claimed) <= policy[claimed] \/ Delay(claimed) <= LongestDelay
    BY <1>2, <1>3, DelayBounds
  <1>5. Done \in Row /\ Done.status # "running" /\ Done.next = now + Delay(claimed)
        /\ Done.failures <= errors
    <2>1. /\ jobs[claimed].failures \in Nat
          /\ result = "error" => jobs[claimed].failures < errors
      BY <1>1, <1>3 DEF Row, MaintenanceInv, FailurePart
    <2>. QED
      BY <1>2, <1>4, <2>1 DEF Row
  <1>. HIDE DEF Done
  <1>6. /\ jobs' \in [Jobs -> Row] /\ DOMAIN jobs' = Jobs
        /\ jobs'[claimed] = Done
        /\ \A j \in Jobs \ {claimed} : jobs'[j] = jobs[j] /\ jobs[j].status # "running"
    <2>1. \A j \in Jobs \ {claimed} : j \notin Running
      BY <1>2 DEF MaintenanceInv, ClaimPart, Running
    <2>. QED
      BY <1>1, <1>2, <1>5, <2>1 DEF Running
  <1>7. Running' = {}
    BY <1>2, <1>5, <1>6 DEF Running
  <1>8. ControlType' /\ TableType'
    BY <1>1, <1>6 DEF MaintenanceInv, ControlType, TableType, Pcs, boundVars
  <1>9. ClaimPart'
    BY <1>1, <1>7 DEF ClaimPart
  <1>10. FailurePart'
    <2>1. \A j \in Jobs : jobs[j].failures <= errors
      BY <1>2 DEF MaintenanceInv, FailurePart
    <2>2. \A j \in Jobs : jobs'[j].failures <= errors
      BY <1>5, <1>6, <2>1
    <2>. QED
      BY <1>1, <1>6, <1>7, <2>2 DEF FailurePart, boundVars
  <1>11. SoonPart'
    <2>. SUFFICES ASSUME NEW j \in Jobs
                  PROVE  \/ jobs'[j].next <= now + policy[j]
                         \/ jobs'[j].next <= now + LongestDelay
      BY <1>1 DEF SoonPart
    <2>1. CASE j = claimed
      <3>1. policy[j] \in Nat /\ LongestDelay \in Nat
        BY <1>2, PolicyType, Constants
      <3>. QED
        BY <1>2, <1>4, <1>5, <1>6, <2>1, <3>1
    <2>2. CASE j # claimed
      BY <1>1, <1>6, <2>2 DEF MaintenanceInv, SoonPart
    <2>. QED
      BY <2>1, <2>2
  <1>12. OvertakenPart'
    <2>1. ASSUME NEW j \in Jobs, NEW k \in Jobs, overtaken[j][k] = 1
          PROVE  /\ j # k /\ jobs'[j].status # "running" /\ jobs'[j].next <= now
                 /\ jobs'[k].status = "running" \/ jobs'[k].next > jobs'[j].next
      <3>1. /\ j # k /\ jobs[j].status # "running" /\ jobs[j].next <= now
            /\ jobs[k].status = "running" \/ jobs[k].next > jobs[j].next
        BY <1>1, <2>1 DEF MaintenanceInv, OvertakenPart
      <3>2. jobs'[j] = jobs[j] /\ jobs[j].next \in Nat
        BY <1>2, <1>6, <3>1 DEF Row
      <3>3. CASE k = claimed
        BY <1>2, <1>4, <1>5, <1>6, <3>1, <3>2, <3>3
      <3>4. CASE k # claimed
        BY <1>6, <3>1, <3>2, <3>4
      <3>. QED
        BY <3>3, <3>4
    <2>2. \A j, k \in Jobs : overtaken[j][k] \in {0, 1}
      BY DEF MaintenanceInv, OvertakenPart
    <2>. QED
      BY <1>1, <2>1, <2>2 DEF OvertakenPart
  <1>. QED
    BY <1>8, <1>9, <1>10, <1>11, <1>12 DEF MaintenanceInv

\* The inductive invariant holds in every reachable state of Maintenance.
THEOREM MaintenanceInvariant == Spec => []MaintenanceInv
  <1>1. Init => MaintenanceInv
    BY InitiallyMaintained
  <1>2. MaintenanceInv /\ [Next]_vars => MaintenanceInv'
    <2>. SUFFICES ASSUME MaintenanceInv, [Next]_vars PROVE MaintenanceInv'
      OBVIOUS
    <2>. QED
      BY StutterMaintained, TickMaintained, StartMaintained, ReloadMaintained,
         EndMaintained, RecoverMaintained, ClaimJobMaintained, ClaimNothingMaintained,
         PerformMaintained, CompleteMaintained, CompletionFailsMaintained DEF Next
  <1>. QED
    BY <1>1, <1>2, PTL DEF Spec

-----------------------------------------------------------------------------
(* What follows.                                                           *)

\* Every reachable state is well typed, and a job's failures are failed transactions:
\* crashes and reloads do not lengthen the retry delay of run_due_maintenance.
THEOREM MaintenanceTypeCorrect == Spec => []TypeOK
  <1>1. MaintenanceInv => TypeOK
    <2>. SUFFICES ASSUME MaintenanceInv PROVE TypeOK
      OBVIOUS
    <2>1. DOMAIN jobs \in {{}, Jobs}
      BY DEF MaintenanceInv, TableType
    <2>2. \A j \in DOMAIN jobs : jobs[j] \in Row /\ jobs[j].failures <= errors
      BY Basics DEF MaintenanceInv, FailurePart
    <2>. QED
      BY <2>1, <2>2 DEF MaintenanceInv, ControlType, TypeOK
  <1>. QED
    BY <1>1, MaintenanceInvariant, PTL

\* One job at most is marked as running, and it is the one the scheduler performs,
\* whatever reloads register during run_due_maintenance.
THEOREM ClaimCorrect == Spec => []ClaimIsStored
  <1>1. MaintenanceInv => ClaimIsStored
    <2>. SUFFICES ASSUME MaintenanceInv PROVE ClaimIsStored
      OBVIOUS
    <2>1. \A j, k \in Running : j = k
      BY DEF MaintenanceInv, ClaimPart
    <2>2. Cardinality(Running) <= 1
      <3>1. CASE Running = {}
        BY <3>1, FS_EmptySet
      <3>2. CASE Running # {}
        <4>1. PICK j \in Running : TRUE
          BY <3>2
        <4>2. Running = {j}
          BY <2>1, <4>1
        <4>. QED
          BY <4>2, FS_Singleton
      <3>. QED
        BY <3>1, <3>2
    <2>3. scheduler \in {"claimed", "performed"} => Running = {claimed}
      <3>. SUFFICES ASSUME scheduler \in {"claimed", "performed"} PROVE Running = {claimed}
        OBVIOUS
      <3>1. claimed \in Running
        BY Basics DEF MaintenanceInv, ClaimPart
      <3>. QED
        BY <2>1, <3>1
    <2>. QED
      BY <2>2, <2>3 DEF ClaimIsStored
  <1>. QED
    BY <1>1, MaintenanceInvariant, PTL

\* A due job waits for each other job once at most (ORDER BY next_run_ms in
\* run_due_maintenance).
THEOREM NoStarvation == Spec => []OvertakenOnce
  <1>1. MaintenanceInv => OvertakenOnce
    BY DEF MaintenanceInv, OvertakenPart, OvertakenOnce
  <1>. QED
    BY <1>1, MaintenanceInvariant, PTL

\* No failure, reload or restart postpones a job beyond its interval or the longest
\* retry delay (register_jobs and the completion of run_due_maintenance).
THEOREM SoonCorrect == Spec => []NeverPostponed
  <1>1. MaintenanceInv => NeverPostponed
    <2>. SUFFICES ASSUME MaintenanceInv, scheduler # "down", NEW j \in Jobs
                  PROVE  jobs[j].next <= now + Max({policy[j], LongestDelay})
      BY DEF NeverPostponed
    <2>1. policy[j] \in Int /\ LongestDelay \in Int
      BY PolicyType, Constants DEF MaintenanceInv, ControlType
    <2>2. jobs[j].next \in Int /\ now \in Int
      BY Basics DEF Row
    <2>3. jobs[j].next <= now + policy[j] \/ jobs[j].next <= now + LongestDelay
      BY DEF MaintenanceInv, SoonPart
    <2>4. /\ Max({policy[j], LongestDelay}) \in {policy[j], LongestDelay}
          /\ Max({policy[j], LongestDelay}) >= policy[j]
          /\ Max({policy[j], LongestDelay}) >= LongestDelay
      BY <2>1, MaxOfTwo
    <2>. HIDE DEF Max
    <2>. QED
      BY <2>1, <2>2, <2>3, <2>4
  <1>. QED
    BY <1>1, MaintenanceInvariant, PTL
=============================================================================
