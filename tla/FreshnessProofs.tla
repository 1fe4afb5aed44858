---------------------------- MODULE FreshnessProofs ----------------------------
(* Proofs about Freshness, for any checks, configurations, permits and delays: no *)
(* check falls behind, and /readyz says "ready" after the first round.            *)
EXTENDS Freshness, FiniteSetTheorems, WellFoundedInduction, TLAPS

-----------------------------------------------------------------------------
(* Numbers.                                                                *)

LEMMA LargerOfTwo ==
  ASSUME NEW a \in Int, NEW b \in Int
  PROVE  Max({a, b}) = IF a <= b THEN b ELSE a
  <1>1. \E x \in {a, b} : \A y \in {a, b} : x >= y
    <2>1. CASE a <= b
      BY <2>1
    <2>2. CASE b <= a
      BY <2>2
    <2>. QED
      BY <2>1, <2>2
  <1>2. Max({a, b}) \in {a, b} /\ \A y \in {a, b} : Max({a, b}) >= y
    BY <1>1 DEF Max
  <1>. HIDE DEF Max
  <1>. QED
    BY <1>2

LEMMA SmallerOfTwo ==
  ASSUME NEW a \in Int, NEW b \in Int
  PROVE  Min({a, b}) = IF a <= b THEN a ELSE b
  <1>1. \E x \in {a, b} : \A y \in {a, b} : x <= y
    <2>1. CASE a <= b
      BY <2>1
    <2>2. CASE b <= a
      BY <2>2
    <2>. QED
      BY <2>1, <2>2
  <1>2. Min({a, b}) \in {a, b} /\ \A y \in {a, b} : Min({a, b}) <= y
    BY <1>1 DEF Min
  <1>. HIDE DEF Min
  <1>. QED
    BY <1>2

\* A finite set of numbers has a greatest one.
LEMMA LargestExists ==
  ASSUME NEW S, S \subseteq Nat, S # {}, IsFiniteSet(S)
  PROVE  Max(S) \in S
  <1>. DEFINE Bad == {U \in FiniteSubsetsOf(S) : U # {} /\ ~\E x \in U : \A y \in U : x >= y}
  <1>1. S \in FiniteSubsetsOf(S)
    BY DEF FiniteSubsetsOf
  <1>2. ASSUME Bad # {} PROVE FALSE
    <2>1. PICK U \in Bad : \A V \in Bad : ~(<<V, U>> \in StrictSubsetOrdering(S))
      <3>1. Bad \subseteq FiniteSubsetsOf(S) /\ Bad # {}
        BY <1>2
      <3>. HIDE DEF Bad
      <3>. QED
        BY <3>1, FS_StrictSubsetOrderingWellFounded, WFMin, Zenon
    <2>2. U \subseteq S /\ IsFiniteSet(U) /\ U # {} /\ ~\E x \in U : \A y \in U : x >= y
      BY DEF FiniteSubsetsOf
    <2>3. PICK u \in U : TRUE
      BY <2>2
    <2>. DEFINE V == U \ {u}
    <2>4. IsFiniteSet(V)
      BY <2>2, FS_Subset
    <2>5. V # {}
      BY <2>2, <2>3
    <2>6. V \in FiniteSubsetsOf(S)
      BY <2>2, <2>4 DEF FiniteSubsetsOf
    <2>7. <<V, U>> \in StrictSubsetOrdering(S)
      BY <2>2, <2>3 DEF StrictSubsetOrdering
    <2>8. PICK x \in V : \A y \in V : x >= y
      BY <2>1, <2>5, <2>6, <2>7
    <2>9. \E z \in {u, x} : \A y \in U : z >= y
      BY <2>2, <2>3, <2>8
    <2>. QED
      BY <2>2, <2>3, <2>8, <2>9
  <1>3. \E x \in S : \A y \in S : x >= y
    BY <1>1, <1>2
  <1>. QED
    BY <1>3 DEF Max

\* n tasks need no more than so many turns of w at a time.
LEMMA TurnsSuffice ==
  ASSUME NEW n \in Nat, NEW w \in Nat \ {0}
  PROVE  /\ (n + w - 1) \div w \in Nat
         /\ n <= ((n + w - 1) \div w) * w
  <1>. DEFINE m == n + w - 1
              q == m \div w
  <1>1. m \in Nat /\ n = m - w + 1
    OBVIOUS
  <1>2. q \in Int /\ m % w \in 0 .. w - 1 /\ m = w * q + (m % w)
    BY <1>1
  <1>3. q \in Nat
    BY <1>1
  <1>4. w * q = q * w /\ q * w \in Nat
    BY <1>3
  <1>. HIDE DEF q
  <1>5. n <= q * w
    BY <1>1, <1>2, <1>4
  <1>. QED
    BY <1>3, <1>5 DEF q

\* One lane more, or one failure more.
LEMMA OneMore ==
  ASSUME NEW a \in Nat, NEW b \in Nat
  PROVE  /\ a * b \in Nat /\ (a + 1) * b = a * b + b /\ (a + 1) * b \in Nat
         /\ a # 0 => (a - 1) * b = a * b - b
  OBVIOUS

LEMMA OneLess ==
  ASSUME NEW a \in Nat \ {0}, NEW b \in Nat
  PROVE  a - 1 \in Nat /\ (a - 1) * b \in Nat /\ a * b = (a - 1) * b + b
  <1>. DEFINE c == a - 1
  <1>1. c \in Nat /\ a = c + 1
    OBVIOUS
  <1>. HIDE DEF c
  <1>2. c * b \in Nat /\ (c + 1) * b = c * b + b
    BY <1>1, OneMore
  <1>3. c * b \in Nat /\ a * b = c * b + b
    BY <1>1, <1>2
  <1>. QED
    BY <1>1, <1>3 DEF c

LEMMA LessOf ==
  ASSUME NEW a \in Nat
  PROVE  Max({a - 1, 0}) = IF a = 0 THEN 0 ELSE a - 1
  BY LargerOfTwo

-----------------------------------------------------------------------------
(* The constants.                                                          *)

\* A set as large as the tasks is done in so many turns.
Turns == (Cardinality(Tasks) + Concurrency - 1) \div Concurrency

LEMMA TurnsOfTasks ==
  /\ Turns \in Nat /\ Cardinality(Tasks) \in Nat
  /\ Cardinality(Tasks) <= Turns * Concurrency
  BY FreshnessAssumption, FS_CardinalityType, TurnsSuffice DEF Turns

LEMMA SpansOfTime ==
  ASSUME NEW c \in Configurations
  PROVE  /\ c.interval \in Nat \ {0} /\ c.timeout \in Nat \ {0}
         /\ c.enabled \subseteq Tasks
         /\ Turn(c) \in Nat /\ c.interval <= Turn(c) /\ c.timeout <= Turn(c)
         /\ FreshFor(c) \in Nat /\ Jitter(c) \in Nat
         /\ Turns * c.timeout \in Nat /\ MaxFailures * RetryDelay \in Nat
         /\ Round(c) = Turns * c.timeout + MaxFailures * RetryDelay /\ Round(c) \in Nat
         /\ Settled(c) = Jitter(c) + Round(c) + 1 /\ Settled(c) \in Nat
  <1>1. c.interval \in Nat \ {0} /\ c.timeout \in Nat \ {0} /\ c.enabled \subseteq Tasks
    BY FreshnessAssumption DEF Configuration
  <1>2. Turn(c) \in Nat /\ c.interval <= Turn(c) /\ c.timeout <= Turn(c)
    BY <1>1, LargerOfTwo DEF Turn
  <1>3. FreshFor(c) \in Nat
    BY <1>1 DEF FreshFor
  <1>4. Jitter(c) \in Nat
    <2>1. c.interval \div JitterPart \in Nat
      BY <1>1, FreshnessAssumption
    <2>. QED
      BY <2>1, FreshnessAssumption, SmallerOfTwo DEF Jitter
  <1>5. Turns * c.timeout \in Nat /\ MaxFailures * RetryDelay \in Nat
    BY <1>1, FreshnessAssumption, TurnsOfTasks, OneMore
  <1>6. Round(c) = Turns * c.timeout + MaxFailures * RetryDelay
    BY DEF Round, Turns
  <1>. QED
    BY <1>1, <1>2, <1>3, <1>4, <1>5, <1>6 DEF Settled

\* The values of a function on a finite set.
LEMMA ImageFinite ==
  ASSUME NEW S, IsFiniteSet(S), NEW f, DOMAIN f = S
  PROVE  IsFiniteSet({f[x] : x \in S})
  <1>. DEFINE T == {f[x] : x \in S}
              g == [x \in S |-> f[x]]
  <1>1. g \in Surjection(S, T)
    BY DEF Surjection
  <1>. HIDE DEF g, T
  <1>2. IsFiniteSet(T)
    BY <1>1, FS_Surjection
  <1>. QED
    BY <1>2 DEF T

LEMMA OldType ==
  ASSUME Configurations # {}
  PROVE  Old \in Nat
  <1>. DEFINE A == {FreshFor(c) : c \in Configurations}
              B == {Turn(c) + Round(c) : c \in Configurations}
              f == [c \in Configurations |-> FreshFor(c)]
              g == [c \in Configurations |-> Turn(c) + Round(c)]
  <1>1. A \cup B \subseteq Nat /\ A \cup B # {}
    BY SpansOfTime
  <1>2. IsFiniteSet(A)
    <2>1. A = {f[c] : c \in Configurations} /\ DOMAIN f = Configurations
      OBVIOUS
    <2>. HIDE DEF A, f
    <2>. QED
      BY <2>1, FreshnessAssumption, ImageFinite
  <1>3. IsFiniteSet(B)
    <2>1. B = {g[c] : c \in Configurations} /\ DOMAIN g = Configurations
      OBVIOUS
    <2>. HIDE DEF B, g
    <2>. QED
      BY <2>1, FreshnessAssumption, ImageFinite
  <1>4. IsFiniteSet(A \cup B)
    <2>. HIDE DEF A, B
    <2>. QED
      BY <1>2, <1>3, FS_Union
  <1>5. Max(A \cup B) \in Nat
    <2>. HIDE DEF A, B
    <2>. QED
      BY <1>1, <1>4, LargestExists
  <1>. QED
    BY <1>5 DEF Old

-----------------------------------------------------------------------------
(* The inductive invariant.                                                *)

\* Time that failed writes have taken, or take still.
Spent == failures * RetryDelay

\* Time that writes can take that have not failed yet.
Reserve == (MaxFailures - failures) * RetryDelay

Types ==
  /\ config \in Configurations
  /\ at \in [Tasks -> Pcs]
  /\ due \in [Tasks -> Nat] /\ left \in [Tasks -> Nat]
  /\ seen \in [Tasks -> Nat] /\ age \in [Tasks -> Nat]
  /\ queue \in Seq(Tasks)
  /\ running \in Nat /\ failures \in 0 .. MaxFailures

\* Who waits for a permit is in the queue once.
InLine ==
  /\ \A i, j \in 1 .. Len(queue) : queue[i] = queue[j] => i = j
  /\ \A t \in Tasks : at[t] = "queued" <=> \E i \in 1 .. Len(queue) : queue[i] = t

Timers ==
  /\ \A t \in config.enabled : at[t] # "off"
  /\ \A t \in Tasks : at[t] \in {"queued", "probing", "storing"} => due[t] <= config.interval
  /\ \A t \in Tasks : at[t] = "probing" => left[t] <= config.timeout
  /\ \A t \in Tasks : at[t] = "storing" => left[t] <= Spent

\* No other task than t waits longer than r to store again.
Blocked(t, r) == \A h \in Tasks \ {t} : at[h] = "storing" => left[h] <= r

\* Tasks whose probes take longer than x.
Busy(x) == {h \in Tasks : at[h] = "probing" /\ left[h] > x}

\* t will have stored when a round has passed since a clock, that shows k now, showed b:
\* what fails meanwhile is paid from the reserve, and in the queue the tasks ahead of t and
\* those at work are done with so many turns, the first of which is over in x.
Waits(t, k, b) ==
  at[t] = "waiting" /\ \E r \in Nat : Blocked(t, r) /\ k + due[t] + r <= b + Spent

Queues(t, k, b) ==
  /\ at[t] = "queued"
  /\ \E i \in 1 .. Len(queue), r \in Nat, x \in 0 .. config.timeout, a \in Nat \ {0} :
       /\ queue[i] = t /\ Blocked(t, r)
       /\ Cardinality(Busy(x)) + i <= a * Concurrency
       /\ k + x + a * config.timeout + r + Reserve <= b + Round(config)

Works(t, k, b) ==
  /\ at[t] \in {"probing", "storing"}
  /\ \E r \in Nat : Blocked(t, r) /\ k + left[t] + r + Reserve <= b + Round(config)

OnTime(t, k, b) == Waits(t, k, b) \/ Queues(t, k, b) \/ Works(t, k, b)

\* A task at work has not spent more than a turn since its last tick, or since it has had
\* its permit.
Recent(t) ==
  at[t] \in {"probing", "storing"} =>
    \E r \in Nat :
      /\ Blocked(t, r)
      /\ seen[t] + due[t] + r <= Turn(config) + Spent
      /\ seen[t] + left[t] + r <= config.timeout + Spent

\* The clocks by which t is on time.
InTime(t) == {s \in Nat \X Nat : OnTime(t, s[1], s[2])}

\* The row of t is young enough, or t is in its first turn.
Kept(t) ==
  <<age[t], Turn(config)>> \in InTime(t) \/ <<running, Jitter(config)>> \in InTime(t)

FreshnessInv ==
  /\ Types /\ InLine /\ Timers
  /\ \A t \in Tasks : Recent(t)
  /\ \A t \in config.enabled : Kept(t)

-----------------------------------------------------------------------------
(* Types.                                                                  *)

LEMMA ConfigurationInForce ==
  ASSUME Types
  PROVE  /\ config.interval \in Nat \ {0} /\ config.timeout \in Nat \ {0}
         /\ config.enabled \subseteq Tasks /\ Turn(config) \in Nat /\ Jitter(config) \in Nat
         /\ config.interval <= Turn(config) /\ config.timeout <= Turn(config)
         /\ Turns * config.timeout \in Nat /\ MaxFailures * RetryDelay \in Nat
         /\ Round(config) = Turns * config.timeout + MaxFailures * RetryDelay
         /\ Round(config) \in Nat /\ Settled(config) \in Nat /\ Old \in Nat
  BY SpansOfTime, OldType DEF Types

\* What has been spent and what is left for failures make up what was set aside.
LEMMA Shares ==
  ASSUME Types
  PROVE  /\ Spent \in Nat /\ Reserve \in Nat
         /\ Spent + Reserve = MaxFailures * RetryDelay
  <1>1. failures \in Nat /\ MaxFailures - failures \in Nat /\ RetryDelay \in Nat
        /\ MaxFailures \in Nat
    BY FreshnessAssumption DEF Types
  <1>2. Spent \in Nat /\ Reserve \in Nat
    BY <1>1, OneMore DEF Spent, Reserve
  <1>3. Spent + Reserve = (failures + (MaxFailures - failures)) * RetryDelay
    BY <1>1 DEF Spent, Reserve
  <1>4. failures + (MaxFailures - failures) = MaxFailures
    BY <1>1
  <1>. QED
    BY <1>2, <1>3, <1>4

LEMMA InitialTypes == Init => Types
  BY SpansOfTime, OldType, FreshnessAssumption DEF Init, Types, Pcs

LEMMA ReloadTypes ==
  ASSUME Types, NEW new \in Configurations, Reload(new)
  PROVE  Types'
  <1>1. PICK delay \in [new.enabled -> 0 .. Jitter(new)] :
          due' = [t \in Tasks |-> IF t \in new.enabled THEN delay[t] ELSE 0]
    BY DEF Reload, Spawn
  <1>2. Jitter(new) \in Nat /\ Old \in Nat
    BY SpansOfTime, OldType
  <1>3. due' \in [Tasks -> Nat]
    BY <1>1, <1>2
  <1>4. age' \in [Tasks -> Nat]
    BY <1>2 DEF Reload, Types
  <1>5. at' \in [Tasks -> Pcs]
    BY DEF Reload, Spawn, Pcs
  <1>. QED
    BY <1>3, <1>4, <1>5, FreshnessAssumption DEF Reload, Spawn, Types

LEMMA TaskTypes ==
  ASSUME Types, NEW t \in Tasks,
         Tick(t) \/ Acquire(t) \/ Observe(t) \/ Persist(t) \/ FailToPersist(t)
  PROVE  Types'
  <1>1. CASE Tick(t)
    <2>1. config.interval \in Nat
      BY ConfigurationInForce
    <2>2. Append(queue, t) \in Seq(Tasks)
      <3>1. queue \in Seq(Tasks)
        BY DEF Types
      <3>. QED
        BY <3>1
    <2>. QED
      BY <1>1, <2>1, <2>2 DEF Tick, Types, Pcs
  <1>2. CASE Acquire(t)
    <2>1. queue \in Seq(Tasks) /\ queue # <<>>
      BY <1>2 DEF Acquire, Types
    <2>2. Tail(queue) \in Seq(Tasks) /\ config.timeout \in Nat
      BY <2>1, ConfigurationInForce
    <2>. QED
      BY <1>2, <2>2 DEF Acquire, Types, Pcs
  <1>3. CASE Observe(t)
    BY <1>3 DEF Observe, Types, Pcs
  <1>4. CASE Persist(t)
    BY <1>4 DEF Persist, NextTurn, Types, Pcs
  <1>5. CASE FailToPersist(t)
    BY <1>5, FreshnessAssumption DEF FailToPersist, Types, Pcs
  <1>. QED
    BY <1>1, <1>2, <1>3, <1>4, <1>5

\* What a step of time does to the timers.
LEMMA TimeOf ==
  ASSUME Types, TimePasses
  PROVE  /\ Types'
         /\ UNCHANGED <<config, at, queue, failures>>
         /\ \A t \in Tasks :
              /\ due'[t] = IF due[t] = 0 THEN 0 ELSE due[t] - 1
              /\ left'[t] = IF left[t] = 0 THEN 0 ELSE left[t] - 1
              /\ seen'[t] <= seen[t] + 1 /\ age'[t] <= age[t] + 1
              /\ at[t] = "waiting" => due[t] # 0
              /\ at[t] \in {"probing", "storing"} => left[t] # 0
         /\ running' <= running + 1
         /\ queue # <<>> => Cardinality(Holders) = Concurrency
  <1>1. Old \in Nat /\ Settled(config) \in Nat
    BY ConfigurationInForce
  <1>2. /\ due' = [t \in Tasks |-> IF due[t] = 0 THEN 0 ELSE due[t] - 1]
        /\ left' = [t \in Tasks |-> IF left[t] = 0 THEN 0 ELSE left[t] - 1]
    BY LessOf DEF TimePasses, Less, Types
  <1>3. /\ due' \in [Tasks -> Nat] /\ left' \in [Tasks -> Nat]
    BY <1>2 DEF Types
  <1>4. ASSUME NEW n \in Nat, NEW m \in Nat
        PROVE  Min({n + 1, m}) \in Nat /\ Min({n + 1, m}) <= n + 1
    BY SmallerOfTwo
  <1>. DEFINE Older(t) == Min({seen[t] + 1, Old})
              Aged(t) == Min({age[t] + 1, Old})
  <1>5. /\ seen' \in [Tasks -> Nat] /\ age' \in [Tasks -> Nat] /\ running' \in Nat
        /\ \A t \in Tasks : seen'[t] <= seen[t] + 1 /\ age'[t] <= age[t] + 1
        /\ running' <= running + 1
    <2>1. /\ seen' = [t \in Tasks |-> IF t \in Holders THEN Older(t) ELSE 0]
          /\ age' = [t \in Tasks |-> Aged(t)]
          /\ running' = Min({running + 1, Settled(config)})
      BY DEF TimePasses
    <2>2. /\ \A t \in Tasks : /\ Older(t) \in Nat /\ Older(t) <= seen[t] + 1
                             /\ Aged(t) \in Nat /\ Aged(t) <= age[t] + 1
          /\ running' \in Nat /\ running' <= running + 1
      BY <1>1, <1>4, <2>1 DEF Types
    <2>3. \A t \in Tasks : seen[t] \in Nat
      BY DEF Types
    <2>. HIDE DEF Older, Aged
    <2>. QED
      BY <2>1, <2>2, <2>3
  <1>6. UNCHANGED <<config, at, queue, failures>>
    BY DEF TimePasses
  <1>7. Types'
    BY <1>3, <1>5, <1>6 DEF Types
  <1>8. ASSUME NEW t \in Tasks
        PROVE  /\ at[t] = "waiting" => due[t] # 0
               /\ at[t] \in {"probing", "storing"} => left[t] # 0
    BY DEF TimePasses, Urgent
  <1>. QED
    BY <1>2, <1>5, <1>6, <1>7, <1>8 DEF TimePasses

-----------------------------------------------------------------------------
(* The queue and the timers.                                               *)

LEMMA NewTasksInLine ==
  ASSUME NEW c \in Configurations,
         at = [t \in Tasks |-> IF t \in c.enabled THEN "waiting" ELSE "off"], queue = <<>>
  PROVE  InLine
  BY DEF InLine

\* A task joins at the end.
LEMMA TickInLine ==
  ASSUME Types, InLine, NEW t \in Tasks, Tick(t)
  PROVE  /\ InLine' /\ Len(queue') = Len(queue) + 1 /\ queue'[Len(queue) + 1] = t
         /\ \A i \in 1 .. Len(queue) : queue'[i] = queue[i]
  <1>1. /\ at' = [at EXCEPT ![t] = "queued"] /\ queue' = Append(queue, t)
        /\ queue \in Seq(Tasks) /\ at \in [Tasks -> Pcs] /\ at[t] = "waiting"
    BY DEF Tick, Types
  <1>2. /\ Len(queue') = Len(queue) + 1 /\ queue'[Len(queue) + 1] = t
        /\ \A i \in 1 .. Len(queue) : queue'[i] = queue[i]
    BY <1>1
  <1>3. \A i \in 1 .. Len(queue) : queue[i] # t
    BY <1>1 DEF InLine
  <1>4. 1 .. Len(queue') = (1 .. Len(queue)) \cup {Len(queue) + 1}
    BY <1>1, <1>2
  <1>5. \A i, j \in 1 .. Len(queue') : queue'[i] = queue'[j] => i = j
    BY <1>2, <1>3, <1>4 DEF InLine
  <1>6. \A u \in Tasks : at'[u] = "queued" <=> \E i \in 1 .. Len(queue') : queue'[i] = u
    BY <1>1, <1>2, <1>4 DEF InLine
  <1>. QED
    BY <1>2, <1>5, <1>6 DEF InLine

\* The others move up.
LEMMA AcquireInLine ==
  ASSUME Types, InLine, NEW t \in Tasks, Acquire(t)
  PROVE  /\ InLine' /\ Len(queue) \in Nat \ {0} /\ Len(queue') = Len(queue) - 1
         /\ queue[1] = t /\ at[t] = "queued"
         /\ \A i \in 1 .. Len(queue) - 1 : queue'[i] = queue[i + 1]
  <1>1. /\ at' = [at EXCEPT ![t] = "probing"] /\ queue' = Tail(queue)
        /\ queue \in Seq(Tasks) /\ at \in [Tasks -> Pcs] /\ queue # <<>> /\ t = Head(queue)
    BY DEF Acquire, Types
  <1>2. /\ Len(queue) \in Nat \ {0} /\ Len(queue') = Len(queue) - 1
        /\ queue[1] = t
        /\ \A i \in 1 .. Len(queue) - 1 : queue'[i] = queue[i + 1]
    BY <1>1
  <1>3. at[t] = "queued"
    BY <1>2 DEF InLine
  <1>4. \A i \in 1 .. Len(queue) - 1 : i + 1 \in 1 .. Len(queue)
    BY <1>2
  <1>5. \A i, j \in 1 .. Len(queue') : queue'[i] = queue'[j] => i = j
    <2>. SUFFICES ASSUME NEW i \in 1 .. Len(queue'), NEW j \in 1 .. Len(queue'),
                         queue'[i] = queue'[j]
                  PROVE  i = j
      OBVIOUS
    <2>1. queue[i + 1] = queue[j + 1]
      BY <1>2
    <2>2. i + 1 = j + 1
      <3>1. i + 1 \in 1 .. Len(queue) /\ j + 1 \in 1 .. Len(queue)
        BY <1>2, <1>4
      <3>. QED
        BY <2>1, <3>1 DEF InLine
    <2>. QED
      BY <1>2, <2>2
  <1>6. ASSUME NEW u \in Tasks
        PROVE  at'[u] = "queued" <=> \E i \in 1 .. Len(queue') : queue'[i] = u
    <2>1. CASE u = t
      <3>1. \A i \in 1 .. Len(queue') : queue'[i] # t
        <4>. SUFFICES ASSUME NEW i \in 1 .. Len(queue'), queue'[i] = t PROVE FALSE
          OBVIOUS
        <4>1. queue[i + 1] = queue[1] /\ i + 1 \in 1 .. Len(queue) /\ 1 \in 1 .. Len(queue)
          BY <1>2, <1>4
        <4>2. i + 1 = 1
          BY <4>1 DEF InLine
        <4>. QED
          BY <1>2, <4>2
      <3>. QED
        BY <1>1, <2>1, <3>1
    <2>2. CASE u # t
      <3>1. at'[u] = at[u]
        BY <1>1, <2>2
      <3>2. ASSUME NEW i \in 1 .. Len(queue), queue[i] = u
            PROVE  i - 1 \in 1 .. Len(queue') /\ queue'[i - 1] = u
        <4>1. i # 1
          BY <1>2, <2>2, <3>2
        <4>2. i - 1 \in 1 .. Len(queue) - 1
          BY <1>2, <4>1
        <4>3. queue'[i - 1] = queue[(i - 1) + 1] /\ (i - 1) + 1 = i
          BY <1>2, <4>2
        <4>. QED
          BY <1>2, <3>2, <4>2, <4>3
      <3>3. ASSUME NEW i \in 1 .. Len(queue'), queue'[i] = u
            PROVE  i + 1 \in 1 .. Len(queue) /\ queue[i + 1] = u
        BY <1>2, <1>4, <3>3
      <3>. QED
        BY <3>1, <3>2, <3>3 DEF InLine
    <2>. QED
      BY <2>1, <2>2
  <1>. QED
    BY <1>2, <1>3, <1>5, <1>6 DEF InLine

\* Steps that concern neither the queue nor those in it.
LEMMA OthersInLine ==
  ASSUME Types, InLine, UNCHANGED queue,
         \A u \in Tasks : at'[u] = "queued" <=> at[u] = "queued"
  PROVE  InLine'
  BY DEF InLine

LEMMA TaskTimers ==
  ASSUME Types, Timers, NEW t \in Tasks,
         Tick(t) \/ Acquire(t) \/ Observe(t) \/ Persist(t) \/ FailToPersist(t),
         InLine
  PROVE  Timers'
  <1>1. /\ config.interval \in Nat /\ config.timeout \in Nat /\ config' = config
        /\ config.enabled \subseteq Tasks /\ Spent \in Nat
        /\ \A u \in Tasks : due[u] \in Nat /\ left[u] \in Nat
    BY ConfigurationInForce, Shares DEF Types, Tick, Acquire, Observe, Persist, FailToPersist
  <1>2. CASE Tick(t)
    BY <1>1, <1>2 DEF Tick, Timers, Types, Spent
  <1>3. CASE Acquire(t)
    <2>1. at[t] = "queued"
      BY <1>3, AcquireInLine
    <2>2. /\ due' = due /\ Spent' = Spent
          /\ \A u \in Tasks : /\ at'[u] = IF u = t THEN "probing" ELSE at[u]
                             /\ left'[u] = IF u = t THEN config.timeout ELSE left[u]
      BY <1>3 DEF Acquire, Types, Spent
    <2>3. \A u \in Tasks : u # t => at'[u] = at[u] /\ left'[u] = left[u] /\ due'[u] = due[u]
      BY <2>2
    <2>4. /\ at'[t] = "probing" /\ left'[t] = config.timeout /\ due'[t] = due[t]
          /\ due[t] <= config.interval
      BY <2>1, <2>2 DEF Timers
    <2>. QED
      BY <1>1, <2>2, <2>3, <2>4 DEF Timers
  <1>4. CASE Observe(t)
    <2>1. /\ due' = due /\ Spent' = Spent
          /\ \A u \in Tasks : /\ at'[u] = IF u = t THEN "storing" ELSE at[u]
                             /\ left'[u] = IF u = t THEN 0 ELSE left[u]
      BY <1>4 DEF Observe, Types, Spent
    <2>2. at[t] = "probing"
      BY <1>4 DEF Observe
    <2>. QED
      BY <1>1, <2>1, <2>2 DEF Timers
  <1>5. CASE Persist(t)
    BY <1>1, <1>5 DEF Persist, NextTurn, Timers, Types, Spent
  <1>6. CASE FailToPersist(t)
    <2>1. Spent' = Spent + RetryDelay /\ RetryDelay \in Nat
      <3>1. failures' = failures + 1 /\ failures \in Nat /\ RetryDelay \in Nat
        BY <1>6, FreshnessAssumption DEF FailToPersist, Types
      <3>. QED
        BY <3>1, OneMore DEF Spent
    <2>2. \A u \in Tasks : /\ at'[u] = at[u] /\ due'[u] = due[u]
                           /\ left'[u] = IF u = t THEN RetryDelay ELSE left[u]
      BY <1>6 DEF FailToPersist, Types
    <2>3. at[t] = "storing"
      BY <1>6 DEF FailToPersist
    <2>4. ASSUME NEW u \in Tasks, at'[u] = "storing"
          PROVE  left'[u] <= Spent'
      <3>1. u # t => left[u] <= Spent
        BY <2>2, <2>4 DEF Timers
      <3>. QED
        BY <1>1, <2>1, <2>2, <3>1
    <2>. QED
      BY <1>1, <2>2, <2>3, <2>4 DEF Timers
  <1>. QED
    BY <1>2, <1>3, <1>4, <1>5, <1>6

LEMMA TimeTimers ==
  ASSUME Types, Timers, TimePasses
  PROVE  Timers'
  <1>1. /\ config.interval \in Nat /\ config.timeout \in Nat /\ Spent \in Nat
        /\ \A u \in Tasks : due[u] \in Nat /\ left[u] \in Nat
    BY ConfigurationInForce, Shares DEF Types
  <1>2. /\ config' = config /\ at' = at /\ Spent' = Spent
        /\ \A u \in Tasks : /\ due'[u] = IF due[u] = 0 THEN 0 ELSE due[u] - 1
                           /\ left'[u] = IF left[u] = 0 THEN 0 ELSE left[u] - 1
    BY TimeOf DEF Spent
  <1>3. \A u \in Tasks : due'[u] <= due[u] /\ left'[u] <= left[u]
                        /\ due'[u] \in Nat /\ left'[u] \in Nat
    BY <1>1, <1>2
  <1>4. ASSUME NEW u \in Tasks
        PROVE  /\ at[u] \in {"queued", "probing", "storing"} => due'[u] <= config.interval
               /\ at[u] = "probing" => left'[u] <= config.timeout
               /\ at[u] = "storing" => left'[u] <= Spent
    BY <1>1, <1>3 DEF Timers
  <1>. QED
    BY <1>2, <1>4 DEF Timers

-----------------------------------------------------------------------------
(* Counting tasks.                                                         *)

LEMMA BusyFinite ==
  ASSUME NEW x
  PROVE  IsFiniteSet(Busy(x)) /\ Cardinality(Busy(x)) \in Nat
  <1>1. Busy(x) \in SUBSET Tasks
    BY DEF Busy
  <1>. QED
    BY <1>1, FreshnessAssumption, FS_Subset, FS_CardinalityType

\* A task that waits for its tick is neither in the queue nor at work.
LEMMA RoomInLine ==
  ASSUME Types, InLine, NEW x, NEW t \in Tasks, at[t] = "waiting"
  PROVE  Cardinality(Busy(x)) + Len(queue) + 1 <= Cardinality(Tasks)
  <1>. DEFINE Q == {u \in Tasks : at[u] = "queued"}
              n == Len(queue)
  <1>1. n \in Nat /\ queue \in [1 .. n -> Tasks]
    BY DEF Types
  <1>2. queue \in Bijection(1 .. n, Q)
    <2>1. \A i \in 1 .. n : queue[i] \in Q
      BY <1>1 DEF InLine
    <2>2. queue \in [1 .. n -> Q]
      BY <1>1, <2>1
    <2>3. \A i, j \in 1 .. n : queue[i] = queue[j] => i = j
      BY DEF InLine
    <2>4. \A u \in Q : \E i \in 1 .. n : queue[i] = u
      BY DEF InLine
    <2>. HIDE DEF Q, n
    <2>. QED
      BY <2>2, <2>3, <2>4 DEF Bijection, Injection, Surjection, IsInjective
  <1>3. ExistsBijection(1 .. n, Q)
    BY <1>2 DEF ExistsBijection
  <1>4. Q \in SUBSET Tasks /\ Busy(x) \in SUBSET Tasks /\ Q \cap Busy(x) = {}
        /\ t \notin Q \cup Busy(x) /\ (Q \cup Busy(x)) \cup {t} \in SUBSET Tasks
    BY DEF Busy
  <1>. HIDE DEF Q, n
  <1>5. IsFiniteSet(Q) /\ Cardinality(Q) = n
    BY <1>1, <1>3, <1>4, FS_CountingElements, FreshnessAssumption, FS_Subset
  <1>6. IsFiniteSet(Busy(x)) /\ Cardinality(Busy(x)) \in Nat
    BY BusyFinite
  <1>7. Cardinality(Q \cap Busy(x)) = 0
    BY <1>4, FS_EmptySet
  <1>8. IsFiniteSet(Q \cup Busy(x)) /\ Cardinality(Q \cup Busy(x)) = n + Cardinality(Busy(x))
    <2>1. /\ IsFiniteSet(Q \cup Busy(x))
          /\ Cardinality(Q \cup Busy(x)) =
               Cardinality(Q) + Cardinality(Busy(x)) - Cardinality(Q \cap Busy(x))
      BY <1>5, <1>6, FS_Union
    <2>. QED
      BY <1>1, <1>5, <1>6, <1>7, <2>1
  <1>9. Cardinality((Q \cup Busy(x)) \cup {t}) = n + Cardinality(Busy(x)) + 1
    BY <1>1, <1>4, <1>6, <1>8, FS_AddElement
  <1>10. Cardinality((Q \cup Busy(x)) \cup {t}) <= Cardinality(Tasks)
    BY <1>4, FreshnessAssumption, FS_Subset
  <1>. QED
    BY <1>1, <1>6, <1>9, <1>10 DEF n

-----------------------------------------------------------------------------
(* Steps of the tasks.                                                     *)

\* What a step does to a task u that stays where it is, or at work: its own write may fail,
\* or another's.
OwnTime(u, own) ==
  /\ at'[u] = at[u] \/ {at[u], at'[u]} \subseteq {"probing", "storing"}
  /\ due'[u] = due[u]
  /\ at[u] \in {"probing", "storing"} => left'[u] <= left[u] + own

OthersTime(u, other) ==
  \A h \in Tasks \ {u} : at'[h] = "storing" =>
    left'[h] = 0 \/ (at[h] = "storing" /\ left'[h] <= left[h] + other)

NoLaterInLine(u) ==
  \A i \in 1 .. Len(queue) : queue[i] = u =>
    \E j \in 1 .. Len(queue') :
      queue'[j] = u /\ \A x \in Nat : Cardinality(Busy(x)') + j <= Cardinality(Busy(x)) + i

LEMMA OthersBlock ==
  ASSUME Types, Types', NEW u, NEW other \in Nat, OthersTime(u, other),
         NEW r \in Nat, Blocked(u, r)
  PROVE  r + other \in Nat /\ Blocked(u, r + other)'
  <1>. SUFFICES ASSUME NEW h \in Tasks \ {u}, at'[h] = "storing"
                PROVE  left'[h] <= r + other
    BY DEF Blocked
  <1>1. left'[h] = 0 \/ (left[h] <= r /\ left'[h] <= left[h] + other)
    BY DEF OthersTime, Blocked
  <1>2. left[h] \in Nat /\ left'[h] \in Nat
    BY DEF Types
  <1>. QED
    BY <1>1, <1>2

LEMMA StaysOnTime ==
  ASSUME Types, Types', config' = config,
         NEW u \in Tasks, NEW k \in Nat, NEW b \in Nat, NEW own \in Nat, NEW other \in Nat,
         Spent' = Spent + own + other, Reserve' = Reserve - own - other,
         OwnTime(u, own), OthersTime(u, other), NoLaterInLine(u),
         OnTime(u, k, b)
  PROVE  OnTime(u, k, b)'
  <1>1. /\ Spent \in Nat /\ Reserve \in Nat /\ config.timeout \in Nat
        /\ Round(config) \in Nat /\ due[u] \in Nat /\ left[u] \in Nat
        /\ due'[u] \in Nat /\ left'[u] \in Nat
    BY ConfigurationInForce, Shares DEF Types
  <1>2. ASSUME NEW r \in Nat, Blocked(u, r)
        PROVE  r + other \in Nat /\ Blocked(u, r + other)'
    BY <1>2, OthersBlock
  <1>3. CASE Waits(u, k, b)
    <2>1. PICK r \in Nat : Blocked(u, r) /\ k + due[u] + r <= b + Spent
      BY <1>3 DEF Waits
    <2>2. k + due'[u] + (r + other) <= b + Spent'
      BY <1>1, <2>1 DEF OwnTime
    <2>3. at'[u] = "waiting"
      BY <1>3 DEF Waits, OwnTime
    <2>. QED
      BY <1>2, <2>1, <2>2, <2>3 DEF OnTime, Waits
  <1>4. CASE Queues(u, k, b)
    <2>1. PICK i \in 1 .. Len(queue), r \in Nat, x \in 0 .. config.timeout, a \in Nat \ {0} :
            /\ queue[i] = u /\ Blocked(u, r)
            /\ Cardinality(Busy(x)) + i <= a * Concurrency
            /\ k + x + a * config.timeout + r + Reserve <= b + Round(config)
      BY <1>4 DEF Queues
    <2>2. x \in Nat /\ a * config.timeout \in Nat /\ a * Concurrency \in Nat
      <3>1. a \in Nat /\ config.timeout \in Nat /\ Concurrency \in Nat /\ x \in Nat
        BY <1>1, FreshnessAssumption
      <3>. QED
        BY <3>1, OneMore
    <2>3. PICK j \in 1 .. Len(queue') :
            queue'[j] = u /\ Cardinality(Busy(x)') + j <= Cardinality(Busy(x)) + i
      BY <2>1, <2>2 DEF NoLaterInLine
    <2>4. Cardinality(Busy(x)) \in Nat /\ Cardinality(Busy(x)') \in Nat
      <3>. DEFINE Now == Busy(x)
                  Then == Busy(x)'
      <3>1. Now \in SUBSET Tasks /\ Then \in SUBSET Tasks
        BY DEF Busy
      <3>. HIDE DEF Now, Then
      <3>2. /\ Cardinality(Now) \in Nat /\ Cardinality(Then) \in Nat
        BY <3>1, FreshnessAssumption, FS_Subset, FS_CardinalityType
      <3>. QED
        BY <3>2 DEF Now, Then
    <2>5. Cardinality(Busy(x)') + j <= a * Concurrency
      <3>1. Len(queue) \in Nat /\ Len(queue') \in Nat
        <4>1. queue \in Seq(Tasks) /\ queue' \in Seq(Tasks)
          BY DEF Types
        <4>. QED
          BY <4>1
      <3>. DEFINE l == Cardinality(Busy(x))
                  m == Cardinality(Busy(x)')
                  n == a * Concurrency
      <3>2. l + i <= n /\ m + j <= l + i
        BY <2>1, <2>3
      <3>3. l \in Nat /\ m \in Nat /\ n \in Nat
        BY <2>2, <2>4
      <3>4. i \in Nat /\ j \in Nat
        BY <3>1
      <3>. HIDE DEF l, m, n
      <3>5. m + j <= n
        BY <3>2, <3>3, <3>4
      <3>. QED
        BY <3>5 DEF m, n
    <2>6. k + x + a * config.timeout + (r + other) + Reserve' <= b + Round(config)
      <3>. DEFINE w == a * config.timeout
      <3>1. w \in Nat /\ k + x + w + r + Reserve <= b + Round(config)
        <4>1. w \in Nat
          BY <2>2
        <4>2. k + x + a * config.timeout + r + Reserve <= b + Round(config)
          BY <2>1
        <4>. QED
          BY <4>1, <4>2
      <3>. HIDE DEF w
      <3>2. Reserve \in Nat /\ Round(config) \in Nat /\ x \in Nat
        BY <1>1, <2>2
      <3>3. k + x + w + (r + other) + Reserve' <= b + Round(config)
        BY <3>1, <3>2
      <3>. QED
        BY <3>3 DEF w
    <2>7. at'[u] = "queued"
      BY <1>4 DEF Queues, OwnTime
    <2>. QED
      BY <1>2, <2>1, <2>3, <2>5, <2>6, <2>7 DEF OnTime, Queues
  <1>5. CASE Works(u, k, b)
    <2>1. PICK r \in Nat : Blocked(u, r) /\ k + left[u] + r + Reserve <= b + Round(config)
      BY <1>5 DEF Works
    <2>2. at'[u] \in {"probing", "storing"} /\ left'[u] <= left[u] + own
      BY <1>5 DEF Works, OwnTime
    <2>3. k + left'[u] + (r + other) + Reserve' <= b + Round(config)
      BY <1>1, <2>1, <2>2
    <2>. QED
      BY <1>2, <2>1, <2>2, <2>3 DEF OnTime, Works
  <1>. QED
    BY <1>3, <1>4, <1>5 DEF OnTime

LEMMA StaysRecent ==
  ASSUME Types, Types', config' = config,
         NEW u \in Tasks, NEW own \in Nat, NEW other \in Nat,
         Spent' = Spent + own + other, seen'[u] = seen[u],
         OwnTime(u, own), OthersTime(u, other), Recent(u)
  PROVE  Recent(u)'
  <1>. SUFFICES ASSUME at[u] \in {"probing", "storing"}
                PROVE  \E r \in Nat :
                         /\ Blocked(u, r)'
                         /\ seen[u] + due[u] + r <= Turn(config) + Spent'
                         /\ seen[u] + left'[u] + r <= config.timeout + Spent'
    BY DEF Recent, OwnTime
  <1>1. /\ Spent \in Nat /\ config.timeout \in Nat /\ Turn(config) \in Nat
        /\ seen[u] \in Nat /\ due[u] \in Nat /\ left[u] \in Nat /\ left'[u] \in Nat
    BY ConfigurationInForce, Shares DEF Types
  <1>2. PICK r \in Nat : /\ Blocked(u, r)
                        /\ seen[u] + due[u] + r <= Turn(config) + Spent
                        /\ seen[u] + left[u] + r <= config.timeout + Spent
    BY DEF Recent
  <1>3. left'[u] <= left[u] + own
    BY DEF OwnTime
  <1>4. r + other \in Nat /\ Blocked(u, r + other)'
    BY <1>2, OthersBlock
  <1>5. seen[u] + due[u] + (r + other) <= Turn(config) + Spent'
    BY <1>1, <1>2
  <1>6. seen[u] + left'[u] + (r + other) <= config.timeout + Spent'
    BY <1>1, <1>2, <1>3
  <1>. QED
    BY <1>4, <1>5, <1>6

\* What a step that takes no time and stores nothing for u has to show.
LEMMA StaysKept ==
  ASSUME config' = config, NEW u, age'[u] = age[u], running' = running,
         InTime(u) \subseteq InTime(u)', Kept(u)
  PROVE  Kept(u)'
  <1>1. Turn(config)' = Turn(config) /\ Jitter(config)' = Jitter(config)
    BY DEF Turn, Jitter
  <1>. QED
    BY <1>1 DEF Kept

LEMMA StaysInTime ==
  ASSUME Types, Types', config' = config,
         NEW u \in Tasks, NEW own \in Nat, NEW other \in Nat,
         Spent' = Spent + own + other, Reserve' = Reserve - own - other,
         OwnTime(u, own), OthersTime(u, other), NoLaterInLine(u)
  PROVE  InTime(u) \subseteq InTime(u)'
  <1>. SUFFICES ASSUME NEW s \in Nat \X Nat, OnTime(u, s[1], s[2])
                PROVE  OnTime(u, s[1], s[2])'
    BY DEF InTime
  <1>1. s[1] \in Nat /\ s[2] \in Nat
    OBVIOUS
  <1>. QED
    BY <1>1, StaysOnTime

-----------------------------------------------------------------------------
(* Every step of a task.                                                   *)

LEMMA NoFailure ==
  ASSUME Types, UNCHANGED failures
  PROVE  Spent' = Spent + 0 + 0 /\ Reserve' = Reserve - 0 - 0
  <1>1. Spent' = Spent /\ Reserve' = Reserve
    BY DEF Spent, Reserve
  <1>. QED
    BY <1>1, Shares

LEMMA OneFailure ==
  ASSUME Types, failures < MaxFailures, failures' = failures + 1
  PROVE  /\ Spent' = Spent + RetryDelay /\ Reserve' = Reserve - RetryDelay
         /\ Spent \in Nat /\ Reserve \in Nat /\ RetryDelay \in Nat
  <1>1. /\ failures \in Nat /\ RetryDelay \in Nat
        /\ MaxFailures - failures \in Nat /\ MaxFailures - failures # 0
        /\ MaxFailures - failures' = (MaxFailures - failures) - 1
    BY FreshnessAssumption DEF Types
  <1>2. Spent' = Spent + RetryDelay
    BY <1>1, OneMore DEF Spent
  <1>3. Reserve' = Reserve - RetryDelay
    BY <1>1, OneMore DEF Reserve
  <1>. QED
    BY <1>1, <1>2, <1>3, Shares

LEMMA TickOthers ==
  ASSUME Types, InLine, NEW t \in Tasks, Tick(t), NEW u \in Tasks, u # t
  PROVE  /\ OwnTime(u, 0) /\ OthersTime(u, 0) /\ NoLaterInLine(u)
  <1>1. /\ at[t] = "waiting" /\ at' = [at EXCEPT ![t] = "queued"] /\ left' = left
        /\ due' = [due EXCEPT ![t] = config.interval]
        /\ \A h \in Tasks : left[h] \in Nat
    BY DEF Tick, Types
  <1>2. OwnTime(u, 0)
    BY <1>1 DEF OwnTime, Types
  <1>3. OthersTime(u, 0)
    BY <1>1 DEF OthersTime, Types
  <1>4. ASSUME NEW x PROVE Busy(x)' = Busy(x)
    BY <1>1 DEF Busy, Types
  <1>5. NoLaterInLine(u)
    <2>1. /\ Len(queue) \in Nat /\ Len(queue') = Len(queue) + 1
          /\ \A i \in 1 .. Len(queue) : queue'[i] = queue[i]
      <3>1. queue \in Seq(Tasks)
        BY DEF Types
      <3>2. Len(queue) \in Nat
        BY <3>1
      <3>. QED
        BY <3>2, TickInLine
    <2>. SUFFICES ASSUME NEW i \in 1 .. Len(queue), queue[i] = u
                  PROVE  /\ i \in 1 .. Len(queue') /\ queue'[i] = u
                         /\ \A x \in Nat :
                              Cardinality(Busy(x)') + i <= Cardinality(Busy(x)) + i
      BY DEF NoLaterInLine
    <2>2. i \in 1 .. Len(queue') /\ queue'[i] = u
      BY <2>1
    <2>3. ASSUME NEW x \in Nat
          PROVE  Cardinality(Busy(x)') + i <= Cardinality(Busy(x)) + i
      <3>1. Cardinality(Busy(x)') = Cardinality(Busy(x)) /\ Cardinality(Busy(x)) \in Nat
        BY <1>4, BusyFinite
      <3>. QED
        BY <2>1, <3>1
    <2>. QED
      BY <2>2, <2>3
  <1>. QED
    BY <1>2, <1>3, <1>5

LEMMA TickItself ==
  ASSUME Types, InLine, NEW t \in Tasks, Tick(t)
  PROVE  InTime(t) \subseteq InTime(t)'
  <1>. SUFFICES ASSUME NEW s \in Nat \X Nat, OnTime(t, s[1], s[2])
                PROVE  OnTime(t, s[1], s[2])'
    BY DEF InTime
  <1>. DEFINE k == s[1]
              b == s[2]
  <1>1. k \in Nat /\ b \in Nat
    OBVIOUS
  <1>. HIDE DEF k, b
  <1>2. at[t] = "waiting" /\ due[t] = 0 /\ left' = left /\ config' = config /\ failures' = failures
        /\ at' = [at EXCEPT ![t] = "queued"]
    BY DEF Tick
  <1>3. PICK r \in Nat : Blocked(t, r) /\ k + r <= b + Spent
    <2>1. Waits(t, k, b)
      BY <1>2 DEF OnTime, Queues, Works, k, b
    <2>. QED
      BY <1>1, <1>2, <2>1 DEF Waits
  <1>4. Blocked(t, r)'
    BY <1>2, <1>3 DEF Blocked, Types
  <1>5. /\ Turns \in Nat /\ config.timeout \in Nat /\ Turns * config.timeout \in Nat
        /\ Spent \in Nat /\ Reserve \in Nat
        /\ Round(config) = Turns * config.timeout + Spent + Reserve
    BY ConfigurationInForce, Shares, TurnsOfTasks
  <1>6. Busy(0)' = Busy(0)
    BY <1>2 DEF Busy, Types
  <1>7. Cardinality(Busy(0)') + (Len(queue) + 1) <= Turns * Concurrency
    <2>1. Cardinality(Busy(0)) + Len(queue) + 1 <= Cardinality(Tasks)
      BY <1>2, RoomInLine
    <2>2. Cardinality(Busy(0)) \in Nat /\ Len(queue) \in Nat /\ Turns * Concurrency \in Nat
      BY BusyFinite, TurnsOfTasks, FreshnessAssumption, OneMore DEF Types
    <2>. QED
      BY <1>6, <2>1, <2>2, TurnsOfTasks
  <1>8. Turns # 0
    <2>1. Cardinality(Busy(0)) \in Nat /\ Len(queue) \in Nat
      BY BusyFinite DEF Types
    <2>2. Turns = 0 => Turns * Concurrency = 0
      BY FreshnessAssumption
    <2>. QED
      BY <1>6, <1>7, <2>1, <2>2
  <1>9. k + 0 + Turns * config.timeout + r + Reserve <= b + Round(config)
    BY <1>1, <1>3, <1>5
  <1>10. /\ Len(queue) + 1 \in 1 .. Len(queue') /\ queue'[Len(queue) + 1] = t
    BY TickInLine DEF Types
  <1>11. at'[t] = "queued" /\ Reserve' = Reserve /\ Round(config)' = Round(config)
         /\ 0 \in 0 .. config.timeout
    BY <1>2, <1>5 DEF Reserve, Round, Types
  <1>12. Queues(t, k, b)'
    BY <1>2, <1>4, <1>5, <1>7, <1>8, <1>9, <1>10, <1>11 DEF Queues
  <1>. QED
    BY <1>12 DEF OnTime, k, b

\* A step that leaves the queue alone and makes no task probe longer.
LEMMA SameLine ==
  ASSUME Types, UNCHANGED queue, \A x : Busy(x)' \subseteq Busy(x), NEW u
  PROVE  NoLaterInLine(u)
  <1>. SUFFICES ASSUME NEW i \in 1 .. Len(queue), queue[i] = u, NEW x \in Nat
                PROVE  Cardinality(Busy(x)') + i <= Cardinality(Busy(x)) + i
    BY DEF NoLaterInLine
  <1>. DEFINE Now == Busy(x)
              Then == Busy(x)'
  <1>1. Then \in SUBSET Now
    OBVIOUS
  <1>2. IsFiniteSet(Now) /\ Cardinality(Now) \in Nat
    BY BusyFinite
  <1>. HIDE DEF Now, Then
  <1>3. Cardinality(Then) <= Cardinality(Now) /\ Cardinality(Then) \in Nat
    BY <1>1, <1>2, FS_Subset, FS_CardinalityType
  <1>4. Cardinality(Then) + i <= Cardinality(Now) + i
    BY <1>2, <1>3
  <1>. QED
    BY <1>4 DEF Now, Then

LEMMA AcquireOthers ==
  ASSUME Types, InLine, NEW t \in Tasks, Acquire(t), NEW u \in Tasks, u # t
  PROVE  OwnTime(u, 0) /\ OthersTime(u, 0) /\ NoLaterInLine(u)
  <1>1. /\ at' = [at EXCEPT ![t] = "probing"] /\ left' = [left EXCEPT ![t] = config.timeout]
        /\ due' = due /\ \A h \in Tasks : left[h] \in Nat
    BY DEF Acquire, Types
  <1>2. OwnTime(u, 0)
    BY <1>1 DEF OwnTime, Types
  <1>3. OthersTime(u, 0)
    BY <1>1 DEF OthersTime, Types
  <1>4. ASSUME NEW x
        PROVE  Cardinality(Busy(x)') <= Cardinality(Busy(x)) + 1 /\ Cardinality(Busy(x)') \in Nat
    <2>. DEFINE Now == Busy(x)
                Then == Busy(x)'
    <2>1. Then \in SUBSET (Now \cup {t})
      BY <1>1 DEF Busy, Types
    <2>2. IsFiniteSet(Now) /\ Cardinality(Now) \in Nat
      BY BusyFinite
    <2>. HIDE DEF Now, Then
    <2>3. /\ IsFiniteSet(Now \cup {t})
          /\ Cardinality(Now \cup {t}) = IF t \in Now THEN Cardinality(Now)
                                                  ELSE Cardinality(Now) + 1
      BY <2>2, FS_AddElement
    <2>4. /\ IsFiniteSet(Then) /\ Cardinality(Then) \in Nat
          /\ Cardinality(Then) <= Cardinality(Now \cup {t})
      BY <2>1, <2>3, FS_Subset, FS_CardinalityType
    <2>5. Cardinality(Then) <= Cardinality(Now) + 1
      BY <2>2, <2>3, <2>4
    <2>. QED
      BY <2>4, <2>5 DEF Now, Then
  <1>5. NoLaterInLine(u)
    <2>1. /\ Len(queue) \in Nat \ {0} /\ Len(queue') = Len(queue) - 1 /\ queue[1] = t
          /\ \A i \in 1 .. Len(queue) - 1 : queue'[i] = queue[i + 1]
      BY AcquireInLine
    <2>. SUFFICES ASSUME NEW i \in 1 .. Len(queue), queue[i] = u
                  PROVE  /\ i - 1 \in 1 .. Len(queue') /\ queue'[i - 1] = u
                         /\ \A x \in Nat :
                              Cardinality(Busy(x)') + (i - 1) <= Cardinality(Busy(x)) + i
      BY DEF NoLaterInLine
    <2>2. i - 1 \in 1 .. Len(queue')
      BY <2>1
    <2>3. queue'[i - 1] = queue[(i - 1) + 1] /\ (i - 1) + 1 = i
      BY <2>1, <2>2
    <2>4. ASSUME NEW x \in Nat
          PROVE  Cardinality(Busy(x)') + (i - 1) <= Cardinality(Busy(x)) + i
      BY <1>4, <2>1, BusyFinite
    <2>. QED
      BY <2>2, <2>3, <2>4
  <1>. QED
    BY <1>2, <1>3, <1>5

LEMMA AcquireItself ==
  ASSUME Types, InLine, Timers, NEW t \in Tasks, Acquire(t)
  PROVE  InTime(t) \subseteq InTime(t)' /\ Recent(t)'
  <1>1. /\ at[t] = "queued" /\ at' = [at EXCEPT ![t] = "probing"]
        /\ left' = [left EXCEPT ![t] = config.timeout] /\ seen' = [seen EXCEPT ![t] = 0]
        /\ due' = due /\ config' = config /\ failures' = failures
    BY AcquireInLine DEF Acquire
  <1>2. /\ at'[t] = "probing" /\ left'[t] = config.timeout /\ seen'[t] = 0
        /\ Spent' = Spent /\ Reserve' = Reserve /\ Round(config)' = Round(config)
        /\ Turn(config)' = Turn(config)
    BY <1>1 DEF Types, Spent, Reserve, Round, Turn
  <1>3. ASSUME NEW r \in Nat, Blocked(t, r)
        PROVE  Blocked(t, r)'
    BY <1>1, <1>3 DEF Blocked, Types
  <1>4. /\ config.timeout \in Nat /\ config.interval \in Nat /\ Turn(config) \in Nat
        /\ config.interval <= Turn(config) /\ Round(config) \in Nat
        /\ Spent \in Nat /\ Reserve \in Nat /\ due[t] \in Nat
    BY ConfigurationInForce, Shares DEF Types
  <1>5. ASSUME NEW s \in Nat \X Nat, OnTime(t, s[1], s[2])
        PROVE  OnTime(t, s[1], s[2])'
    <2>. DEFINE k == s[1]
                b == s[2]
    <2>1. k \in Nat /\ b \in Nat
      OBVIOUS
    <2>2. Queues(t, k, b)
      BY <1>1, <1>5 DEF OnTime, Waits, Works
    <2>. HIDE DEF k, b
    <2>3. PICK r \in Nat, x \in 0 .. config.timeout, a \in Nat \ {0} :
            Blocked(t, r) /\ k + x + a * config.timeout + r + Reserve <= b + Round(config)
      BY <2>2 DEF Queues
    <2>4. a * config.timeout >= config.timeout /\ a * config.timeout \in Nat
      <3>1. a - 1 \in Nat /\ (a - 1) + 1 = a
        OBVIOUS
      <3>2. (a - 1) * config.timeout \in Nat
            /\ ((a - 1) + 1) * config.timeout = (a - 1) * config.timeout + config.timeout
        BY <1>4, <3>1, OneMore
      <3>. QED
        BY <1>4, <3>1, <3>2
    <2>5. k + config.timeout + r + Reserve <= b + Round(config)
      <3>. DEFINE w == a * config.timeout
      <3>1. w \in Nat /\ w >= config.timeout /\ k + x + w + r + Reserve <= b + Round(config)
        BY <2>3, <2>4
      <3>2. x \in Nat
        BY <1>4
      <3>. HIDE DEF w
      <3>. QED
        BY <1>4, <2>1, <3>1, <3>2
    <2>6. Works(t, k, b)'
      BY <1>1, <1>2, <1>3, <2>3, <2>5 DEF Works
    <2>. QED
      BY <2>6 DEF OnTime, k, b
  <1>6. Recent(t)'
    <2>1. Blocked(t, Spent)'
      <3>1. \A h \in Tasks : at[h] = "storing" => left[h] <= Spent
        BY DEF Timers
      <3>2. \A h \in Tasks \ {t} : at'[h] = at[h] /\ left'[h] = left[h]
        BY <1>1 DEF Types
      <3>. QED
        BY <1>2, <3>1, <3>2 DEF Blocked
    <2>2. due[t] <= config.interval
      BY <1>1 DEF Timers
    <2>3. /\ 0 + due[t] + Spent <= Turn(config) + Spent
          /\ 0 + config.timeout + Spent <= config.timeout + Spent
      BY <1>4, <2>2
    <2>4. \E r \in Nat : /\ Blocked(t, r)'
                        /\ seen'[t] + due'[t] + r <= Turn(config)' + Spent'
                        /\ seen'[t] + left'[t] + r <= config'.timeout + Spent'
      BY <1>1, <1>2, <1>4, <2>1, <2>3
    <2>. QED
      BY <2>4 DEF Recent
  <1>. QED
    BY <1>5, <1>6 DEF InTime

LEMMA ObserveAll ==
  ASSUME Types, InLine, NEW t \in Tasks, Observe(t), NEW u \in Tasks
  PROVE  OwnTime(u, 0) /\ OthersTime(u, 0) /\ NoLaterInLine(u)
  <1>1. /\ at[t] = "probing" /\ at' = [at EXCEPT ![t] = "storing"]
        /\ left' = [left EXCEPT ![t] = 0] /\ due' = due /\ queue' = queue
        /\ \A h \in Tasks : left[h] \in Nat
    BY DEF Observe, Types
  <1>2. OwnTime(u, 0)
    BY <1>1 DEF OwnTime, Types
  <1>3. OthersTime(u, 0)
    BY <1>1 DEF OthersTime, Types
  <1>4. ASSUME NEW x PROVE Busy(x)' \subseteq Busy(x)
    BY <1>1 DEF Busy, Types
  <1>. QED
    BY <1>1, <1>2, <1>3, <1>4, SameLine

LEMMA PersistOthers ==
  ASSUME Types, InLine, NEW t \in Tasks, Persist(t), NEW u \in Tasks, u # t
  PROVE  OwnTime(u, 0) /\ OthersTime(u, 0) /\ NoLaterInLine(u)
  <1>1. /\ at[t] = "storing" /\ at' = [at EXCEPT ![t] = "waiting"]
        /\ left' = left /\ due' = due /\ queue' = queue
        /\ \A h \in Tasks : left[h] \in Nat
    BY DEF Persist, NextTurn, Types
  <1>2. OwnTime(u, 0)
    BY <1>1 DEF OwnTime, Types
  <1>3. OthersTime(u, 0)
    BY <1>1 DEF OthersTime, Types
  <1>4. ASSUME NEW x PROVE Busy(x)' \subseteq Busy(x)
    BY <1>1 DEF Busy, Types
  <1>. QED
    BY <1>1, <1>2, <1>3, <1>4, SameLine

\* The row that t has stored is as old as its observation.
LEMMA PersistItself ==
  ASSUME Types, NEW t \in Tasks, Persist(t), Recent(t)
  PROVE  Kept(t)' /\ Recent(t)'
  <1>1. /\ at[t] = "storing" /\ at' = [at EXCEPT ![t] = "waiting"] /\ left[t] = 0
        /\ age' = [age EXCEPT ![t] = seen[t]]
        /\ left' = left /\ due' = due /\ config' = config /\ failures' = failures
    BY DEF Persist, NextTurn
  <1>2. at'[t] = "waiting" /\ age'[t] = seen[t] /\ Spent' = Spent
        /\ Turn(config)' = Turn(config)
    BY <1>1 DEF Types, Spent, Turn
  <1>3. PICK r \in Nat : Blocked(t, r) /\ seen[t] + due[t] + r <= Turn(config) + Spent
    BY <1>1 DEF Recent
  <1>4. Blocked(t, r)'
    BY <1>1, <1>3 DEF Blocked, Types
  <1>5. seen[t] \in Nat /\ Turn(config) \in Nat
    BY ConfigurationInForce DEF Types
  <1>6. ASSUME NEW s \in Nat \X Nat, s[1] + due[t] + r <= s[2] + Spent
        PROVE  s \in InTime(t)'
    <2>1. Waits(t, s[1], s[2])'
      BY <1>1, <1>2, <1>4, <1>6 DEF Waits
    <2>2. OnTime(t, s[1], s[2])'
      BY <2>1 DEF OnTime
    <2>. QED
      BY <2>2 DEF InTime
  <1>7. Kept(t)'
    <2>1. <<seen[t], Turn(config)>> \in InTime(t)'
      BY <1>3, <1>5, <1>6
    <2>. QED
      BY <1>2, <2>1 DEF Kept
  <1>8. Recent(t)'
    BY <1>2 DEF Recent
  <1>. QED
    BY <1>7, <1>8

LEMMA FailAll ==
  ASSUME Types, InLine, NEW t \in Tasks, FailToPersist(t), NEW u \in Tasks
  PROVE  /\ u # t => OwnTime(u, 0) /\ OthersTime(u, RetryDelay)
         /\ u = t => OwnTime(u, RetryDelay) /\ OthersTime(u, 0)
         /\ NoLaterInLine(u)
  <1>1. /\ at[t] = "storing" /\ at' = at /\ left[t] = 0
        /\ left' = [left EXCEPT ![t] = RetryDelay] /\ due' = due /\ queue' = queue
        /\ RetryDelay \in Nat /\ \A h \in Tasks : left[h] \in Nat
    BY FreshnessAssumption DEF FailToPersist, Types
  <1>2. ASSUME u # t PROVE OwnTime(u, 0) /\ OthersTime(u, RetryDelay)
    <2>1. \A h \in Tasks : h # t => left'[h] = left[h]
      BY <1>1 DEF Types
    <2>2. left'[t] = RetryDelay
      BY <1>1 DEF Types
    <2>3. \A h \in Tasks : left'[h] <= left[h] + RetryDelay
      BY <1>1, <2>1, <2>2
    <2>. QED
      BY <1>1, <1>2, <2>1, <2>3 DEF OwnTime, OthersTime
  <1>3. ASSUME u = t PROVE OwnTime(u, RetryDelay) /\ OthersTime(u, 0)
    BY <1>1, <1>3 DEF OwnTime, OthersTime, Types
  <1>4. ASSUME NEW x PROVE Busy(x)' \subseteq Busy(x)
    BY <1>1 DEF Busy, Types
  <1>. QED
    BY <1>1, <1>2, <1>3, <1>4, SameLine

-----------------------------------------------------------------------------
(* A step of time.                                                         *)

LEMMA TimeInTime ==
  ASSUME Types, InLine, Timers, TimePasses, NEW u \in Tasks,
         NEW s \in InTime(u), NEW s2 \in Nat \X Nat, s2[1] <= s[1] + 1, s2[2] = s[2]
  PROVE  s2 \in InTime(u)'
  <1>. DEFINE k == s[1]
              b == s[2]
              m == s2[1]
  <1>1. k \in Nat /\ b \in Nat /\ m \in Nat /\ m <= k + 1 /\ OnTime(u, k, b)
    BY DEF InTime
  <1>. SUFFICES OnTime(u, m, b)'
    BY DEF InTime
  <1>. HIDE DEF k, b, m
  <1>2. /\ at' = at /\ queue' = queue /\ config' = config /\ failures' = failures
        /\ \A t \in Tasks :
             /\ due'[t] = IF due[t] = 0 THEN 0 ELSE due[t] - 1
             /\ left'[t] = IF left[t] = 0 THEN 0 ELSE left[t] - 1
             /\ at[t] = "waiting" => due[t] # 0
             /\ at[t] \in {"probing", "storing"} => left[t] # 0
        /\ queue # <<>> => Cardinality(Holders) = Concurrency
    BY TimeOf
  <1>3. /\ config.timeout \in Nat \ {0} /\ Round(config) \in Nat
        /\ Spent \in Nat /\ Reserve \in Nat
        /\ \A t \in Tasks : due[t] \in Nat /\ left[t] \in Nat
    BY ConfigurationInForce, Shares DEF Types
  <1>4. Spent' = Spent /\ Reserve' = Reserve /\ Round(config)' = Round(config)
    BY <1>2 DEF Spent, Reserve, Round
  <1>5. ASSUME NEW r \in Nat, Blocked(u, r)
        PROVE  Blocked(u, r)'
    BY <1>2, <1>3, <1>5 DEF Blocked
  <1>6. CASE Waits(u, k, b)
    <2>1. PICK r \in Nat : Blocked(u, r) /\ k + due[u] + r <= b + Spent
      BY <1>6 DEF Waits
    <2>2. at[u] = "waiting" /\ due'[u] = due[u] - 1 /\ due[u] \in Nat
      BY <1>2, <1>3, <1>6 DEF Waits
    <2>3. m + due'[u] + r <= b + Spent
      BY <1>1, <1>3, <2>1, <2>2
    <2>4. Waits(u, m, b)'
      BY <1>2, <1>4, <1>5, <2>1, <2>2, <2>3 DEF Waits
    <2>. QED
      BY <2>4 DEF OnTime
  <1>7. CASE Works(u, k, b)
    <2>1. PICK r \in Nat : Blocked(u, r) /\ k + left[u] + r + Reserve <= b + Round(config)
      BY <1>7 DEF Works
    <2>2. at[u] \in {"probing", "storing"} /\ left'[u] = left[u] - 1 /\ left[u] \in Nat
      BY <1>2, <1>3, <1>7 DEF Works
    <2>3. m + left'[u] + r + Reserve <= b + Round(config)
      BY <1>1, <1>3, <2>1, <2>2
    <2>4. Works(u, m, b)'
      BY <1>2, <1>4, <1>5, <2>1, <2>2, <2>3 DEF Works
    <2>. QED
      BY <2>4 DEF OnTime
  <1>8. CASE Queues(u, k, b)
    <2>1. PICK i \in 1 .. Len(queue), r \in Nat, x \in 0 .. config.timeout, a \in Nat \ {0} :
            /\ queue[i] = u /\ Blocked(u, r)
            /\ Cardinality(Busy(x)) + i <= a * Concurrency
            /\ k + x + a * config.timeout + r + Reserve <= b + Round(config)
      BY <1>8 DEF Queues
    <2>2. at[u] = "queued"
      BY <1>8 DEF Queues
    <2>3. SUFFICES ASSUME TRUE
                   PROVE \E j \in 1 .. Len(queue), q \in Nat, y \in 0 .. config.timeout,
                            d \in Nat \ {0} :
                     /\ queue[j] = u /\ Blocked(u, q)'
                     /\ Cardinality(Busy(y)') + j <= d * Concurrency
                     /\ m + y + d * config.timeout + q + Reserve <= b + Round(config)
      <3>1. Queues(u, m, b)'
        BY <1>2, <1>4, <2>2, <2>3 DEF Queues
      <3>. QED
        BY <3>1 DEF OnTime
    <2>. DEFINE w == a * config.timeout
    <2>4. w \in Nat /\ x \in Nat /\ k + x + w + r + Reserve <= b + Round(config)
      BY <1>3, <2>1, OneMore
    <2>5. CASE \E h \in Tasks : at[h] = "storing"
      \* A write is waited for, and by no means a step longer than before.
      <3>1. PICK h \in Tasks : at[h] = "storing"
        BY <2>5
      <3>2. left[h] # 0 /\ left[h] \in Nat /\ left[h] <= r
        BY <1>2, <1>3, <2>1, <2>2, <3>1 DEF Blocked
      <3>3. r - 1 \in Nat
        BY <3>2
      <3>4. Blocked(u, r - 1)'
        <4>. SUFFICES ASSUME NEW g \in Tasks \ {u}, at[g] = "storing"
                      PROVE  left'[g] <= r - 1
          BY <1>2 DEF Blocked
        <4>1. left[g] <= r /\ left'[g] = left[g] - 1 /\ left[g] \in Nat
          BY <1>2, <1>3, <2>1 DEF Blocked
        <4>. QED
          BY <4>1
      <3>5. Cardinality(Busy(x)') + i <= a * Concurrency
        <4>1. \A y \in Nat : Busy(y)' \subseteq Busy(y)
          BY <1>2, <1>3 DEF Busy
        <4>. DEFINE Now == Busy(x)
                    Then == Busy(x)'
        <4>2. Then \in SUBSET Now
          BY <2>4, <4>1
        <4>3. IsFiniteSet(Now) /\ Cardinality(Now) \in Nat
          BY BusyFinite
        <4>. HIDE DEF Now, Then
        <4>4. Cardinality(Then) <= Cardinality(Now) /\ Cardinality(Then) \in Nat
          BY <4>2, <4>3, FS_Subset, FS_CardinalityType
        <4>5. a * Concurrency \in Nat /\ Cardinality(Now) + i <= a * Concurrency
          BY <2>1, FreshnessAssumption, OneMore DEF Now
        <4>6. Cardinality(Then) + i <= a * Concurrency
          BY <4>3, <4>4, <4>5
        <4>. QED
          BY <4>6 DEF Then
      <3>6. m + x + w + (r - 1) + Reserve <= b + Round(config)
        <4>1. Reserve \in Nat /\ Round(config) \in Nat
          BY <1>3
        <4>. HIDE DEF w
        <4>. QED
          BY <1>1, <2>4, <3>3, <4>1
      <3>. QED
        BY <2>1, <3>3, <3>4, <3>5, <3>6
    <2>6. CASE ~\E h \in Tasks : at[h] = "storing"
      \* All permits are with tasks that probe.
      <3>1. queue # <<>>
        BY <2>1
      <3>2. Busy(0) = Holders
        BY <1>2, <1>3, <2>6 DEF Busy, Holders
      <3>3. Cardinality(Busy(0)) = Concurrency
        BY <1>2, <3>1, <3>2
      <3>4. CASE x # 0
        <4>0. x \in Nat \ {0} /\ x \in 0 .. config.timeout /\ config.timeout \in Nat
          BY <1>3, <2>1, <3>4
        <4>1. Busy(x - 1)' = Busy(x)
          <5>1. ASSUME NEW h \in Tasks
                PROVE  /\ at'[h] = "probing" <=> at[h] = "probing"
                       /\ at[h] = "probing" => (left'[h] > x - 1 <=> left[h] > x)
            <6>1. at[h] = "probing" => left[h] \in Nat /\ left'[h] = left[h] - 1
              BY <1>2, <1>3
            <6>. QED
              BY <1>2, <4>0, <6>1
          <5>. QED
            BY <5>1 DEF Busy
        <4>2. x - 1 \in 0 .. config.timeout
          BY <4>0
        <4>3. m + (x - 1) + w + r + Reserve <= b + Round(config)
          <5>1. Reserve \in Nat /\ Round(config) \in Nat
            BY <1>3
          <5>. HIDE DEF w
          <5>. QED
            BY <1>1, <2>4, <4>0, <5>1
        <4>4. Cardinality(Busy(x - 1)') + i <= a * Concurrency
          BY <2>1, <4>1
        <4>5. Blocked(u, r)'
          BY <1>5, <2>1
        <4>. QED
          BY <2>1, <4>2, <4>3, <4>4, <4>5
      <3>5. CASE x = 0
        \* A turn is over.
        <4>1. Concurrency + i <= a * Concurrency /\ Concurrency \in Nat \ {0}
          BY <2>1, <3>3, <3>5, FreshnessAssumption
        <4>2. a # 1
          BY <2>1, <4>1
        <4>3. a - 1 \in Nat \ {0} /\ (a - 1) + 1 = a
          BY <4>2
        <4>4. /\ a * Concurrency = (a - 1) * Concurrency + Concurrency
              /\ (a - 1) * Concurrency \in Nat
          BY <4>1, OneLess
        <4>5. i <= (a - 1) * Concurrency
          BY <4>1, <4>4
        <4>6. PICK y \in 0 .. config.timeout : y = config.timeout - 1
          <5>1. config.timeout - 1 \in 0 .. config.timeout
            BY <1>3
          <5>. QED
            BY <5>1
        <4>7. Busy(y)' = {}
          <5>. SUFFICES ASSUME NEW h \in Tasks, at[h] = "probing", left'[h] > y
                        PROVE  FALSE
            BY <1>2 DEF Busy
          <5>1. left[h] <= config.timeout /\ left'[h] = left[h] - 1 /\ left[h] \in Nat
            BY <1>2, <1>3 DEF Timers
          <5>. QED
            BY <1>3, <4>6, <5>1
        <4>8. Cardinality(Busy(y)') + i <= (a - 1) * Concurrency
          BY <4>5, <4>7, FS_EmptySet
        <4>9. m + y + (a - 1) * config.timeout + r + Reserve <= b + Round(config)
          <5>. DEFINE v == (a - 1) * config.timeout
          <5>1. v \in Nat /\ w = v + config.timeout
            BY <1>3, OneLess
          <5>. HIDE DEF v, w
          <5>2. /\ y + 1 = config.timeout /\ y \in Nat
                /\ k + (v + (y + 1)) + r + Reserve <= b + Round(config)
            <6>1. y + 1 = config.timeout /\ y \in Nat
              BY <1>3, <4>6
            <6>2. w = v + (y + 1)
              BY <5>1, <6>1
            <6>3. k + 0 + w + r + Reserve <= b + Round(config)
              BY <2>4, <3>5
            <6>4. k + w + r + Reserve <= b + Round(config)
              BY <1>1, <1>3, <2>4, <6>3
            <6>. QED
              BY <6>1, <6>2, <6>4
          <5>3. m + y + v + r + Reserve <= b + Round(config)
            BY <1>1, <1>3, <5>1, <5>2
          <5>. QED
            BY <5>3 DEF v
        <4>10. Blocked(u, r)'
          BY <1>5, <2>1
        <4>. QED
          BY <2>1, <4>3, <4>6, <4>8, <4>9, <4>10
      <3>. QED
        BY <3>4, <3>5
    <2>. QED
      BY <2>5, <2>6
  <1>. QED
    BY <1>1, <1>6, <1>7, <1>8 DEF OnTime

LEMMA TimeRecent ==
  ASSUME Types, TimePasses, NEW u \in Tasks, Recent(u)
  PROVE  Recent(u)'
  <1>1. /\ at' = at /\ config' = config /\ failures' = failures
        /\ \A t \in Tasks :
             /\ due'[t] = IF due[t] = 0 THEN 0 ELSE due[t] - 1
             /\ left'[t] = IF left[t] = 0 THEN 0 ELSE left[t] - 1
             /\ at[t] \in {"probing", "storing"} => left[t] # 0
        /\ seen'[u] <= seen[u] + 1 /\ seen'[u] \in Nat
    BY TimeOf DEF Types
  <1>. SUFFICES ASSUME at[u] \in {"probing", "storing"}
                PROVE  \E r \in Nat :
                         /\ Blocked(u, r)'
                         /\ seen'[u] + due'[u] + r <= Turn(config)' + Spent'
                         /\ seen'[u] + left'[u] + r <= config'.timeout + Spent'
    BY <1>1 DEF Recent
  <1>2. PICK r \in Nat : /\ Blocked(u, r)
                        /\ seen[u] + due[u] + r <= Turn(config) + Spent
                        /\ seen[u] + left[u] + r <= config.timeout + Spent
    BY DEF Recent
  <1>3. /\ Spent \in Nat /\ config.timeout \in Nat /\ Turn(config) \in Nat
        /\ config.timeout <= Turn(config)
        /\ \A t \in Tasks : due[t] \in Nat /\ left[t] \in Nat
        /\ seen[u] \in Nat
    BY ConfigurationInForce, Shares DEF Types
  <1>4. Blocked(u, r)'
    BY <1>1, <1>2, <1>3 DEF Blocked
  <1>5. left'[u] = left[u] - 1 /\ left[u] \in Nat /\ left[u] # 0
    BY <1>1, <1>3
  <1>6. seen'[u] + left'[u] + r <= config.timeout + Spent
    BY <1>1, <1>2, <1>3, <1>5
  <1>7. seen'[u] + due'[u] + r <= Turn(config) + Spent
    <2>1. CASE due[u] = 0
      <3>1. due'[u] = 0
        BY <1>1, <2>1
      <3>2. seen'[u] + 0 + r <= config.timeout + Spent
        BY <1>1, <1>2, <1>3, <1>5
      <3>. QED
        BY <1>1, <1>3, <3>1, <3>2
    <2>2. CASE due[u] # 0
      <3>1. due'[u] = due[u] - 1 /\ due[u] \in Nat
        BY <1>1, <1>3, <2>2
      <3>. QED
        BY <1>1, <1>2, <1>3, <3>1
    <2>. QED
      BY <2>1, <2>2
  <1>8. Spent' = Spent /\ Turn(config)' = Turn(config)
    BY <1>1 DEF Spent, Turn
  <1>. QED
    BY <1>1, <1>4, <1>6, <1>7, <1>8

-----------------------------------------------------------------------------
(* The theorems.                                                           *)

\* Tasks as they have just been spawned.
Spawned ==
  /\ Types
  /\ at = [t \in Tasks |-> IF t \in config.enabled THEN "waiting" ELSE "off"]
  /\ \A t \in config.enabled : due[t] <= Jitter(config)
  /\ queue = <<>> /\ running = 0 /\ failures = 0

LEMMA SpawnedFits == Spawned => FreshnessInv
  <1>. SUFFICES ASSUME Spawned PROVE FreshnessInv
    OBVIOUS
  <1>1. Types
    BY DEF Spawned
  <1>2. /\ at \in [Tasks -> {"waiting", "off"}] /\ config.enabled \subseteq Tasks
        /\ \A t \in config.enabled : at[t] = "waiting"
        /\ \A t \in Tasks : at[t] \in {"waiting", "off"}
    BY <1>1, ConfigurationInForce DEF Spawned
  <1>3. InLine /\ Timers
    BY <1>2 DEF Spawned, InLine, Timers
  <1>4. \A t \in Tasks : Recent(t)
    BY <1>2 DEF Recent
  <1>5. Spent = 0 /\ Jitter(config) \in Nat
    BY <1>1, ConfigurationInForce, FreshnessAssumption DEF Spawned, Spent
  <1>6. ASSUME NEW t \in config.enabled
        PROVE  Kept(t)
    <2>1. Blocked(t, 0)
      BY <1>2 DEF Blocked
    <2>2. due[t] <= Jitter(config) /\ due[t] \in Nat /\ running = 0
      BY <1>1, <1>2 DEF Spawned, Types
    <2>3. running + due[t] + 0 <= Jitter(config) + Spent
      BY <1>5, <2>2
    <2>4. Waits(t, running, Jitter(config))
      BY <1>2, <2>1, <2>3 DEF Waits
    <2>5. <<running, Jitter(config)>> \in InTime(t)
      BY <1>5, <2>2, <2>4 DEF InTime, OnTime
    <2>. QED
      BY <2>5 DEF Kept
  <1>. QED
    BY <1>1, <1>3, <1>4, <1>6 DEF FreshnessInv

LEMMA InitialSpawned == Init => Spawned
  <1>. SUFFICES ASSUME Init PROVE Spawned
    OBVIOUS
  <1>1. Types
    BY InitialTypes
  <1>2. config.enabled \subseteq Tasks /\ Jitter(config) \in Nat
    BY <1>1, ConfigurationInForce
  <1>. QED
    BY <1>1, <1>2 DEF Init, Spawned

LEMMA ReloadSpawned ==
  ASSUME Types, NEW new \in Configurations, Reload(new)
  PROVE  Spawned'
  <1>1. Types'
    BY ReloadTypes
  <1>2. new.enabled \subseteq Tasks /\ Jitter(new) \in Nat
    BY SpansOfTime
  <1>3. config' = new /\ Jitter(config)' = Jitter(new)
    BY DEF Reload, Spawn, Jitter
  <1>4. \A t \in new.enabled : due'[t] <= Jitter(new)
    BY <1>2 DEF Reload, Spawn
  <1>. QED
    BY <1>1, <1>3, <1>4 DEF Reload, Spawn, Spawned

LEMMA TaskKeepsInv ==
  ASSUME FreshnessInv, NEW t \in Tasks,
         Tick(t) \/ Acquire(t) \/ Observe(t) \/ Persist(t) \/ FailToPersist(t)
  PROVE  FreshnessInv'
  <1>1. /\ Types /\ InLine /\ Timers /\ \A u \in Tasks : Recent(u)
        /\ config.enabled \subseteq Tasks /\ \A u \in config.enabled : Kept(u)
    BY ConfigurationInForce DEF FreshnessInv
  <1>2. Types' /\ Timers' /\ config' = config /\ running' = running
    BY <1>1, TaskTypes, TaskTimers DEF Tick, Acquire, Observe, Persist, FailToPersist
  <1>3. ASSUME NEW u \in Tasks, NEW own \in Nat, NEW other \in Nat,
               Spent' = Spent + own + other, Reserve' = Reserve - own - other,
               OwnTime(u, own), OthersTime(u, other), NoLaterInLine(u),
               seen'[u] = seen[u], age'[u] = age[u]
        PROVE  Recent(u)' /\ (u \in config.enabled => Kept(u)')
    <2>1. Recent(u)'
      BY <1>1, <1>2, <1>3, StaysRecent
    <2>2. InTime(u) \subseteq InTime(u)'
      BY <1>1, <1>2, <1>3, StaysInTime
    <2>3. u \in config.enabled => Kept(u)'
      BY <1>1, <1>2, <1>3, <2>2, StaysKept
    <2>. QED
      BY <2>1, <2>3
  <1>4. CASE Tick(t)
    <2>1. InLine'
      BY <1>1, <1>4, TickInLine
    <2>2. Spent' = Spent + 0 + 0 /\ Reserve' = Reserve - 0 - 0 /\ seen' = seen /\ age' = age
      BY <1>1, <1>4, NoFailure DEF Tick
    <2>3. ASSUME NEW u \in Tasks, u # t
          PROVE  Recent(u)' /\ (u \in config.enabled => Kept(u)')
      BY <1>1, <1>3, <1>4, <2>2, <2>3, TickOthers
    <2>4. Recent(t)'
      BY <1>1, <1>4 DEF Tick, Recent, Types
    <2>5. t \in config.enabled => Kept(t)'
      BY <1>1, <1>2, <1>4, <2>2, TickItself, StaysKept
    <2>. QED
      BY <1>1, <1>2, <2>1, <2>3, <2>4, <2>5 DEF FreshnessInv
  <1>5. CASE Acquire(t)
    <2>1. InLine'
      BY <1>1, <1>5, AcquireInLine
    <2>2. Spent' = Spent + 0 + 0 /\ Reserve' = Reserve - 0 - 0 /\ age' = age
          /\ \A u \in Tasks : u # t => seen'[u] = seen[u]
      BY <1>1, <1>5, NoFailure DEF Acquire, Types
    <2>3. ASSUME NEW u \in Tasks, u # t
          PROVE  Recent(u)' /\ (u \in config.enabled => Kept(u)')
      BY <1>1, <1>3, <1>5, <2>2, <2>3, AcquireOthers
    <2>4. Recent(t)' /\ InTime(t) \subseteq InTime(t)'
      BY <1>1, <1>5, AcquireItself
    <2>5. t \in config.enabled => Kept(t)'
      BY <1>1, <1>2, <2>2, <2>4, StaysKept
    <2>. QED
      BY <1>1, <1>2, <2>1, <2>3, <2>4, <2>5 DEF FreshnessInv
  <1>6. CASE Observe(t)
    <2>1. InLine'
      BY <1>1, <1>6, OthersInLine DEF Observe, Types
    <2>2. Spent' = Spent + 0 + 0 /\ Reserve' = Reserve - 0 - 0 /\ seen' = seen /\ age' = age
      BY <1>1, <1>6, NoFailure DEF Observe
    <2>3. ASSUME NEW u \in Tasks
          PROVE  Recent(u)' /\ (u \in config.enabled => Kept(u)')
      BY <1>1, <1>3, <1>6, <2>2, ObserveAll
    <2>. QED
      BY <1>1, <1>2, <2>1, <2>3 DEF FreshnessInv
  <1>7. CASE Persist(t)
    <2>1. InLine'
      BY <1>1, <1>7, OthersInLine DEF Persist, Types
    <2>2. Spent' = Spent + 0 + 0 /\ Reserve' = Reserve - 0 - 0 /\ seen' = seen
          /\ \A u \in Tasks : u # t => age'[u] = age[u]
      BY <1>1, <1>7, NoFailure DEF Persist, Types
    <2>3. ASSUME NEW u \in Tasks, u # t
          PROVE  Recent(u)' /\ (u \in config.enabled => Kept(u)')
      BY <1>1, <1>3, <1>7, <2>2, <2>3, PersistOthers
    <2>4. Recent(t)' /\ Kept(t)'
      BY <1>1, <1>7, PersistItself
    <2>. QED
      BY <1>1, <1>2, <2>1, <2>3, <2>4 DEF FreshnessInv
  <1>8. CASE FailToPersist(t)
    <2>1. InLine'
      BY <1>1, <1>8, OthersInLine DEF FailToPersist, Types
    <2>2. /\ Spent' = Spent + RetryDelay /\ Reserve' = Reserve - RetryDelay
          /\ Spent \in Nat /\ Reserve \in Nat /\ RetryDelay \in Nat
          /\ seen' = seen /\ age' = age
      BY <1>1, <1>8, OneFailure DEF FailToPersist
    <2>3. /\ Spent' = Spent + RetryDelay + 0 /\ Reserve' = Reserve - RetryDelay - 0
          /\ Spent' = Spent + 0 + RetryDelay /\ Reserve' = Reserve - 0 - RetryDelay
      BY <2>2
    <2>4. ASSUME NEW u \in Tasks, u # t
          PROVE  Recent(u)' /\ (u \in config.enabled => Kept(u)')
      <3>1. OwnTime(u, 0) /\ OthersTime(u, RetryDelay) /\ NoLaterInLine(u)
        BY <1>1, <1>8, <2>4, FailAll
      <3>. QED
        BY <1>3, <2>2, <2>3, <3>1
    <2>5. Recent(t)' /\ (t \in config.enabled => Kept(t)')
      <3>1. OwnTime(t, RetryDelay) /\ OthersTime(t, 0) /\ NoLaterInLine(t)
        BY <1>1, <1>8, FailAll
      <3>. QED
        BY <1>3, <2>2, <2>3, <3>1
    <2>. QED
      BY <1>1, <1>2, <2>1, <2>4, <2>5 DEF FreshnessInv
  <1>. QED
    BY <1>4, <1>5, <1>6, <1>7, <1>8

LEMMA TimeKeepsInv ==
  ASSUME FreshnessInv, TimePasses
  PROVE  FreshnessInv'
  <1>1. /\ Types /\ InLine /\ Timers /\ \A u \in Tasks : Recent(u)
        /\ config.enabled \subseteq Tasks /\ \A u \in config.enabled : Kept(u)
    BY ConfigurationInForce DEF FreshnessInv
  <1>2. /\ Types' /\ at' = at /\ queue' = queue /\ config' = config
        /\ \A u \in Tasks : age'[u] <= age[u] + 1
        /\ running' <= running + 1
    BY <1>1, TimeOf
  <1>3. InLine' /\ Timers' /\ \A u \in Tasks : Recent(u)'
    BY <1>1, <1>2, OthersInLine, TimeTimers, TimeRecent
  <1>4. ASSUME NEW u \in config.enabled
        PROVE  Kept(u)'
    <2>1. u \in Tasks /\ Kept(u)
      BY <1>1
    <2>2. Turn(config)' = Turn(config) /\ Jitter(config)' = Jitter(config)
          /\ Turn(config) \in Nat /\ Jitter(config) \in Nat
      BY <1>1, <1>2, ConfigurationInForce DEF Turn, Jitter
    <2>3. /\ age[u] \in Nat /\ age'[u] \in Nat /\ running \in Nat /\ running' \in Nat
      BY <1>1, <1>2, <2>1 DEF Types
    <2>4. CASE <<age[u], Turn(config)>> \in InTime(u)
      <3>1. PICK s \in InTime(u) : s = <<age[u], Turn(config)>>
        BY <2>4
      <3>2. PICK s2 \in Nat \X Nat : s2 = <<age'[u], Turn(config)>>
        BY <2>2, <2>3
      <3>3. s2[1] <= s[1] + 1 /\ s2[2] = s[2]
        BY <1>2, <2>1, <3>1, <3>2
      <3>4. s2 \in InTime(u)'
        BY <1>1, <2>1, <3>3, TimeInTime
      <3>. QED
        BY <2>2, <3>2, <3>4 DEF Kept
    <2>5. CASE <<running, Jitter(config)>> \in InTime(u)
      <3>1. PICK s \in InTime(u) : s = <<running, Jitter(config)>>
        BY <2>5
      <3>2. PICK s2 \in Nat \X Nat : s2 = <<running', Jitter(config)>>
        BY <2>2, <2>3
      <3>3. s2[1] <= s[1] + 1 /\ s2[2] = s[2]
        BY <1>2, <3>1, <3>2
      <3>4. s2 \in InTime(u)'
        BY <1>1, <2>1, <3>3, TimeInTime
      <3>. QED
        BY <2>2, <3>2, <3>4 DEF Kept
    <2>. QED
      BY <2>1, <2>4, <2>5 DEF Kept
  <1>. QED
    BY <1>2, <1>3, <1>4 DEF FreshnessInv

\* The queue, the timers and the tasks at work fit the configuration in force (run_job), and
\* every check has stored lately enough, or is in its first turn.
THEOREM FreshnessInvariant == Spec => []FreshnessInv
  <1>1. Init => FreshnessInv
    BY InitialSpawned, SpawnedFits
  <1>2. FreshnessInv /\ [Next]_vars => FreshnessInv'
    <2>. SUFFICES ASSUME FreshnessInv, [Next]_vars PROVE FreshnessInv'
      OBVIOUS
    <2>1. ASSUME NEW new \in Configurations, Reload(new)
          PROVE  FreshnessInv'
      <3>1. Spawned'
        BY <2>1, ReloadSpawned DEF FreshnessInv
      <3>2. Spawned' => FreshnessInv'
        BY SpawnedFits, PTL
      <3>. QED
        BY <3>1, <3>2
    <2>2. ASSUME NEW t \in Tasks,
                 Tick(t) \/ Acquire(t) \/ Observe(t) \/ Persist(t) \/ FailToPersist(t)
          PROVE  FreshnessInv'
      BY <2>2, TaskKeepsInv
    <2>3. CASE TimePasses
      BY <2>3, TimeKeepsInv
    <2>4. CASE UNCHANGED vars
      <3>1. /\ config' = config /\ at' = at /\ due' = due /\ left' = left /\ seen' = seen
            /\ queue' = queue /\ age' = age /\ running' = running /\ failures' = failures
        BY <2>4 DEF vars
      <3>2. Types /\ InLine /\ Timers
        BY DEF FreshnessInv
      <3>3. Types'
        BY <3>1, <3>2 DEF Types
      <3>4. InLine'
        BY <3>1, <3>2 DEF InLine
      <3>5. Timers'
        BY <3>1, <3>2 DEF Timers, Spent
      <3>6. ASSUME NEW u \in Tasks PROVE Recent(u)'
        <4>1. Recent(u)
          BY DEF FreshnessInv
        <4>. QED
          BY <3>1, <4>1 DEF Recent, Blocked, Spent, Turn
      <3>7. ASSUME NEW u \in config.enabled PROVE Kept(u)'
        <4>1. Kept(u)
          BY DEF FreshnessInv
        <4>2. InTime(u)' = InTime(u)
          BY <3>1 DEF InTime, OnTime, Waits, Queues, Works, Blocked, Busy, Spent, Reserve, Round
        <4>. QED
          BY <3>1, <4>1, <4>2 DEF Kept, Turn, Jitter
      <3>. QED
        BY <3>1, <3>3, <3>4, <3>5, <3>6, <3>7 DEF FreshnessInv
    <2>. QED
      BY <2>1, <2>2, <2>3, <2>4 DEF Next
  <1>. QED
    BY <1>1, <1>2, PTL DEF Spec

\* Who is on time has a clock that shows no more than a round.
LEMMA ARoundAtMost ==
  ASSUME Types, NEW t \in Tasks, NEW s \in InTime(t)
  PROVE  s[1] <= s[2] + Round(config)
  <1>. DEFINE k == s[1]
              b == s[2]
  <1>1. k \in Nat /\ b \in Nat /\ OnTime(t, k, b)
    BY DEF InTime
  <1>. HIDE DEF k, b
  <1>2. /\ config.timeout \in Nat /\ Round(config) \in Nat /\ Spent \in Nat /\ Reserve \in Nat
        /\ due[t] \in Nat /\ left[t] \in Nat /\ Turns * config.timeout \in Nat
        /\ Round(config) = Turns * config.timeout + Spent + Reserve
    <2>1. due[t] \in Nat /\ left[t] \in Nat
      BY DEF Types
    <2>2. /\ config.timeout \in Nat /\ Round(config) \in Nat /\ Turns * config.timeout \in Nat
          /\ Round(config) = Turns * config.timeout + MaxFailures * RetryDelay
          /\ MaxFailures * RetryDelay \in Nat
      BY ConfigurationInForce
    <2>3. Spent \in Nat /\ Reserve \in Nat /\ Spent + Reserve = MaxFailures * RetryDelay
      BY Shares
    <2>. DEFINE w == Turns * config.timeout
                v == MaxFailures * RetryDelay
    <2>4. w \in Nat /\ v \in Nat /\ Round(config) = w + v /\ Spent + Reserve = v
      BY <2>2, <2>3
    <2>. HIDE DEF w, v
    <2>5. Round(config) = w + Spent + Reserve
      BY <2>2, <2>3, <2>4
    <2>. QED
      BY <2>1, <2>2, <2>3, <2>5 DEF w
  <1>3. CASE Waits(t, k, b)
    <2>1. PICK r \in Nat : k + due[t] + r <= b + Spent
      BY <1>3 DEF Waits
    <2>2. k <= b + Spent
      BY <1>1, <1>2, <2>1
    <2>3. Spent <= Round(config)
      <3>. DEFINE w == Turns * config.timeout
      <3>1. w \in Nat /\ Round(config) = w + Spent + Reserve
        BY <1>2
      <3>. HIDE DEF w
      <3>. QED
        BY <1>2, <3>1
    <2>. QED
      BY <1>1, <1>2, <2>2, <2>3 DEF k, b
  <1>4. CASE Queues(t, k, b)
    <2>1. PICK r \in Nat, x \in 0 .. config.timeout, a \in Nat \ {0} :
            k + x + a * config.timeout + r + Reserve <= b + Round(config)
      BY <1>4 DEF Queues
    <2>. DEFINE w == a * config.timeout
    <2>2. w \in Nat /\ x \in Nat /\ k + x + w + r + Reserve <= b + Round(config)
      BY <1>2, <2>1, OneMore
    <2>. HIDE DEF w
    <2>3. k <= b + Round(config)
      BY <1>1, <1>2, <2>2
    <2>. QED
      BY <2>3 DEF k, b
  <1>5. CASE Works(t, k, b)
    <2>1. PICK r \in Nat : k + left[t] + r + Reserve <= b + Round(config)
      BY <1>5 DEF Works
    <2>2. k <= b + Round(config)
      BY <1>1, <1>2, <2>1
    <2>. QED
      BY <2>2 DEF k, b
  <1>. QED
    BY <1>1, <1>3, <1>4, <1>5 DEF OnTime

LEMMA AgesAreBounded == FreshnessInv => NoCheckFallsBehind
  <1>. SUFFICES ASSUME FreshnessInv, running = Settled(config), NEW t \in config.enabled
                PROVE  age[t] <= Turn(config) + Round(config)
    BY DEF NoCheckFallsBehind
  <1>1. Types /\ t \in Tasks /\ Kept(t)
    BY ConfigurationInForce DEF FreshnessInv
  <1>2. running = Jitter(config) + Round(config) + 1
        /\ Jitter(config) \in Nat /\ Round(config) \in Nat
    BY <1>1, ConfigurationInForce DEF Settled
  <1>3. <<running, Jitter(config)>> \notin InTime(t)
    <2>. SUFFICES ASSUME <<running, Jitter(config)>> \in InTime(t) PROVE FALSE
      OBVIOUS
    <2>1. running <= Jitter(config) + Round(config)
      BY <1>1, ARoundAtMost
    <2>. QED
      BY <1>2, <2>1
  <1>. QED
    BY <1>1, <1>3, ARoundAtMost DEF Kept

LEMMA ReadyWhenFresh == FreshnessInv => ReadyAfterFirstRound
  <1>. SUFFICES ASSUME FreshnessInv, running = Settled(config),
                       Round(config) <= config.interval + Min({config.interval, config.timeout})
                PROVE  Ready
    BY DEF ReadyAfterFirstRound
  <1>1. /\ Turn(config) \in Nat /\ Round(config) \in Nat /\ FreshFor(config) \in Nat
        /\ \A t \in config.enabled : age[t] \in Nat
        /\ \A t \in config.enabled : age[t] <= Turn(config) + Round(config)
        /\ Turn(config) + Round(config) <= FreshFor(config)
    <2>1. /\ config.interval \in Nat /\ config.timeout \in Nat
          /\ Turn(config) \in Nat /\ Round(config) \in Nat /\ FreshFor(config) \in Nat
          /\ \A t \in config.enabled : age[t] \in Nat
      BY ConfigurationInForce, SpansOfTime DEF FreshnessInv, Types
    <2>2. \A t \in config.enabled : age[t] <= Turn(config) + Round(config)
      BY AgesAreBounded DEF NoCheckFallsBehind
    <2>3. Turn(config) + Min({config.interval, config.timeout})
            = config.interval + config.timeout
      BY <2>1, LargerOfTwo, SmallerOfTwo DEF Turn
    <2>4. Min({config.interval, config.timeout}) \in Nat
      BY <2>1, SmallerOfTwo
    <2>5. FreshFor(config) = 2 * config.interval + config.timeout
      BY DEF FreshFor
    <2>. QED
      BY <2>1, <2>2, <2>3, <2>4, <2>5
  <1>2. \A t \in config.enabled : ~Stale(t)
    BY <1>1 DEF Stale
  <1>3. {t \in config.enabled : ~Stale(t)} = config.enabled
    BY <1>2
  <1>. QED
    BY <1>3 DEF Ready

\* No check falls behind (run_job): once the tasks have run for a while, no row is older than
\* a turn and a round of all checks, for any number of checks and permits.
THEOREM NoCheckFallsBehindCorrect == Spec => []NoCheckFallsBehind
  <1>1. FreshnessInv => NoCheckFallsBehind
    BY AgesAreBounded
  <1>. QED
    BY <1>1, FreshnessInvariant, PTL

\* /readyz says "ready" once the first round is over and goes on saying so (readyz,
\* is_fresh), whatever the reloads do, if a turn and a round take no longer than is_fresh
\* allows.
THEOREM ReadyAfterFirstRoundCorrect == Spec => []ReadyAfterFirstRound
  <1>1. FreshnessInv => ReadyAfterFirstRound
    BY ReadyWhenFresh
  <1>. QED
    BY <1>1, FreshnessInvariant, PTL
=============================================================================
