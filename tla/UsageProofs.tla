----------------------------- MODULE UsageProofs -----------------------------
(* A host is reported as inactive exactly if it was seen to be, for any     *)
(* durations, retention and freshness and for any number of changes.        *)
EXTENDS Usage, Selection, WellFoundedInduction, TLAPS

-----------------------------------------------------------------------------
(* The inductive invariant.                                                *)

CatalogInv ==
  /\ up => catalog = identity
  /\ ~up => catalog = {} /\ cache = {} /\ pending = {}

\* Observations are stored in the order in which they are made, one per instant.
SeenInv ==
  /\ \A o \in seen : o.at <= now /\ o.life <= life
  /\ \A o, p \in seen : o.at = p.at => o = p
  /\ \A s \in pending : s.at <= now /\ \A o \in seen : o.at < s.at

\* Every row is an observation.
RowsInv == \A r \in rows : \E o \in seen : o.at = r.at /\ o.users = r.users

\* The latest row is the last observation, and the last row of the history says the same.
LatestInv ==
  \A s \in latest :
    /\ \E o \in seen : o.at = s.at /\ o.users = s.users /\ o.life <= life
    /\ \A o \in seen : o.at <= s.at
    /\ \E r \in rows : r.users = s.users /\ \A q \in rows : q.at <= r.at

\* A host that was observed as it is configured now has rows in these tables.
LifeInv == \A o \in seen : o.life = life => latest # {} /\ coverage # {}

\* Coverage begins with an observation; it and the later ones are of the host as it is
\* now, and each was followed by the next before it was too old.
CoverInv ==
  \A c \in coverage :
    /\ \E s \in latest : c.observed = s.at
    /\ \E o \in seen : o.at = c.started
    /\ \A o \in seen :
         o.at >= c.started =>
           /\ o.life = life
           /\ \/ o.at = c.observed
              \/ \E p \in seen : o.at < p.at /\ p.at - o.at <= MaxAge

\* Coverage begins no later than it has to: before it there is a gap.
GapInv ==
  \A c \in coverage, o \in seen :
    o.life = life /\ o.at < c.started =>
      \E p \in seen : /\ o.at <= p.at /\ p.at < c.started
                      /\ \A q \in seen : p.at < q.at =>
                           q.at >= c.started /\ q.at - p.at > MaxAge

UsageInv ==
  /\ TypeOK
  /\ CatalogInv
  /\ SeenInv
  /\ RowsInv
  /\ LatestInv
  /\ LifeInv
  /\ CoverInv
  /\ GapInv
  /\ HistoryTellsObservations

-----------------------------------------------------------------------------
(* Greatest and least elements.                                            *)

LEMMA MaxOfTwo ==
  ASSUME NEW a \in Int, NEW b \in Int
  PROVE  Max({a, b}) = IF a <= b THEN b ELSE a
  <1>1. \E x \in {a, b} : \A y \in {a, b} : x >= y
    <2>1. CASE a <= b
      BY <2>1
    <2>2. CASE b <= a
      BY <2>2
    <2>. QED
      BY <2>1, <2>2
  <1>2. Max({a, b}) \in {a, b} /\ \A y \in {a, b} : Max({a, b}) >= y
    BY <1>1 DEF Max
  <1>. HIDE DEF Max
  <1>. QED
    BY <1>2

LEMMA MaxOfOne ==
  ASSUME NEW a \in Int
  PROVE  Max({a}) = a
  BY MaxOfTwo

LEMMA HasFirst ==
  ASSUME NEW T \in SUBSET Nat, T # {}
  PROVE  \E m \in T : \A t \in T : m <= t
  <1>. DEFINE R == {ss \in Nat \X Nat : ss[1] < ss[2]}
  <1>1. IsWellFoundedOn(R, Nat)
    BY NatLessThanWellFounded DEF OpToRel
  <1>2. \A x, y \in Nat : <<y, x>> \in R <=> y < x
    OBVIOUS
  <1>. HIDE DEF R
  <1>3. PICK x \in T : \A y \in T : ~ (<<y, x>> \in R)
    BY <1>1, WFMin, Zenon
  <1>4. \A y \in T : ~(y < x)
    BY <1>2, <1>3
  <1>. QED
    BY <1>4

LEMMA HasLast ==
  ASSUME NEW T \in SUBSET Nat, T # {}, NEW b \in Nat, \A t \in T : t <= b
  PROVE  \E m \in T : \A t \in T : t <= m
  <1>. DEFINE U == {n \in Nat : \E t \in T : n = b - t}
  <1>1. PICK t \in T : TRUE
    OBVIOUS
  <1>2. b - t \in Nat
    OBVIOUS
  <1>3. U \in SUBSET Nat /\ U # {}
    BY <1>2
  <1>. HIDE DEF U
  <1>4. PICK u \in U : \A v \in U : u <= v
    BY <1>3, HasFirst
  <1>5. PICK m \in T : u = b - m
    BY <1>4 DEF U
  <1>6. ASSUME NEW n \in T PROVE n <= m
    <2>1. b - n \in U
      BY DEF U
    <2>. QED
      BY <1>4, <1>5, <2>1
  <1>. QED
    BY <1>6

-----------------------------------------------------------------------------
(* Every step preserves the invariant.                                     *)

LEMMA InitEstablishesUsageInv == Init => UsageInv
  <1>. SUFFICES ASSUME Init PROVE UsageInv
    OBVIOUS
  <1>1. 0 \in Instants
    BY UsageAssumption DEF Instants
  <1>2. TypeOK
    BY <1>1 DEF Init, TypeOK, HasAtMostOne
  <1>3. CatalogInv /\ SeenInv /\ RowsInv /\ LatestInv /\ LifeInv
    BY DEF Init, CatalogInv, SeenInv, RowsInv, LatestInv, LifeInv
  <1>4. CoverInv /\ GapInv /\ HistoryTellsObservations
    BY DEF Init, CoverInv, GapInv, HistoryTellsObservations
  <1>. QED
    BY <1>2, <1>3, <1>4 DEF UsageInv

\* If the host keeps its coverage then no table changes, else nothing that was observed
\* so far is of the host as it now is.
LEMMA SyncPreservesUsageInv ==
  ASSUME UsageInv, NEW c \in Optional(Host), SyncIdentities(c),
         up' = TRUE, catalog' = c, cache' = latest', pending' = {},
         now' = now, changes' \in Nat
  PROVE  UsageInv'
  <1>. USE DEF UsageInv
  <1>1. c \subseteq Host /\ HasAtMostOne(c)
    BY DEF Optional, HasAtMostOne
  <1>2. KeepsCoverage(c) => SameAddress(identity, c)
    BY DEF KeepsCoverage, SameAddress
  <1>3. \/ life' = life /\ latest' = latest /\ coverage' = coverage
        \/ life' = life + 1 /\ latest' \subseteq latest /\ coverage' = {}
    BY <1>2 DEF SyncIdentities
  <1>4. rows' = rows /\ floor' = floor /\ seen' = seen /\ identity' = c
    BY DEF SyncIdentities
  <1>5. \A o \in seen : o.life \in Nat /\ o.life <= life
    BY DEF TypeOK, SeenInv
  <1>6. life \in Nat
    BY DEF TypeOK
  <1>7. TypeOK'
    BY <1>1, <1>3, <1>4 DEF TypeOK, HasAtMostOne
  <1>8. CatalogInv' /\ RowsInv'
    BY <1>4 DEF CatalogInv, RowsInv
  <1>9. SeenInv'
    BY <1>3, <1>4, <1>5, <1>6 DEF SeenInv
  <1>10. LatestInv'
    BY <1>3, <1>4, <1>5, <1>6 DEF LatestInv
  <1>11. LifeInv'
    BY <1>3, <1>4, <1>5, <1>6 DEF LifeInv
  <1>12. CoverInv'
    BY <1>3, <1>4 DEF CoverInv
  <1>13. GapInv'
    BY <1>3, <1>4 DEF GapInv
  <1>14. HistoryTellsObservations'
    BY <1>3, <1>4, <1>5, <1>6 DEF HistoryTellsObservations, Retained
  <1>. QED
    BY <1>7, <1>8, <1>9, <1>10, <1>11, <1>12, <1>13, <1>14

LEMMA StartPreservesUsageInv ==
  ASSUME UsageInv, NEW c \in Optional(Host), Start(c)
  PROVE  UsageInv'
  <1>1. pending' = {} /\ changes' \in Nat
    BY DEF UsageInv, TypeOK, CatalogInv, Start, Changes
  <1>. QED
    BY <1>1, SyncPreservesUsageInv DEF Start

LEMMA ReplacePreservesUsageInv ==
  ASSUME UsageInv, NEW c \in Optional(Host), ReplaceConfiguration(c)
  PROVE  UsageInv'
  <1>1. catalog = identity /\ cache = latest
    BY DEF UsageInv, TypeOK, CatalogInv, ReplaceConfiguration
  <1>2. cache' = latest'
    BY <1>1 DEF ReplaceConfiguration, SyncIdentities
  <1>3. up' = TRUE /\ changes' \in Nat
    BY DEF UsageInv, TypeOK, ReplaceConfiguration, Changes
  <1>. QED
    BY <1>2, <1>3, SyncPreservesUsageInv DEF ReplaceConfiguration

LEMMA CollectPreservesUsageInv ==
  ASSUME UsageInv, Collect
  PROVE  UsageInv'
  <1>. USE DEF UsageInv
  <1>1. PICK u \in Users : pending' = {[at |-> now, users |-> u]}
    BY DEF Collect
  <1>2. \A s \in pending' : s \in Snapshot /\ s.at = now
    BY <1>1 DEF TypeOK, Snapshot
  <1>3. up /\ UNCHANGED <<now, up, catalog, cache, identity, latest, coverage, rows, floor,
                          seen, life, changes>>
    BY DEF Collect, tables, ghosts
  <1>4. TypeOK'
    BY <1>1, <1>2, <1>3 DEF TypeOK, HasAtMostOne
  <1>5. SeenInv'
    <2>1. \A o \in seen : o.at \in Int /\ o.at <= now /\ o.at # now
      BY DEF TypeOK, SeenInv, Collect, Instants
    <2>2. now \in Int
      BY DEF TypeOK, Instants
    <2>. QED
      BY <1>2, <1>3, <2>1, <2>2 DEF SeenInv
  <1>6. CatalogInv' /\ RowsInv' /\ LatestInv' /\ LifeInv'
    BY <1>3 DEF CatalogInv, RowsInv, LatestInv, LifeInv
  <1>7. CoverInv' /\ GapInv' /\ HistoryTellsObservations'
    BY <1>3 DEF CoverInv, GapInv, HistoryTellsObservations, Retained
  <1>. QED
    BY <1>4, <1>5, <1>6, <1>7

LEMMA TickOrEndPreservesUsageInv ==
  ASSUME UsageInv, Tick \/ ProcessEnds
  PROVE  UsageInv'
  <1>. USE DEF UsageInv
  <1>1. UNCHANGED <<identity, latest, coverage, rows, floor, seen, life, changes>>
    BY DEF Tick, ProcessEnds, tables, ghosts
  <1>2. /\ now' \in Instants /\ now <= now'
        /\ \/ UNCHANGED <<up, catalog, cache, pending>>
           \/ up' = FALSE /\ catalog' = {} /\ cache' = {} /\ pending' = {}
    BY UsageAssumption DEF Tick, ProcessEnds, TypeOK, Instants, ram
  <1>3. TypeOK'
    <2>1. up' \in BOOLEAN /\ (up' => cache' = latest')
      <3>1. CASE UNCHANGED <<up, catalog, cache, pending>>
        BY <1>1, <3>1 DEF TypeOK
      <3>2. CASE up' = FALSE
        BY <3>2
      <3>. QED
        BY <1>2, <3>1, <3>2
    <2>2. /\ catalog' \subseteq catalog
          /\ cache' \subseteq cache
          /\ pending' \subseteq pending
      BY <1>2
    <2>. QED
      BY <1>1, <1>2, <2>1, <2>2 DEF TypeOK, HasAtMostOne
  <1>4. SeenInv'
    <2>1. \A o \in seen \cup pending : o.at \in Int
      BY DEF TypeOK, Instants, Snapshot
    <2>2. now \in Int /\ now' \in Int
      BY <1>2 DEF TypeOK, Instants
    <2>. QED
      BY <1>1, <1>2, <2>1, <2>2 DEF SeenInv
  <1>5. CatalogInv' /\ RowsInv' /\ LatestInv' /\ LifeInv'
    BY <1>1, <1>2 DEF CatalogInv, RowsInv, LatestInv, LifeInv
  <1>6. CoverInv' /\ GapInv' /\ HistoryTellsObservations'
    BY <1>1 DEF CoverInv, GapInv, HistoryTellsObservations, Retained
  <1>. QED
    BY <1>3, <1>4, <1>5, <1>6

\* If it was not carried on, coverage begins with the observation, since the last one
\* was too old.
LEMMA UpdatePreservesUsageInv ==
  ASSUME UsageInv, UpdateUsage
  PROVE  UsageInv'
  <1>. USE DEF UsageInv
  <1>1. PICK s \in pending :
          /\ UpdateCoverage(s)
          /\ latest' = {s}
          /\ rows' = rows \cup {r \in {s} : ShouldInsertHistory(r)}
          /\ cache' = {s}
          /\ pending' = {}
          /\ seen' = seen \cup {[at |-> s.at, users |-> s.users, life |-> life]}
          /\ UNCHANGED <<now, up, catalog, identity, floor, life, changes>>
    BY DEF UpdateUsage
  <1>. DEFINE e == [at |-> s.at, users |-> s.users, life |-> life]
  <1>2. /\ s \in Snapshot /\ s.at \in Nat /\ s.at \in Instants /\ s.users \in Users
        /\ s.at <= now
        /\ now \in Nat /\ life \in Nat
    BY DEF TypeOK, SeenInv, Snapshot, Instants
  <1>3. /\ e.at = s.at /\ e.users = s.users /\ e.life = life
        /\ e \in [at : Instants, users : Users, life : Nat]
        /\ seen' = seen \cup {e}
    BY <1>1, <1>2
  <1>. HIDE DEF e
  <1>4. \A o \in seen : /\ o.at \in Nat /\ o.life \in Nat /\ o.at < s.at
                        /\ o.life <= life
    BY DEF TypeOK, SeenInv, Instants
  <1>5. \A r \in rows : r.at \in Nat /\ r.at < s.at
    BY <1>4 DEF RowsInv, TypeOK, Snapshot, Instants
  <1>6. up /\ cache = latest
    BY DEF CatalogInv, TypeOK
  <1>7. PICK a \in Instants :
          /\ coverage' = {[started |-> a, observed |-> s.at]}
          /\ \/ \E c \in coverage : a = c.started /\ IsFresh(c.observed, s.at)
             \/ a = s.at /\ \A c \in coverage : ~IsFresh(c.observed, s.at)
    <2>. DEFINE fresh == {c \in coverage : IsFresh(c.observed, s.at)}
                carried == {c.started : c \in fresh}
    <2>1. CASE carried = {}
      BY <1>1, <1>2, <2>1 DEF UpdateCoverage
    <2>2. CASE carried # {}
      <3>1. PICK c \in fresh : c \in coverage
        BY <2>2
      <3>2. carried = {c.started}
        BY <3>1 DEF TypeOK, HasAtMostOne
      <3>3. c.started \in Instants /\ c.started \in Int
        BY <3>1 DEF TypeOK, Instants
      <3>4. Max(carried) = c.started
        BY <3>2, <3>3, MaxOfOne
      <3>5. coverage' = {[started |-> c.started, observed |-> s.at]}
        BY <1>1, <2>2, <3>4 DEF UpdateCoverage
      <3>. QED
        BY <3>1, <3>3, <3>5
    <2>. QED
      BY <2>1, <2>2
  <1>8. \A c \in coverage' : c.started = a /\ c.observed = s.at
    BY <1>7
  <1>9. a \in Nat /\ s.at \in Nat
    BY <1>2 DEF Instants
  <1>10. \A c \in coverage : c.started \in Nat /\ c.observed \in Nat
    BY DEF TypeOK, Instants
  <1>11. TypeOK'
    <2>1. coverage' \subseteq [started : Instants, observed : Instants]
      BY <1>2, <1>7
    <2>2. HasAtMostOne(coverage)'
      BY <1>7 DEF HasAtMostOne
    <2>3. HasAtMostOne(latest)' /\ HasAtMostOne(cache)' /\ HasAtMostOne(pending)'
      BY <1>1 DEF HasAtMostOne
    <2>4. rows' \subseteq Snapshot /\ latest' \subseteq Snapshot
      BY <1>1, <1>2 DEF TypeOK
    <2>5. seen' \subseteq [at : Instants, users : Users, life : Nat]
      BY <1>3 DEF TypeOK
    <2>. QED
      BY <1>1, <2>1, <2>2, <2>3, <2>4, <2>5 DEF TypeOK, HasAtMostOne
  <1>12. CatalogInv'
    BY <1>1, <1>6 DEF CatalogInv
  <1>13. SeenInv'
    BY <1>1, <1>2, <1>3, <1>4 DEF SeenInv
  <1>14. RowsInv'
    BY <1>1, <1>3 DEF RowsInv
  <1>15. \E r \in rows' : r.users = s.users /\ \A q \in rows' : q.at <= r.at
    <2>1. CASE ShouldInsertHistory(s)
      BY <1>1, <1>2, <1>5, <2>1
    <2>2. CASE ~ShouldInsertHistory(s)
      <3>1. PICK l \in latest : l.users = s.users
        BY <1>6, <2>2 DEF ShouldInsertHistory
      <3>2. rows' = rows
        BY <1>1, <2>2
      <3>. QED
        BY <3>1, <3>2 DEF LatestInv
    <2>. QED
      BY <2>1, <2>2
  <1>16. LatestInv'
    BY <1>1, <1>2, <1>3, <1>4, <1>15 DEF LatestInv
  <1>17. LifeInv'
    BY <1>1, <1>7 DEF LifeInv
  <1>18. CoverInv'
    <2>1. \E t \in latest' : s.at = t.at
      BY <1>1
    <2>2. \E o \in seen' : o.at = a
      BY <1>3, <1>7 DEF CoverInv
    <2>3. ASSUME NEW o \in seen', o.at >= a
          PROVE  /\ o.life = life
                 /\ \/ o.at = s.at
                    \/ \E p \in seen' : o.at < p.at /\ p.at - o.at <= MaxAge
      <3>1. CASE o = e
        BY <1>3, <3>1
      <3>2. CASE o \in seen
        <4>1. PICK c \in coverage : a = c.started /\ IsFresh(c.observed, s.at)
          BY <1>4, <1>7, <1>9, <2>3, <3>2
        <4>2. /\ o.life = life
              /\ \/ o.at = c.observed
                 \/ \E p \in seen : o.at < p.at /\ p.at - o.at <= MaxAge
          BY <2>3, <3>2, <4>1 DEF CoverInv
        <4>3. o.at = c.observed => o.at < e.at /\ e.at - o.at <= MaxAge
          BY <1>3, <1>4, <3>2, <4>1 DEF IsFresh
        <4>. QED
          BY <1>3, <4>2, <4>3
      <3>. QED
        BY <1>3, <3>1, <3>2
    <2>. QED
      BY <1>1, <1>8, <2>1, <2>2, <2>3 DEF CoverInv
  <1>19. GapInv'
    <2>1. ASSUME NEW o \in seen', o.life = life, o.at < a
          PROVE  \E p \in seen' : /\ o.at <= p.at /\ p.at < a
                                  /\ \A q \in seen' : p.at < q.at =>
                                       q.at >= a /\ q.at - p.at > MaxAge
      <3>1. CASE \E c \in coverage : a = c.started /\ IsFresh(c.observed, s.at)
        <4>1. PICK c \in coverage : a = c.started
          BY <3>1
        <4>2. PICK f \in seen : f.at = a
          BY <4>1 DEF CoverInv
        <4>3. o \in seen
          BY <1>3, <1>4, <2>1, <4>2, <1>2, <1>9
        <4>4. PICK p \in seen : /\ o.at <= p.at /\ p.at < a
                                /\ \A q \in seen : p.at < q.at =>
                                     q.at >= a /\ q.at - p.at > MaxAge
          BY <2>1, <4>1, <4>3 DEF GapInv
        <4>5. f.at - p.at > MaxAge
          BY <4>2, <4>4
        <4>6. e.at >= a /\ e.at - p.at > MaxAge
          BY <1>2, <1>3, <1>4, <1>9, <4>2, <4>5, UsageAssumption
        <4>. QED
          BY <1>3, <4>4, <4>6
      <3>2. CASE a = s.at /\ \A c \in coverage : ~IsFresh(c.observed, s.at)
        <4>1. o \in seen
          BY <1>2, <1>3, <2>1, <3>2
        <4>2. PICK c \in coverage : TRUE
          BY <2>1, <4>1 DEF LifeInv
        <4>3. PICK l \in latest : c.observed = l.at
          BY <4>2 DEF CoverInv
        <4>4. PICK p \in seen : p.at = l.at
          BY <4>3 DEF LatestInv
        <4>5. \A q \in seen : q.at <= p.at
          BY <4>3, <4>4 DEF LatestInv
        <4>6. e.at - p.at > MaxAge
          <5>1. ~IsFresh(p.at, s.at)
            BY <3>2, <4>2, <4>3, <4>4
          <5>. QED
            BY <1>2, <1>3, <1>4, <5>1, UsageAssumption DEF IsFresh
        <4>. QED
          BY <1>2, <1>3, <1>4, <3>2, <4>1, <4>5, <4>6
      <3>. QED
        BY <1>7, <3>1, <3>2
    <2>. QED
      BY <1>1, <1>8, <2>1 DEF GapInv
  <1>20. HistoryTellsObservations'
    <2>1. ASSUME NEW o \in seen', Retained(o)'
          PROVE  \E r \in rows' : /\ r.at <= o.at /\ r.users = o.users
                                  /\ ~\E q \in rows' : r.at < q.at /\ q.at <= o.at
      <3>1. CASE o = e
        <4>1. \A r \in rows' : r.at \in Nat /\ r.at <= s.at
          BY <1>1, <1>2, <1>5
        <4>. QED
          BY <1>2, <1>3, <1>15, <3>1, <4>1
      <3>2. CASE o \in seen
        <4>1. Retained(o)
          BY <1>1, <1>3, <2>1 DEF Retained
        <4>2. PICK r \in rows : /\ r.at <= o.at /\ r.users = o.users
                                /\ ~\E q \in rows : r.at < q.at /\ q.at <= o.at
          BY <3>2, <4>1 DEF HistoryTellsObservations
        <4>3. r \in rows' /\ \A q \in rows' : q \in rows \/ q = s
          BY <1>1
        <4>. QED
          BY <1>2, <1>4, <3>2, <4>2, <4>3
      <3>. QED
        BY <1>3, <3>1, <3>2
    <2>. QED
      BY <2>1 DEF HistoryTellsObservations
  <1>. QED
    BY <1>11, <1>12, <1>13, <1>14, <1>16, <1>17, <1>18, <1>19, <1>20

\* A row that a retained observation needs is not expired: a later row from before the
\* cutoff is a later observation from before the floor.
LEMMA PrunePreservesUsageInv ==
  ASSUME UsageInv, PruneHistory
  PROVE  UsageInv'
  <1>. USE DEF UsageInv
  <1>1. PICK retention \in Retentions :
          /\ \E batch \in SUBSET ExpiredRows(now - retention) : rows' = rows \ batch
          /\ floor' = {Max(floor \cup {now - retention})}
    BY DEF PruneHistory
  <1>. DEFINE cutoff == now - retention
              f2 == Max(floor \cup {cutoff})
  <1>2. UNCHANGED <<now, up, catalog, cache, pending, identity, latest, coverage, seen,
                    life>>
    BY DEF PruneHistory, ram, ghosts
  <1>3. PICK batch \in SUBSET ExpiredRows(cutoff) : rows' = rows \ batch
    BY <1>1
  <1>4. cutoff \in Int
    BY UsageAssumption DEF TypeOK, Instants
  <1>5. f2 \in Int /\ f2 >= cutoff /\ \A f \in floor : f2 >= f
    <2>1. CASE floor = {}
      BY <1>4, <2>1, MaxOfOne
    <2>2. CASE floor # {}
      <3>1. PICK f \in floor : f \in Int
        BY <2>2 DEF TypeOK
      <3>2. floor = {f}
        BY <3>1 DEF TypeOK, HasAtMostOne
      <3>3. f2 = IF f <= cutoff THEN cutoff ELSE f
        <4>1. floor \cup {cutoff} = {f, cutoff}
          BY <3>2
        <4>. QED
          BY <1>4, <3>1, <4>1, MaxOfTwo
      <3>. QED
        BY <1>4, <3>1, <3>2, <3>3
    <2>. QED
      BY <2>1, <2>2
  <1>6. floor' = {f2}
    BY <1>1
  <1>7. \A r \in batch : /\ r \in rows /\ r.at < cutoff
                         /\ latest # {} => \E q \in rows : r.at < q.at /\ q.at < cutoff
    BY DEF ExpiredRows
  <1>. HIDE DEF cutoff, f2
  <1>8. \A r \in rows : r.at \in Nat
    BY DEF TypeOK, Snapshot, Instants
  <1>9. \A o \in seen : o.at \in Nat
    BY DEF TypeOK, Instants
  <1>10. TypeOK'
    <2>1. changes' \in Nat
      BY DEF PruneHistory, Changes, TypeOK
    <2>2. rows' \subseteq Snapshot
      BY <1>3 DEF TypeOK
    <2>3. floor' \subseteq Int /\ HasAtMostOne(floor)'
      BY <1>5, <1>6 DEF HasAtMostOne
    <2>. QED
      BY <1>2, <2>1, <2>2, <2>3 DEF TypeOK, HasAtMostOne
  <1>11. CatalogInv' /\ SeenInv' /\ RowsInv' /\ LifeInv'
    BY <1>2, <1>3 DEF CatalogInv, SeenInv, RowsInv, LifeInv
  <1>12. CoverInv' /\ GapInv'
    BY <1>2 DEF CoverInv, GapInv
  <1>13. LatestInv'
    <2>1. ASSUME NEW s \in latest
          PROVE  \E r \in rows' : r.users = s.users /\ \A q \in rows' : q.at <= r.at
      <3>1. PICK r \in rows : r.users = s.users /\ \A q \in rows : q.at <= r.at
        BY DEF LatestInv
      <3>2. r \notin batch
        BY <1>7, <1>8, <3>1
      <3>. QED
        BY <1>3, <3>1, <3>2
    <2>. QED
      BY <1>2, <2>1 DEF LatestInv
  <1>14. HistoryTellsObservations'
    <2>1. ASSUME NEW o \in seen, Retained(o)'
          PROVE  \E r \in rows' : /\ r.at <= o.at /\ r.users = o.users
                                  /\ ~\E q \in rows' : r.at < q.at /\ q.at <= o.at
      <3>1. o.life = life /\ (o.at >= f2 \/ ~\E p \in seen : o.at < p.at /\ p.at <= f2)
        BY <1>2, <1>6, <2>1 DEF Retained
      <3>2. Retained(o)
        <4>1. ASSUME NEW f \in floor
              PROVE  o.at >= f \/ ~\E p \in seen : o.at < p.at /\ p.at <= f
          <5>1. f \in Int /\ f2 >= f
            BY <1>5 DEF TypeOK
          <5>. QED
            BY <1>5, <1>9, <3>1, <5>1
        <4>. QED
          BY <3>1, <4>1 DEF Retained
      <3>3. PICK r \in rows : /\ r.at <= o.at /\ r.users = o.users
                              /\ ~\E q \in rows : r.at < q.at /\ q.at <= o.at
        BY <3>2 DEF HistoryTellsObservations
      <3>4. r \notin batch
        <4>1. SUFFICES ASSUME r \in batch PROVE FALSE
          OBVIOUS
        <4>2. latest # {}
          BY <3>1 DEF LifeInv
        <4>3. PICK q \in rows : r.at < q.at /\ q.at < cutoff
          BY <1>7, <4>1, <4>2
        <4>4. PICK p \in seen : p.at = q.at
          BY DEF RowsInv
        <4>5. o.at < p.at /\ p.at <= f2
          BY <1>4, <1>5, <1>8, <1>9, <3>3, <4>3, <4>4
        <4>. QED
          BY <1>5, <1>9, <3>1, <4>5
      <3>. QED
        BY <1>3, <3>3, <3>4
    <2>. QED
      BY <1>2, <2>1 DEF HistoryTellsObservations
  <1>. QED
    BY <1>10, <1>11, <1>12, <1>13, <1>14

LEMMA StepPreservesUsageInv == UsageInv /\ [Next]_vars => UsageInv'
  <1>. SUFFICES ASSUME UsageInv, [Next]_vars PROVE UsageInv'
    OBVIOUS
  <1>1. CASE Tick \/ ProcessEnds
    BY <1>1, TickOrEndPreservesUsageInv
  <1>2. CASE \E c \in Optional(Host) : Start(c) \/ ReplaceConfiguration(c)
    BY <1>2, StartPreservesUsageInv, ReplacePreservesUsageInv
  <1>3. CASE Collect
    BY <1>3, CollectPreservesUsageInv
  <1>4. CASE UpdateUsage
    BY <1>4, UpdatePreservesUsageInv
  <1>5. CASE PruneHistory
    BY <1>5, PrunePreservesUsageInv
  <1>6. CASE UNCHANGED vars
    BY <1>6 DEF vars, ram, tables, ghosts, UsageInv, TypeOK, CatalogInv, SeenInv, RowsInv,
       LatestInv, LifeInv, CoverInv, GapInv, HistoryTellsObservations, Retained,
       HasAtMostOne
  <1>. QED
    BY <1>1, <1>2, <1>3, <1>4, <1>5, <1>6 DEF Next

\* The tables and the cache agree with the observations in every reachable state.
THEOREM UsageInvariant == Spec => []UsageInv
  BY InitEstablishesUsageInv, StepPreservesUsageInv, PTL DEF Spec

\* Every variable has its type, and the cache of a running process agrees with its table.
THEOREM TypeCorrect == Spec => []TypeOK
  <1>1. UsageInv => TypeOK
    BY DEF UsageInv
  <1>. QED
    BY <1>1, UsageInvariant, PTL

\* The history of changes tells what every retained observation was, for any retention,
\* any prunes and any reloads.
THEOREM HistoryIsTruthful == Spec => []HistoryTellsObservations
  <1>1. UsageInv => HistoryTellsObservations
    BY DEF UsageInv
  <1>. QED
    BY <1>1, UsageInvariant, PTL

-----------------------------------------------------------------------------
(* The filters.                                                            *)

\* Facts about the tables that both directions need.
LEMMA TableFacts ==
  ASSUME UsageInv
  PROVE  /\ now \in Nat /\ life \in Nat /\ MaxAge \in Nat
         /\ \A o \in seen : o.at \in Nat /\ o.at <= now
         /\ \A o, p \in seen : o.at = p.at => o = p
         /\ \A r \in rows : r.at \in Nat /\ \E o \in seen : o.at = r.at /\ o.users = r.users
         /\ \A s \in latest : s.at \in Nat /\ \A o \in seen : o.at <= s.at
         /\ \A f \in floor : f \in Int
         /\ \A c \in coverage : c.started \in Nat /\ c.observed \in Nat
  BY UsageAssumption DEF UsageInv, TypeOK, SeenInv, RowsInv, LatestInv, Instants, Snapshot

\* The row that was current at the beginning of a window tells what the observation was
\* that was current then, if the window begins after the retention floor.
LEMMA CurrentRow ==
  ASSUME UsageInv, NEW t \in Int, NEW o \in seen, o.life = life,
         \A f \in floor : f <= t,
         \A p \in seen : p.at <= t => p.at <= o.at
  PROVE  \E r \in rows : /\ r.at <= o.at /\ r.users = o.users
                         /\ ~\E q \in rows : r.at < q.at /\ q.at <= o.at
  <1>1. ASSUME NEW f \in floor
        PROVE  o.at >= f \/ ~\E p \in seen : o.at < p.at /\ p.at <= f
    <2>1. f \in Int /\ f <= t
      BY TableFacts
    <2>. QED
      BY <2>1, TableFacts
  <1>2. Retained(o)
    BY <1>1 DEF Retained
  <1>. QED
    BY <1>2 DEF UsageInv, HistoryTellsObservations

\* That row is what the filter finds as the state at the beginning of the window.
LEMMA CurrentRowIsNewest ==
  ASSUME UsageInv, NEW t \in Int, NEW o \in seen,
         \A p \in seen : p.at <= t => p.at <= o.at,
         NEW r \in rows, r.at <= t,
         ~\E q \in rows : r.at < q.at /\ q.at <= o.at
  PROVE  r \in StateAtOrBefore(t)
  <1>1. ASSUME NEW q \in rows, q.at <= t PROVE q.at <= r.at
    <2>1. PICK p \in seen : p.at = q.at
      BY TableFacts
    <2>. QED
      BY <1>1, <2>1, TableFacts
  <1>. QED
    BY <1>1 DEF StateAtOrBefore, Newest

LEMMA FilterLongest ==
  ASSUME NEW f \in Filters
  PROVE  /\ Max(f[1] \cup f[2]) \in f[1] \cup f[2]
         /\ Max(f[1] \cup f[2]) \in Int
         /\ \A d \in f[1] \cup f[2] : d \in Durations /\ d <= Max(f[1] \cup f[2])
  <1>1. Durations \subseteq Int
    BY UsageAssumption
  <1>2. PICK a \in Durations, b \in Durations : f[1] \cup f[2] = {a, b}
    <2>1. /\ f[1] = {} \/ \E a \in Durations : f[1] = {a}
          /\ f[2] = {} \/ \E b \in Durations : f[2] = {b}
          /\ f[1] # {} \/ f[2] # {}
      BY DEF Filters, Optional
    <2>. QED
      BY <2>1
  <1>3. a \in Int /\ b \in Int
    BY <1>1
  <1>4. Max({a, b}) = IF a <= b THEN b ELSE a
    BY <1>3, MaxOfTwo
  <1>. HIDE DEF Max
  <1>. QED
    BY <1>2, <1>3, <1>4

LEMMA ReportedForOne ==
  ASSUME UsageInv, NEW n \in 0 .. now, NEW d \in Durations, NEW cutoff \in Int,
         cutoff <= n - d, Covered(cutoff), NEW active,
         NEW s \in latest, IsFresh(s.at, n), EvaluateInactivity(s, d, n, active)
  PROVE  SeenInactive(n, d, active)
  <1>. DEFINE t == n - d
              first == {o \in seen : o.at <= t}
              window == {o \in seen : o.at <= n /\ \A p \in first : p.at <= o.at}
  <1>1. n \in Nat /\ d \in Nat /\ t \in Int /\ cutoff <= t /\ t <= n
    BY TableFacts, UsageAssumption
  <1>2. PICK c \in coverage : c.started <= cutoff
    BY DEF Covered
  <1>3. PICK b \in seen : b.at = c.started
    BY <1>2 DEF UsageInv, CoverInv
  <1>4. b \in first
    BY <1>1, <1>2, <1>3, TableFacts
  <1>5. c.observed = s.at
    BY <1>2 DEF UsageInv, CoverInv, TypeOK, HasAtMostOne
  <1>6. \A f \in floor : f <= cutoff
    BY TableFacts DEF Covered
  <1>7. ASSUME NEW o \in window
        PROVE  /\ o.life = life /\ o.users \notin Breaking(active)
               /\ \/ n - o.at <= MaxAge
                  \/ \E p \in window : o.at < p.at /\ p.at - o.at <= MaxAge
    <2>1. o \in seen /\ o.at <= n /\ o.at >= c.started
      BY <1>3, <1>4, TableFacts
    <2>2. /\ o.life = life
          /\ \/ o.at = c.observed
             \/ \E p \in seen : o.at < p.at /\ p.at - o.at <= MaxAge
      BY <1>2, <2>1 DEF UsageInv, CoverInv
    <2>3. \/ n - o.at <= MaxAge
          \/ \E p \in window : o.at < p.at /\ p.at - o.at <= MaxAge
      <3>1. CASE o.at = c.observed
        BY <1>5, <3>1 DEF IsFresh
      <3>2. CASE \E p \in seen : o.at < p.at /\ p.at - o.at <= MaxAge
        <4>1. PICK p \in seen : o.at < p.at /\ p.at - o.at <= MaxAge
          BY <3>2
        <4>2. p.at <= n
          BY <1>1, TableFacts DEF IsFresh
        <4>3. \A q \in first : q.at <= p.at
          BY <2>1, <4>1, TableFacts
        <4>. QED
          BY <4>1, <4>2, <4>3
      <3>. QED
        BY <2>2, <3>1, <3>2
    <2>4. \A p \in seen : p.at <= t => p.at <= o.at
      OBVIOUS
    <2>5. \A f \in floor : f <= t
      BY <1>1, <1>6, TableFacts
    <2>6. PICK r \in rows : /\ r.at <= o.at /\ r.users = o.users
                            /\ ~\E q \in rows : r.at < q.at /\ q.at <= o.at
      BY <1>1, <2>1, <2>2, <2>4, <2>5, CurrentRow
    <2>7. r.users \notin Breaking(active)
      <3>1. CASE r.at > t
        BY <3>1 DEF EvaluateInactivity, WindowBreaksInactivity
      <3>2. CASE r.at <= t
        <4>1. r \in StateAtOrBefore(t)
          BY <1>1, <2>1, <2>4, <2>6, <3>2, CurrentRowIsNewest
        <4>2. PICK k \in StateAtOrBefore(t) : k.users \notin Breaking(active)
          BY DEF EvaluateInactivity
        <4>3. k \in rows /\ k.at = r.at
          BY <4>1, <4>2, TableFacts DEF StateAtOrBefore, Newest
        <4>4. k.users = r.users
          BY <4>3, TableFacts
        <4>. QED
          BY <4>2, <4>4
      <3>. QED
        BY <1>1, <3>1, <3>2, TableFacts
    <2>. QED
      BY <2>2, <2>3, <2>6, <2>7
  <1>. QED
    BY <1>4, <1>7 DEF SeenInactive

LEMMA UsageInvImpliesReportedHostsWereInactive == UsageInv => ReportedHostsWereInactive
  <1>. SUFFICES ASSUME UsageInv, NEW n \in 0 .. now, NEW f \in Filters,
                       MatchesUsageFilter(n, f[1], f[2])
                PROVE  /\ \A d \in f[1] : SeenInactive(n, d, ConsoleOnly)
                       /\ \A d \in f[2] : SeenInactive(n, d, AnyUser)
    BY DEF ReportedHostsWereInactive
  <1>. DEFINE longest == Max(f[1] \cup f[2])
  <1>1. longest \in Int /\ \A d \in f[1] \cup f[2] : d \in Durations /\ d <= longest
    BY FilterLongest
  <1>. HIDE DEF longest
  <1>2. Covered(n - longest)
    BY DEF MatchesUsageFilter, longest
  <1>3. PICK s \in latest :
          /\ IsFresh(s.at, n)
          /\ \A d \in f[1] : EvaluateInactivity(s, d, n, ConsoleOnly)
          /\ \A d \in f[2] : EvaluateInactivity(s, d, n, AnyUser)
    BY DEF MatchesUsageFilter
  <1>4. \A d \in f[1] \cup f[2] : n - longest \in Int /\ n - longest <= n - d
    <2>1. n \in Int /\ Durations \subseteq Int
      BY UsageAssumption, TableFacts
    <2>2. ASSUME NEW d \in f[1] \cup f[2]
          PROVE  n - longest \in Int /\ n - longest <= n - d
      <3>1. d \in Int /\ d <= longest
        BY <1>1, <2>1
      <3>. QED
        BY <1>1, <2>1, <3>1
    <2>. QED
      BY <2>2
  <1>5. ASSUME NEW d \in f[1] PROVE SeenInactive(n, d, ConsoleOnly)
    BY <1>1, <1>2, <1>3, <1>4, ReportedForOne
  <1>6. ASSUME NEW d \in f[2] PROVE SeenInactive(n, d, AnyUser)
    BY <1>1, <1>2, <1>3, <1>4, ReportedForOne
  <1>. QED
    BY <1>5, <1>6

\* No host is reported as inactive that was not seen to be, whatever reloads, restarts and
\* prunes there were and however late the request is answered.
THEOREM ReportsAreSound == Spec => []ReportedHostsWereInactive
  BY UsageInvariant, UsageInvImpliesReportedHostsWereInactive, PTL

\* A window through which the host was seen to be inactive has a last observation before
\* it, and is covered: coverage that begins in it would have a gap before it.
LEMMA SeenInactiveIsCovered ==
  ASSUME UsageInv, NEW d \in Durations, NEW active, SeenInactive(now, d, active)
  PROVE  /\ Covered(now - d) \/ \E f \in floor : f > now - d
         /\ \E s \in latest : IsFresh(s.at, now)
  <1>. DEFINE t == now - d
              first == {o \in seen : o.at <= t}
              window == {o \in seen : o.at <= now /\ \A p \in first : p.at <= o.at}
  <1>1. now \in Nat /\ d \in Nat /\ t \in Int /\ t <= now /\ MaxAge \in Nat
    BY TableFacts, UsageAssumption
  <1>2. /\ first # {}
        /\ \A o \in window :
             /\ o.life = life
             /\ \/ now - o.at <= MaxAge
                \/ \E p \in window : o.at < p.at /\ p.at - o.at <= MaxAge
    BY DEF SeenInactive
  <1>3. PICK b \in first : \A p \in first : p.at <= b.at
    <2>. DEFINE T == {o.at : o \in first}
    <2>1. T \in SUBSET Nat /\ T # {} /\ \A m \in T : m <= now
      BY <1>2, TableFacts
    <2>2. PICK m \in T : \A k \in T : k <= m
      BY <1>1, <2>1, HasLast
    <2>. QED
      BY <2>2
  <1>4. b \in window
    BY <1>3, TableFacts
  <1>5. latest # {} /\ coverage # {}
    BY <1>2, <1>4 DEF UsageInv, LifeInv
  <1>6. PICK c \in coverage : TRUE
    BY <1>5
  <1>7. c.started <= t
    <2>1. SUFFICES ASSUME c.started > t PROVE FALSE
      BY <1>1, TableFacts
    <2>2. b.at < c.started
      BY <1>1, <1>3, <2>1, TableFacts
    <2>3. PICK p \in seen : /\ b.at <= p.at /\ p.at < c.started
                            /\ \A q \in seen : p.at < q.at =>
                                 q.at >= c.started /\ q.at - p.at > MaxAge
      BY <1>2, <1>4, <2>2 DEF UsageInv, GapInv
    <2>4. \A q \in first : q.at <= p.at
      BY <1>3, <2>3, TableFacts
    <2>5. p \in window
      BY <2>4, TableFacts
    <2>6. PICK q \in seen : q.at = c.started
      BY DEF UsageInv, CoverInv
    <2>7. q.at - p.at > MaxAge
      BY <2>3, <2>6
    <2>8. now - p.at > MaxAge
      BY <1>1, <2>7, TableFacts
    <2>9. PICK k \in window : p.at < k.at /\ k.at - p.at <= MaxAge
      BY <1>1, <1>2, <2>5, <2>8, TableFacts
    <2>10. k.at - p.at > MaxAge
      BY <2>3, <2>9
    <2>. QED
      BY <1>1, <2>9, <2>10, TableFacts
  <1>8. PICK s \in latest : TRUE
    BY <1>5
  <1>9. IsFresh(s.at, now)
    <2>1. PICK o \in seen : o.at = s.at
      BY DEF UsageInv, LatestInv
    <2>2. \A p \in seen : p.at <= o.at
      BY <2>1, TableFacts
    <2>3. o \in window
      BY <2>2, TableFacts
    <2>4. now - o.at <= MaxAge
      <3>1. SUFFICES ASSUME NEW p \in seen, o.at < p.at PROVE FALSE
        BY <1>2, <2>3
      <3>. QED
        BY <2>2, <3>1, TableFacts
    <2>. QED
      BY <2>1, <2>4, TableFacts DEF IsFresh
  <1>. QED
    BY <1>7, <1>8, <1>9 DEF Covered

LEMMA SeenInactiveIsFound ==
  ASSUME UsageInv, NEW d \in Durations, NEW active, SeenInactive(now, d, active),
         \A f \in floor : f <= now - d, NEW s \in latest
  PROVE  EvaluateInactivity(s, d, now, active)
  <1>. DEFINE t == now - d
              first == {o \in seen : o.at <= t}
              window == {o \in seen : o.at <= now /\ \A p \in first : p.at <= o.at}
  <1>1. now \in Nat /\ d \in Nat /\ t \in Int /\ t <= now
    BY TableFacts, UsageAssumption
  <1>2. /\ first # {}
        /\ \A o \in window : o.life = life /\ o.users \notin Breaking(active)
    BY DEF SeenInactive
  <1>3. PICK b \in first : \A p \in first : p.at <= b.at
    <2>. DEFINE T == {o.at : o \in first}
    <2>1. T \in SUBSET Nat /\ T # {} /\ \A m \in T : m <= now
      BY <1>2, TableFacts
    <2>2. PICK m \in T : \A k \in T : k <= m
      BY <1>1, <2>1, HasLast
    <2>. QED
      BY <2>2
  <1>4. b \in window
    BY <1>3, TableFacts
  <1>5. s.users \notin Breaking(active)
    <2>1. PICK o \in seen : o.at = s.at /\ o.users = s.users
      BY DEF UsageInv, LatestInv
    <2>2. o \in window
      BY <2>1, TableFacts
    <2>. QED
      BY <1>2, <2>1, <2>2
  <1>6. \E r \in StateAtOrBefore(t) : r.users \notin Breaking(active)
    <2>1. \A p \in seen : p.at <= t => p.at <= b.at
      BY <1>3
    <2>2. PICK r \in rows : /\ r.at <= b.at /\ r.users = b.users
                            /\ ~\E q \in rows : r.at < q.at /\ q.at <= b.at
      BY <1>1, <1>2, <1>4, <2>1, CurrentRow
    <2>3. r \in StateAtOrBefore(t)
      BY <1>1, <1>3, <2>1, <2>2, CurrentRowIsNewest, TableFacts
    <2>. QED
      BY <1>2, <1>4, <2>2, <2>3
  <1>7. ASSUME NEW r \in rows, r.at > t PROVE r.users \notin Breaking(active)
    <2>1. PICK o \in seen : o.at = r.at /\ o.users = r.users
      BY TableFacts
    <2>2. o \in window
      BY <1>1, <1>7, <2>1, TableFacts
    <2>. QED
      BY <1>2, <2>1, <2>2
  <1>. QED
    BY <1>5, <1>6, <1>7 DEF EvaluateInactivity, WindowBreaksInactivity

LEMMA UsageInvImpliesInactiveHostsAreReported == UsageInv => InactiveHostsAreReported
  <1>. SUFFICES ASSUME UsageInv, NEW f \in Filters,
                       \E h \in catalog : h.enabled,
                       \A d \in f[1] : SeenInactive(now, d, ConsoleOnly),
                       \A d \in f[2] : SeenInactive(now, d, AnyUser),
                       ~\E t \in floor : t > now - Max(f[1] \cup f[2])
                PROVE  MatchesUsageFilter(now, f[1], f[2])
    BY DEF InactiveHostsAreReported
  <1>. DEFINE longest == Max(f[1] \cup f[2])
  <1>1. /\ longest \in f[1] \cup f[2] /\ longest \in Int
        /\ \A d \in f[1] \cup f[2] : d \in Durations /\ d <= longest
    BY FilterLongest
  <1>2. ~\E t \in floor : t > now - longest
    OBVIOUS
  <1>. HIDE DEF longest
  <1>3. \A d \in f[1] \cup f[2] : \A t \in floor : t <= now - d
    <2>1. now \in Int /\ Durations \subseteq Int /\ \A t \in floor : t \in Int
      BY UsageAssumption, TableFacts
    <2>2. \A t \in floor : t <= now - longest
      BY <1>1, <1>2, <2>1
    <2>3. ASSUME NEW d \in f[1] \cup f[2], NEW t \in floor PROVE t <= now - d
      <3>1. d \in Int /\ d <= longest /\ t \in Int /\ t <= now - longest
        BY <1>1, <2>1, <2>2
      <3>. QED
        BY <1>1, <2>1, <3>1
    <2>. QED
      BY <2>3
  <1>4. Covered(now - longest) /\ \E s \in latest : IsFresh(s.at, now)
    BY <1>1, <1>2, SeenInactiveIsCovered
  <1>5. PICK s \in latest : IsFresh(s.at, now)
    BY <1>4
  <1>6. \A d \in f[1] : EvaluateInactivity(s, d, now, ConsoleOnly)
    BY <1>1, <1>3, SeenInactiveIsFound
  <1>7. \A d \in f[2] : EvaluateInactivity(s, d, now, AnyUser)
    BY <1>1, <1>3, SeenInactiveIsFound
  <1>. QED
    BY <1>4, <1>5, <1>6, <1>7 DEF MatchesUsageFilter, longest

\* A host that was seen to be inactive is reported, as far back as the retention floor.
THEOREM ReportsAreComplete == Spec => []InactiveHostsAreReported
  BY UsageInvariant, UsageInvImpliesInactiveHostsAreReported, PTL


-----------------------------------------------------------------------------
(* Queries (module Selection).                                             *)

\* Pairs that parse_unique_query has taken.
Taken == {i \in 1 .. Len(asked) : i <= Len(asked) - Len(rest)}

\* Parameters that are in the filter.
Applied == {i \in 1 .. Len(asked) : asked[i] \notin params}

KeysDiffer(S) == \A i, j \in S : asked[i][1] = asked[j][1] => i = j

Understood(p) == \E e \in Entries(p[1]) : p[2] \in Values(e.field)

\* What the i-th parameter wants of a field.
Wants(i, f) == {Asked(e, asked[i]) : e \in {e \in Entries(asked[i][1]) : e.field = f}}

PairsInv ==
  /\ rest \in Seq(Pairs) /\ Len(rest) <= Len(asked)
  /\ \A k \in 1 .. Len(rest) : rest[k] = asked[Len(asked) - Len(rest) + k]
  /\ params = {asked[i] : i \in Taken} /\ names = {asked[i][1] : i \in Taken}
  /\ KeysDiffer(Taken)
  /\ filter = Empty

\* A field has what the parameters want that have been applied, and nothing else.
ApplyInv ==
  /\ KeysDiffer(1 .. Len(asked))
  /\ params \subseteq {asked[i] : i \in 1 .. Len(asked)}
  /\ \A i \in Applied : Understood(asked[i])
  /\ DOMAIN filter = Fields
  /\ \A f \in Fields : filter[f] = UNION {Wants(i, f) : i \in Applied}

QueryInv ==
  /\ asked \in Seq(Pairs) /\ route \in Routes
  /\ phase \in {"pairs", "apply", "refused", "done"}
  /\ phase = "pairs" => PairsInv
  /\ phase = "apply" => ApplyInv
  /\ AnswerFitsTheQuery

LEMMA FieldNames == Fields = {"group", "icmp", "metadata", "status", "console", "users"}
  BY DEF Fields, Registry

\* The key that writes into a field.
KeyOf(f) ==
  CASE f = "group" -> <<"group">>
    [] f = "icmp" -> <<"icmp", "status">>
    [] f = "metadata" -> <<"metadata", "*">>
    [] f = "status" -> <<"usage", "status">>
    [] f = "console" -> <<"usage", "inactive_console_for">>
    [] f = "users" -> <<"usage", "no_users_for">>

LEMMA KeysOfFields ==
  /\ \A f, g \in Fields : KeyOf(f) = KeyOf(g) => f = g
  /\ \A f \in Fields, a \in STRING :
       KeyOf(f) = <<a, "*">> => f = "metadata" /\ a = "metadata"
  /\ \A f \in Fields : Len(KeyOf(f)) = 2 /\ KeyOf(f)[1] = "metadata" => f = "metadata"
  <1>1. ASSUME NEW f \in Fields, NEW g \in Fields, KeyOf(f) = KeyOf(g)
        PROVE  f = g
    BY <1>1, FieldNames DEF KeyOf
  <1>2. ASSUME NEW f \in Fields, NEW a \in STRING, KeyOf(f) = <<a, "*">>
        PROVE  f = "metadata" /\ a = "metadata"
    BY <1>2, FieldNames DEF KeyOf
  <1>3. ASSUME NEW f \in Fields, Len(KeyOf(f)) = 2, KeyOf(f)[1] = "metadata"
        PROVE  f = "metadata"
    BY <1>3, FieldNames DEF KeyOf
  <1>. QED
    BY <1>1, <1>2, <1>3

LEMMA EntriesOfFields ==
  ASSUME NEW e \in Registry
  PROVE  /\ e.field \in Fields
         /\ e.field = "group" =>
              e = [key |-> <<"group">>, field |-> "group", usage |-> FALSE]
         /\ e.field = "icmp" =>
              e = [key |-> <<"icmp", "status">>, field |-> "icmp", usage |-> FALSE]
         /\ e.field = "metadata" =>
              e = [key |-> <<"metadata", "*">>, field |-> "metadata", usage |-> FALSE]
         /\ e.field = "status" =>
              e = [key |-> <<"usage", "status">>, field |-> "status", usage |-> TRUE]
         /\ e.field = "console" =>
              e = [key |-> <<"usage", "inactive_console_for">>, field |-> "console",
                   usage |-> TRUE]
         /\ e.field = "users" =>
              e = [key |-> <<"usage", "no_users_for">>, field |-> "users", usage |-> TRUE]
  <1>1. e.field \in Fields
    BY DEF Fields
  <1>2. e.field = "group" => e = [key |-> <<"group">>, field |-> "group", usage |-> FALSE]
    BY DEF Registry
  <1>3. e.field = "icmp" =>
          e = [key |-> <<"icmp", "status">>, field |-> "icmp", usage |-> FALSE]
    BY DEF Registry
  <1>4. e.field = "metadata" =>
          e = [key |-> <<"metadata", "*">>, field |-> "metadata", usage |-> FALSE]
    BY DEF Registry
  <1>5. e.field = "status" =>
          e = [key |-> <<"usage", "status">>, field |-> "status", usage |-> TRUE]
    BY DEF Registry
  <1>6. e.field = "console" =>
          e = [key |-> <<"usage", "inactive_console_for">>, field |-> "console", usage |-> TRUE]
    BY DEF Registry
  <1>7. e.field = "users" =>
          e = [key |-> <<"usage", "no_users_for">>, field |-> "users", usage |-> TRUE]
    BY DEF Registry
  <1>. QED
    BY <1>1, <1>2, <1>3, <1>4, <1>5, <1>6, <1>7

\* A field has one key, and a key has one entry.
LEMMA EntryOfField ==
  ASSUME NEW d \in Registry, NEW e \in Registry, d.field = e.field
  PROVE  d = e
  <1>1. d.field \in Fields
    BY EntriesOfFields
  <1>2. CASE d.field = "group" \/ d.field = "icmp"
    BY <1>2, EntriesOfFields
  <1>3. CASE d.field = "metadata" \/ d.field = "status"
    BY <1>3, EntriesOfFields
  <1>4. CASE d.field = "console" \/ d.field = "users"
    BY <1>4, EntriesOfFields
  <1>. QED
    BY <1>1, <1>2, <1>3, <1>4, FieldNames

LEMMA KeyOfField ==
  ASSUME NEW e \in Registry
  PROVE  e.field \in Fields /\ e.key = KeyOf(e.field)
  <1>1. e.field \in Fields
    BY EntriesOfFields
  <1>2. CASE e.field \in {"group", "icmp", "metadata"}
    BY <1>1, <1>2, EntriesOfFields DEF KeyOf
  <1>3. CASE e.field \in {"status", "console", "users"}
    BY <1>1, <1>3, EntriesOfFields DEF KeyOf
  <1>. QED
    BY <1>1, <1>2, <1>3, FieldNames

LEMMA NamesAreTexts ==
  ASSUME NEW key \in Seq(STRING), Len(key) = 2
  PROVE  key[1] \in STRING
  OBVIOUS

LEMMA EntryOfKey ==
  ASSUME NEW key \in Seq(STRING), NEW d \in Lookup(key), NEW e \in Lookup(key)
  PROVE  d = e
  <1>1. /\ d \in Registry /\ (d.key = key \/ (Len(key) = 2 /\ d.key = <<key[1], "*">>))
        /\ e \in Registry /\ (e.key = key \/ (Len(key) = 2 /\ e.key = <<key[1], "*">>))
    BY DEF Lookup
  <1>2. /\ d.field \in Fields /\ d.key = KeyOf(d.field)
        /\ e.field \in Fields /\ e.key = KeyOf(e.field)
    BY <1>1, KeyOfField
  <1>3. Len(key) = 2 => key[1] \in STRING
    BY NamesAreTexts
  <1>4. CASE d.key = e.key
    BY <1>1, <1>2, <1>4, KeysOfFields, EntryOfField
  <1>5. CASE Len(key) = 2 /\ d.key = key /\ e.key = <<key[1], "*">>
    <2>1. e.field = "metadata" /\ key[1] = "metadata"
      BY <1>2, <1>3, <1>5, KeysOfFields
    <2>2. d.field = "metadata"
      BY <1>2, <1>5, <2>1, KeysOfFields
    <2>. QED
      BY <1>1, <2>1, <2>2, EntryOfField
  <1>6. CASE Len(key) = 2 /\ e.key = key /\ d.key = <<key[1], "*">>
    <2>1. d.field = "metadata" /\ key[1] = "metadata"
      BY <1>2, <1>3, <1>6, KeysOfFields
    <2>2. e.field = "metadata"
      BY <1>2, <1>6, <2>1, KeysOfFields
    <2>. QED
      BY <1>1, <2>1, <2>2, EntryOfField
  <1>. QED
    BY <1>1, <1>4, <1>5, <1>6

LEMMA KeyOfEntry ==
  ASSUME NEW key \in Seq(STRING), NEW e \in Lookup(key), e.field # "metadata"
  PROVE  e.key = key
  <1>1. e \in Registry /\ (e.key = key \/ (Len(key) = 2 /\ e.key = <<key[1], "*">>))
    BY DEF Lookup
  <1>2. e.field \in Fields /\ e.key = KeyOf(e.field)
    BY <1>1, KeyOfField
  <1>3. Len(key) = 2 => key[1] \in STRING
    BY NamesAreTexts
  <1>. QED
    BY <1>1, <1>2, <1>3, KeysOfFields

\* The pairs of a query, its keys and their entries.
LEMMA PairOf ==
  ASSUME asked \in Seq(Pairs), NEW i \in 1 .. Len(asked)
  PROVE  /\ asked[i] \in Pairs /\ asked[i][1] \in Seq(STRING)
         /\ \A e \in Entries(asked[i][1]) :
              /\ e \in Registry /\ e \in Lookup(asked[i][1])
              /\ e.field \in Fields
              /\ route = "usage" => e.usage
  <1>1. asked[i] \in Pairs /\ asked[i][1] \in Seq(STRING)
    BY SelectionAssumption
  <1>. QED
    BY <1>1 DEF Entries, Lookup, Fields

-----------------------------------------------------------------------------
(* Its steps.                                                              *)

LEMMA QueryInitInv == QueryInit => QueryInv
  <1>. SUFFICES ASSUME QueryInit PROVE QueryInv
    OBVIOUS
  <1>1. asked \in Seq(Pairs)
    <2>1. PICK n \in 0 .. MaxPairs : asked \in [1 .. n -> Pairs]
      BY DEF QueryInit
    <2>2. n \in Nat
      BY SelectionAssumption
    <2>. QED
      BY <2>1, <2>2
  <1>2. rest = asked /\ phase = "pairs" /\ route \in Routes /\ filter = Empty
        /\ params = {} /\ names = {}
    BY DEF QueryInit
  <1>3. Len(asked) \in Nat /\ Taken = {}
    BY <1>1, <1>2 DEF Taken
  <1>4. PairsInv
    BY <1>1, <1>2, <1>3 DEF PairsInv, KeysDiffer
  <1>. QED
    BY <1>1, <1>2, <1>4 DEF QueryInv, AnswerFitsTheQuery

LEMMA TakePairInv ==
  ASSUME QueryInv, TakePair
  PROVE  QueryInv'
  <1>1. /\ PairsInv /\ asked \in Seq(Pairs) /\ rest # <<>> /\ rest[1][1] \notin names
        /\ names' = names \cup {rest[1][1]} /\ rest' = Tail(rest)
        /\ params' = {p \in params : p[1] # rest[1][1]} \cup {rest[1]}
        /\ phase = "pairs" /\ phase' = phase /\ asked' = asked /\ filter' = filter
        /\ route' = route /\ route \in Routes
    BY DEF QueryInv, TakePair, FirstSeen
  <1>. DEFINE n == Len(asked) - Len(rest) + 1
  <1>2. /\ rest \in Seq(Pairs) /\ Len(rest) \in Nat \ {0} /\ Len(asked) \in Nat
        /\ n \in 1 .. Len(asked)
    BY <1>1 DEF PairsInv
  <1>3. rest[1] = asked[n]
    BY <1>1, <1>2 DEF PairsInv
  <1>4. /\ rest' \in Seq(Pairs) /\ Len(rest') = Len(rest) - 1
        /\ \A k \in 1 .. Len(rest') : rest'[k] = rest[k + 1]
    BY <1>1, <1>2
  <1>5. /\ Taken = {i \in 1 .. Len(asked) : i < n} /\ Taken' = Taken \cup {n}
        /\ n \notin Taken
    BY <1>1, <1>2, <1>4 DEF Taken
  <1>6. \A i \in Taken : asked[i][1] # asked[n][1]
    BY <1>1, <1>3 DEF PairsInv
  <1>7. KeysDiffer(Taken)'
    BY <1>1, <1>5, <1>6 DEF PairsInv, KeysDiffer
  <1>8. params = {asked[i] : i \in Taken} /\ names = {asked[i][1] : i \in Taken}
    BY <1>1 DEF PairsInv
  <1>9. params' = {asked[i] : i \in Taken'} /\ names' = {asked[i][1] : i \in Taken'}
    BY <1>1, <1>3, <1>5, <1>6, <1>8
  <1>10. \A k \in 1 .. Len(rest') : rest'[k] = asked[Len(asked) - Len(rest') + k]
    <2>. SUFFICES ASSUME NEW k \in 1 .. Len(rest')
                  PROVE  rest'[k] = asked[Len(asked) - Len(rest') + k]
      OBVIOUS
    <2>1. k + 1 \in 1 .. Len(rest) /\ Len(asked) - Len(rest) + (k + 1) = Len(asked) - Len(rest') + k
      BY <1>2, <1>4
    <2>. QED
      BY <1>1, <1>4, <2>1 DEF PairsInv
  <1>11. PairsInv'
    <2>1. /\ (\A k \in 1 .. Len(rest) : rest[k] = asked[Len(asked) - Len(rest) + k])'
          /\ (params = {asked[i] : i \in Taken})' /\ (names = {asked[i][1] : i \in Taken})'
      BY <1>1, <1>9, <1>10
    <2>2. (filter = Empty)'
      BY <1>1 DEF PairsInv, Empty, Fields, Registry
    <2>3. rest' \in Seq(Pairs) /\ Len(rest') <= Len(asked')
      BY <1>1, <1>2, <1>4
    <2>. QED
      BY <1>7, <2>1, <2>2, <2>3 DEF PairsInv
  <1>. QED
    BY <1>1, <1>11 DEF QueryInv, AnswerFitsTheQuery

\* Proper says the same after a step: neither the route nor the query changes.
LEMMA SameProper ==
  ASSUME asked' = asked, route' = route
  PROVE  Proper' <=> Proper
  BY DEF Proper, Entries

LEMMA RefuseDuplicateInv ==
  ASSUME QueryInv, RefuseDuplicate
  PROVE  QueryInv'
  <1>1. /\ PairsInv /\ asked \in Seq(Pairs) /\ rest # <<>> /\ rest[1][1] \in names
        /\ phase' = "refused" /\ asked' = asked /\ route' = route /\ route \in Routes
    BY DEF QueryInv, RefuseDuplicate, FirstSeen
  <1>. DEFINE n == Len(asked) - Len(rest) + 1
  <1>2. /\ rest \in Seq(Pairs) /\ Len(rest) \in Nat \ {0} /\ Len(asked) \in Nat
        /\ n \in 1 .. Len(asked)
    BY <1>1 DEF PairsInv
  <1>3. rest[1] = asked[n]
    BY <1>1, <1>2 DEF PairsInv
  <1>4. PICK i \in Taken : asked[i][1] = asked[n][1]
    BY <1>1, <1>3 DEF PairsInv
  <1>5. i \in 1 .. Len(asked) /\ i # n /\ DOMAIN asked = 1 .. Len(asked)
    BY <1>1, <1>2 DEF Taken
  <1>6. ~Proper
    BY <1>2, <1>4, <1>5 DEF Proper
  <1>. QED
    BY <1>1, <1>6, SameProper DEF QueryInv, AnswerFitsTheQuery

LEMMA AllPairsInv ==
  ASSUME QueryInv, AllPairs
  PROVE  QueryInv'
  <1>1. /\ PairsInv /\ asked \in Seq(Pairs) /\ rest = <<>> /\ params' = params
        /\ phase' = "apply" /\ asked' = asked /\ route' = route /\ route \in Routes
        /\ filter' = filter
    BY DEF QueryInv, AllPairs
  <1>2. Taken = 1 .. Len(asked)
    BY <1>1 DEF Taken
  <1>3. KeysDiffer(1 .. Len(asked)) /\ params = {asked[i] : i \in 1 .. Len(asked)}
    BY <1>1, <1>2 DEF PairsInv
  <1>4. Applied' = {}
    BY <1>1, <1>3 DEF Applied
  <1>5. filter' = [f \in Fields |-> {}]
    BY <1>1 DEF PairsInv, Empty
  <1>6. DOMAIN filter' = Fields /\ \A f \in Fields : filter'[f] = {}
    BY <1>5
  <1>7. Fields' = Fields
    BY DEF Fields, Registry
  <1>8. ApplyInv'
    <2>1. KeysDiffer(1 .. Len(asked))'
      BY <1>1, <1>3 DEF KeysDiffer
    <2>2. params' \subseteq {asked'[i] : i \in 1 .. Len(asked')}
      BY <1>1, <1>3
    <2>. QED
      BY <1>4, <1>6, <2>1, <2>2 DEF ApplyInv
  <1>. QED
    BY <1>1, <1>8 DEF QueryInv, AnswerFitsTheQuery

LEMMA ApplyKeepsInv ==
  ASSUME QueryInv, NEW p \in params, Apply(p)
  PROVE  QueryInv'
  <1>1. /\ ApplyInv /\ asked \in Seq(Pairs) /\ params' = params \ {p}
        /\ phase = "apply" /\ phase' = phase /\ asked' = asked /\ route' = route
        /\ route \in Routes
    BY DEF QueryInv, Apply
  <1>2. PICK e \in Entries(p[1]) :
          /\ p[2] \in Values(e.field)
          /\ filter' = [filter EXCEPT
               ![e.field] = IF e.field = "metadata" THEN @ \cup {Asked(e, p)} ELSE {Asked(e, p)}]
    BY DEF Apply
  <1>3. PICK i \in 1 .. Len(asked) : p = asked[i]
    BY <1>1 DEF ApplyInv
  <1>4. KeysDiffer(1 .. Len(asked)) /\ DOMAIN filter = Fields
    BY <1>1 DEF ApplyInv
  <1>5. /\ e \in Registry /\ e \in Lookup(p[1]) /\ e.field \in Fields /\ p[1] \in Seq(STRING)
    BY <1>1, <1>2, <1>3, PairOf
  <1>6. Applied' = Applied \cup {i} /\ i \notin Applied /\ Applied \subseteq 1 .. Len(asked)
    BY <1>1, <1>3, <1>4 DEF Applied, KeysDiffer
  <1>7. \A j \in 1 .. Len(asked), f \in Fields : Wants(j, f)' = Wants(j, f)
    BY <1>1 DEF Wants, Entries, Asked
  <1>8. \A f \in Fields : Wants(i, f) = IF f = e.field THEN {Asked(e, p)} ELSE {}
    <2>1. \A d \in Entries(asked[i][1]) : d = e
      BY <1>1, <1>3, <1>5, EntryOfKey, PairOf
    <2>2. Wants(i, e.field) = {Asked(e, p)}
      BY <1>2, <1>3, <2>1 DEF Wants
    <2>3. \A f \in Fields : f # e.field => Wants(i, f) = {}
      BY <2>1 DEF Wants
    <2>. QED
      BY <2>2, <2>3
  <1>9. e.field # "metadata" => \A j \in Applied : Wants(j, e.field) = {}
    <2>. SUFFICES ASSUME e.field # "metadata", NEW j \in Applied,
                         NEW d \in Entries(asked[j][1]), d.field = e.field
                  PROVE  FALSE
      BY DEF Wants
    <2>1. j \in 1 .. Len(asked) /\ j # i
      BY <1>6
    <2>2. d \in Registry /\ d \in Lookup(asked[j][1]) /\ asked[j][1] \in Seq(STRING)
      BY <1>1, <2>1, PairOf
    <2>3. d = e
      BY <1>5, <2>2, EntryOfField
    <2>4. e.key = asked[j][1] /\ e.key = p[1]
      BY <1>5, <2>2, <2>3, KeyOfEntry
    <2>. QED
      BY <1>3, <1>4, <2>1, <2>4 DEF KeysDiffer
  <1>10. \A f \in Fields :
           filter'[f] = IF f # e.field THEN filter[f]
                        ELSE IF f = "metadata" THEN filter[f] \cup {Asked(e, p)}
                        ELSE {Asked(e, p)}
    BY <1>2, <1>4, <1>5
  <1>11. \A f \in Fields : filter[f] = UNION {Wants(j, f) : j \in Applied}
    BY <1>1 DEF ApplyInv
  <1>12. \A f \in Fields : filter'[f] = UNION {Wants(j, f) : j \in Applied'}
    <2>. SUFFICES ASSUME NEW f \in Fields
                  PROVE  filter'[f] = UNION {Wants(j, f) : j \in Applied'}
      OBVIOUS
    <2>1. UNION {Wants(j, f) : j \in Applied'} = filter[f] \cup Wants(i, f)
      BY <1>6, <1>11
    <2>2. f = e.field /\ f # "metadata" => filter[f] = {}
      BY <1>9, <1>11
    <2>. QED
      BY <1>8, <1>10, <2>1, <2>2
  <1>13. \A f \in Fields : filter'[f] = UNION {Wants(j, f)' : j \in Applied'}
    <2>1. Applied' \subseteq 1 .. Len(asked)
      BY <1>6
    <2>. QED
      BY <1>7, <1>12, <2>1
  <1>14. \A j \in Applied' : Understood(asked[j])'
    <2>1. Understood(asked[i])
      BY <1>2, <1>3 DEF Understood
    <2>2. \A j \in Applied' : Understood(asked[j])
      BY <1>1, <1>6, <2>1 DEF ApplyInv
    <2>. QED
      BY <1>1, <2>2 DEF Understood, Entries
  <1>15. ApplyInv'
    <2>1. KeysDiffer(1 .. Len(asked))'
      BY <1>1, <1>4 DEF KeysDiffer
    <2>2. params' \subseteq {asked'[j] : j \in 1 .. Len(asked')}
      BY <1>1 DEF ApplyInv
    <2>3. DOMAIN filter' = Fields
      BY <1>2, <1>4
    <2>. QED
      BY <1>13, <1>14, <2>1, <2>2, <2>3 DEF ApplyInv
  <1>. QED
    BY <1>1, <1>15 DEF QueryInv, AnswerFitsTheQuery

LEMMA RefuseInv ==
  ASSUME QueryInv, NEW p \in params, Refuse(p)
  PROVE  QueryInv'
  <1>1. /\ ApplyInv /\ asked \in Seq(Pairs) /\ route \in Routes
        /\ phase' = "refused" /\ asked' = asked /\ route' = route
    BY DEF QueryInv, Refuse
  <1>2. PICK i \in 1 .. Len(asked) : p = asked[i]
    BY <1>1 DEF ApplyInv
  <1>3. ~\E e \in Entries(asked[i][1]) : asked[i][2] \in Values(e.field)
    BY <1>2 DEF Refuse
  <1>4. i \in DOMAIN asked
    BY <1>1
  <1>5. ~Proper
    BY <1>3, <1>4 DEF Proper
  <1>. QED
    BY <1>1, <1>5, SameProper DEF QueryInv, AnswerFitsTheQuery

-----------------------------------------------------------------------------
(* What the hosts selected have in common.                                 *)

\* The value v of a field holds of a host.
Meets(f, v, h) ==
  CASE f = "group" -> v \in h.groups
    [] f = "icmp" -> v = h.icmp
    [] f = "metadata" -> v \in h.metadata
    [] f = "status" -> \E u \in h.usage : u.status = v
    [] f = "console" -> \E u \in h.usage : u.current /\ v <= u.covered /\ v <= u.console
    [] f = "users" -> \E u \in h.usage : u.current /\ v <= u.covered /\ v <= u.users

MeetsAll(F, h) == \A f \in F : \A v \in filter[f] : Meets(f, v, h)

UsageFields == {"status", "console", "users"}

LEMMA SaysWhatItAsks ==
  ASSUME asked \in Seq(Pairs), NEW i \in 1 .. Len(asked), NEW h,
         NEW e \in Entries(asked[i][1])
  PROVE  Says(asked[i], h) <=> Meets(e.field, Asked(e, asked[i]), h)
  <1>. DEFINE p == asked[i]
  <1>1. /\ e \in Lookup(p[1]) /\ e.field \in Fields
        /\ \A d \in Lookup(p[1]) : d = e
    BY PairOf, EntryOfKey
  <1>. HIDE DEF p
  <1>2. CASE e.field = "group" \/ e.field = "icmp"
    BY <1>1, <1>2 DEF Says, Meets, Asked, p
  <1>3. CASE e.field = "metadata"
    BY <1>1, <1>3 DEF Says, Meets, Asked, p
  <1>4. CASE e.field = "status"
    <2>1. Says(p, h) <=> \E u \in h.usage : u.status = p[2]
      BY <1>1, <1>4 DEF Says
    <2>2. Meets(e.field, p[2], h) <=> \E u \in h.usage : u.status = p[2]
      BY <1>4 DEF Meets
    <2>. QED
      BY <1>4, <2>1, <2>2 DEF Asked, p
  <1>5. CASE e.field = "console"
    <2>1. Says(p, h) <=>
            \E u \in h.usage : u.current /\ p[2] <= u.covered /\ p[2] <= u.console
      BY <1>1, <1>5 DEF Says
    <2>2. Meets(e.field, p[2], h) <=>
            \E u \in h.usage : u.current /\ p[2] <= u.covered /\ p[2] <= u.console
      BY <1>5 DEF Meets
    <2>. QED
      BY <1>5, <2>1, <2>2 DEF Asked, p
  <1>6. CASE e.field = "users"
    <2>1. Says(p, h) <=>
            \E u \in h.usage : u.current /\ p[2] <= u.covered /\ p[2] <= u.users
      BY <1>1, <1>6 DEF Says
    <2>2. Meets(e.field, p[2], h) <=>
            \E u \in h.usage : u.current /\ p[2] <= u.covered /\ p[2] <= u.users
      BY <1>6 DEF Meets
    <2>. QED
      BY <1>6, <2>1, <2>2 DEF Asked, p
  <1>. QED
    BY <1>1, <1>2, <1>3, <1>4, <1>5, <1>6, FieldNames

\* Once all parameters are applied, the filter says what they say.
LEMMA FilterSaysAll ==
  ASSUME asked \in Seq(Pairs), ApplyInv, params = {}, NEW h
  PROVE  (\A i \in 1 .. Len(asked) : Says(asked[i], h)) <=> MeetsAll(Fields, h)
  <1>1. /\ Applied = 1 .. Len(asked)
        /\ \A i \in 1 .. Len(asked) : Understood(asked[i])
        /\ \A f \in Fields : filter[f] = UNION {Wants(i, f) : i \in 1 .. Len(asked)}
    BY DEF ApplyInv, Applied
  <1>2. ASSUME \A i \in 1 .. Len(asked) : Says(asked[i], h),
               NEW f \in Fields, NEW v \in filter[f]
        PROVE  Meets(f, v, h)
    <2>1. PICK i \in 1 .. Len(asked) : v \in Wants(i, f)
      BY <1>1
    <2>2. PICK e \in Entries(asked[i][1]) : e.field = f /\ v = Asked(e, asked[i])
      BY <2>1 DEF Wants
    <2>. QED
      BY <1>2, <2>2, SaysWhatItAsks
  <1>3. ASSUME MeetsAll(Fields, h), NEW i \in 1 .. Len(asked)
        PROVE  Says(asked[i], h)
    <2>1. PICK e \in Entries(asked[i][1]) : TRUE
      BY <1>1 DEF Understood
    <2>2. e.field \in Fields
      BY PairOf
    <2>3. Asked(e, asked[i]) \in Wants(i, e.field)
      BY DEF Wants
    <2>4. Asked(e, asked[i]) \in filter[e.field]
      BY <1>1, <2>2, <2>3
    <2>. QED
      BY <1>3, <2>2, <2>4, SaysWhatItAsks DEF MeetsAll
  <1>. QED
    BY <1>2, <1>3 DEF MeetsAll

\* A field of durations has one at most.
LEMMA OneDuration ==
  ASSUME asked \in Seq(Pairs), ApplyInv, NEW f \in {"console", "users"}
  PROVE  /\ filter[f] \subseteq Nat
         /\ \A v, w \in filter[f] : v = w
  <1>1. /\ f \in Fields /\ Applied \subseteq 1 .. Len(asked)
        /\ filter[f] = UNION {Wants(i, f) : i \in Applied}
        /\ \A i \in Applied : Understood(asked[i])
        /\ KeysDiffer(1 .. Len(asked))
    BY FieldNames DEF ApplyInv, Applied
  <1>2. ASSUME NEW v \in filter[f]
        PROVE  \E i \in Applied : \E e \in Entries(asked[i][1]) :
                 e.field = f /\ v = asked[i][2] /\ e.key = asked[i][1]
    <2>1. PICK i \in Applied : v \in Wants(i, f)
      BY <1>1
    <2>2. PICK e \in Entries(asked[i][1]) : e.field = f /\ v = Asked(e, asked[i])
      BY <2>1 DEF Wants
    <2>3. e.key = asked[i][1]
      BY <1>1, <2>2, PairOf, KeyOfEntry
    <2>. QED
      BY <2>2, <2>3 DEF Asked
  <1>3. ASSUME NEW v \in filter[f] PROVE v \in Nat
    <2>1. PICK i \in Applied :
            \E e \in Entries(asked[i][1]) : e.field = f /\ v = asked[i][2]
      BY <1>2
    <2>e. PICK e \in Entries(asked[i][1]) : e.field = f /\ v = asked[i][2]
      BY <2>1
    <2>2. PICK d \in Entries(asked[i][1]) : asked[i][2] \in Values(d.field)
      BY <1>1 DEF Understood
    <2>3. d = e
      <3>1. i \in 1 .. Len(asked)
        BY <1>1
      <3>2. asked[i][1] \in Seq(STRING) /\ d \in Lookup(asked[i][1]) /\ e \in Lookup(asked[i][1])
        BY <3>1, PairOf
      <3>. QED
        BY <3>2, EntryOfKey
    <2>4. Values(f) \subseteq Nat
      BY DEF Values
    <2>. QED
      BY <2>e, <2>2, <2>3, <2>4
  <1>4. ASSUME NEW v \in filter[f], NEW w \in filter[f] PROVE v = w
    <2>i. PICK i \in Applied :
            \E e \in Entries(asked[i][1]) :
              e.field = f /\ v = asked[i][2] /\ e.key = asked[i][1]
      BY <1>2
    <2>1. PICK e \in Entries(asked[i][1]) :
            e.field = f /\ v = asked[i][2] /\ e.key = asked[i][1]
      BY <2>i
    <2>j. PICK j \in Applied :
            \E d \in Entries(asked[j][1]) :
              d.field = f /\ w = asked[j][2] /\ d.key = asked[j][1]
      BY <1>2
    <2>2. PICK d \in Entries(asked[j][1]) :
            d.field = f /\ w = asked[j][2] /\ d.key = asked[j][1]
      BY <2>j
    <2>3. d = e
      BY <1>1, <2>1, <2>2, PairOf, EntryOfField
    <2>. QED
      BY <1>1, <2>1, <2>2, <2>3 DEF KeysDiffer
  <1>. QED
    BY <1>3, <1>4

LEMMA LongestOfTwo ==
  ASSUME NEW S, S \subseteq Nat, S # {}, NEW a, NEW b, S \subseteq {a, b}
  PROVE  Max(S) \in S /\ \A x \in S : x <= Max(S)
  <1>1. \E x \in S : \A y \in S : x >= y
    <2>1. PICK x \in S : TRUE
      OBVIOUS
    <2>2. CASE \A y \in S : x >= y
      BY <2>2
    <2>3. CASE \E y \in S : y > x
      BY <2>3
    <2>. QED
      BY <2>2, <2>3
  <1>2. Max(S) \in S /\ \A y \in S : Max(S) >= y
    BY <1>1 DEF Max
  <1>. HIDE DEF Max
  <1>. QED
    BY <1>2

\* The filter of the usage is what its fields say one by one: the longer of two durations
\* is covered if both are.
LEMMA UsageFieldByField ==
  ASSUME asked \in Seq(Pairs), ApplyInv, NEW h \in Hosts, NEW u \in h.usage
  PROVE  MatchesUsage(u) <=> MeetsAll(UsageFields, h)
  <1>. DEFINE C == filter["console"]
              D == filter["users"]
              M == Max(C \cup D)
  <1>1. /\ h.usage = {u} /\ u.covered \in Nat
    BY SelectionAssumption
  <1>2. /\ C \subseteq Nat /\ D \subseteq Nat
        /\ \A v, w \in C : v = w
        /\ \A v, w \in D : v = w
    BY OneDuration
  <1>3. ASSUME C \cup D # {}
        PROVE  M \in C \cup D /\ M \in Nat /\ \A x \in C \cup D : x <= M
    <2>. HIDE DEF C, D
    <2>1. PICK a : C \subseteq {a}
      BY <1>2
    <2>2. PICK b : D \subseteq {b}
      BY <1>2
    <2>3. C \cup D \subseteq {a, b} /\ C \cup D \subseteq Nat
      BY <1>2, <2>1, <2>2
    <2>4. M \in C \cup D /\ \A x \in C \cup D : x <= M
      BY <1>3, <2>3, LongestOfTwo
    <2>. QED
      BY <2>3, <2>4
  <1>4. MatchesUsage(u) <=>
          /\ filter["status"] \subseteq {u.status}
          /\ C \cup D # {} => u.current /\ M <= u.covered
          /\ \A d \in C : d <= u.console
          /\ \A d \in D : d <= u.users
    BY DEF MatchesUsage, Window
  <1>5. C \cup D # {} => (M <= u.covered <=> (\A d \in C \cup D : d <= u.covered))
    <2>. SUFFICES ASSUME C \cup D # {}
                  PROVE  M <= u.covered <=> (\A d \in C \cup D : d <= u.covered)
      OBVIOUS
    <2>1. M \in C \cup D /\ M \in Nat /\ \A x \in C \cup D : x <= M /\ x \in Nat
      BY <1>2, <1>3
    <2>. HIDE DEF M, C, D
    <2>. QED
      BY <1>1, <2>1
  <1>. HIDE DEF M
  <1>6. /\ \A v : Meets("status", v, h) <=> v = u.status
        /\ \A v : Meets("console", v, h) <=> u.current /\ v <= u.covered /\ v <= u.console
        /\ \A v : Meets("users", v, h) <=> u.current /\ v <= u.covered /\ v <= u.users
    <2>1. \A v : Meets("status", v, h) <=> \E x \in h.usage : x.status = v
      BY DEF Meets
    <2>2. \A v : Meets("console", v, h) <=>
                   \E x \in h.usage : x.current /\ v <= x.covered /\ v <= x.console
      BY DEF Meets
    <2>3. \A v : Meets("users", v, h) <=>
                   \E x \in h.usage : x.current /\ v <= x.covered /\ v <= x.users
      BY DEF Meets
    <2>. QED
      BY <1>1, <2>1, <2>2, <2>3
  <1>7. MeetsAll(UsageFields, h) <=>
          /\ \A v \in filter["status"] : v = u.status
          /\ \A v \in C : u.current /\ v <= u.covered /\ v <= u.console
          /\ \A v \in D : u.current /\ v <= u.covered /\ v <= u.users
    <2>1. MeetsAll(UsageFields, h) <=>
            /\ \A v \in filter["status"] : Meets("status", v, h)
            /\ \A v \in C : Meets("console", v, h)
            /\ \A v \in D : Meets("users", v, h)
      BY DEF MeetsAll, UsageFields
    <2>. QED
      BY <1>6, <2>1
  <1>. HIDE DEF C, D
  <1>. QED
    BY <1>4, <1>5, <1>7

\* /v1/hosts selects the hosts of which the whole filter holds,
LEMMA HostsSelected ==
  ASSUME asked \in Seq(Pairs), ApplyInv, NEW h \in Hosts
  PROVE  MatchesHost(h) <=> MeetsAll(Fields, h)
  <1>1. MeetsAll(Fields, h) <=>
          /\ \A v \in filter["icmp"] : v = h.icmp
          /\ filter["group"] \subseteq h.groups
          /\ filter["metadata"] \subseteq h.metadata
          /\ MeetsAll(UsageFields, h)
    <2>1. /\ \A v : Meets("icmp", v, h) <=> v = h.icmp
          /\ \A v : Meets("group", v, h) <=> v \in h.groups
          /\ \A v : Meets("metadata", v, h) <=> v \in h.metadata
      BY DEF Meets
    <2>2. Fields = UsageFields \cup {"icmp", "group", "metadata"}
      BY FieldNames DEF UsageFields
    <2>3. MeetsAll(Fields, h) <=>
            /\ \A v \in filter["icmp"] : Meets("icmp", v, h)
            /\ \A v \in filter["group"] : Meets("group", v, h)
            /\ \A v \in filter["metadata"] : Meets("metadata", v, h)
            /\ MeetsAll(UsageFields, h)
      BY <2>2 DEF MeetsAll
    <2>. QED
      BY <2>1, <2>3
  <1>2. (FiltersUsage => \E u \in h.usage : MatchesUsage(u)) <=> MeetsAll(UsageFields, h)
    <2>1. CASE h.usage = {}
      <3>1. \A f \in UsageFields : \A v : ~Meets(f, v, h)
        BY <2>1 DEF Meets, UsageFields
      <3>. QED
        BY <2>1, <3>1 DEF MeetsAll, FiltersUsage, UsageFields
    <2>2. ASSUME NEW u \in h.usage
          PROVE  (FiltersUsage => \E x \in h.usage : MatchesUsage(x))
                   <=> MeetsAll(UsageFields, h)
      <3>1. (\E x \in h.usage : MatchesUsage(x)) <=> MeetsAll(UsageFields, h)
        BY UsageFieldByField
      <3>2. ~FiltersUsage => MeetsAll(UsageFields, h)
        BY DEF FiltersUsage, MeetsAll, UsageFields
      <3>. QED
        BY <3>1, <3>2
    <2>. QED
      BY <2>1, <2>2
  <1>. QED
    BY <1>1, <1>2 DEF MatchesHost

\* and /v1/usage those that have a usage besides.
LEMMA UsageSelected ==
  ASSUME asked \in Seq(Pairs), ApplyInv, route = "usage", NEW h \in Hosts
  PROVE  (\E u \in h.usage : MatchesUsage(u)) <=> h.usage # {} /\ MeetsAll(Fields, h)
  <1>1. \A f \in Fields : f \notin UsageFields => filter[f] = {}
    <2>. SUFFICES ASSUME NEW f \in Fields, f \notin UsageFields, NEW v \in filter[f]
                  PROVE  FALSE
      OBVIOUS
    <2>1. PICK i \in Applied : v \in Wants(i, f)
      BY DEF ApplyInv
    <2>2. PICK e \in Entries(asked[i][1]) : e.field = f
      BY <2>1 DEF Wants
    <2>3. e \in Registry /\ e.usage
      BY PairOf DEF Applied
    <2>4. CASE f = "group" \/ f = "icmp"
      BY <2>2, <2>3, <2>4, EntriesOfFields
    <2>5. CASE f = "metadata"
      BY <2>2, <2>3, <2>5, EntriesOfFields
    <2>. QED
      BY <2>4, <2>5, FieldNames DEF UsageFields
  <1>2. MeetsAll(Fields, h) <=> MeetsAll(UsageFields, h)
    BY <1>1, FieldNames DEF MeetsAll, UsageFields
  <1>. QED
    BY <1>2, UsageFieldByField

LEMMA SelectInv ==
  ASSUME QueryInv, Select
  PROVE  QueryInv'
  <1>1. /\ ApplyInv /\ asked \in Seq(Pairs) /\ params = {} /\ route \in Routes
        /\ phase' = "done" /\ asked' = asked /\ route' = route
    BY DEF QueryInv, Select
  <1>2. DOMAIN asked = 1 .. Len(asked) /\ Applied = 1 .. Len(asked)
    BY <1>1 DEF Applied
  <1>3. Proper
    BY <1>1, <1>2 DEF ApplyInv, KeysDiffer, Understood, Proper
  <1>4. ASSUME NEW h \in Hosts
        PROVE  (IF route = "hosts" THEN MatchesHost(h) ELSE \E u \in h.usage : MatchesUsage(u))
                 <=> /\ route = "usage" => h.usage # {}
                     /\ \A i \in DOMAIN asked : Says(asked[i], h)
    <2>1. (\A i \in DOMAIN asked : Says(asked[i], h)) <=> MeetsAll(Fields, h)
      BY <1>1, <1>2, FilterSaysAll
    <2>2. CASE route = "hosts"
      BY <1>1, <2>1, <2>2, HostsSelected
    <2>3. CASE route = "usage"
      BY <1>1, <2>1, <2>3, UsageSelected
    <2>. QED
      BY <1>1, <2>2, <2>3 DEF Routes
  <1>5. shown' = {h.id : h \in
          {h \in Hosts : /\ route = "usage" => h.usage # {}
                         /\ \A i \in DOMAIN asked : Says(asked[i], h)}}
    <2>1. {h \in Hosts : IF route = "hosts" THEN MatchesHost(h)
                         ELSE \E u \in h.usage : MatchesUsage(u)}
          = {h \in Hosts : /\ route = "usage" => h.usage # {}
                           /\ \A i \in DOMAIN asked : Says(asked[i], h)}
      BY <1>4
    <2>. QED
      BY <2>1 DEF Select
  <1>7. AnswerFitsTheQuery'
    BY <1>1, <1>3, <1>5, SameProper DEF AnswerFitsTheQuery, Says, Lookup
  <1>. QED
    BY <1>1, <1>7 DEF QueryInv

\* A query is refused only if it is not proper, and an answer has exactly the hosts of which
\* every parameter holds, for any hosts, values and number of parameters, in whatever order
\* the map is walked (parse_host_filter, matches_host_filter).
THEOREM AnswersFit == QuerySpec => []AnswerFitsTheQuery
  <1>1. QueryInv /\ [QueryNext]_queryVars => QueryInv'
    <2>. SUFFICES ASSUME QueryInv, [QueryNext]_queryVars PROVE QueryInv'
      OBVIOUS
    <2>1. CASE TakePair \/ RefuseDuplicate \/ AllPairs
      BY <2>1, TakePairInv, RefuseDuplicateInv, AllPairsInv
    <2>2. CASE \E p \in params : Apply(p) \/ Refuse(p)
      BY <2>2, ApplyKeepsInv, RefuseInv
    <2>3. CASE Select
      BY <2>3, SelectInv
    <2>4. CASE UNCHANGED queryVars
      <3>1. /\ asked' = asked /\ route' = route /\ phase' = phase /\ rest' = rest
            /\ params' = params /\ names' = names /\ filter' = filter /\ shown' = shown
        BY <2>4 DEF queryVars
      <3>2. PairsInv' <=> PairsInv
        BY <3>1 DEF PairsInv, Taken, KeysDiffer, Empty, Fields, Registry
      <3>3. ApplyInv' <=> ApplyInv
        <4>1. \A i, f : Wants(i, f)' = Wants(i, f)
          BY <3>1 DEF Wants, Entries, Lookup, Registry, Asked
        <4>2. \A i : Understood(asked[i])' <=> Understood(asked[i])
          BY <3>1 DEF Understood, Entries, Lookup, Registry
        <4>3. Applied' = Applied
          BY <3>1 DEF Applied
        <4>4. (\A f \in Fields : filter[f] = UNION {Wants(i, f) : i \in Applied})'
                <=> (\A f \in Fields : filter[f] = UNION {Wants(i, f) : i \in Applied})
          BY <3>1, <4>1, <4>3 DEF Fields, Registry
        <4>5. (\A i \in Applied : Understood(asked[i]))'
                <=> (\A i \in Applied : Understood(asked[i]))
          BY <4>2, <4>3
        <4>6. KeysDiffer(1 .. Len(asked))' <=> KeysDiffer(1 .. Len(asked))
          BY <3>1 DEF KeysDiffer
        <4>. QED
          BY <3>1, <4>4, <4>5, <4>6 DEF ApplyInv, Fields, Registry
      <3>4. AnswerFitsTheQuery' <=> AnswerFitsTheQuery
        <4>. DEFINE S == {h.id : h \in
                     {h \in Hosts : /\ route = "usage" => h.usage # {}
                                    /\ \A i \in DOMAIN asked : Says(asked[i], h)}}
        <4>1. S' = S
          BY <3>1 DEF Says, Lookup, Registry
        <4>2. Proper' <=> Proper
          BY <3>1, SameProper
        <4>3. AnswerFitsTheQuery <=>
                (phase = "refused" => ~Proper) /\ (phase = "done" => Proper /\ shown = S)
          BY DEF AnswerFitsTheQuery
        <4>4. AnswerFitsTheQuery' <=>
                (phase' = "refused" => ~Proper') /\ (phase' = "done" => Proper' /\ shown' = S')
          BY DEF AnswerFitsTheQuery
        <4>. HIDE DEF S
        <4>. QED
          BY <3>1, <4>1, <4>2, <4>3, <4>4
      <3>. QED
        BY <3>1, <3>2, <3>3, <3>4 DEF QueryInv
    <2>. QED
      BY <2>1, <2>2, <2>3, <2>4 DEF QueryNext, Done
  <1>2. QueryInv => AnswerFitsTheQuery
    BY DEF QueryInv
  <1>. QED
    BY <1>1, <1>2, QueryInitInv, PTL DEF QuerySpec
=============================================================================
