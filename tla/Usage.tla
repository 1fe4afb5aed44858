------------------------------- MODULE Usage -------------------------------
(***************************************************************************)
(* The users seen on one host (src/src/storage/sqlite/mod.rs, queries.rs,  *)
(* maintenance.rs and src/src/domain/filters.rs): the latest observation,  *)
(* the history of changes, the stretch of time that observations cover,    *)
(* retention, and the filters that report a host as inactive.              *)
(*                                                                         *)
(* A table with the host's id as its key is a set of at most one row, and  *)
(* so is whatever may be absent: the configured host, the cache, the       *)
(* observation that waits to be stored, a duration of the filter.          *)
(*                                                                         *)
(* An action is a transaction of the writer with what is done under the    *)
(* inner mutex around it.  One that fails is rolled back and is a stutter: *)
(* its observation stays pending and is stored by a later attempt.         *)
(* usage_samples, which no filter reads, is left out.                      *)
(***************************************************************************)
EXTENDS Integers, FiniteSets, FiniteSetsExt

CONSTANTS
  Addresses,     \* of the host
  Users,         \* what observations say, as far as filters tell it apart
  MaxAge,        \* how old an observation may be: two intervals and the timeout
  Retentions,    \* history_retention, which a reload may change
  Durations,     \* that filters ask for
  BatchSize,     \* the LIMIT of a prune
  \* Bounds of the model.
  MaxTime,       \* the last instant
  MaxChanges     \* starts, reloads and prunes

\* An observation failed, or it found nobody, only remote users, or users at the console.
\* Durations are validated to be at least 1 ms.
ASSUME UsageAssumption ==
  /\ Users \subseteq {"failed", "nobody", "remote", "console"}
  /\ MaxAge \in Nat \ {0}
  /\ Retentions \subseteq Nat \ {0}
  /\ Durations \subseteq Nat \ {0}
  /\ BatchSize \in Nat \ {0}
  /\ MaxTime \in Nat /\ MaxChanges \in Nat

VARIABLES
  now,        \* Utc::now()
  up,         \* the process runs
  catalog,    \* the host in SqliteStorage::hosts
  identity,   \* host_identity
  latest,     \* latest_usage
  coverage,   \* usage_coverage
  rows,       \* usage_history
  floor,      \* retention_floor
  cache,      \* Inner::usage
  pending,    \* the observation that the host's task has not stored yet
  seen,       \* every observation that was stored (for the properties)
  life,       \* counts the times coverage has to begin anew (for the properties)
  changes     \* how many starts, reloads and prunes there were

ram == <<up, catalog, cache, pending>>
tables == <<identity, latest, coverage, rows, floor>>
ghosts == <<seen, life>>
vars == <<now, ram, tables, ghosts, changes>>

Instants == 0 .. MaxTime

Host == [address : Addresses, enabled : BOOLEAN]
Snapshot == [at : Instants, users : Users]

\* Subsets of S with at most one element.
Optional(S) == {{}} \cup {{x} : x \in S}

HasAtMostOne(S) == \A x, y \in S : x = y

\* While the process runs, its cache agrees with the table.
TypeOK ==
  /\ now \in Instants /\ up \in BOOLEAN
  /\ catalog \subseteq Host /\ HasAtMostOne(catalog)
  /\ identity \subseteq Host /\ HasAtMostOne(identity)
  /\ latest \subseteq Snapshot /\ HasAtMostOne(latest)
  /\ cache \subseteq Snapshot /\ HasAtMostOne(cache)
  /\ pending \subseteq Snapshot /\ HasAtMostOne(pending)
  /\ coverage \subseteq [started : Instants, observed : Instants]
  /\ HasAtMostOne(coverage)
  /\ rows \subseteq Snapshot
  /\ floor \subseteq Int /\ HasAtMostOne(floor)
  /\ seen \subseteq [at : Instants, users : Users, life : Nat]
  /\ life \in Nat
  /\ changes \in Nat
  /\ up => cache = latest

-----------------------------------------------------------------------------
(* The writer.                                                             *)

\* is_fresh: an observation made at time t still counts at time n.
IsFresh(t, n) == t <= n /\ n - t <= MaxAge

\* The configured hosts c have the host at the address it had.
SameAddress(before, c) == \E old \in before, new \in c : old.address = new.address

\* Coverage goes on if the host keeps its address and is enabled, and was before.
KeepsCoverage(c) ==
  \E old \in identity, new \in c : old.address = new.address /\ old.enabled /\ new.enabled

\* sync_identities_in_transaction: rows of a host that is gone or has moved are deleted.
SyncIdentities(c) ==
  /\ identity' = c
  /\ latest' = IF SameAddress(identity, c) THEN latest ELSE {}
  /\ coverage' = IF KeepsCoverage(c) THEN coverage ELSE {}
  /\ life' = IF KeepsCoverage(c) THEN life ELSE life + 1
  /\ UNCHANGED <<rows, floor, seen>>

\* update_coverage: the observation carries on from the last one, if that is fresh yet.
UpdateCoverage(s) ==
  LET carried == {c.started : c \in {c \in coverage : IsFresh(c.observed, s.at)}}
  IN  coverage' = {[started |-> IF carried = {} THEN s.at ELSE Max(carried),
                    observed |-> s.at]}

\* should_insert_history: the observation says something else than the cached one.
ShouldInsertHistory(s) == \A c \in cache : c.users # s.users

\* The bound on starts, reloads and prunes.
Changes == changes < MaxChanges /\ changes' = changes + 1

-----------------------------------------------------------------------------
(* Actions.                                                                *)

Init ==
  /\ now = 0 /\ up = FALSE
  /\ catalog = {} /\ cache = {} /\ pending = {}
  /\ identity = {} /\ latest = {} /\ coverage = {} /\ rows = {} /\ floor = {}
  /\ seen = {} /\ life = 0
  /\ changes = 0

Tick ==
  /\ now < MaxTime
  /\ now' = now + 1
  /\ UNCHANGED <<ram, tables, ghosts, changes>>

\* A start with the configured hosts c: the cache is loaded from latest_usage.
Start(c) ==
  /\ ~up
  /\ SyncIdentities(c)
  /\ up' = TRUE
  /\ catalog' = c
  /\ cache' = latest'
  /\ Changes
  /\ UNCHANGED <<now, pending>>

\* A crash or a shutdown.
ProcessEnds ==
  /\ up
  /\ up' = FALSE
  /\ catalog' = {} /\ cache' = {} /\ pending' = {}
  /\ UNCHANGED <<now, tables, ghosts, changes>>

\* Variant: the cache is kept for a host that moves.
ReplaceKeepingCache(c) ==
  /\ up
  /\ SyncIdentities(c)
  /\ catalog' = c
  /\ cache' = IF c = {} THEN {} ELSE cache
  /\ pending' = {}
  /\ Changes
  /\ UNCHANGED <<now, up>>

\* A reload: what the replaced task had pending is lost, since writes of its generation
\* are rejected, and the cache is kept for a host that stays at its address.
ReplaceConfiguration(c) ==
  /\ up
  /\ SyncIdentities(c)
  /\ catalog' = c
  /\ cache' = IF SameAddress(catalog, c) THEN cache ELSE {}
  /\ pending' = {}
  /\ Changes
  /\ UNCHANGED <<now, up>>

\* Variant: the cache is set before the observation is stored.
CollectIntoCache ==
  /\ up /\ pending = {}
  /\ \E h \in catalog : h.enabled
  /\ \A o \in seen : o.at # now
  /\ \E users \in Users : pending' = {[at |-> now, users |-> users]}
  /\ cache' = pending'
  /\ UNCHANGED <<now, up, catalog, tables, ghosts, changes>>

\* The task of the host takes an observation, dated at its beginning.  Two observations
\* do not have the same instant.
Collect ==
  /\ up /\ pending = {}
  /\ \E h \in catalog : h.enabled
  /\ \A o \in seen : o.at # now
  /\ \E users \in Users : pending' = {[at |-> now, users |-> users]}
  /\ UNCHANGED <<now, up, catalog, cache, tables, ghosts, changes>>

UpdateUsage ==
  \E s \in pending :
    /\ UpdateCoverage(s)
    /\ latest' = {s}
    /\ rows' = rows \cup {r \in {s} : ShouldInsertHistory(r)}
    /\ cache' = {s}
    /\ pending' = {}
    /\ seen' = seen \cup {[at |-> s.at, users |-> s.users, life |-> life]}
    /\ UNCHANGED <<now, up, catalog, identity, floor, life, changes>>

\* Variant: no row is kept as an anchor.
EveryOldRow(cutoff) == {r \in rows : r.at < cutoff}

\* Rows from before the cutoff, but the last of them if the host has a latest row.
ExpiredRows(cutoff) ==
  {r \in rows : /\ r.at < cutoff
                /\ latest # {} => \E q \in rows : r.at < q.at /\ q.at < cutoff}

\* A DELETE with LIMIT removes some batch; the floor never goes back.
PruneHistory ==
  /\ up
  /\ \E retention \in Retentions :
       LET cutoff == now - retention
           expired == ExpiredRows(cutoff)
       IN  /\ \E batch \in SUBSET expired :
                /\ Cardinality(batch) = Min({BatchSize, Cardinality(expired)})
                /\ rows' = rows \ batch
           /\ floor' = {Max(floor \cup {cutoff})}
  /\ Changes
  /\ UNCHANGED <<now, ram, identity, latest, coverage, ghosts>>

Next ==
  \/ Tick
  \/ \E c \in Optional(Host) : Start(c) \/ ReplaceConfiguration(c)
  \/ ProcessEnds
  \/ Collect
  \/ UpdateUsage
  \/ PruneHistory

Spec == Init /\ [][Next]_vars

-----------------------------------------------------------------------------
(* The filters.                                                            *)

\* ActivityPredicate: the observations that show the activity asked for.
ConsoleOnly == {"console"}
AnyUser == {"console", "remote"}

\* Observations that do not show the host to be inactive.
Breaking(active) == active \cup {"failed"}

\* The last of a set of observations.
Newest(S) == {s \in S : \A t \in S : t.at <= s.at}

StateAtOrBefore(cutoff) == Newest({r \in rows : r.at <= cutoff})

WindowBreaksInactivity(cutoff, active) ==
  \E r \in rows : r.at > cutoff /\ r.users \in Breaking(active)

\* evaluate_inactivity, for the snapshot s at time n.
EvaluateInactivity(s, duration, n, active) ==
  /\ s.users \notin Breaking(active)
  /\ \E r \in StateAtOrBefore(n - duration) : r.users \notin Breaking(active)
  /\ ~WindowBreaksInactivity(n - duration, active)

\* Variant: what was pruned is not considered.
CoveredByObservations(cutoff) == \E c \in coverage : c.started <= cutoff

Covered(cutoff) ==
  /\ \E c \in coverage : c.started <= cutoff
  /\ ~\E f \in floor : f > cutoff

\* matches_usage_filter: the host is reported for the durations inactive_console_for and
\* no_users_for, of which one at least is there, by a request that was read at time n.
MatchesUsageFilter(n, console, any) ==
  /\ \E h \in catalog : h.enabled
  /\ Covered(n - Max(console \cup any))
  /\ \E s \in latest :
       /\ IsFresh(s.at, n)
       /\ \A d \in console : EvaluateInactivity(s, d, n, ConsoleOnly)
       /\ \A d \in any : EvaluateInactivity(s, d, n, AnyUser)

-----------------------------------------------------------------------------
(* Properties.                                                             *)

Filters == {f \in Optional(Durations) \X Optional(Durations) : f # <<{}, {}>>}

\* The host was seen to be inactive from n - duration to n: the observation that was
\* current at the first instant and all later ones were made of the host as it is
\* configured now and show no activity, and none was too old before the next was made.
SeenInactive(n, duration, active) ==
  LET first == {o \in seen : o.at <= n - duration}
      window == {o \in seen : o.at <= n /\ \A p \in first : p.at <= o.at}
  IN  /\ first # {}
      /\ \A o \in window :
           /\ o.life = life /\ o.users \notin Breaking(active)
           /\ \/ n - o.at <= MaxAge
              \/ \E p \in window : o.at < p.at /\ p.at - o.at <= MaxAge

\* A host is reported as inactive only if it was seen to be, whatever reloads, restarts
\* and prunes came between and however late the request is answered: "no user usage event
\* during the window" (README.md), with "continuous coverage of the requested window".
ReportedHostsWereInactive ==
  \A n \in 0 .. now, f \in Filters :
    MatchesUsageFilter(n, f[1], f[2]) =>
      /\ \A d \in f[1] : SeenInactive(n, d, ConsoleOnly)
      /\ \A d \in f[2] : SeenInactive(n, d, AnyUser)

\* And a host that was seen to be inactive is reported, as far back as retention lets
\* the filter look: neither the cache nor a prune loses the row that the answer needs.
InactiveHostsAreReported ==
  \A f \in Filters :
    /\ \E h \in catalog : h.enabled
    /\ \A d \in f[1] : SeenInactive(now, d, ConsoleOnly)
    /\ \A d \in f[2] : SeenInactive(now, d, AnyUser)
    /\ ~\E t \in floor : t > now - Max(f[1] \cup f[2])
    => MatchesUsageFilter(now, f[1], f[2])

\* An observation that the retained history has to answer for: of the host as it is, and
\* not before the one that was current at the retention floor.
Retained(o) ==
  /\ o.life = life
  /\ \A f \in floor : o.at >= f \/ ~\E p \in seen : o.at < p.at /\ p.at <= f

\* Rows are inserted on change only, and yet the history tells what every retained
\* observation was: the last row up to its instant says the same.
HistoryTellsObservations ==
  \A o \in {o \in seen : Retained(o)} :
    \E r \in rows : /\ r.at <= o.at /\ r.users = o.users
                    /\ ~\E q \in rows : r.at < q.at /\ q.at <= o.at

=============================================================================
