------------------------------ MODULE History ------------------------------
(***************************************************************************)
(* The history of one check of one host                                    *)
(* (src/src/storage/sqlite/history/): epochs, the observations recorded in *)
(* them, the durations that are rolled up into buckets of several widths,  *)
(* retention, and the query that puts all of it together again.            *)
(*                                                                         *)
(* Every action is one transaction of the writer, made under the inner     *)
(* mutex, so actions do not interleave and a crash falls between two of    *)
(* them.  A query reads one snapshot.                                      *)
(*                                                                         *)
(* Times are integers; [t, t+1) is the unit that durations are counted in. *)
(* Of an observation only its state is kept; sample counts and latencies   *)
(* are left out, but a sample still makes the row of its bucket.           *)
(***************************************************************************)
EXTENDS Integers, Sequences, FiniteSets, FiniteSetsExt, Functions

CONSTANTS
  Signatures,      \* what a configuration can say of the check
  NoCheck,         \* "the configuration does not have the check"
  Freshness,       \* of each signature: how long an observation holds
  Observations,    \* states a check can report
  Tiers,           \* the widths of the buckets, TIERS
  Retention,       \* how long the buckets of each tier are kept
  RawRetention,    \* how long observations are kept
  EventRetention,  \* how long events are kept
  BatchSize,       \* maintenance.batch_size
  Points,          \* max_points of the requests
  MaxRows,         \* 150000 buckets, beyond which wider ones are read
  RequestTimes,    \* instants that requests begin and end at
  \* Bounds of the model.
  MaxTime,         \* the last instant
  MaxEpochs,       \* epoch ids in use at a time
  MaxRecords,      \* observations stored
  MaxStepBacks     \* times the clock is set back

\* States that durations are counted for; any other state counts as unobserved.
Counted == {"up", "down"}

Coarsest == Max(Tiers)

\* HistoryConfig::validate: no retention is under a day, the coarsest width, and a
\* coarser tier is kept at least as long.  TIERS: each width divides the coarser ones.
ASSUME HistoryAssumption ==
  /\ NoCheck \notin Signatures
  /\ Freshness \in [Signatures -> Nat \ {0}]
  /\ Observations \subseteq Counted \cup {"unknown"}
  /\ Tiers \subseteq Nat \ {0} /\ Tiers # {} /\ IsFiniteSet(Tiers)
  /\ \A r, s \in Tiers : r < s => s % r = 0
  /\ Retention \in [Tiers -> Nat]
  /\ \A r, s \in Tiers : r < s => Retention[r] <= Retention[s]
  /\ \A r \in Tiers : RawRetention <= Retention[r]
  /\ RawRetention \in Nat /\ RawRetention >= Coarsest
  /\ EventRetention \in Nat /\ EventRetention >= Coarsest
  /\ BatchSize \in Nat \ {0}
  /\ Points \subseteq Nat \ {0}
  /\ MaxRows \in Nat /\ RequestTimes \subseteq Nat
  /\ MaxTime \in Nat /\ MaxEpochs \in Nat
  /\ MaxRecords \in Nat /\ MaxStepBacks \in Nat

VARIABLES
  now,        \* Utc::now()
  epochs,     \* history_epochs: a function from the ids in use
  spans,      \* history_spans, in the order of their ids
  buckets,    \* history_buckets: a function from <<epoch, width, start>>
  raw,        \* history_raw: pairs <<epoch, at>>
  events,     \* history_events
  timeline,   \* what was observed at each instant (observation only)
  records,    \* observations stored
  stepBacks   \* times the clock was set back

vars == <<now, epochs, spans, buckets, raw, events, timeline, records, stepBacks>>

Instants == 0 .. MaxTime

\* NULL in the columns ended_ms and last_ms.
Null == -1

Epoch == [sig : Signatures, start : Nat, end : Nat \cup {Null},
          last : Nat \cup {Null}, state : Observations \cup {"none"}]

\* Stats: the time spent in each counted state.
Stats == [Counted -> Nat]

Active == {e \in DOMAIN epochs : epochs[e].end = Null}

\* One epoch at a time is active (the unique index history_active), and a span has
\* time left that is to be rolled up.
TypeOK ==
  /\ now \in Instants
  /\ DOMAIN epochs \subseteq 1 .. MaxEpochs
  /\ \A e \in DOMAIN epochs : epochs[e] \in Epoch
  /\ Cardinality(Active) <= 1
  /\ \A i \in 1 .. Len(spans) :
       /\ spans[i].epoch \in 1 .. MaxEpochs /\ spans[i].state \in Observations
       /\ 0 <= spans[i].cursor /\ spans[i].cursor < spans[i].end
  /\ \A k \in DOMAIN buckets : k[2] \in Tiers /\ k[3] % k[2] = 0 /\ buckets[k] \in Stats
  /\ raw \subseteq (1 .. MaxEpochs) \X Instants
  /\ timeline \in [Instants -> Counted \cup {"unknown", "none"}]

-----------------------------------------------------------------------------
(* Helpers.                                                                *)

Floor(t, width) == width * (t \div width)
Cutoff(t, duration) == t - duration

\* Where the retained buckets of width r begin at time t.
Boundary(t, r) == Floor(Cutoff(t, Retention[r]), r)

NoTime == [c \in Counted |-> 0]

\* duration_stats
Duration(state, n) == [c \in Counted |-> IF c = state THEN n ELSE 0]

\* add_stats to each of the rows ks, which are made when they do not exist.
AddStats(rows, ks, stats) ==
  [k \in DOMAIN rows \cup ks |->
     LET old == IF k \in DOMAIN rows THEN rows[k] ELSE NoTime
     IN  IF k \in ks THEN [c \in Counted |-> old[c] + stats[c]] ELSE old]

\* The time that the last observation of e covers when it ends at the latest at end.
TailEnd(e, end) == Min({end, epochs[e].last + Freshness[epochs[e].sig]})

\* The spans once the time since the last observation of e has been added to them.
FlushTail(e, end) ==
  IF epochs[e].last # Null /\ TailEnd(e, end) > epochs[e].last
    THEN Append(spans, [epoch |-> e, cursor |-> epochs[e].last, end |-> TailEnd(e, end),
                        state |-> epochs[e].state])
    ELSE spans

\* Variant: an epoch goes on for as long as its last observation holds.
ClosedLate(e) ==
  [epochs[e] EXCEPT !.end = Max({epochs[e].start, now,
                                 epochs[e].last + Freshness[epochs[e].sig]}),
                    !.last = Null, !.state = "none"]

\* Variant: the last observation is kept when its epoch is closed.
ClosedWithTail(e) == [epochs[e] EXCEPT !.end = Max({epochs[e].start, now})]

\* close_epoch
Closed(e) ==
  [epochs[e] EXCEPT !.end = Max({epochs[e].start, now}), !.last = Null, !.state = "none"]

-----------------------------------------------------------------------------
(* Transactions.                                                           *)

Init ==
  /\ now = 0
  /\ epochs = << >>
  /\ spans = << >>
  /\ buckets = << >>
  /\ raw = {}
  /\ events = {}
  /\ timeline = [t \in Instants |-> "none"]
  /\ records = 0
  /\ stepBacks = 0

Tick ==
  /\ now < MaxTime
  /\ now' = now + 1
  /\ UNCHANGED <<epochs, spans, buckets, raw, events, timeline, records, stepBacks>>

ClockStepsBack ==
  /\ stepBacks < MaxStepBacks
  /\ \E t \in 0 .. now - 1 : now' = t
  /\ stepBacks' = stepBacks + 1
  /\ UNCHANGED <<epochs, spans, buckets, raw, events, timeline, records>>

\* Nothing is observed from t on.
Unobserved(t) == [u \in Instants |-> IF u < t THEN timeline[u] ELSE "none"]

\* sync_epochs, at a start or a reload, with sig the check's new signature: an epoch
\* of another signature is closed, and a new one is opened under an id not in use.
SyncEpochs(sig) ==
  LET same == \E e \in Active : epochs[e].sig = sig
      id   == CHOOSE i \in 1 .. MaxEpochs : i \notin DOMAIN epochs
  IN  /\ ~same
      /\ sig # NoCheck \/ Active # {}
      /\ sig # NoCheck => DOMAIN epochs # 1 .. MaxEpochs
      /\ epochs' =
           [e \in DOMAIN epochs \cup (IF sig = NoCheck THEN {} ELSE {id}) |->
              IF e \notin DOMAIN epochs
                THEN [sig |-> sig, start |-> now, end |-> Null, last |-> Null,
                      state |-> "none"]
                ELSE IF e \in Active THEN Closed(e) ELSE epochs[e]]
      /\ spans' = IF Active = {} THEN spans ELSE FlushTail(CHOOSE e \in Active : TRUE, now)
      /\ timeline' = Unobserved(now)
      /\ UNCHANGED <<now, buckets, raw, events, records, stepBacks>>

\* Variant: observations out of order are accepted.
AcceptedInAnyOrder(e, at) == at <= now /\ at >= epochs[e].start

\* An observation from the future, from before its epoch, or not after the last one, is
\* ignored.
Accepted(e, at) == at <= now /\ at >= epochs[e].start /\ at > epochs[e].last

\* record: an observation made at time at is stored.
Record(at, state) ==
  \E e \in Active :
    LET prior == epochs[e].state
    IN  /\ records < MaxRecords
        /\ Accepted(e, at)
        /\ <<e, at>> \notin raw
        /\ raw' = raw \cup {<<e, at>>}
        /\ spans' = FlushTail(e, at)
        /\ events' = IF prior = state
                       THEN events
                       ELSE events \cup {[epoch |-> e, at |-> at, previous |-> prior,
                                          state |-> state]}
        /\ buckets' = AddStats(buckets, {<<e, r, Floor(at, r)>> : r \in Tiers}, NoTime)
        /\ epochs' = [epochs EXCEPT ![e].last = at, ![e].state = state]
        /\ timeline' = [u \in Instants |->
                          IF at <= u /\ u < at + Freshness[epochs[e].sig]
                            THEN state ELSE Unobserved(at)[u]]
        /\ records' = records + 1
        /\ UNCHANGED <<now, stepBacks>>

\* The width a piece that starts at s is cut by: the finest one still retained there.
Smallest(s) == Min({r \in Tiers : s >= Boundary(now, r)} \cup {Coarsest})

\* Variant: a piece is not cut where a finer width begins to be retained.
PieceIgnoresRetention(s, end) == Min({end, Floor(s, Smallest(s)) + Smallest(s)})

\* Where the piece that starts at s ends.
PieceEnd(s, end) ==
  Min({end, Floor(s, Smallest(s)) + Smallest(s)}
        \cup {b \in {Boundary(now, r) : r \in Tiers} : b > s})

\* One turn of the loop of rollup: a piece of the oldest span is added to the buckets
\* of every width that is still retained there.
RollUpPiece(db) ==
  LET span  == Head(db.spans)
      start == Max({span.cursor, Boundary(now, Coarsest)})
      until == PieceEnd(start, span.end)
  IN  IF db.spans = << >> THEN db
      ELSE IF start >= span.end THEN [db EXCEPT !.spans = Tail(@)]
      ELSE [spans   |-> IF until = span.end
                          THEN Tail(db.spans)
                          ELSE [db.spans EXCEPT ![1].cursor = until],
            buckets |-> AddStats(db.buckets,
                          {<<span.epoch, r, Floor(start, r)>> :
                             r \in {r \in Tiers : start >= Boundary(now, r)}},
                          Duration(span.state, until - start))]

\* rollup: up to BatchSize pieces, in one transaction.
RollUp ==
  LET after[n \in 0 .. BatchSize] ==
        IF n = 0 THEN [spans |-> spans, buckets |-> buckets] ELSE RollUpPiece(after[n - 1])
  IN  /\ spans # << >>
      /\ spans' = after[BatchSize].spans
      /\ buckets' = after[BatchSize].buckets
      /\ UNCHANGED <<now, epochs, raw, events, timeline, records, stepBacks>>

ExpiredRaw == {r \in raw : r[2] < Cutoff(now, RawRetention)}
ExpiredEvents == {v \in events : v.at < Cutoff(now, EventRetention)}
ExpiredBuckets(r) == {k \in DOMAIN buckets : k[2] = r /\ k[3] < Boundary(now, r)}

\* Epochs that ended long ago.
Ended ==
  {e \in DOMAIN epochs :
     epochs[e].end # Null
       /\ epochs[e].end < Cutoff(now, Max({Retention[Coarsest], EventRetention}))}

\* Variant: spans that are not rolled up yet do not keep their epoch.
UnusedButSpans(rawRows, bucketRows, eventRows) ==
  {e \in Ended :
     /\ \A r \in rawRows : r[1] # e
     /\ \A k \in DOMAIN bucketRows : k[1] # e
     /\ \A v \in eventRows : v.epoch # e}

\* Those of them that no row refers to.
Unused(rawRows, bucketRows, eventRows) ==
  {e \in Ended :
     /\ \A r \in rawRows : r[1] # e
     /\ \A k \in DOMAIN bucketRows : k[1] # e
     /\ \A i \in 1 .. Len(spans) : spans[i].epoch # e
     /\ \A v \in eventRows : v.epoch # e}

\* DELETE ... LIMIT: some BatchSize of the rows, or all if there are fewer.
Batch(rows) == kSubset(Min({BatchSize, Cardinality(rows)}), rows)

\* prune, one transaction: a batch of expired observations, of events, of buckets of
\* every width, and then of epochs.
Prune ==
  /\ \E gone \in Batch(ExpiredRaw) : raw' = raw \ gone
  /\ \E gone \in Batch(ExpiredEvents) : events' = events \ gone
  /\ \E gone \in SUBSET UNION {ExpiredBuckets(r) : r \in Tiers} :
       /\ \A r \in Tiers : gone \cap ExpiredBuckets(r) \in Batch(ExpiredBuckets(r))
       /\ buckets' = Restrict(buckets, DOMAIN buckets \ gone)
  /\ \E gone \in Batch(Unused(raw', buckets', events')) :
       epochs' = Restrict(epochs, DOMAIN epochs \ gone)
  /\ UNCHANGED <<now, spans, timeline, records, stepBacks>>

\* Variant: only the last statement is counted.
EpochsRemoved == Cardinality(DOMAIN epochs) - Cardinality(DOMAIN epochs')

\* The rows a prune removed.
Removed ==
  Cardinality(raw) - Cardinality(raw')
    + Cardinality(events) - Cardinality(events')
    + Cardinality(DOMAIN buckets) - Cardinality(DOMAIN buckets')
    + Cardinality(DOMAIN epochs) - Cardinality(DOMAIN epochs')

Next ==
  \/ Tick
  \/ \E sig \in Signatures \cup {NoCheck} : SyncEpochs(sig)
  \/ \E at \in Instants, state \in Observations : Record(at, state)
  \/ RollUp
  \/ Prune

Spec == Init /\ [][Next]_vars

\* The same with a clock that may be set back.
SteppingSpec == Init /\ [][Next \/ ClockStepsBack]_vars

-----------------------------------------------------------------------------
(* The query.                                                              *)

Requests ==
  {q \in [from : RequestTimes, to : RequestTimes, points : Points] :
     q.from < q.to /\ q.from < now}

\* epochs(aligned): the epochs of the coarsest buckets that a request touches.
Selected(q) ==
  {e \in DOMAIN epochs :
     /\ epochs[e].start < Min({Floor(Min({q.to, now}) - 1, Coarsest) + Coarsest, now})
     /\ epochs[e].end = Null \/ epochs[e].end > Floor(q.from, Coarsest)}

\* The width of the buckets a request is answered from: the finest one that is kept
\* that long, is not finer than the points asked for, and does not make for too many
\* rows (the loop stops at the first such width, because wider ones make for fewer).
Source(q) ==
  LET length  == Min({q.to, now}) - q.from
      desired == length \div q.points
      fits(r) == /\ q.from >= Cutoff(now, Retention[r])
                 /\ \A s \in Tiers : s > r => desired < s
                 /\ Cardinality(Selected(q)) * (length \div r + 1) <= MaxRows
  IN  Min({r \in Tiers : fits(r)} \cup {Coarsest})

EpochEnd(e) == IF epochs[e].end = Null THEN now ELSE Min({epochs[e].end, now})

\* The length of what [s, t) and [u, v) share.
Overlap(s, t, u, v) == Max({0, Min({t, v}) - Max({s, u})})

\* query: the grid of a request's answer.  Its points are the step-wide pieces of
\* [from, to); rows from before retained are unavailable.
Grid(q) ==
  LET width == Source(q)
      from  == Floor(q.from, width)
      to    == Min({Floor(Min({q.to, now}) - 1, width) + width, now})
      span  == q.points * width
      step  == width * Max({1, (to - from + span - 1) \div span})
  IN  [width |-> width, from |-> from, to |-> to, step |-> step,
       retained |-> Boundary(now, width),
       chosen |-> {e \in DOMAIN epochs : epochs[e].start < to /\ EpochEnd(e) > from},
       starts |-> {from + i * step : i \in 0 .. (to - from - 1) \div step}]

PointEnd(g, b) == Min({b + g.step, g.to})

\* The time in state c that the point of b shows: from buckets, from spans that are not
\* rolled up yet, and from the last observation of each epoch.
Shown(g, b, c) ==
  LET within(s, t) == Overlap(Max({s, g.retained}), Min({t, g.to}), b, b + g.step)
      rows == {k \in DOMAIN buckets :
                 /\ k[1] \in g.chosen /\ k[2] = g.width
                 /\ k[3] >= Max({b, g.retained}) /\ k[3] < PointEnd(g, b)}
  IN  IF PointEnd(g, b) <= g.retained THEN 0
      ELSE SumFunction([k \in rows |-> buckets[k][c]])
           + SumFunction(
               [i \in {i \in 1 .. Len(spans) :
                         spans[i].epoch \in g.chosen /\ spans[i].state = c}
                  |-> within(spans[i].cursor, spans[i].end)])
           + SumFunction(
               [e \in {e \in g.chosen : epochs[e].last # Null /\ epochs[e].state = c}
                  |-> within(epochs[e].last, TailEnd(e, EpochEnd(e)))])

\* The time that the point of b could show.
Eligible(g, b) ==
  SumFunction([e \in g.chosen |-> Overlap(epochs[e].start, EpochEnd(e), b, PointEnd(g, b))])

-----------------------------------------------------------------------------
(* Properties.                                                             *)

\* Epochs of the check do not overlap (so the comment of query on eligible time): no
\* instant belongs to two of them, however often the check was changed, removed and
\* brought back.
EpochsDisjoint ==
  \A t \in Instants, e, f \in DOMAIN epochs :
    /\ epochs[e].start <= t /\ (epochs[e].end = Null \/ t < epochs[e].end)
    /\ epochs[f].start <= t /\ (epochs[f].end = Null \/ t < epochs[f].end)
    => e = f

\* Whatever has been rolled up or pruned so far, and from whichever width it is
\* answered, a request shows of every retained instant exactly what was observed
\* there: record, rollup, prune and query neither lose time nor count it twice.
QueryShowsTimeline ==
  \A q \in Requests :
    LET g == Grid(q)
    IN  \A b \in g.starts, c \in Counted :
          Shown(g, b, c) =
            Cardinality({t \in Max({b, g.retained}) .. PointEnd(g, b) - 1 : timeline[t] = c})

\* In the series of query, the time shown is a share of the eligible time, and that of
\* the point's length.
ShownFitsEligible ==
  \A q \in Requests :
    LET g == Grid(q)
    IN  \A b \in g.starts :
          /\ SumFunction([c \in Counted |-> Shown(g, b, c)]) <= Eligible(g, b)
          /\ Eligible(g, b) <= PointEnd(g, b) - b

\* No row outlives its epoch (the queries of prune): what a span, a bucket, an
\* observation or an event belongs to is still known when it is read.
EveryRowHasItsEpoch ==
  /\ \A i \in 1 .. Len(spans) : spans[i].epoch \in DOMAIN epochs
  /\ \A k \in DOMAIN buckets : k[1] \in DOMAIN epochs
  /\ \A r \in raw : r[1] \in DOMAIN epochs
  /\ \A v \in events : v.epoch \in DOMAIN epochs

\* The events that record keeps of an epoch and that are not expired form a chain, and
\* the last one leads to the present state.
EventsChain ==
  \A v \in events \ ExpiredEvents :
    LET later == {w \in events : w.epoch = v.epoch /\ w.at > v.at}
    IN  IF later = {}
          THEN epochs[v.epoch].end = Null => epochs[v.epoch].state = v.state
          ELSE \E w \in later : (\A x \in later : w.at <= x.at) /\ w.previous = v.state

\* A prune that reports nothing more to do, because it removed less than a batch, has
\* left no expired row for the next interval.
PruneFinishes ==
  [][Prune => \/ Removed >= BatchSize
              \/ /\ ExpiredRaw' = {} /\ ExpiredEvents' = {}
                 /\ \A r \in Tiers : ExpiredBuckets(r)' = {}
                 /\ Unused(raw, buckets, events)' = {}]_vars
=============================================================================
