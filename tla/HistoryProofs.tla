----------------------------- MODULE HistoryProofs -----------------------------
(* Proofs about History, for any signatures, widths, retention and bounds: its   *)
(* epochs do not overlap as long as the clock is not set back, no row outlives   *)
(* its epoch, events form a chain, a prune leaves no more than it reports, and   *)
(* an answer shows of every retained instant what was observed there, once.      *)
EXTENDS History, FiniteSetTheorems, WellFoundedInduction, TLAPS

-----------------------------------------------------------------------------
(* The inductive invariant.                                                *)

\* Epoch e ended when f began, or earlier.
Before(e, f) == epochs[e].end # Null /\ epochs[e].end <= epochs[f].start

EpochTypes ==
  /\ now \in Instants
  /\ epochs = [e \in DOMAIN epochs |-> epochs[e]]
  /\ DOMAIN epochs \subseteq 1 .. MaxEpochs
  /\ \A e \in DOMAIN epochs : epochs[e] \in Epoch

\* No epoch reaches into the future, and of any two one ended before the other began.
\* So at most one is active, and it is the last.
EpochOrder ==
  /\ \A e \in DOMAIN epochs :
       /\ epochs[e].start <= now
       /\ epochs[e].end # Null => epochs[e].end <= now
  /\ \A e, f \in DOMAIN epochs : e # f => Before(e, f) \/ Before(f, e)

EpochInv == EpochTypes /\ EpochOrder

-----------------------------------------------------------------------------
(* The steps.                                                              *)

LEMMA MaxOfTwo ==
  ASSUME NEW a \in Int, NEW b \in Int
  PROVE  Max({a, b}) = IF a <= b THEN b ELSE a
  <1>1. \E x \in {a, b} : \A y \in {a, b} : x >= y
    <2>1. CASE a <= b
      BY <2>1
    <2>2. CASE b <= a
      BY <2>2
    <2>. QED
      BY <2>1, <2>2
  <1>2. Max({a, b}) \in {a, b} /\ \A y \in {a, b} : Max({a, b}) >= y
    BY <1>1 DEF Max
  <1>. HIDE DEF Max
  <1>. QED
    BY <1>2

LEMMA EpochWithEnd ==
  ASSUME NEW r \in Epoch, NEW a \in Nat
  PROVE  /\ [r EXCEPT !.end = a, !.last = Null, !.state = "none"] \in Epoch
         /\ [r EXCEPT !.end = a, !.last = Null, !.state = "none"].start = r.start
         /\ [r EXCEPT !.end = a, !.last = Null, !.state = "none"].end = a
  BY DEF Epoch

LEMMA EpochWithLast ==
  ASSUME NEW r \in Epoch, NEW a \in Nat, NEW s \in Observations
  PROVE  /\ [r EXCEPT !.last = a, !.state = s] \in Epoch
         /\ [r EXCEPT !.last = a, !.state = s].start = r.start
         /\ [r EXCEPT !.last = a, !.state = s].end = r.end
  BY DEF Epoch

\* close_epoch ends the epoch now, and changes neither its start nor its signature.
LEMMA ClosedEndsNow ==
  ASSUME EpochInv, NEW e \in DOMAIN epochs
  PROVE  /\ Closed(e) \in Epoch
         /\ Closed(e).start = epochs[e].start
         /\ Closed(e).end = now /\ Closed(e).end # Null
  <1>1. now \in Nat /\ epochs[e] \in Epoch /\ epochs[e].start <= now
    BY HistoryAssumption DEF EpochInv, EpochTypes, EpochOrder, Instants
  <1>2. epochs[e].start \in Int /\ now \in Int
    BY <1>1 DEF Epoch
  <1>3. Max({epochs[e].start, now}) = now
    BY <1>1, <1>2, MaxOfTwo
  <1>. DEFINE Row == [epochs[e] EXCEPT !.end = now, !.last = Null, !.state = "none"]
  <1>4. Closed(e) = Row
    BY <1>3 DEF Closed
  <1>5. Row \in Epoch /\ Row.start = epochs[e].start /\ Row.end = now
    BY <1>1, EpochWithEnd
  <1>6. now # Null
    BY <1>1 DEF Null
  <1>. HIDE DEF Row
  <1>. QED
    BY <1>4, <1>5, <1>6

LEMMA InitiallyOrdered == Init => EpochInv
  <1>. SUFFICES ASSUME Init PROVE EpochInv
    OBVIOUS
  <1>1. DOMAIN epochs = {} /\ now = 0 /\ epochs = [e \in {} |-> epochs[e]]
    BY DEF Init
  <1>. QED
    BY <1>1, HistoryAssumption DEF EpochInv, EpochTypes, EpochOrder, Instants

\* A step that leaves the starts and ends of the epochs alone and sets no clock back.
LEMMA SameEpochsOrdered ==
  ASSUME EpochInv, EpochTypes', now <= now',
         DOMAIN epochs' \subseteq DOMAIN epochs,
         \A e \in DOMAIN epochs' :
           epochs'[e].start = epochs[e].start /\ epochs'[e].end = epochs[e].end
  PROVE  EpochInv'
  <1>1. now \in Nat /\ now' \in Nat
    BY HistoryAssumption DEF EpochInv, EpochTypes, Instants
  <1>2. \A e \in DOMAIN epochs' :
          /\ epochs'[e].start <= now'
          /\ epochs'[e].end # Null => epochs'[e].end <= now'
    <2>. SUFFICES ASSUME NEW e \in DOMAIN epochs'
                  PROVE  /\ epochs[e].start <= now'
                         /\ epochs[e].end # Null => epochs[e].end <= now'
      OBVIOUS
    <2>1. /\ epochs[e] \in Epoch /\ epochs[e].start <= now
          /\ epochs[e].end # Null => epochs[e].end <= now
      BY DEF EpochInv, EpochTypes, EpochOrder
    <2>. QED
      BY <1>1, <2>1 DEF Epoch, Null
  <1>3. \A e, f \in DOMAIN epochs' : e # f => Before(e, f)' \/ Before(f, e)'
    BY DEF EpochInv, EpochOrder, Before
  <1>. QED
    BY <1>2, <1>3 DEF EpochInv, EpochOrder

LEMMA SyncOrdered ==
  ASSUME EpochInv, NEW sig \in Signatures \cup {NoCheck}, SyncEpochs(sig)
  PROVE  EpochInv'
  <1>. DEFINE id == CHOOSE i \in 1 .. MaxEpochs : i \notin DOMAIN epochs
              New == [sig |-> sig, start |-> now, end |-> Null, last |-> Null,
                      state |-> "none"]
              D == DOMAIN epochs \cup (IF sig = NoCheck THEN {} ELSE {id})
  <1>1. /\ epochs' = [e \in D |-> IF e \notin DOMAIN epochs
                                    THEN New
                                    ELSE IF e \in Active THEN Closed(e) ELSE epochs[e]]
        /\ now' = now
        /\ sig # NoCheck => DOMAIN epochs # 1 .. MaxEpochs
    BY DEF SyncEpochs
  <1>2. sig # NoCheck => id \in 1 .. MaxEpochs /\ id \notin DOMAIN epochs
    BY <1>1 DEF EpochInv, EpochTypes
  <1>. HIDE DEF id
  <1>3. now \in Nat /\ now \in Instants /\ DOMAIN epochs \subseteq 1 .. MaxEpochs
    BY HistoryAssumption DEF EpochInv, EpochTypes, Instants
  <1>4. DOMAIN epochs' = D /\ D \subseteq 1 .. MaxEpochs
    BY <1>1, <1>2, <1>3
  <1>5. ASSUME NEW e \in D, e \notin DOMAIN epochs
        PROVE  /\ epochs'[e] \in Epoch /\ e = id
               /\ epochs'[e].start = now /\ epochs'[e].end = Null
    BY <1>1, <1>3, <1>5 DEF Epoch
  <1>6. ASSUME NEW e \in DOMAIN epochs
        PROVE  /\ epochs'[e] \in Epoch
               /\ epochs'[e].start = epochs[e].start /\ epochs[e].start <= now
               /\ epochs'[e].end # Null /\ epochs'[e].end <= now
               /\ epochs[e].end # Null => epochs'[e].end = epochs[e].end
    <2>1. /\ epochs[e] \in Epoch /\ epochs[e].start <= now
          /\ epochs[e].end # Null => epochs[e].end <= now
      BY DEF EpochInv, EpochTypes, EpochOrder
    <2>2. CASE e \in Active
      <3>1. epochs'[e] = Closed(e) /\ epochs[e].end = Null
        BY <1>1, <2>2 DEF Active
      <3>. QED
        BY <1>3, <2>1, <3>1, ClosedEndsNow
    <2>3. CASE e \notin Active
      <3>1. epochs'[e] = epochs[e] /\ epochs[e].end # Null
        BY <1>1, <2>3 DEF Active
      <3>. QED
        BY <2>1, <3>1
    <2>. QED
      BY <2>2, <2>3
  <1>7. EpochTypes'
    <2>1. epochs' = [e \in DOMAIN epochs' |-> epochs'[e]]
      BY <1>1
    <2>2. \A e \in DOMAIN epochs' : epochs'[e] \in Epoch
      BY <1>4, <1>5, <1>6
    <2>. QED
      BY <1>1, <1>3, <1>4, <2>1, <2>2 DEF EpochTypes, Instants
  <1>8. \A e \in DOMAIN epochs' :
          /\ epochs'[e].start <= now'
          /\ epochs'[e].end # Null => epochs'[e].end <= now'
    BY <1>1, <1>3, <1>4, <1>5, <1>6
  <1>9. ASSUME NEW e \in D, NEW f \in D, e # f
        PROVE  Before(e, f)' \/ Before(f, e)'
    <2>1. CASE e \notin DOMAIN epochs
      <3>1. f \in DOMAIN epochs
        BY <1>5, <1>9, <2>1
      <3>. QED
        BY <1>5, <1>6, <2>1, <3>1 DEF Before
    <2>2. CASE f \notin DOMAIN epochs
      <3>1. e \in DOMAIN epochs
        BY <1>5, <1>9, <2>2
      <3>. QED
        BY <1>5, <1>6, <2>2, <3>1 DEF Before
    <2>3. CASE e \in DOMAIN epochs /\ f \in DOMAIN epochs
      BY <1>6, <1>9, <2>3 DEF EpochInv, EpochOrder, Before
    <2>. QED
      BY <2>1, <2>2, <2>3
  <1>. QED
    BY <1>4, <1>7, <1>8, <1>9 DEF EpochInv, EpochOrder

LEMMA RecordOrdered ==
  ASSUME EpochInv, NEW at \in Instants, NEW state \in Observations, Record(at, state)
  PROVE  EpochInv'
  <1>1. PICK e \in Active :
          epochs' = [epochs EXCEPT ![e].last = at, ![e].state = state] /\ now' = now
    BY DEF Record
  <1>2. e \in DOMAIN epochs /\ epochs[e] \in Epoch
    BY DEF Active, EpochInv, EpochTypes
  <1>. DEFINE Row == [epochs[e] EXCEPT !.last = at, !.state = state]
  <1>3. /\ Row \in Epoch /\ Row.start = epochs[e].start /\ Row.end = epochs[e].end
    <2>1. at \in Nat
      BY HistoryAssumption DEF Instants
    <2>. QED
      BY <1>2, <2>1, EpochWithLast, ZenonT(40)
  <1>4. /\ DOMAIN epochs' = DOMAIN epochs
        /\ epochs' = [f \in DOMAIN epochs' |-> epochs'[f]]
        /\ \A f \in DOMAIN epochs : epochs'[f] = IF f = e THEN Row ELSE epochs[f]
    <2>1. epochs' = [epochs EXCEPT ![e] = Row]
      BY <1>1
    <2>. HIDE DEF Row
    <2>. QED
      BY <1>2, <2>1 DEF EpochInv, EpochTypes
  <1>. HIDE DEF Row
  <1>5. EpochTypes'
    BY <1>1, <1>3, <1>4 DEF EpochInv, EpochTypes, Instants
  <1>6. \A f \in DOMAIN epochs' :
          epochs'[f].start = epochs[f].start /\ epochs'[f].end = epochs[f].end
    BY <1>3, <1>4
  <1>7. now <= now'
    BY <1>1, HistoryAssumption DEF EpochInv, EpochTypes, Instants
  <1>. QED
    BY <1>4, <1>5, <1>6, <1>7, SameEpochsOrdered

LEMMA PruneOrdered ==
  ASSUME EpochInv, Prune
  PROVE  EpochInv'
  <1>1. PICK gone \in Batch(Unused(raw', buckets', events')) :
          epochs' = Restrict(epochs, DOMAIN epochs \ gone)
    BY DEF Prune
  <1>2. /\ DOMAIN epochs' = DOMAIN epochs \ gone
        /\ epochs' = [e \in DOMAIN epochs' |-> epochs'[e]]
        /\ \A e \in DOMAIN epochs' : epochs'[e] = epochs[e]
    BY <1>1 DEF Restrict
  <1>3. now' = now
    BY DEF Prune
  <1>4. EpochTypes'
    BY <1>2, <1>3 DEF EpochInv, EpochTypes, Instants
  <1>5. now <= now'
    BY <1>3, HistoryAssumption DEF EpochInv, EpochTypes, Instants
  <1>. QED
    BY <1>2, <1>4, <1>5, SameEpochsOrdered

LEMMA ClockOrdered ==
  ASSUME EpochInv, Tick \/ RollUp \/ UNCHANGED vars
  PROVE  EpochInv'
  <1>1. /\ epochs' = epochs /\ now' \in Instants /\ now <= now'
    BY HistoryAssumption DEF Tick, RollUp, vars, EpochInv, EpochTypes, Instants
  <1>2. EpochTypes'
    BY <1>1 DEF EpochInv, EpochTypes, Instants
  <1>. QED
    BY <1>1, <1>2, SameEpochsOrdered

\* The epochs of the check are in order: of any two one ended before the other began,
\* whatever is configured, recorded, rolled up and pruned (sync_epochs, close_epoch).
THEOREM EpochsInOrder == Spec => []EpochInv
  <1>1. Init => EpochInv
    BY InitiallyOrdered
  <1>2. EpochInv /\ [Next]_vars => EpochInv'
    <2>. SUFFICES ASSUME EpochInv, [Next]_vars PROVE EpochInv'
      OBVIOUS
    <2>. QED
      BY SyncOrdered, RecordOrdered, PruneOrdered, ClockOrdered DEF Next
  <1>. QED
    BY <1>1, <1>2, PTL DEF Spec

\* No instant belongs to two epochs of the check (the comment on eligible time in
\* query), as long as the clock is not set back.
THEOREM EpochsDisjointCorrect == Spec => []EpochsDisjoint
  <1>1. EpochInv => EpochsDisjoint
    <2>. SUFFICES ASSUME EpochInv, NEW t \in Instants,
                         NEW e \in DOMAIN epochs, NEW f \in DOMAIN epochs,
                         epochs[e].start <= t, epochs[e].end = Null \/ t < epochs[e].end,
                         epochs[f].start <= t, epochs[f].end = Null \/ t < epochs[f].end,
                         e # f
                  PROVE  FALSE
      BY DEF EpochsDisjoint
    <2>1. Before(e, f) \/ Before(f, e)
      BY DEF EpochInv, EpochOrder
    <2>2. epochs[e] \in Epoch /\ epochs[f] \in Epoch /\ t \in Int
      BY HistoryAssumption DEF EpochInv, EpochTypes, Instants
    <2>. QED
      BY <2>1, <2>2 DEF Before, Epoch, Null
  <1>. QED
    BY <1>1, EpochsInOrder, PTL

-----------------------------------------------------------------------------
(* Numbers.                                                                *)

LEMMA MinOfTwo ==
  ASSUME NEW a \in Int, NEW b \in Int
  PROVE  Min({a, b}) = IF a <= b THEN a ELSE b
  <1>1. \E x \in {a, b} : \A y \in {a, b} : x <= y
    <2>1. CASE a <= b
      BY <2>1
    <2>2. CASE b <= a
      BY <2>2
    <2>. QED
      BY <2>1, <2>2
  <1>2. Min({a, b}) \in {a, b} /\ \A y \in {a, b} : Min({a, b}) <= y
    BY <1>1 DEF Min
  <1>. HIDE DEF Min
  <1>. QED
    BY <1>2

LEMMA LeastNatural ==
  ASSUME NEW S, S \subseteq Nat, S # {}
  PROVE  \E x \in S : \A y \in S : x <= y
  <1>. DEFINE R == {ss \in Nat \X Nat : ss[1] < ss[2]}
  <1>1. IsWellFoundedOn(R, Nat)
    BY NatLessThanWellFounded DEF OpToRel
  <1>2. \A x, y \in Nat : <<y, x>> \in R <=> y < x
    OBVIOUS
  <1>. HIDE DEF R
  <1>3. PICK x \in S : \A y \in S : ~(<<y, x>> \in R)
    BY <1>1, WFMin, Zenon
  <1>4. ASSUME NEW y \in S PROVE x <= y
    <2>1. x \in Nat /\ y \in Nat /\ ~(y < x)
      BY <1>2, <1>3
    <2>. QED
      BY <2>1
  <1>. QED
    BY <1>4

LEMMA MinOfNaturals ==
  ASSUME NEW S, S \subseteq Nat, S # {}
  PROVE  Min(S) \in S /\ \A y \in S : Min(S) <= y
  BY LeastNatural DEF Min

\* Induction over a set of numbers.
LEMMA AllNaturals ==
  ASSUME NEW T, 0 \in T, \A n \in Nat : n \in T => n + 1 \in T
  PROVE  Nat \subseteq T
  <1>. DEFINE Rest == Nat \ T
  <1>. SUFFICES ASSUME Rest # {} PROVE FALSE
    OBVIOUS
  <1>1. PICK n \in Rest : \A m \in Rest : n <= m
    BY LeastNatural
  <1>2. n # 0 /\ n \in Nat
    OBVIOUS
  <1>3. n - 1 \in Nat /\ n - 1 \notin Rest
    BY <1>1, <1>2
  <1>. QED
    BY <1>2, <1>3

\* A finite set of numbers has a greatest one.
LEMMA GreatestOfFinite ==
  ASSUME NEW S, S \subseteq Nat, S # {}, IsFiniteSet(S)
  PROVE  \E x \in S : \A y \in S : x >= y
  <1>. DEFINE Bad == {U \in FiniteSubsetsOf(S) : U # {} /\ ~\E x \in U : \A y \in U : x >= y}
  <1>1. S \in FiniteSubsetsOf(S)
    BY DEF FiniteSubsetsOf
  <1>. SUFFICES ASSUME Bad # {} PROVE FALSE
    BY <1>1
  <1>2. Bad \subseteq FiniteSubsetsOf(S)
    OBVIOUS
  <1>3. PICK U \in Bad : \A V \in Bad : ~(<<V, U>> \in StrictSubsetOrdering(S))
    <2>. HIDE DEF Bad
    <2>. QED
      BY <1>2, FS_StrictSubsetOrderingWellFounded, WFMin, Zenon
  <1>4. U \subseteq S /\ IsFiniteSet(U) /\ U # {} /\ ~\E x \in U : \A y \in U : x >= y
    BY DEF FiniteSubsetsOf
  <1>5. PICK u \in U : TRUE
    BY <1>4
  <1>. DEFINE V == U \ {u}
  <1>6. V \in FiniteSubsetsOf(S) /\ V # {}
    <2>1. IsFiniteSet(V)
      BY <1>4, FS_Subset
    <2>2. V # {}
      BY <1>4, <1>5
    <2>. QED
      BY <1>4, <2>1, <2>2 DEF FiniteSubsetsOf
  <1>7. <<V, U>> \in StrictSubsetOrdering(S)
    BY <1>4, <1>5 DEF StrictSubsetOrdering
  <1>8. PICK x \in V : \A y \in V : x >= y
    BY <1>3, <1>6, <1>7
  <1>9. \E z \in {u, x} : \A y \in U : z >= y
    BY <1>4, <1>5, <1>8
  <1>. QED
    BY <1>4, <1>5, <1>8, <1>9

\* Floor(t, w) is the last multiple of w up to t.
LEMMA FloorOf ==
  ASSUME NEW t \in Int, NEW w \in Nat \ {0}
  PROVE  /\ Floor(t, w) \in Int
         /\ Floor(t, w) <= t /\ t < Floor(t, w) + w
         /\ Floor(t, w) % w = 0
  <1>. DEFINE q == t \div w
              m == t % w
  <1>1. q \in Int /\ m \in 0 .. w - 1
    OBVIOUS
  <1>2. t = w * q + m
    OBVIOUS
  <1>3. w * q \in Int
    BY <1>1
  <1>4. (w * q) % w = 0
    BY <1>1, <1>3
  <1>. HIDE DEF q, m
  <1>5. w * q <= t /\ t < w * q + w
    BY <1>1, <1>2, <1>3
  <1>. QED
    BY <1>3, <1>4, <1>5 DEF Floor, q

LEMMA CoarsestIsATier ==
  /\ Coarsest \in Tiers /\ \A r \in Tiers : Coarsest >= r
  <1>1. \E x \in Tiers : \A y \in Tiers : x >= y
    BY HistoryAssumption, GreatestOfFinite
  <1>. QED
    BY <1>1 DEF Coarsest, Max

-----------------------------------------------------------------------------
(* Spans and buckets of the epochs in D.                                   *)

Span(D) == [epoch : D, cursor : Nat, end : Nat, state : Observations]

SpansFit(s, D) ==
  s \in Seq(Span(D)) /\ \A i \in 1 .. Len(s) : s[i].cursor < s[i].end

\* A bucket of an epoch begins at a multiple of its width.
KeyFits(k, D) == k[1] \in D /\ k[2] \in Tiers /\ k[3] % k[2] = 0

BucketsFit(b, D) ==
  /\ IsFiniteSet(DOMAIN b)
  /\ \A k \in DOMAIN b : KeyFits(k, D) /\ b[k] \in Stats

Keys(e, t, R) == {<<e, r, Floor(t, r)>> : r \in R}

LEMMA KeysFinite ==
  ASSUME NEW R, IsFiniteSet(R), NEW e, NEW t
  PROVE  IsFiniteSet(Keys(e, t, R))
  <1>. DEFINE f == [r \in R |-> <<e, r, Floor(t, r)>>]
  <1>1. f \in [R -> Keys(e, t, R)] /\ \A k \in Keys(e, t, R) : \E r \in R : f[r] = k
    BY DEF Keys
  <1>2. f \in Surjection(R, Keys(e, t, R))
    BY <1>1 DEF Surjection
  <1>. HIDE DEF f
  <1>. QED
    BY <1>2, FS_Surjection

LEMMA DurationType ==
  ASSUME NEW state, NEW n \in Nat
  PROVE  Duration(state, n) \in Stats
  BY DEF Duration, Stats

LEMMA AddStatsFits ==
  ASSUME NEW D, NEW b, BucketsFit(b, D),
         NEW ks, IsFiniteSet(ks), \A k \in ks : KeyFits(k, D), NEW stats \in Stats
  PROVE  BucketsFit(AddStats(b, ks, stats), D)
  <1>. DEFINE Old(k) == IF k \in DOMAIN b THEN b[k] ELSE NoTime
  <1>1. NoTime \in Stats
    BY DEF NoTime, Stats
  <1>2. \A k \in DOMAIN b \cup ks : KeyFits(k, D) /\ Old(k) \in Stats
    BY <1>1 DEF BucketsFit
  <1>3. \A old \in Stats : [c \in Counted |-> old[c] + stats[c]] \in Stats
    BY DEF Stats
  <1>4. AddStats(b, ks, stats) =
          [k \in DOMAIN b \cup ks |->
             IF k \in ks THEN [c \in Counted |-> Old(k)[c] + stats[c]] ELSE Old(k)]
    BY DEF AddStats
  <1>5. IsFiniteSet(DOMAIN b \cup ks)
    BY FS_Union DEF BucketsFit
  <1>. HIDE DEF Old
  <1>. QED
    BY <1>2, <1>3, <1>4, <1>5 DEF BucketsFit

LEMMA MoreEpochs ==
  ASSUME NEW D, NEW E, D \subseteq E
  PROVE  /\ \A s : SpansFit(s, D) => SpansFit(s, E)
         /\ \A b : BucketsFit(b, D) => BucketsFit(b, E)
  <1>1. Span(D) \subseteq Span(E)
    BY DEF Span
  <1>2. ASSUME NEW s \in Seq(Span(D)) PROVE s \in Seq(Span(E))
    BY <1>1
  <1>. QED
    BY <1>2 DEF SpansFit, BucketsFit, KeyFits

LEMMA BoundaryType ==
  ASSUME NEW t \in Nat, NEW r \in Tiers
  PROVE  Boundary(t, r) \in Int
  <1>1. r \in Nat \ {0} /\ Retention[r] \in Nat
    BY HistoryAssumption
  <1>2. t - Retention[r] \in Int
    BY <1>1
  <1>. QED
    BY <1>1, <1>2, FloorOf DEF Boundary, Cutoff

\* A piece is not empty, and ends with its span at the latest.
LEMMA PieceEndOf ==
  ASSUME now \in Nat, NEW s \in Nat, NEW end \in Nat, s < end
  PROVE  /\ PieceEnd(s, end) \in Nat
         /\ s < PieceEnd(s, end) /\ PieceEnd(s, end) <= end
  <1>1. Smallest(s) \in Nat \ {0}
    <2>. DEFINE S == {r \in Tiers : s >= Boundary(now, r)} \cup {Coarsest}
    <2>1. S \subseteq Tiers /\ Tiers \subseteq Nat \ {0} /\ S # {}
      BY CoarsestIsATier, HistoryAssumption
    <2>2. Min(S) \in S
      BY <2>1, MinOfNaturals
    <2>. QED
      BY <2>1, <2>2 DEF Smallest
  <1>. DEFINE next == Floor(s, Smallest(s)) + Smallest(s)
              T == {end, next} \cup {b \in {Boundary(now, r) : r \in Tiers} : b > s}
  <1>2. next \in Int /\ next > s
    BY <1>1, FloorOf
  <1>3. \A t \in T : t \in Nat /\ t > s
    BY <1>2, BoundaryType
  <1>4. Min(T) \in T /\ Min(T) <= end
    BY <1>3, MinOfNaturals
  <1>5. PieceEnd(s, end) = Min(T)
    BY DEF PieceEnd
  <1>. HIDE DEF T
  <1>. QED
    BY <1>3, <1>4, <1>5

IsDb(db, D) ==
  /\ db = [spans |-> db.spans, buckets |-> db.buckets]
  /\ SpansFit(db.spans, D) /\ BucketsFit(db.buckets, D)

LEMMA PieceFits ==
  ASSUME now \in Nat, NEW D, NEW db, IsDb(db, D)
  PROVE  IsDb(RollUpPiece(db), D)
  <1>. DEFINE s == db.spans
              b == db.buckets
              span == Head(s)
              start == Max({span.cursor, Boundary(now, Coarsest)})
              until == PieceEnd(start, span.end)
              ks == {<<span.epoch, r, Floor(start, r)>> :
                       r \in {r \in Tiers : start >= Boundary(now, r)}}
              cut == [s EXCEPT ![1].cursor = until]
              added == AddStats(b, ks, Duration(span.state, until - start))
  <1>1. CASE s = << >>
    BY <1>1 DEF RollUpPiece
  <1>2. ASSUME s # << >>
        PROVE  /\ span \in Span(D) /\ span.cursor < span.end
               /\ start \in Nat /\ span.cursor <= start
               /\ SpansFit(Tail(s), D)
    <2>1. s \in Seq(Span(D)) /\ span \in Span(D) /\ span = s[1] /\ 1 \in 1 .. Len(s)
      BY <1>2 DEF IsDb, SpansFit
    <2>2. span.cursor \in Nat /\ Boundary(now, Coarsest) \in Int
      BY <2>1, BoundaryType, CoarsestIsATier DEF Span
    <2>3. start \in Nat /\ span.cursor <= start
      BY <2>2, MaxOfTwo
    <2>4. SpansFit(Tail(s), D)
      <3>1. /\ Tail(s) \in Seq(Span(D)) /\ Len(Tail(s)) = Len(s) - 1
            /\ \A i \in 1 .. Len(Tail(s)) : Tail(s)[i] = s[i + 1] /\ i + 1 \in 1 .. Len(s)
        BY <1>2, <2>1
      <3>. QED
        BY <3>1 DEF IsDb, SpansFit
    <2>. QED
      BY <2>1, <2>3, <2>4 DEF IsDb, SpansFit
  <1>3. CASE s # << >> /\ start >= span.end
    <2>1. RollUpPiece(db) = [db EXCEPT !.spans = Tail(@)]
      BY <1>3 DEF RollUpPiece
    <2>2. RollUpPiece(db) = [spans |-> Tail(s), buckets |-> b]
      BY <2>1 DEF IsDb
    <2>. QED
      BY <1>2, <1>3, <2>2 DEF IsDb
  <1>4. CASE s # << >> /\ ~(start >= span.end)
    <2>1. RollUpPiece(db) =
            [spans |-> IF until = span.end THEN Tail(s) ELSE cut, buckets |-> added]
      BY <1>4 DEF RollUpPiece
    <2>2. span.end \in Nat /\ span.cursor \in Nat /\ span.epoch \in D
      BY <1>2, <1>4 DEF Span
    <2>3. until \in Nat /\ start < until /\ until <= span.end
      <3>1. start \in Nat /\ start < span.end
        BY <1>2, <1>4, <2>2
      <3>. HIDE DEF start, span
      <3>. QED
        BY <2>2, <3>1, PieceEndOf
    <2>4. SpansFit(Tail(s), D)
      BY <1>2, <1>4
    <2>5. ASSUME until # span.end
          PROVE  SpansFit(cut, D)
      <3>1. s \in Seq(Span(D)) /\ span = s[1] /\ 1 \in 1 .. Len(s)
        BY <1>4 DEF IsDb, SpansFit
      <3>. DEFINE first == [span EXCEPT !.cursor = until]
      <3>2. first \in Span(D) /\ first.cursor = until /\ first.end = span.end
        BY <1>2, <1>4, <2>3 DEF Span
      <3>. HIDE DEF span, first
      <3>3. cut = [s EXCEPT ![1] = first]
        BY <3>1 DEF first
      <3>. HIDE DEF cut, until
      <3>4. /\ cut \in Seq(Span(D)) /\ Len(cut) = Len(s)
            /\ \A i \in 1 .. Len(s) : cut[i] = IF i = 1 THEN first ELSE s[i]
        BY <3>1, <3>2, <3>3
      <3>. QED
        BY <2>2, <2>3, <2>5, <3>2, <3>4 DEF IsDb, SpansFit
    <2>6. BucketsFit(added, D)
      <3>1. \A k \in ks : KeyFits(k, D)
        <4>1. start \in Nat
          BY <1>2, <1>4
        <4>. HIDE DEF start, span
        <4>2. \A r \in Tiers : KeyFits(<<span.epoch, r, Floor(start, r)>>, D)
          BY <2>2, <4>1, FloorOf, HistoryAssumption DEF KeyFits
        <4>. QED
          BY <4>2
      <3>2. Duration(span.state, until - start) \in Stats
        BY <1>2, <1>4, <2>3, DurationType
      <3>3. IsFiniteSet(ks)
        <4>1. IsFiniteSet({r \in Tiers : start >= Boundary(now, r)})
          BY HistoryAssumption, FS_Subset
        <4>2. ks = Keys(span.epoch, start, {r \in Tiers : start >= Boundary(now, r)})
          BY DEF Keys
        <4>. HIDE DEF start, span, ks
        <4>. QED
          BY <4>1, <4>2, KeysFinite
      <3>. QED
        BY <3>1, <3>2, <3>3, AddStatsFits DEF IsDb
    <2>. QED
      BY <2>1, <2>4, <2>5, <2>6 DEF IsDb
  <1>. QED
    BY <1>1, <1>3, <1>4

-----------------------------------------------------------------------------
(* Rows and their epochs.                                                  *)

RowInv ==
  /\ SpansFit(spans, DOMAIN epochs)
  /\ BucketsFit(buckets, DOMAIN epochs)
  /\ raw \subseteq (DOMAIN epochs) \X Instants /\ IsFiniteSet(raw)
  /\ timeline \in [Instants -> Counted \cup {"unknown", "none"}]
  /\ \A e \in DOMAIN epochs : epochs[e].last # Null => epochs[e].state \in Observations

\* Of the recursion in rollup: its first n turns.
Turns(f, n) ==
  f = [m \in 0 .. n |-> IF m = 0 THEN [spans |-> spans, buckets |-> buckets]
                                 ELSE RollUpPiece(f[m - 1])]

LEMMA TurnsExist == \A n \in Nat : \E f : Turns(f, n)
  <1>. DEFINE T == {n \in Nat : \E f : Turns(f, n)}
              Db == [spans |-> spans, buckets |-> buckets]
  <1>1. 0 \in T
    <2>1. Turns([m \in 0 .. 0 |-> Db], 0)
      BY DEF Turns
    <2>. QED
      BY <2>1
  <1>2. ASSUME NEW n \in Nat, n \in T
        PROVE  n + 1 \in T
    <2>1. PICK f : Turns(f, n)
      BY <1>2
    <2>. DEFINE g == [m \in 0 .. n + 1 |-> IF m <= n THEN f[m] ELSE RollUpPiece(f[n])]
    <2>2. ASSUME NEW m \in 0 .. n + 1
          PROVE  g[m] = IF m = 0 THEN Db ELSE RollUpPiece(g[m - 1])
      <3>1. \A i \in 0 .. n : f[i] = IF i = 0 THEN Db ELSE RollUpPiece(f[i - 1])
        BY <2>1 DEF Turns
      <3>2. CASE m = 0
        BY <3>1, <3>2
      <3>3. CASE m # 0
        BY <3>1, <3>3
      <3>. QED
        BY <3>2, <3>3
    <2>3. Turns(g, n + 1)
      BY <2>2 DEF Turns
    <2>. QED
      BY <2>3
  <1>. QED
    BY <1>1, <1>2, AllNaturals

\* A roll-up makes spans shorter and fills buckets, of the epochs they had before.
LEMMA RollUpFits ==
  ASSUME now \in Nat, NEW D, SpansFit(spans, D), BucketsFit(buckets, D), RollUp
  PROVE  SpansFit(spans', D) /\ BucketsFit(buckets', D)
  <1>1. BatchSize \in Nat
    BY HistoryAssumption
  <1>. DEFINE after == CHOOSE after : Turns(after, BatchSize)
  <1>2. spans' = after[BatchSize].spans /\ buckets' = after[BatchSize].buckets
    BY DEF RollUp, Turns
  <1>3. Turns(after, BatchSize)
    BY <1>1, TurnsExist
  <1>. HIDE DEF after
  <1>. DEFINE T == {m \in Nat : m <= BatchSize => IsDb(after[m], D)}
  <1>4. 0 \in T
    <2>1. after[0] = [spans |-> spans, buckets |-> buckets]
      BY <1>1, <1>3 DEF Turns
    <2>. QED
      BY <2>1 DEF IsDb
  <1>5. ASSUME NEW m \in Nat, m \in T
        PROVE  m + 1 \in T
    <2>. SUFFICES ASSUME m + 1 <= BatchSize PROVE IsDb(after[m + 1], D)
      OBVIOUS
    <2>1. IsDb(after[m], D)
      BY <1>1, <1>5
    <2>2. after[m + 1] = RollUpPiece(after[m])
      BY <1>1, <1>3 DEF Turns
    <2>. QED
      BY <2>1, <2>2, PieceFits
  <1>6. BatchSize \in T
    BY <1>1, <1>4, <1>5, AllNaturals
  <1>. QED
    BY <1>1, <1>2, <1>6 DEF IsDb

LEMMA FlushFits ==
  ASSUME EpochInv, RowInv, NEW e \in DOMAIN epochs, NEW t \in Nat
  PROVE  SpansFit(FlushTail(e, t), DOMAIN epochs)
  <1>. DEFINE last == epochs[e].last
              end == TailEnd(e, t)
              row == [epoch |-> e, cursor |-> last, end |-> end, state |-> epochs[e].state]
  <1>1. CASE ~(last # Null /\ end > last)
    BY <1>1 DEF FlushTail, RowInv
  <1>2. CASE last # Null /\ end > last
    <2>1. last \in Nat /\ epochs[e].state \in Observations
      BY <1>2 DEF EpochInv, EpochTypes, Epoch, RowInv
    <2>2. Freshness[epochs[e].sig] \in Nat
      BY HistoryAssumption DEF EpochInv, EpochTypes, Epoch
    <2>3. end \in Nat
      BY <2>1, <2>2, MinOfTwo DEF TailEnd
    <2>4. FlushTail(e, t) = Append(spans, row)
      BY <1>2 DEF FlushTail
    <2>. HIDE DEF last, end
    <2>5. row \in Span(DOMAIN epochs) /\ row.cursor < row.end
      BY <1>2, <2>1, <2>3 DEF Span, last
    <2>. HIDE DEF row
    <2>6. spans \in Seq(Span(DOMAIN epochs))
          /\ \A i \in 1 .. Len(spans) : spans[i].cursor < spans[i].end
      BY DEF RowInv, SpansFit
    <2>7. /\ Append(spans, row) \in Seq(Span(DOMAIN epochs))
          /\ Len(Append(spans, row)) = Len(spans) + 1
          /\ \A i \in 1 .. Len(spans) + 1 :
               Append(spans, row)[i] = IF i = Len(spans) + 1 THEN row ELSE spans[i]
      BY <2>5, <2>6
    <2>8. ASSUME NEW i \in 1 .. Len(spans) + 1
          PROVE  Append(spans, row)[i].cursor < Append(spans, row)[i].end
      <3>1. CASE i = Len(spans) + 1
        BY <2>5, <2>7, <3>1
      <3>2. CASE i # Len(spans) + 1
        <4>1. i \in 1 .. Len(spans)
          BY <2>6, <3>2
        <4>. QED
          BY <2>6, <2>7, <3>2, <4>1
      <3>. QED
        BY <3>1, <3>2
    <2>. QED
      BY <2>4, <2>7, <2>8 DEF SpansFit
  <1>. QED
    BY <1>1, <1>2

LEMMA PairOf ==
  ASSUME NEW D, NEW E, NEW S, NEW r \in D \X S, r[1] \in E
  PROVE  r \in E \X S
  OBVIOUS

LEMMA SpanOf ==
  ASSUME NEW D, NEW E, NEW r \in Span(D), r.epoch \in E
  PROVE  r \in Span(E)
  BY DEF Span

LEMMA InitiallyFit == Init => RowInv
  <1>. SUFFICES ASSUME Init PROVE RowInv
    OBVIOUS
  <1>1. spans = << >> /\ DOMAIN buckets = {} /\ raw = {} /\ DOMAIN epochs = {}
    BY DEF Init
  <1>2. SpansFit(spans, DOMAIN epochs)
    BY <1>1 DEF SpansFit
  <1>. QED
    BY <1>1, <1>2, FS_EmptySet DEF Init, RowInv, BucketsFit

LEMMA UnobservedType ==
  ASSUME RowInv, NEW t
  PROVE  Unobserved(t) \in [Instants -> Counted \cup {"unknown", "none"}]
  BY DEF RowInv, Unobserved

\* What a change of the configuration leaves of the epochs.
LEMMA SyncedEpochs ==
  ASSUME EpochInv, NEW sig \in Signatures \cup {NoCheck}, SyncEpochs(sig)
  PROVE  /\ DOMAIN epochs \subseteq DOMAIN epochs'
         /\ \A e \in DOMAIN epochs :
              \/ e \in Active /\ epochs'[e].end # Null /\ epochs'[e].last = Null
              \/ e \notin Active /\ epochs'[e] = epochs[e]
         /\ \A e \in DOMAIN epochs' \ DOMAIN epochs : epochs'[e].last = Null
  <1>. DEFINE id == CHOOSE i \in 1 .. MaxEpochs : i \notin DOMAIN epochs
              New == [sig |-> sig, start |-> now, end |-> Null, last |-> Null,
                      state |-> "none"]
              D == DOMAIN epochs \cup (IF sig = NoCheck THEN {} ELSE {id})
  <1>1. epochs' = [e \in D |-> IF e \notin DOMAIN epochs
                                 THEN New
                                 ELSE IF e \in Active THEN Closed(e) ELSE epochs[e]]
    BY DEF SyncEpochs
  <1>. HIDE DEF id
  <1>2. ASSUME NEW e \in DOMAIN epochs
        PROVE  Closed(e).end # Null /\ Closed(e).last = Null
    <2>1. Closed(e).end # Null
      BY ClosedEndsNow
    <2>2. epochs[e] \in Epoch
      BY DEF EpochInv, EpochTypes
    <2>. DEFINE end == Max({epochs[e].start, now})
    <2>3. Closed(e) = [epochs[e] EXCEPT !.end = end, !.last = Null, !.state = "none"]
      BY DEF Closed
    <2>. HIDE DEF end
    <2>4. Closed(e).last = Null
      BY <2>2, <2>3 DEF Epoch
    <2>. QED
      BY <2>1, <2>4
  <1>. QED
    BY <1>1, <1>2

LEMMA SyncFits ==
  ASSUME EpochInv, RowInv, NEW sig \in Signatures \cup {NoCheck}, SyncEpochs(sig)
  PROVE  RowInv'
  <1>1. now \in Nat
    BY HistoryAssumption DEF EpochInv, EpochTypes, Instants
  <1>2. /\ DOMAIN epochs \subseteq DOMAIN epochs'
        /\ \A e \in DOMAIN epochs' : epochs'[e].last # Null => epochs'[e].state \in Observations
    BY SyncedEpochs DEF RowInv
  <1>3. SpansFit(spans', DOMAIN epochs)
    <2>1. spans' = IF Active = {} THEN spans ELSE FlushTail(CHOOSE e \in Active : TRUE, now)
      BY DEF SyncEpochs
    <2>2. CASE Active = {}
      BY <2>1, <2>2 DEF RowInv
    <2>3. CASE Active # {}
      <3>1. PICK e \in Active : spans' = FlushTail(e, now)
        BY <2>1, <2>3
      <3>. QED
        BY <1>1, <3>1, FlushFits DEF Active
    <2>. QED
      BY <2>2, <2>3
  <1>4. SpansFit(spans', DOMAIN epochs') /\ BucketsFit(buckets', DOMAIN epochs')
    <2>1. BucketsFit(buckets, DOMAIN epochs) /\ buckets' = buckets
      BY DEF RowInv, SyncEpochs
    <2>. QED
      BY <1>2, <1>3, <2>1, MoreEpochs
  <1>5. raw' \subseteq (DOMAIN epochs') \X Instants /\ IsFiniteSet(raw')
    <2>1. raw' = raw
      BY DEF SyncEpochs
    <2>2. raw \subseteq (DOMAIN epochs) \X Instants /\ IsFiniteSet(raw)
      BY DEF RowInv
    <2>3. \A r \in (DOMAIN epochs) \X Instants : r[1] \in DOMAIN epochs'
      BY <1>2
    <2>4. \A r \in (DOMAIN epochs) \X Instants : r \in (DOMAIN epochs') \X Instants
      BY <2>3, PairOf
    <2>. QED
      BY <2>1, <2>2, <2>4
  <1>6. timeline' \in [Instants -> Counted \cup {"unknown", "none"}]
    BY UnobservedType DEF SyncEpochs
  <1>. QED
    BY <1>2, <1>4, <1>5, <1>6 DEF RowInv

LEMMA RecordFits ==
  ASSUME EpochInv, RowInv, NEW at \in Instants, NEW state \in Observations, Record(at, state)
  PROVE  RowInv'
  <1>1. PICK e \in Active :
          /\ raw' = raw \cup {<<e, at>>}
          /\ spans' = FlushTail(e, at)
          /\ buckets' = AddStats(buckets, {<<e, r, Floor(at, r)>> : r \in Tiers}, NoTime)
          /\ epochs' = [epochs EXCEPT ![e].last = at, ![e].state = state]
          /\ timeline' = [u \in Instants |->
                            IF at <= u /\ u < at + Freshness[epochs[e].sig]
                              THEN state ELSE Unobserved(at)[u]]
    BY DEF Record
  <1>2. e \in DOMAIN epochs /\ epochs[e] \in Epoch /\ at \in Nat
    BY HistoryAssumption DEF Active, EpochInv, EpochTypes, Instants
  <1>3. /\ DOMAIN epochs' = DOMAIN epochs
        /\ \A f \in DOMAIN epochs : f # e => epochs'[f] = epochs[f]
        /\ epochs'[e].state = state
    BY <1>1, <1>2 DEF Epoch
  <1>4. SpansFit(spans', DOMAIN epochs)
    BY <1>1, <1>2, FlushFits
  <1>5. BucketsFit(buckets', DOMAIN epochs)
    <2>. DEFINE ks == {<<e, r, Floor(at, r)>> : r \in Tiers}
    <2>1. \A k \in ks : KeyFits(k, DOMAIN epochs)
      <3>1. \A r \in Tiers : KeyFits(<<e, r, Floor(at, r)>>, DOMAIN epochs)
        BY <1>2, FloorOf, HistoryAssumption DEF KeyFits
      <3>. QED
        BY <3>1
    <2>2. NoTime \in Stats
      BY DEF NoTime, Stats
    <2>3. IsFiniteSet(ks)
      <3>1. ks = Keys(e, at, Tiers)
        BY DEF Keys
      <3>. HIDE DEF ks
      <3>. QED
        BY <3>1, HistoryAssumption, KeysFinite
    <2>. HIDE DEF ks
    <2>4. BucketsFit(AddStats(buckets, ks, NoTime), DOMAIN epochs)
      BY <2>1, <2>2, <2>3, AddStatsFits DEF RowInv
    <2>. QED
      BY <1>1, <2>4 DEF ks
  <1>6. timeline' \in [Instants -> Counted \cup {"unknown", "none"}]
    <2>1. state \in Counted \cup {"unknown", "none"}
      BY HistoryAssumption
    <2>. QED
      BY <1>1, <2>1, UnobservedType
  <1>7. raw' \subseteq (DOMAIN epochs) \X Instants /\ IsFiniteSet(raw')
    <2>1. raw \subseteq (DOMAIN epochs) \X Instants /\ <<e, at>> \in (DOMAIN epochs) \X Instants
      BY <1>2 DEF RowInv
    <2>2. IsFiniteSet(raw')
      BY <1>1, FS_AddElement DEF RowInv
    <2>. QED
      BY <1>1, <2>1, <2>2
  <1>8. \A f \in DOMAIN epochs' : epochs'[f].last # Null => epochs'[f].state \in Observations
    BY <1>3 DEF RowInv
  <1>. QED
    BY <1>3, <1>4, <1>5, <1>6, <1>7, <1>8 DEF RowInv

LEMMA RollUpKeepsFit ==
  ASSUME EpochInv, RowInv, RollUp
  PROVE  RowInv'
  <1>1. now \in Nat
    BY HistoryAssumption DEF EpochInv, EpochTypes, Instants
  <1>2. SpansFit(spans', DOMAIN epochs) /\ BucketsFit(buckets', DOMAIN epochs)
    BY <1>1, RollUpFits DEF RowInv
  <1>. QED
    BY <1>2 DEF RowInv, RollUp, Instants

\* Epochs go only when no row refers to them.
LEMMA PruneFits ==
  ASSUME EpochInv, RowInv, Prune
  PROVE  RowInv'
  <1>1. PICK gone \in Batch(Unused(raw', buckets', events')) :
          epochs' = Restrict(epochs, DOMAIN epochs \ gone)
    BY DEF Prune
  <1>2. gone \subseteq Unused(raw', buckets', events')
    BY DEF Batch, kSubset
  <1>3. /\ DOMAIN epochs' = DOMAIN epochs \ gone
        /\ \A e \in DOMAIN epochs' : epochs'[e] = epochs[e]
    BY <1>1 DEF Restrict
  <1>4. spans' = spans /\ timeline' = timeline
    BY DEF Prune
  <1>5. SpansFit(spans', DOMAIN epochs')
    <2>1. /\ spans \in Seq(Span(DOMAIN epochs))
          /\ \A i \in 1 .. Len(spans) : spans[i].cursor < spans[i].end
      BY DEF RowInv, SpansFit
    <2>2. \A i \in 1 .. Len(spans) : spans[i].epoch \notin gone
      BY <1>2 DEF Unused
    <2>3. \A i \in 1 .. Len(spans) : spans[i] \in Span(DOMAIN epochs')
      <3>. SUFFICES ASSUME NEW i \in 1 .. Len(spans)
                    PROVE  spans[i] \in Span(DOMAIN epochs')
        OBVIOUS
      <3>1. spans[i] \in Span(DOMAIN epochs)
        BY <2>1
      <3>2. spans[i].epoch \in DOMAIN epochs /\ spans[i].epoch \notin gone
        BY <2>2, <3>1 DEF Span
      <3>. QED
        BY <1>3, <3>1, <3>2, SpanOf
    <2>4. spans \in Seq(Span(DOMAIN epochs'))
      BY <2>1, <2>3
    <2>. QED
      BY <1>4, <2>1, <2>4 DEF SpansFit
  <1>6. BucketsFit(buckets', DOMAIN epochs')
    <2>1. PICK removed : buckets' = Restrict(buckets, DOMAIN buckets \ removed)
      BY DEF Prune
    <2>2. /\ DOMAIN buckets' = DOMAIN buckets \ removed
          /\ \A k \in DOMAIN buckets' : buckets'[k] = buckets[k]
      BY <2>1 DEF Restrict
    <2>3. \A k \in DOMAIN buckets' : k[1] \notin gone
      BY <1>2 DEF Unused
    <2>4. IsFiniteSet(DOMAIN buckets')
      BY <2>2, FS_Subset DEF RowInv, BucketsFit
    <2>. QED
      BY <1>3, <2>2, <2>3, <2>4 DEF RowInv, BucketsFit, KeyFits
  <1>7. raw' \subseteq (DOMAIN epochs') \X Instants /\ IsFiniteSet(raw')
    <2>1. raw' \subseteq raw /\ IsFiniteSet(raw')
      <3>1. raw' \subseteq raw
        BY DEF Prune
      <3>. QED
        BY <3>1, FS_Subset DEF RowInv
    <2>2. \A r \in raw' : r[1] \notin gone
      BY <1>2 DEF Unused
    <2>3. raw \subseteq (DOMAIN epochs) \X Instants
      BY DEF RowInv
    <2>. SUFFICES ASSUME NEW r \in raw' PROVE r \in (DOMAIN epochs') \X Instants
      BY <2>1
    <2>4. r \in (DOMAIN epochs) \X Instants
      BY <2>1, <2>3
    <2>5. r[1] \in DOMAIN epochs'
      BY <1>3, <2>2, <2>4
    <2>. QED
      BY <2>4, <2>5, PairOf
  <1>. QED
    BY <1>3, <1>4, <1>5, <1>6, <1>7 DEF RowInv

LEMMA ClockFits ==
  ASSUME RowInv, Tick \/ UNCHANGED vars
  PROVE  RowInv'
  BY DEF RowInv, Tick, vars, Instants

-----------------------------------------------------------------------------
(* Events.                                                                 *)

Event == [epoch : 1 .. MaxEpochs, at : Nat, previous : Observations \cup {"none"},
          state : Observations]

Later(v) == {w \in events : w.epoch = v.epoch /\ w.at > v.at}

\* EventsChain, for an event.
Chained(v) ==
  IF Later(v) = {}
    THEN epochs[v.epoch].end = Null => epochs[v.epoch].state = v.state
    ELSE \E w \in Later(v) : (\A x \in Later(v) : w.at <= x.at) /\ w.previous = v.state

\* No event of an active epoch is newer than its last observation.
EventInv ==
  /\ events \subseteq Event /\ IsFiniteSet(events)
  /\ \A v \in events :
       /\ v.epoch \in DOMAIN epochs
       /\ epochs[v.epoch].end = Null => v.at <= epochs[v.epoch].last
  /\ \A v \in events \ ExpiredEvents : Chained(v)

\* A step that keeps the events that are not expired, and what they lead to.
LEMMA ChainsKept ==
  ASSUME EventInv, now \in Nat, now' \in Nat, now <= now', events' \subseteq events,
         events \ events' \subseteq ExpiredEvents,
         \A v \in events' :
           /\ v.epoch \in DOMAIN epochs'
           /\ epochs'[v.epoch].end = Null =>
                /\ epochs[v.epoch].end = Null
                /\ epochs'[v.epoch].last = epochs[v.epoch].last
                /\ epochs'[v.epoch].state = epochs[v.epoch].state
  PROVE  EventInv'
  <1>1. EventRetention \in Nat
    BY HistoryAssumption
  <1>2. \A v \in events : v.at \in Nat
    BY DEF EventInv, Event
  <1>3. events' \ ExpiredEvents' \subseteq events \ ExpiredEvents
    BY <1>1, <1>2 DEF ExpiredEvents, Cutoff
  <1>4. ASSUME NEW v \in events' \ ExpiredEvents'
        PROVE  Chained(v)'
    <2>1. v \in events' /\ v \in events \ ExpiredEvents /\ Chained(v)
      BY <1>3 DEF EventInv
    <2>2. Later(v)' = Later(v)
      <3>1. Later(v)' \subseteq Later(v)
        BY DEF Later
      <3>2. ASSUME NEW w \in Later(v) PROVE w \in Later(v)'
        <4>1. w \in events /\ w.at > v.at /\ v \in events /\ ~(v.at < Cutoff(now, EventRetention))
          BY <2>1 DEF Later, ExpiredEvents
        <4>2. ~(w.at < Cutoff(now, EventRetention))
          BY <1>1, <1>2, <4>1 DEF Cutoff
        <4>. QED
          BY <4>1, <4>2 DEF ExpiredEvents, Later
      <3>. QED
        BY <3>1, <3>2
    <2>. QED
      BY <2>1, <2>2 DEF Chained
  <1>5. \A v \in events' : epochs'[v.epoch].end = Null => v.at <= epochs'[v.epoch].last
    BY DEF EventInv
  <1>6. IsFiniteSet(events')
    BY FS_Subset DEF EventInv
  <1>. QED
    BY <1>4, <1>5, <1>6 DEF EventInv, Event

LEMMA InitiallyChained == Init => EventInv
  BY FS_EmptySet DEF Init, EventInv

LEMMA SyncChained ==
  ASSUME EpochInv, EventInv, NEW sig \in Signatures \cup {NoCheck}, SyncEpochs(sig)
  PROVE  EventInv'
  <1>1. now \in Nat /\ now' = now /\ events' = events
    BY HistoryAssumption DEF EpochInv, EpochTypes, Instants, SyncEpochs
  <1>2. ASSUME NEW v \in events
        PROVE  /\ v.epoch \in DOMAIN epochs'
               /\ epochs'[v.epoch].end = Null => epochs'[v.epoch] = epochs[v.epoch]
    BY SyncedEpochs DEF EventInv
  <1>. QED
    BY <1>1, <1>2, ChainsKept

LEMMA PruneChained ==
  ASSUME EpochInv, EventInv, Prune
  PROVE  EventInv'
  <1>1. PICK gone \in Batch(Unused(raw', buckets', events')) :
          epochs' = Restrict(epochs, DOMAIN epochs \ gone)
    BY DEF Prune
  <1>2. gone \subseteq Unused(raw', buckets', events')
    BY DEF Batch, kSubset
  <1>3. /\ DOMAIN epochs' = DOMAIN epochs \ gone
        /\ \A e \in DOMAIN epochs' : epochs'[e] = epochs[e]
    BY <1>1 DEF Restrict
  <1>4. events' \subseteq events /\ events \ events' \subseteq ExpiredEvents
    BY DEF Prune, Batch, kSubset
  <1>5. ASSUME NEW v \in events'
        PROVE  v.epoch \in DOMAIN epochs' /\ epochs'[v.epoch] = epochs[v.epoch]
    BY <1>2, <1>3, <1>4 DEF Unused, EventInv
  <1>6. now \in Nat /\ now' = now
    BY HistoryAssumption DEF EpochInv, EpochTypes, Instants, Prune
  <1>. QED
    BY <1>4, <1>5, <1>6, ChainsKept

LEMMA ClockChained ==
  ASSUME EpochInv, EventInv, Tick \/ RollUp \/ UNCHANGED vars
  PROVE  EventInv'
  <1>1. epochs' = epochs /\ events' = events
    BY DEF Tick, RollUp, vars
  <1>2. now \in Nat /\ now' \in Nat /\ now <= now'
    BY HistoryAssumption DEF Tick, RollUp, vars, EpochInv, EpochTypes, Instants
  <1>3. \A v \in events : v.epoch \in DOMAIN epochs
    BY DEF EventInv
  <1>. QED
    BY <1>1, <1>2, <1>3, ChainsKept

\* The new event begins where the last one of its epoch led to.
LEMMA RecordChained ==
  ASSUME EpochInv, EventInv, NEW at \in Instants, NEW state \in Observations, Record(at, state)
  PROVE  EventInv'
  <1>1. PICK e \in Active :
          /\ Accepted(e, at)
          /\ events' = IF epochs[e].state = state
                         THEN events
                         ELSE events \cup {[epoch |-> e, at |-> at,
                                            previous |-> epochs[e].state, state |-> state]}
          /\ epochs' = [epochs EXCEPT ![e].last = at, ![e].state = state]
    BY DEF Record
  <1>2. /\ e \in DOMAIN epochs /\ e \in 1 .. MaxEpochs /\ epochs[e] \in Epoch
        /\ epochs[e].end = Null
        /\ at \in Nat /\ now \in Nat /\ now' = now /\ EventRetention \in Nat
    BY HistoryAssumption DEF Active, EpochInv, EpochTypes, Instants, Record
  <1>3. /\ DOMAIN epochs' = DOMAIN epochs
        /\ \A f \in DOMAIN epochs : f # e => epochs'[f] = epochs[f]
        /\ epochs'[e].state = state /\ epochs'[e].last = at /\ epochs'[e].end = Null
    BY <1>1, <1>2 DEF Epoch
  <1>4. \A v \in events : v \in Event /\ v.epoch \in DOMAIN epochs
    BY DEF EventInv
  <1>5. \A v \in events : v.epoch = e => v.at < at
    <2>1. \A v \in events : v.epoch = e => v.at \in Nat /\ v.at <= epochs[e].last
      BY <1>2 DEF EventInv, Event
    <2>2. epochs[e].last \in Int /\ at > epochs[e].last
      BY <1>1, <1>2 DEF Accepted, Epoch, Null
    <2>. QED
      BY <1>2, <2>1, <2>2
  <1>. DEFINE new == [epoch |-> e, at |-> at, previous |-> epochs[e].state, state |-> state]
  <1>6. new \in Event /\ new.epoch = e /\ new.at = at /\ new.state = state
        /\ new.previous = epochs[e].state
    BY <1>2 DEF Event, Epoch
  <1>. HIDE DEF new
  <1>7. \/ events' = events /\ epochs[e].state = state
        \/ events' = events \cup {new}
    BY <1>1 DEF new
  <1>8. events' \subseteq Event /\ IsFiniteSet(events')
    <2>1. IsFiniteSet(events) /\ IsFiniteSet(events \cup {new})
      BY FS_AddElement DEF EventInv
    <2>. QED
      BY <1>4, <1>6, <1>7, <2>1
  <1>9. ASSUME NEW v \in events'
        PROVE  /\ v.epoch \in DOMAIN epochs'
               /\ epochs'[v.epoch].end = Null => v.at <= epochs'[v.epoch].last
    <2>1. CASE v \in events
      <3>1. CASE v.epoch = e
        BY <1>2, <1>3, <1>4, <1>5, <2>1, <3>1 DEF Event
      <3>2. CASE v.epoch # e
        BY <1>3, <1>4, <2>1, <3>2 DEF EventInv
      <3>. QED
        BY <3>1, <3>2
    <2>2. CASE v = new
      BY <1>2, <1>3, <1>6, <2>2
    <2>. QED
      BY <1>7, <2>1, <2>2
  <1>10. ASSUME NEW v \in events' \ ExpiredEvents'
         PROVE  Chained(v)'
    <2>1. CASE v \in events /\ v.epoch # e
      <3>1. v \in events \ ExpiredEvents
        BY <1>2, <2>1 DEF ExpiredEvents, Cutoff
      <3>2. Later(v)' = Later(v)
        BY <1>6, <1>7, <2>1 DEF Later
      <3>3. epochs'[v.epoch] = epochs[v.epoch]
        BY <1>3, <1>4, <2>1
      <3>. QED
        BY <3>1, <3>2, <3>3 DEF EventInv, Chained
    <2>2. CASE v \in events /\ v.epoch = e
      <3>1. v \in events \ ExpiredEvents
        BY <1>2, <2>2 DEF ExpiredEvents, Cutoff
      <3>2. Chained(v)
        BY <3>1 DEF EventInv
      <3>3. Later(v)' = Later(v) \cup (events' \ events)
        BY <1>5, <1>6, <1>7, <2>2 DEF Later
      <3>4. CASE Later(v) = {}
        <4>1. epochs[e].state = v.state
          BY <1>2, <2>2, <3>2, <3>4 DEF Chained
        <4>2. CASE events' = events
          <5>1. epochs[e].state = state
            <6>1. new \notin events
              BY <1>2, <1>5, <1>6
            <6>. QED
              BY <1>7, <4>2, <6>1
          <5>. QED
            BY <1>3, <2>2, <3>3, <3>4, <4>1, <4>2, <5>1 DEF Chained
        <4>3. CASE events' # events
          <5>1. Later(v)' = {new}
            BY <1>5, <1>6, <1>7, <3>3, <3>4, <4>3
          <5>. QED
            BY <1>2, <1>6, <4>1, <5>1 DEF Chained
        <4>. QED
          BY <4>2, <4>3
      <3>5. CASE Later(v) # {}
        <4>1. PICK w \in Later(v) : (\A x \in Later(v) : w.at <= x.at) /\ w.previous = v.state
          BY <3>2, <3>5 DEF Chained
        <4>2. w.at <= at
          <5>1. w \in events /\ w.epoch = e
            BY <2>2 DEF Later
          <5>. QED
            BY <1>2, <1>4, <1>5, <5>1 DEF Event
        <4>3. \A x \in Later(v)' : w.at <= x.at
          BY <1>6, <1>7, <3>3, <4>1, <4>2
        <4>4. w \in Later(v)'
          BY <3>3
        <4>. QED
          BY <4>1, <4>3, <4>4 DEF Chained
      <3>. QED
        BY <3>4, <3>5
    <2>3. CASE v \notin events
      <3>1. v = new
        BY <1>7, <2>3
      <3>2. Later(v)' = {}
        <4>1. \A w \in events' : w.epoch = e => w.at \in Nat /\ w.at <= at
          BY <1>2, <1>4, <1>5, <1>6, <1>7 DEF Event
        <4>2. \A w \in events' : ~(w.epoch = e /\ w.at > at)
          BY <1>2, <4>1
        <4>. QED
          BY <1>6, <3>1, <4>2 DEF Later
      <3>. QED
        BY <1>3, <1>6, <3>1, <3>2 DEF Chained
    <2>. QED
      BY <2>1, <2>2, <2>3
  <1>. QED
    BY <1>8, <1>9, <1>10 DEF EventInv, Event

-----------------------------------------------------------------------------

\* What is known of the tables after every transaction (record, rollup, prune,
\* sync_epochs).
THEOREM HistoryInvariant == Spec => [](EpochInv /\ RowInv /\ EventInv)
  <1>1. Init => RowInv /\ EventInv
    BY InitiallyFit, InitiallyChained
  <1>2. EpochInv /\ RowInv /\ EventInv /\ [Next]_vars => RowInv' /\ EventInv'
    <2>. SUFFICES ASSUME EpochInv, RowInv, EventInv, [Next]_vars
                  PROVE  RowInv' /\ EventInv'
      OBVIOUS
    <2>1. ASSUME NEW sig \in Signatures \cup {NoCheck}, SyncEpochs(sig)
          PROVE  RowInv' /\ EventInv'
      BY <2>1, SyncFits, SyncChained
    <2>2. ASSUME NEW at \in Instants, NEW state \in Observations, Record(at, state)
          PROVE  RowInv' /\ EventInv'
      BY <2>2, RecordFits, RecordChained
    <2>3. CASE RollUp
      BY <2>3, RollUpKeepsFit, ClockChained
    <2>4. CASE Prune
      BY <2>4, PruneFits, PruneChained
    <2>5. CASE Tick \/ UNCHANGED vars
      BY <2>5, ClockFits, ClockChained
    <2>. QED
      BY <2>1, <2>2, <2>3, <2>4, <2>5 DEF Next
  <1>. QED
    BY <1>1, <1>2, EpochsInOrder, PTL DEF Spec

\* The tables keep their types, at most one epoch is active (the unique index
\* history_active), and a span always has time left.
THEOREM HistoryTypeCorrect == Spec => []TypeOK
  <1>1. EpochInv /\ RowInv => TypeOK
    <2>. SUFFICES ASSUME EpochInv, RowInv PROVE TypeOK
      OBVIOUS
    <2>1. Cardinality(Active) <= 1
      <3>1. ASSUME NEW e \in Active, NEW f \in Active PROVE e = f
        BY DEF Active, EpochInv, EpochOrder, Before
      <3>2. CASE Active = {}
        BY <3>2, FS_EmptySet
      <3>3. CASE Active # {}
        <4>1. PICK e : Active = {e}
          BY <3>1, <3>3
        <4>. QED
          BY <4>1, FS_Singleton
      <3>. QED
        BY <3>2, <3>3
    <2>2. ASSUME NEW i \in 1 .. Len(spans)
          PROVE  /\ spans[i].epoch \in 1 .. MaxEpochs /\ spans[i].state \in Observations
                 /\ 0 <= spans[i].cursor /\ spans[i].cursor < spans[i].end
      <3>1. spans[i] \in Span(DOMAIN epochs) /\ spans[i].cursor < spans[i].end
        BY DEF RowInv, SpansFit
      <3>. QED
        BY <3>1 DEF Span, EpochInv, EpochTypes
    <2>3. raw \subseteq (1 .. MaxEpochs) \X Instants
      <3>1. raw \subseteq (DOMAIN epochs) \X Instants /\ DOMAIN epochs \subseteq 1 .. MaxEpochs
        BY DEF RowInv, EpochInv, EpochTypes
      <3>2. ASSUME NEW r \in raw PROVE r \in (1 .. MaxEpochs) \X Instants
        <4>1. r \in (DOMAIN epochs) \X Instants
          BY <3>1
        <4>2. r[1] \in 1 .. MaxEpochs
          BY <3>1, <4>1
        <4>. QED
          BY <4>1, <4>2, PairOf
      <3>. QED
        BY <3>2
    <2>4. \A k \in DOMAIN buckets : k[2] \in Tiers /\ k[3] % k[2] = 0 /\ buckets[k] \in Stats
      BY DEF RowInv, BucketsFit, KeyFits
    <2>. QED
      BY <2>1, <2>2, <2>3, <2>4 DEF TypeOK, EpochInv, EpochTypes, RowInv
  <1>. QED
    BY <1>1, HistoryInvariant, PTL

\* No row outlives its epoch, in whatever batches prune removes rows and epochs, and however
\* far the roll-up is behind (prune).
THEOREM RowsHaveEpochs == Spec => []EveryRowHasItsEpoch
  <1>1. RowInv /\ EventInv => EveryRowHasItsEpoch
    <2>. SUFFICES ASSUME RowInv, EventInv PROVE EveryRowHasItsEpoch
      OBVIOUS
    <2>1. ASSUME NEW i \in 1 .. Len(spans) PROVE spans[i].epoch \in DOMAIN epochs
      <3>1. spans[i] \in Span(DOMAIN epochs)
        BY DEF RowInv, SpansFit
      <3>. QED
        BY <3>1 DEF Span
    <2>2. \A k \in DOMAIN buckets : k[1] \in DOMAIN epochs
      BY DEF RowInv, BucketsFit, KeyFits
    <2>3. \A r \in raw : r[1] \in DOMAIN epochs
      BY DEF RowInv
    <2>4. \A v \in events : v.epoch \in DOMAIN epochs
      BY DEF EventInv
    <2>. QED
      BY <2>1, <2>2, <2>3, <2>4 DEF EveryRowHasItsEpoch
  <1>. QED
    BY <1>1, HistoryInvariant, PTL

\* The events of an epoch lead from one to the next and to the present state, although
\* observations come late or twice and old events are pruned (record).
THEOREM EventsChainCorrect == Spec => []EventsChain
  <1>1. EventInv => EventsChain
    BY DEF EventInv, EventsChain, Chained, Later
  <1>. QED
    BY <1>1, HistoryInvariant, PTL

-----------------------------------------------------------------------------
(* What a prune reports.                                                   *)

\* A DELETE with LIMIT that removed less than the limit removed everything.
LEMMA SmallBatch ==
  ASSUME NEW S, IsFiniteSet(S), NEW gone \in Batch(S), Cardinality(gone) < BatchSize
  PROVE  gone = S
  <1>1. gone \subseteq S /\ Cardinality(gone) = Min({BatchSize, Cardinality(S)})
    BY DEF Batch, kSubset
  <1>2. Cardinality(S) \in Nat /\ BatchSize \in Nat
    BY FS_CardinalityType, HistoryAssumption
  <1>3. Cardinality(gone) = Cardinality(S)
    BY <1>1, <1>2, MinOfTwo
  <1>. QED
    BY <1>1, <1>3, FS_Subset

LEMMA RowsGone ==
  ASSUME NEW S, IsFiniteSet(S), NEW gone, gone \subseteq S
  PROVE  /\ IsFiniteSet(gone) /\ Cardinality(gone) \in Nat
         /\ Cardinality(S) - Cardinality(S \ gone) = Cardinality(gone)
  <1>1. IsFiniteSet(gone) /\ S \cap gone = gone
    BY FS_Subset
  <1>2. Cardinality(S \ gone) = Cardinality(S) - Cardinality(gone)
    BY <1>1, FS_Difference
  <1>3. Cardinality(S) \in Nat /\ Cardinality(gone) \in Nat
    BY <1>1, FS_CardinalityType
  <1>. QED
    BY <1>1, <1>2, <1>3

\* A prune after which its job is not due again at once has left nothing that is expired
\* (prune, and perform in jobs.rs, which compares what was removed with the batch size).
THEOREM PruneFinishesCorrect == Spec => PruneFinishes
  <1>1. EpochInv /\ RowInv /\ EventInv /\ Prune =>
          \/ Removed >= BatchSize
          \/ /\ ExpiredRaw' = {} /\ ExpiredEvents' = {}
             /\ \A r \in Tiers : ExpiredBuckets(r)' = {}
             /\ Unused(raw, buckets, events)' = {}
    <2>. SUFFICES ASSUME EpochInv, RowInv, EventInv, Prune, ~(Removed >= BatchSize)
                  PROVE  /\ ExpiredRaw' = {} /\ ExpiredEvents' = {}
                         /\ \A r \in Tiers : ExpiredBuckets(r)' = {}
                         /\ Unused(raw, buckets, events)' = {}
      OBVIOUS
    <2>1. PICK rawGone \in Batch(ExpiredRaw) : raw' = raw \ rawGone
      BY DEF Prune
    <2>2. PICK eventsGone \in Batch(ExpiredEvents) : events' = events \ eventsGone
      BY DEF Prune
    <2>3. PICK bucketsGone \in SUBSET UNION {ExpiredBuckets(r) : r \in Tiers} :
            /\ \A r \in Tiers : bucketsGone \cap ExpiredBuckets(r) \in Batch(ExpiredBuckets(r))
            /\ buckets' = Restrict(buckets, DOMAIN buckets \ bucketsGone)
      BY DEF Prune
    <2>4. PICK epochsGone \in Batch(Unused(raw', buckets', events')) :
            epochs' = Restrict(epochs, DOMAIN epochs \ epochsGone)
      BY DEF Prune
    <2>5. /\ DOMAIN buckets' = DOMAIN buckets \ bucketsGone
          /\ DOMAIN epochs' = DOMAIN epochs \ epochsGone
          /\ \A e \in DOMAIN epochs' : epochs'[e] = epochs[e]
      BY <2>3, <2>4 DEF Restrict
    <2>6. /\ rawGone \subseteq ExpiredRaw /\ ExpiredRaw \subseteq raw
          /\ eventsGone \subseteq ExpiredEvents /\ ExpiredEvents \subseteq events
          /\ bucketsGone \subseteq DOMAIN buckets /\ epochsGone \subseteq DOMAIN epochs
          /\ Unused(raw', buckets', events') \subseteq DOMAIN epochs
      <3>1. rawGone \subseteq ExpiredRaw /\ eventsGone \subseteq ExpiredEvents
        BY DEF Batch, kSubset
      <3>2. ExpiredRaw \subseteq raw /\ ExpiredEvents \subseteq events
        BY DEF ExpiredRaw, ExpiredEvents
      <3>3. bucketsGone \subseteq DOMAIN buckets
        BY DEF ExpiredBuckets
      <3>4. Unused(raw', buckets', events') \subseteq DOMAIN epochs
        BY DEF Unused, Ended
      <3>5. epochsGone \subseteq Unused(raw', buckets', events')
        BY DEF Batch, kSubset
      <3>. QED
        BY <3>1, <3>2, <3>3, <3>4, <3>5
    <2>7. /\ IsFiniteSet(raw) /\ IsFiniteSet(events) /\ IsFiniteSet(DOMAIN buckets)
          /\ IsFiniteSet(DOMAIN epochs)
      <3>1. IsFiniteSet(1 .. MaxEpochs)
        BY HistoryAssumption, FS_Interval
      <3>2. IsFiniteSet(DOMAIN epochs)
        BY <3>1, FS_Subset DEF EpochInv, EpochTypes
      <3>. QED
        BY <3>2 DEF RowInv, BucketsFit, EventInv
    <2>8. /\ Cardinality(rawGone) < BatchSize /\ Cardinality(eventsGone) < BatchSize
          /\ Cardinality(bucketsGone) < BatchSize /\ Cardinality(epochsGone) < BatchSize
          /\ IsFiniteSet(bucketsGone)
      <3>1. /\ Cardinality(rawGone) \in Nat
            /\ Cardinality(raw) - Cardinality(raw') = Cardinality(rawGone)
        BY <2>1, <2>6, <2>7, RowsGone
      <3>2. /\ Cardinality(eventsGone) \in Nat
            /\ Cardinality(events) - Cardinality(events') = Cardinality(eventsGone)
        BY <2>2, <2>6, <2>7, RowsGone
      <3>3. /\ Cardinality(bucketsGone) \in Nat /\ IsFiniteSet(bucketsGone)
            /\ Cardinality(DOMAIN buckets) - Cardinality(DOMAIN buckets')
                 = Cardinality(bucketsGone)
        <4>1. bucketsGone \subseteq DOMAIN buckets /\ IsFiniteSet(DOMAIN buckets)
          BY <2>6, <2>7
        <4>. QED
          BY <2>5, <4>1, RowsGone
      <3>4. /\ Cardinality(epochsGone) \in Nat
            /\ Cardinality(DOMAIN epochs) - Cardinality(DOMAIN epochs')
                 = Cardinality(epochsGone)
        <4>1. epochsGone \subseteq DOMAIN epochs /\ IsFiniteSet(DOMAIN epochs)
          BY <2>6, <2>7
        <4>. QED
          BY <2>5, <4>1, RowsGone
      <3>5. /\ Cardinality(raw) \in Nat /\ Cardinality(raw') \in Nat
            /\ Cardinality(events) \in Nat /\ Cardinality(events') \in Nat
            /\ Cardinality(DOMAIN buckets) \in Nat /\ Cardinality(DOMAIN buckets') \in Nat
            /\ Cardinality(DOMAIN epochs) \in Nat /\ Cardinality(DOMAIN epochs') \in Nat
        BY <2>1, <2>2, <2>5, <2>7, FS_CardinalityType, FS_Difference
      <3>6. BatchSize \in Nat /\ ~(Removed >= BatchSize)
        BY HistoryAssumption
      <3>. QED
        BY <3>1, <3>2, <3>3, <3>4, <3>5, <3>6 DEF Removed
    <2>9. rawGone = ExpiredRaw /\ eventsGone = ExpiredEvents
      <3>1. IsFiniteSet(ExpiredRaw) /\ IsFiniteSet(ExpiredEvents)
        BY <2>6, <2>7, FS_Subset
      <3>. QED
        BY <2>8, <3>1, SmallBatch
    <2>10. ASSUME NEW r \in Tiers
           PROVE  ExpiredBuckets(r) \subseteq bucketsGone
      <3>1. IsFiniteSet(ExpiredBuckets(r))
        BY <2>7, FS_Subset DEF ExpiredBuckets
      <3>2. Cardinality(bucketsGone \cap ExpiredBuckets(r)) < BatchSize
        <4>1. /\ Cardinality(bucketsGone \cap ExpiredBuckets(r)) <= Cardinality(bucketsGone)
              /\ IsFiniteSet(bucketsGone \cap ExpiredBuckets(r))
          BY <2>8, FS_Subset
        <4>. QED
          BY <2>8, <4>1, FS_CardinalityType, HistoryAssumption
      <3>. QED
        BY <2>3, <3>1, <3>2, SmallBatch
    <2>11. epochsGone = Unused(raw', buckets', events')
      <3>1. IsFiniteSet(Unused(raw', buckets', events'))
        BY <2>6, <2>7, FS_Subset
      <3>. QED
        BY <2>8, <3>1, SmallBatch
    <2>12. now' = now /\ spans' = spans
      BY DEF Prune
    <2>13. ExpiredRaw' = {} /\ ExpiredEvents' = {}
      BY <2>1, <2>2, <2>9, <2>12 DEF ExpiredRaw, ExpiredEvents
    <2>14. \A r \in Tiers : ExpiredBuckets(r)' = {}
      BY <2>5, <2>10, <2>12 DEF ExpiredBuckets
    <2>15. Unused(raw, buckets, events)' = {}
      <3>1. Unused(raw, buckets, events)' \subseteq Unused(raw', buckets', events')
        BY <2>5, <2>12 DEF Unused, Ended
      <3>2. Unused(raw, buckets, events)' \subseteq DOMAIN epochs'
        BY DEF Unused, Ended
      <3>. QED
        BY <2>5, <2>11, <3>1, <3>2
    <2>. QED
      BY <2>13, <2>14, <2>15
  <1>. QED
    BY <1>1, HistoryInvariant, PTL DEF PruneFinishes

-----------------------------------------------------------------------------
(* Sums of durations are sizes of sets of instants.                        *)

\* h has the sums of the values of f on the subsets of S, as SumFunction makes them.
IsSum(h, f, S) ==
  h = [s \in SUBSET S |->
         IF s = {} THEN 0 ELSE LET x == CHOOSE x \in s : TRUE IN f[x] + h[s \ {x}]]

LEMMA SumUnfolds ==
  ASSUME NEW f
  PROVE  SumFunction(f) = (CHOOSE h : IsSum(h, f, DOMAIN f))[DOMAIN f]
  BY DEF SumFunction, SumFunctionOnSet, FoldFunctionOnSet, MapThenFoldSet, IsSum

LEMMA OneLess ==
  ASSUME NEW s, IsFiniteSet(s), s # {}
  PROVE  LET x == CHOOSE x \in s : TRUE
         IN  /\ x \in s /\ IsFiniteSet(s \ {x})
             /\ Cardinality(s) \in Nat /\ Cardinality(s \ {x}) \in Nat
             /\ Cardinality(s \ {x}) = Cardinality(s) - 1
  BY FS_RemoveElement, FS_CardinalityType

LEMMA SumExists ==
  ASSUME NEW S, IsFiniteSet(S), NEW f
  PROVE  \E h : IsSum(h, f, S)
  <1>. DEFINE Small(n) == {s \in SUBSET S : Cardinality(s) <= n}
              UpTo(h, n) ==
                h = [s \in Small(n) |->
                       IF s = {} THEN 0
                       ELSE LET x == CHOOSE x \in s : TRUE IN f[x] + h[s \ {x}]]
              T == {n \in Nat : \E h : UpTo(h, n)}
  <1>1. ASSUME NEW s \in SUBSET S
        PROVE  /\ IsFiniteSet(s) /\ Cardinality(s) \in Nat
               /\ Cardinality(s) = 0 <=> s = {}
               /\ Cardinality(s) <= Cardinality(S)
    BY FS_Subset, FS_CardinalityType, FS_EmptySet
  <1>2. 0 \in T
    <2>1. Small(0) = {{}}
      BY <1>1
    <2>2. UpTo([s \in {{}} |-> 0], 0)
      BY <2>1
    <2>. QED
      BY <2>2
  <1>3. ASSUME NEW n \in Nat, n \in T
        PROVE  n + 1 \in T
    <2>1. PICK h : UpTo(h, n)
      BY <1>3
    <2>. DEFINE x(s) == CHOOSE x \in s : TRUE
                g == [s \in Small(n + 1) |->
                        IF s \in Small(n) THEN h[s] ELSE f[x(s)] + h[s \ {x(s)}]]
    <2>2. ASSUME NEW s \in Small(n + 1)
          PROVE  g[s] = IF s = {} THEN 0 ELSE f[x(s)] + g[s \ {x(s)}]
      <3>1. CASE s = {}
        <4>1. s \in Small(n) /\ h[s] = 0
          BY <1>1, <2>1, <3>1
        <4>. QED
          BY <3>1, <4>1
      <3>2. CASE s # {}
        <4>1. s \ {x(s)} \in Small(n) /\ s \ {x(s)} \in Small(n + 1)
          BY <1>1, <3>2, OneLess
        <4>2. g[s \ {x(s)}] = h[s \ {x(s)}]
          BY <4>1
        <4>3. s \in Small(n) => h[s] = f[x(s)] + h[s \ {x(s)}]
          BY <2>1, <3>2
        <4>. QED
          BY <3>2, <4>2, <4>3
      <3>. QED
        BY <3>1, <3>2
    <2>. HIDE DEF g
    <2>3. g = [s \in Small(n + 1) |-> g[s]]
      BY DEF g
    <2>4. UpTo(g, n + 1)
      BY <2>2, <2>3
    <2>. HIDE DEF UpTo
    <2>. QED
      BY <2>4
  <1>4. Cardinality(S) \in T
    <2>. HIDE DEF T
    <2>. QED
      BY <1>1, <1>2, <1>3, AllNaturals DEF T
  <1>5. Small(Cardinality(S)) = SUBSET S
    BY <1>1
  <1>. QED
    BY <1>4, <1>5 DEF IsSum

\* The sizes of disjoint sets add up to that of their union.
LEMMA SumOfSizes ==
  ASSUME NEW S, IsFiniteSet(S), NEW f, DOMAIN f = S, NEW T,
         \A x \in S : IsFiniteSet(T[x]) /\ f[x] = Cardinality(T[x]),
         \A x, y \in S : x # y => T[x] \cap T[y] = {}
  PROVE  /\ IsFiniteSet(UNION {T[x] : x \in S})
         /\ SumFunction(f) = Cardinality(UNION {T[x] : x \in S})
  <1>. DEFINE h == CHOOSE h : IsSum(h, f, S)
              All(s) == UNION {T[x] : x \in s}
              Fits(s) == IsFiniteSet(All(s)) /\ h[s] = Cardinality(All(s))
              N == {n \in Nat : \A s \in SUBSET S : Cardinality(s) <= n => Fits(s)}
  <1>1. IsSum(h, f, S) /\ SumFunction(f) = h[S]
    BY SumExists, SumUnfolds
  <1>. HIDE DEF h
  <1>2. ASSUME NEW s \in SUBSET S
        PROVE  /\ IsFiniteSet(s) /\ Cardinality(s) \in Nat
               /\ Cardinality(s) = 0 <=> s = {}
               /\ Cardinality(s) <= Cardinality(S)
    BY FS_Subset, FS_CardinalityType, FS_EmptySet
  <1>3. Fits({})
    <2>1. All({}) = {} /\ h[{}] = 0
      BY <1>1 DEF IsSum
    <2>. QED
      BY <2>1, FS_EmptySet
  <1>4. 0 \in N
    BY <1>2, <1>3
  <1>5. ASSUME NEW n \in Nat, n \in N
        PROVE  n + 1 \in N
    <2>. SUFFICES ASSUME NEW s \in SUBSET S, Cardinality(s) <= n + 1
                  PROVE  Fits(s)
      <3>. HIDE DEF Fits
      <3>. QED
        OBVIOUS
    <2>0. CASE s = {}
      BY <1>3, <2>0
    <2>. SUFFICES ASSUME s # {} PROVE Fits(s)
      <3>. HIDE DEF Fits
      <3>. QED
        BY <2>0
    <2>. DEFINE x == CHOOSE x \in s : TRUE
                rest == s \ {x}
    <2>1. x \in s /\ rest \in SUBSET S /\ Cardinality(rest) <= n
      BY <1>2, OneLess
    <2>2. Fits(rest)
      <3>. HIDE DEF Fits, rest
      <3>. QED
        BY <1>5, <2>1
    <2>3. h[s] = f[x] + h[rest]
      BY <1>1 DEF IsSum
    <2>. HIDE DEF x
    <2>4. All(s) = T[x] \cup All(rest) /\ T[x] \cap All(rest) = {}
      BY <2>1
    <2>. HIDE DEF rest, All
    <2>5. IsFiniteSet(T[x]) /\ f[x] = Cardinality(T[x])
      BY <2>1
    <2>6. IsFiniteSet(All(rest)) /\ h[rest] = Cardinality(All(rest))
      BY <2>2
    <2>7. /\ IsFiniteSet(T[x] \cup All(rest))
          /\ Cardinality(T[x] \cup All(rest)) = Cardinality(T[x]) + Cardinality(All(rest))
                                     - Cardinality(T[x] \cap All(rest))
      BY <2>5, <2>6, FS_Union
    <2>8. Cardinality(T[x] \cap All(rest)) = 0
      BY <2>4, FS_EmptySet
    <2>9. Cardinality(T[x]) \in Nat /\ Cardinality(All(rest)) \in Nat
      BY <2>5, <2>6, FS_CardinalityType
    <2>10. Cardinality(All(s)) = f[x] + h[rest] /\ IsFiniteSet(All(s))
      BY <2>4, <2>5, <2>7, <2>8, <2>9, <2>6
    <2>. QED
      BY <2>3, <2>10
  <1>6. Cardinality(S) \in N
    <2>. HIDE DEF N
    <2>. QED
      BY <1>2, <1>4, <1>5, AllNaturals DEF N
  <1>. QED
    BY <1>1, <1>6

-----------------------------------------------------------------------------
(* Multiples of a width.                                                   *)

LEMMA Quotient ==
  ASSUME NEW n \in Int, NEW w \in Nat \ {0}, n % w = 0
  PROVE  n \div w \in Int /\ n = w * (n \div w)
  OBVIOUS

LEMMA LessTimes ==
  ASSUME NEW w \in Nat \ {0}, NEW i \in Int, NEW j \in Int
  PROVE  /\ w * i \in Int /\ w * j \in Int
         /\ i < j => w * i + w <= w * j
         /\ i <= j => w * i <= w * j
  OBVIOUS

\* Two multiples of w are w apart, or equal.
LEMMA MultiplesApart ==
  ASSUME NEW w \in Nat \ {0}, NEW m \in Int, NEW n \in Int, m % w = 0, n % w = 0, m < n
  PROVE  m + w <= n
  <1>. DEFINE i == m \div w
              j == n \div w
  <1>1. i \in Int /\ j \in Int /\ m = w * i /\ n = w * j
    BY Quotient
  <1>. HIDE DEF i, j
  <1>2. i < j => w * i + w <= w * j
    BY <1>1, LessTimes
  <1>3. j <= i => w * j <= w * i
    BY <1>1, LessTimes
  <1>. QED
    BY <1>1, <1>2, <1>3

LEMMA SumOfMultiples ==
  ASSUME NEW w \in Nat \ {0}, NEW m \in Int, NEW n \in Int, m % w = 0, n % w = 0
  PROVE  (m + n) % w = 0
  <1>. DEFINE i == m \div w
              j == n \div w
  <1>1. i \in Int /\ j \in Int /\ m = w * i /\ n = w * j
    BY Quotient
  <1>. HIDE DEF i, j
  <1>2. m + n = w * (i + j)
    BY <1>1
  <1>3. i + j \in Int /\ (w * (i + j)) % w = 0
    BY <1>1
  <1>. QED
    BY <1>2, <1>3

LEMMA MultipleOfMultiple ==
  ASSUME NEW r \in Nat \ {0}, NEW s \in Nat \ {0}, NEW n \in Int, s % r = 0, n % s = 0
  PROVE  n % r = 0
  <1>. DEFINE i == s \div r
              j == n \div s
  <1>1. i \in Int /\ j \in Int /\ s = r * i /\ n = s * j
    BY Quotient
  <1>. HIDE DEF i, j
  <1>2. i * j \in Int /\ n = r * (i * j)
    BY <1>1
  <1>. DEFINE k == i * j
  <1>. HIDE DEF k
  <1>3. k \in Int /\ n = r * k
    BY <1>2 DEF k
  <1>4. (r * k) % r = 0
    BY <1>3
  <1>. QED
    BY <1>3, <1>4

\* A multiple of w up to t is one up to Floor(t, w).
LEMMA FloorIsLast ==
  ASSUME NEW w \in Nat \ {0}, NEW t \in Int, NEW n \in Int, n % w = 0, n <= t
  PROVE  n <= Floor(t, w)
  <1>1. /\ Floor(t, w) \in Int /\ t < Floor(t, w) + w
        /\ Floor(t, w) % w = 0
    BY FloorOf
  <1>2. Floor(t, w) < n => Floor(t, w) + w <= n
    BY <1>1, MultiplesApart
  <1>. QED
    BY <1>1, <1>2

\* A t lies in one window of width w.
LEMMA FloorIs ==
  ASSUME NEW w \in Nat \ {0}, NEW t \in Int, NEW n \in Int, n % w = 0, n <= t, t < n + w
  PROVE  Floor(t, w) = n
  <1>1. /\ Floor(t, w) \in Int /\ Floor(t, w) <= t /\ Floor(t, w) % w = 0
        /\ n <= Floor(t, w)
    BY FloorOf, FloorIsLast
  <1>2. n < Floor(t, w) => n + w <= Floor(t, w)
    BY <1>1, MultiplesApart
  <1>. QED
    BY <1>1, <1>2

LEMMA FloorMonotone ==
  ASSUME NEW w \in Nat \ {0}, NEW t \in Int, NEW u \in Int, t <= u
  PROVE  Floor(t, w) <= Floor(u, w)
  <1>. DEFINE n == Floor(t, w)
  <1>1. n \in Int /\ n <= t /\ n % w = 0
    BY FloorOf
  <1>. HIDE DEF n
  <1>2. n <= u
    BY <1>1
  <1>3. n <= Floor(u, w)
    BY <1>1, <1>2, FloorIsLast
  <1>. QED
    BY <1>3 DEF n

LEMMA FloorOfNat ==
  ASSUME NEW w \in Nat \ {0}, NEW t \in Nat
  PROVE  Floor(t, w) \in Nat
  <1>1. 0 <= Floor(t, w)
    BY FloorIsLast
  <1>. QED
    BY <1>1, FloorOf

\* Where retention begins is a multiple of the width, and moves forward.
LEMMA BoundaryOf ==
  ASSUME NEW t \in Nat, NEW r \in Tiers
  PROVE  /\ Boundary(t, r) \in Int /\ Boundary(t, r) % r = 0
         /\ Boundary(t, r) <= t - Retention[r] /\ Boundary(t, r) <= t
         /\ \A u \in Nat : t <= u => Boundary(t, r) <= Boundary(u, r)
         /\ Boundary(t, Coarsest) <= Boundary(t, r)
  <1>1. r \in Nat \ {0} /\ Retention[r] \in Nat
    BY HistoryAssumption
  <1>2. \A u \in Nat : u - Retention[r] \in Int /\ (t <= u => t - Retention[r] <= u - Retention[r])
    BY <1>1
  <1>. DEFINE c == t - Retention[r]
  <1>3. /\ Boundary(t, r) = Floor(c, r) /\ c \in Int /\ c <= t
    BY <1>1, <1>2 DEF Boundary, Cutoff
  <1>4. Floor(c, r) \in Int /\ Floor(c, r) % r = 0 /\ Floor(c, r) <= c
    BY <1>1, <1>3, FloorOf
  <1>5. ASSUME NEW u \in Nat, t <= u
        PROVE  Boundary(t, r) <= Boundary(u, r)
    BY <1>1, <1>2, <1>5, FloorMonotone DEF Boundary, Cutoff
  <1>6. Boundary(t, Coarsest) <= Boundary(t, r)
    <2>1. Coarsest \in Tiers /\ r <= Coarsest
      BY CoarsestIsATier
    <2>2. CASE r = Coarsest
      BY <1>3, <1>4, <2>2
    <2>3. CASE r # Coarsest
      <3>. DEFINE s == Coarsest
                  d == t - Retention[s]
      <3>1. s \in Tiers /\ r < s
        BY <1>1, <2>1, <2>3, HistoryAssumption
      <3>. HIDE DEF s
      <3>2. s \in Nat \ {0} /\ s % r = 0 /\ Retention[s] \in Nat /\ Retention[r] <= Retention[s]
        BY <3>1, HistoryAssumption
      <3>3. d \in Int /\ d <= c /\ Boundary(t, s) = Floor(d, s)
        BY <1>1, <3>2 DEF Boundary, Cutoff
      <3>. HIDE DEF d, c
      <3>4. Floor(d, s) \in Int /\ Floor(d, s) % s = 0 /\ Floor(d, s) <= d
        BY <3>2, <3>3, FloorOf
      <3>5. Floor(d, s) % r = 0
        BY <1>1, <3>2, <3>4, MultipleOfMultiple
      <3>6. Floor(d, s) <= Floor(c, r)
        <4>. DEFINE n == Floor(d, s)
        <4>1. n \in Int /\ n <= c /\ n % r = 0
          BY <1>3, <3>3, <3>4, <3>5
        <4>. HIDE DEF n
        <4>2. n <= Floor(c, r)
          BY <1>1, <1>3, <4>1, FloorIsLast
        <4>. QED
          BY <4>2 DEF n
      <3>. QED
        BY <1>3, <3>3, <3>6 DEF s
    <2>. QED
      BY <2>2, <2>3
  <1>. QED
    BY <1>3, <1>4, <1>5, <1>6

LEMMA RetainedFloor ==
  ASSUME now \in Nat, NEW r \in Tiers, NEW t \in Nat, t >= Boundary(now, r)
  PROVE  Boundary(now, r) <= Floor(t, r) /\ Floor(t, r) \in Int
  <1>. DEFINE n == Boundary(now, r)
  <1>1. r \in Nat \ {0} /\ n \in Int /\ n % r = 0 /\ n <= t
    BY BoundaryOf, HistoryAssumption
  <1>. HIDE DEF n
  <1>2. n <= Floor(t, r)
    BY <1>1, FloorIsLast
  <1>. QED
    BY <1>1, <1>2, FloorOf DEF n

LEMMA IntervalSize ==
  ASSUME NEW a \in Int, NEW b \in Int, a <= b
  PROVE  IsFiniteSet(a .. b - 1) /\ Cardinality(a .. b - 1) = b - a
  <1>. DEFINE c == b - 1
  <1>1. c \in Int
    OBVIOUS
  <1>. HIDE DEF c
  <1>2. IsFiniteSet(a .. c)
    BY <1>1, FS_Interval
  <1>3. Cardinality(a .. c) = IF a > c THEN 0 ELSE c - a + 1
    BY <1>1, FS_Interval
  <1>4. (IF a > c THEN 0 ELSE c - a + 1) = b - a
    BY DEF c
  <1>. QED
    BY <1>2, <1>3, <1>4 DEF c

-----------------------------------------------------------------------------
(* What was observed at an instant, and where it is kept.                  *)

\* The instant t belongs to epoch e.
Lives(e, t) == epochs[e].start <= t /\ (epochs[e].end = Null \/ t < epochs[e].end)

\* One of the spans s is to be rolled up at t.
InSpan(s, t) == \E i \in 1 .. Len(s) : s[i].cursor <= t /\ t < s[i].end

\* What is known of t follows from the last observation of the active epoch.
InTail(t) == \E e \in Active : epochs[e].last # Null /\ epochs[e].last <= t

\* Of each epoch and state, the instants that are rolled up when the spans are s.
RolledUp(s) ==
  [e \in DOMAIN epochs |->
     [c \in Counted |->
        {t \in Instants : timeline[t] = c /\ Lives(e, t) /\ ~InSpan(s, t) /\ ~InTail(t)}]]

\* The instants of the bucket of key k.
Window(k) == k[3] .. k[3] + k[2] - 1

\* The rows b have, of every width for as long as it is retained, the sizes of the sets R.
Counts(b, R) ==
  /\ \A k \in DOMAIN b : k = <<k[1], k[2], k[3]>> /\ k[3] \in Nat
  /\ \A k \in DOMAIN b :
       k[3] >= Boundary(now, k[2]) =>
         \A c \in Counted : b[k][c] = Cardinality(R[k[1]][c] \cap Window(k))
  /\ \A e \in DOMAIN R, c \in Counted, r \in Tiers :
       \A t \in R[e][c] :
         t >= Boundary(now, r) => <<e, r, Floor(t, r)>> \in DOMAIN b

\* Spans are in the order of time, end before the last observation, and have the state
\* observed at their instants, which belong to their epoch.
SpanInv(s) ==
  /\ \A i, j \in 1 .. Len(s) : i < j => s[i].end <= s[j].cursor
  /\ \A i \in 1 .. Len(s) :
       /\ s[i].end <= now
       /\ \A t \in s[i].cursor .. s[i].end - 1 :
            timeline[t] = s[i].state /\ Lives(s[i].epoch, t)
       /\ \A e \in Active :
            s[i].end <= IF epochs[e].last = Null THEN epochs[e].start ELSE epochs[e].last

\* From the last observation on, its state holds for as long as it is fresh, and nothing
\* is observed after that; nor is anything when there is no observation.
TailInv ==
  /\ \A e \in DOMAIN epochs : epochs[e].end # Null => epochs[e].last = Null
  /\ \A e \in Active :
       epochs[e].last = Null => \A t \in Instants : epochs[e].start <= t => timeline[t] = "none"
  /\ \A e \in Active :
       epochs[e].last # Null =>
         /\ epochs[e].start <= epochs[e].last /\ epochs[e].last <= now
         /\ \A t \in Instants :
              epochs[e].last <= t =>
                timeline[t] = IF t < epochs[e].last + Freshness[epochs[e].sig]
                                THEN epochs[e].state ELSE "none"
  /\ Active = {} => \A t \in Instants : now <= t => timeline[t] = "none"

\* The epoch of a retained instant is known.
Known ==
  \A t \in Instants :
    timeline[t] \in Counted /\ t >= Boundary(now, Coarsest) =>
      \E e \in DOMAIN epochs : Lives(e, t)

TimeInv ==
  SpanInv(spans) /\ TailInv /\ Known /\ Counts(buckets, RolledUp(spans))

-----------------------------------------------------------------------------
(* Rows added to.                                                          *)

\* The counts do not depend on what is no longer retained.
LEMMA SameCounts ==
  ASSUME now \in Nat, NEW D, NEW b, BucketsFit(b, D), NEW R, NEW S, DOMAIN R = D, DOMAIN S = D,
         \A f \in D, c \in Counted : R[f][c] \subseteq Nat /\ S[f][c] \subseteq Nat,
         \A f \in D, c \in Counted, t \in Nat :
           t >= Boundary(now, Coarsest) => (t \in S[f][c] <=> t \in R[f][c]),
         Counts(b, R)
  PROVE  Counts(b, S)
  <1>1. \A r \in Tiers : Boundary(now, r) \in Int /\ Boundary(now, Coarsest) <= Boundary(now, r)
    BY BoundaryOf
  <1>2. Boundary(now, Coarsest) \in Int
    BY <1>1, CoarsestIsATier
  <1>3. ASSUME NEW k \in DOMAIN b, k[3] >= Boundary(now, k[2]), NEW c \in Counted
        PROVE  b[k][c] = Cardinality(S[k[1]][c] \cap Window(k))
    <2>1. k[1] \in D /\ k[2] \in Tiers /\ k[2] \in Nat /\ k[3] \in Nat
      BY HistoryAssumption DEF BucketsFit, KeyFits, Counts
    <2>2. \A t \in Window(k) : t \in Nat /\ t >= Boundary(now, Coarsest)
      BY <1>1, <1>2, <1>3, <2>1 DEF Window
    <2>3. S[k[1]][c] \cap Window(k) = R[k[1]][c] \cap Window(k)
      BY <2>1, <2>2
    <2>. QED
      BY <1>3, <2>3 DEF Counts
  <1>4. ASSUME NEW f \in D, NEW c \in Counted, NEW r \in Tiers, NEW t \in S[f][c],
               t >= Boundary(now, r)
        PROVE  <<f, r, Floor(t, r)>> \in DOMAIN b
    <2>1. t \in Nat /\ t >= Boundary(now, Coarsest)
      BY <1>1, <1>2, <1>4
    <2>2. t \in R[f][c]
      BY <2>1
    <2>. QED
      BY <1>4, <2>2 DEF Counts
  <1>. QED
    BY <1>3, <1>4 DEF Counts

\* The piece [start, until) lies in one window of each of the widths Q, which are those
\* retained where it begins, and before what is retained of other widths.
PieceOf(start, until, Q) ==
  /\ start <= until
  /\ \A r \in Tiers :
       IF start >= Boundary(now, r)
         THEN r \in Q /\ until <= Floor(start, r) + r
         ELSE until <= Boundary(now, r)

\* The sets S of the epochs D are the sets R and, of what is retained, the piece in the
\* given state of epoch e.
Gains(R, S, D, e, state, start, until) ==
  /\ DOMAIN R = D /\ DOMAIN S = D
  /\ \A f \in D, c \in Counted : R[f][c] \subseteq Nat /\ S[f][c] \subseteq Nat
  /\ \A f \in D, c \in Counted, t \in Nat :
       t >= Boundary(now, Coarsest) =>
         (t \in S[f][c] <=>
            t \in R[f][c] \/ (f = e /\ c = state /\ start <= t /\ t < until))
  /\ \A c \in Counted, t \in Nat : c = state /\ start <= t /\ t < until => t \notin R[e][c]

\* A piece of time in one state is added to its windows, of every width retained there.
LEMMA AddedCounts ==
  ASSUME now \in Nat, NEW D, NEW b, BucketsFit(b, D), NEW R, Counts(b, R),
         NEW e \in D, NEW state, NEW start \in Nat, NEW until \in Nat, NEW Q \in SUBSET Tiers,
         PieceOf(start, until, Q), NEW S, Gains(R, S, D, e, state, start, until),
         NEW n, n = until - start, NEW stats, stats = Duration(state, n)
  PROVE  Counts(AddStats(b, Keys(e, start, Q), stats), S)
  <1>. USE DEF PieceOf, Gains
  <1>. DEFINE ks == Keys(e, start, Q)
              b2 == AddStats(b, ks, stats)
              Old(k) == IF k \in DOMAIN b THEN b[k] ELSE NoTime
  <1>1. /\ DOMAIN b2 = DOMAIN b \cup ks
        /\ \A k \in ks, c \in Counted :
             b2[k][c] = Old(k)[c] + (IF c = state THEN n ELSE 0)
        /\ \A k \in DOMAIN b \ ks : b2[k] = b[k]
    BY DEF AddStats, Duration
  <1>2. /\ n \in Nat /\ start + n = until
        /\ \A r \in Tiers : r \in Nat \ {0}
        /\ \A r \in Tiers : Boundary(now, r) \in Int /\ Boundary(now, Coarsest) <= Boundary(now, r)
        /\ Boundary(now, Coarsest) \in Int
    BY BoundaryOf, CoarsestIsATier, HistoryAssumption
  <1>3. \A r \in Tiers : /\ Floor(start, r) \in Nat /\ Floor(start, r) % r = 0
                         /\ Floor(start, r) <= start
    BY <1>2, FloorOf, FloorOfNat
  <1>4. ASSUME NEW k \in DOMAIN b2
        PROVE  /\ k = <<k[1], k[2], k[3]>> /\ k[1] \in D
               /\ k[2] \in Tiers /\ k[3] \in Nat /\ k[3] % k[2] = 0
    <2>1. CASE k \in DOMAIN b
      BY <2>1 DEF BucketsFit, KeyFits, Counts
    <2>2. CASE k \in ks
      <3>1. PICK r \in Q : k = <<e, r, Floor(start, r)>>
        BY <2>2 DEF Keys
      <3>. QED
        BY <1>3, <3>1
    <2>. QED
      BY <1>1, <2>1, <2>2
  <1>5. ASSUME NEW r \in Tiers, NEW t \in Nat, t >= Boundary(now, r), start <= t, t < until
        PROVE  <<e, r, Floor(t, r)>> \in ks /\ Floor(t, r) = Floor(start, r)
    <2>1. r \in Q /\ until <= Floor(start, r) + r
      BY <1>2, <1>5
    <2>. DEFINE m == Floor(start, r)
    <2>2. m \in Int /\ m % r = 0 /\ m <= t /\ t < m + r
      BY <1>2, <1>3, <1>5, <2>1
    <2>. HIDE DEF m
    <2>3. Floor(t, r) = m
      BY <1>2, <2>2, FloorIs
    <2>. QED
      BY <2>1, <2>3 DEF Keys, m
  <1>. HIDE DEF b2, ks
  <1>6. ASSUME NEW k \in DOMAIN b2, k[3] >= Boundary(now, k[2]), NEW c \in Counted
        PROVE  b2[k][c] = Cardinality(S[k[1]][c] \cap Window(k))
    <2>. DEFINE W == Window(k)
                O == R[k[1]][c] \cap W
    <2>1. /\ k = <<k[1], k[2], k[3]>> /\ k[1] \in D
          /\ k[2] \in Tiers /\ k[2] \in Nat \ {0} /\ k[3] \in Nat /\ k[3] % k[2] = 0
      BY <1>2, <1>4
    <2>2. \A t \in W : /\ t \in Nat /\ k[3] <= t /\ t < k[3] + k[2]
                       /\ t >= Boundary(now, k[2]) /\ t >= Boundary(now, Coarsest)
      BY <1>2, <1>6, <2>1 DEF Window
    <2>3. \A t \in W : Floor(t, k[2]) = k[3]
      BY <2>1, <2>2, FloorIs
    <2>4. IsFiniteSet(W) /\ IsFiniteSet(O) /\ Cardinality(O) \in Nat
      <3>1. IsFiniteSet(W)
        BY <2>1, FS_Interval DEF Window
      <3>. QED
        BY <3>1, FS_Subset, FS_CardinalityType
    <2>5. Old(k)[c] = Cardinality(O)
      <3>1. CASE k \in DOMAIN b
        BY <1>6, <3>1 DEF Counts
      <3>2. CASE k \notin DOMAIN b
        <4>1. O = {}
          <5>. SUFFICES ASSUME NEW t \in O PROVE FALSE
            OBVIOUS
          <5>1. <<k[1], k[2], Floor(t, k[2])>> \in DOMAIN b
            BY <2>1, <2>2 DEF Counts
          <5>. QED
            BY <2>1, <2>3, <3>2, <5>1
        <4>2. Old(k)[c] = 0
          BY <3>2 DEF NoTime
        <4>. QED
          BY <4>1, <4>2, FS_EmptySet
      <3>. QED
        BY <3>1, <3>2
    <2>6. CASE k \in ks /\ c = state
      <3>. DEFINE P == start .. until - 1
      <3>1. PICK r \in Q : k = <<e, r, Floor(start, r)>>
        BY <2>6 DEF ks, Keys
      <3>2. k[1] = e /\ k[2] = r /\ k[3] = Floor(start, r) /\ r \in Tiers
        BY <3>1
      <3>3. k[3] <= start /\ until <= k[3] + k[2]
        BY <1>2, <1>3, <1>6, <3>2
      <3>4. P \subseteq W
        BY <2>1, <3>3 DEF Window
      <3>5. S[k[1]][c] \cap W = O \cup P
        <4>1. \A t \in W : t \in S[e][c] <=> (t \in R[e][c] \/ (start <= t /\ t < until))
          BY <2>2, <2>6
        <4>2. \A t \in W : t \in P <=> (start <= t /\ t < until)
          BY <2>2
        <4>. HIDE DEF P, W
        <4>. QED
          BY <3>2, <3>4, <4>1, <4>2
      <3>6. O \cap P = {}
        BY <2>6, <3>2
      <3>7. IsFiniteSet(P) /\ Cardinality(P) = n
        BY <1>2, IntervalSize
      <3>. HIDE DEF P, O, W
      <3>8. Cardinality(O \cup P) = Cardinality(O) + n
        <4>1. IsFiniteSet(O) /\ Cardinality(O \cap P) = 0
          BY <2>4, <3>6, FS_EmptySet
        <4>2. Cardinality(O \cup P)
                = Cardinality(O) + Cardinality(P) - Cardinality(O \cap P)
          BY <3>7, <4>1, FS_Union
        <4>. QED
          BY <1>2, <2>4, <3>7, <4>1, <4>2
      <3>. QED
        BY <1>1, <2>5, <2>6, <3>5, <3>8 DEF W
    <2>7. ASSUME ~(k \in ks /\ c = state)
          PROVE  S[k[1]][c] \cap W = O
      <3>. SUFFICES ASSUME NEW t \in W, k[1] = e, c = state, start <= t, t < until
                    PROVE  FALSE
        BY <2>1, <2>2
      <3>1. <<e, k[2], Floor(t, k[2])>> \in ks
        BY <1>5, <2>1, <2>2
      <3>. QED
        BY <2>1, <2>3, <2>7, <3>1
    <2>. HIDE DEF O, W
    <2>8. CASE k \in ks /\ c # state
      <3>1. b2[k][c] = Old(k)[c] + 0
        BY <1>1, <2>8
      <3>. HIDE DEF Old
      <3>2. b2[k][c] = Cardinality(O)
        BY <2>4, <2>5, <3>1
      <3>. QED
        BY <2>7, <2>8, <3>2 DEF W
    <2>9. CASE k \notin ks
      <3>1. k \in DOMAIN b \ ks
        BY <1>1, <2>9
      <3>. QED
        BY <1>1, <2>5, <2>7, <2>9, <3>1 DEF W
    <2>. QED
      BY <2>6, <2>8, <2>9
  <1>7. ASSUME NEW f \in D, NEW c \in Counted, NEW r \in Tiers, NEW t \in S[f][c],
               t >= Boundary(now, r)
        PROVE  <<f, r, Floor(t, r)>> \in DOMAIN b2
    <2>1. t \in Nat /\ t >= Boundary(now, Coarsest)
      BY <1>2, <1>7
    <2>2. CASE t \in R[f][c]
      BY <1>1, <1>7, <2>2 DEF Counts
    <2>3. CASE f = e /\ start <= t /\ t < until
      BY <1>1, <1>5, <1>7, <2>1, <2>3
    <2>. QED
      BY <2>1, <2>2, <2>3
  <1>8. Counts(b2, S)
    BY <1>4, <1>6, <1>7 DEF Counts
  <1>. QED
    BY <1>8 DEF b2, ks

-----------------------------------------------------------------------------
(* The steps keep what was observed.                                       *)

LEMMA RolledUpOf ==
  ASSUME NEW s
  PROVE  /\ DOMAIN RolledUp(s) = DOMAIN epochs
         /\ \A e \in DOMAIN epochs, c \in Counted :
              /\ RolledUp(s)[e][c] \subseteq Nat
              /\ \A t : t \in RolledUp(s)[e][c] <=>
                          /\ t \in Instants /\ timeline[t] = c /\ Lives(e, t)
                          /\ ~InSpan(s, t) /\ ~InTail(t)
  BY HistoryAssumption DEF RolledUp, Instants

LEMMA NowType ==
  ASSUME EpochInv
  PROVE  /\ now \in Nat /\ now \in Instants /\ Instants \subseteq Nat
         /\ \A e \in DOMAIN epochs :
              /\ epochs[e] \in Epoch
              /\ epochs[e].start \in Nat /\ epochs[e].start <= now
              /\ epochs[e].end # Null => epochs[e].end \in Nat /\ epochs[e].end <= now
              /\ epochs[e].last # Null => epochs[e].last \in Nat
              /\ epochs[e].sig \in Signatures /\ Freshness[epochs[e].sig] \in Nat \ {0}
  BY HistoryAssumption DEF EpochInv, EpochTypes, EpochOrder, Instants, Epoch

LEMMA OneEpoch ==
  ASSUME EpochInv, NEW t \in Int, NEW e \in DOMAIN epochs, NEW f \in DOMAIN epochs,
         Lives(e, t), Lives(f, t)
  PROVE  e = f
  <1>. SUFFICES ASSUME e # f PROVE FALSE
    OBVIOUS
  <1>1. Before(e, f) \/ Before(f, e)
    BY DEF EpochInv, EpochOrder
  <1>. QED
    BY <1>1, NowType DEF Before, Lives, Null

LEMMA OneActive ==
  ASSUME EpochInv, NEW e \in Active, NEW f \in Active
  PROVE  e = f /\ e \in DOMAIN epochs /\ epochs[e].end = Null
  BY DEF Active, EpochInv, EpochOrder, Before

LEMMA SpanOfRow ==
  ASSUME RowInv, NEW i \in 1 .. Len(spans)
  PROVE  /\ spans[i].epoch \in DOMAIN epochs /\ spans[i].state \in Observations
         /\ spans[i].cursor \in Nat /\ spans[i].end \in Nat /\ spans[i].cursor < spans[i].end
  <1>1. spans[i] \in Span(DOMAIN epochs) /\ spans[i].cursor < spans[i].end
    BY DEF RowInv, SpansFit
  <1>. QED
    BY <1>1 DEF Span

\* What is observed has happened.
LEMMA ObservedBefore ==
  ASSUME EpochInv, TailInv, NEW t \in Instants, timeline[t] \in Counted, ~InTail(t)
  PROVE  t < now
  <1>. SUFFICES ASSUME now <= t PROVE FALSE
    BY NowType
  <1>1. timeline[t] # "none"
    BY DEF Counted
  <1>2. PICK e \in Active : TRUE
    BY <1>1 DEF TailInv
  <1>3. e \in DOMAIN epochs /\ t \in Nat
    BY NowType DEF Active
  <1>4. epochs[e].last # Null
    BY <1>1, <1>3, NowType DEF TailInv
  <1>5. epochs[e].last <= t
    BY <1>2, <1>3, <1>4, NowType DEF TailInv
  <1>. QED
    BY <1>4, <1>5 DEF InTail

LEMMA TickTime ==
  ASSUME EpochInv, RowInv, TimeInv, Tick
  PROVE  TimeInv'
  <1>1. /\ now \in Nat /\ now' = now + 1 /\ epochs' = epochs /\ spans' = spans
        /\ buckets' = buckets /\ timeline' = timeline
    BY NowType DEF Tick
  <1>2. Active' = Active /\ RolledUp(spans)' = RolledUp(spans)
    BY <1>1 DEF Active, RolledUp, Lives, InSpan, InTail, Instants
  <1>3. \A r \in Tiers : /\ Boundary(now, r) \in Int /\ Boundary(now', r) \in Int
                         /\ Boundary(now, r) <= Boundary(now', r)
    BY <1>1, BoundaryOf
  <1>4. SpanInv(spans)'
    <2>1. \A i \in 1 .. Len(spans) : spans[i].end <= now'
      BY <1>1, SpanOfRow DEF TimeInv, SpanInv
    <2>. QED
      BY <1>1, <1>2, <2>1 DEF TimeInv, SpanInv, Lives
  <1>5. TailInv'
    <2>1. \A e \in Active : epochs[e].last # Null => epochs[e].last <= now'
      BY <1>1, NowType DEF TimeInv, TailInv, Active
    <2>2. \A t \in Instants : now' <= t => now <= t
      BY <1>1, NowType
    <2>. QED
      BY <1>1, <1>2, <2>1, <2>2 DEF TimeInv, TailInv, Instants
  <1>6. Known'
    <2>1. \A t \in Instants : t >= Boundary(now', Coarsest) => t >= Boundary(now, Coarsest)
      BY <1>3, CoarsestIsATier, NowType
    <2>. QED
      BY <1>1, <2>1 DEF TimeInv, Known, Lives, Instants
  <1>7. Counts(buckets, RolledUp(spans))'
    <2>. DEFINE R == RolledUp(spans)
    <2>1. /\ DOMAIN R = DOMAIN epochs
          /\ \A e \in DOMAIN epochs, c \in Counted : R[e][c] \subseteq Nat
      BY RolledUpOf
    <2>. HIDE DEF R
    <2>2. Counts(buckets, R)
      BY DEF TimeInv, R
    <2>3. \A k \in DOMAIN buckets :
            k[2] \in Tiers /\ (k[3] >= Boundary(now', k[2]) => k[3] >= Boundary(now, k[2]))
      BY <1>3, <2>2 DEF RowInv, BucketsFit, KeyFits, Counts
    <2>4. \A e \in DOMAIN epochs, c \in Counted, r \in Tiers :
            \A t \in R[e][c] : t >= Boundary(now', r) => t >= Boundary(now, r)
      BY <1>3, <2>1
    <2>. QED
      BY <1>1, <1>2, <2>1, <2>2, <2>3, <2>4 DEF Counts, R, Window
  <1>. QED
    BY <1>4, <1>5, <1>6, <1>7 DEF TimeInv

LEMMA InitialTime == Init => TimeInv
  <1>. SUFFICES ASSUME Init PROVE TimeInv
    OBVIOUS
  <1>1. spans = << >> /\ DOMAIN buckets = {} /\ DOMAIN epochs = {} /\ Active = {}
    BY DEF Init, Active
  <1>2. \A t \in Instants : timeline[t] = "none"
    BY DEF Init
  <1>3. SpanInv(spans)
    BY <1>1 DEF SpanInv
  <1>4. TailInv
    BY <1>1, <1>2 DEF TailInv
  <1>5. Known
    BY <1>2 DEF Known, Counted
  <1>6. Counts(buckets, RolledUp(spans))
    BY <1>1, RolledUpOf DEF Counts
  <1>. QED
    BY <1>3, <1>4, <1>5, <1>6 DEF TimeInv

LEMMA SameTime ==
  ASSUME TimeInv, UNCHANGED vars
  PROVE  TimeInv'
  <1>1. /\ now' = now /\ epochs' = epochs /\ spans' = spans
        /\ buckets' = buckets /\ timeline' = timeline
    BY DEF vars
  <1>2. Active' = Active /\ RolledUp(spans)' = RolledUp(spans)
    BY <1>1 DEF Active, RolledUp, Lives, InSpan, InTail, Instants
  <1>3. SpanInv(spans)'
    BY <1>1, <1>2 DEF TimeInv, SpanInv, Lives
  <1>4. TailInv'
    BY <1>1, <1>2 DEF TimeInv, TailInv, Instants
  <1>5. Known'
    BY <1>1 DEF TimeInv, Known, Lives, Instants
  <1>6. Counts(buckets, RolledUp(spans))'
    BY <1>1, <1>2 DEF TimeInv, Counts, Window
  <1>. QED
    BY <1>3, <1>4, <1>5, <1>6 DEF TimeInv

\* The spans s have what was observed until end, but nothing later.
Flushed(s, end) ==
  /\ \A i, j \in 1 .. Len(s) : i < j => s[i].end <= s[j].cursor
  /\ \A i \in 1 .. Len(s) :
       /\ s[i].end <= end
       /\ \A t \in s[i].cursor .. s[i].end - 1 :
            timeline[t] = s[i].state /\ Lives(s[i].epoch, t)
  /\ \A t \in Instants :
       timeline[t] \in Counted =>
         IF t < end THEN InSpan(s, t) <=> (InSpan(spans, t) \/ InTail(t)) ELSE InTail(t)

LEMMA NoTailFlushed ==
  ASSUME EpochInv, RowInv, TimeInv, Active = {}
  PROVE  Flushed(spans, now)
  <1>1. \A t : ~InTail(t)
    BY DEF InTail
  <1>2. \A t \in Instants : timeline[t] \in Counted => t < now
    BY <1>1, ObservedBefore DEF TimeInv
  <1>. QED
    BY <1>1, <1>2 DEF TimeInv, SpanInv, Flushed

\* flush_tail
LEMMA TailFlushed ==
  ASSUME EpochInv, RowInv, TimeInv, NEW e \in Active, NEW end \in Nat, end <= now,
         epochs[e].start <= end, epochs[e].last # Null => epochs[e].last <= end
  PROVE  Flushed(FlushTail(e, end), end)
  <1>. DEFINE last == epochs[e].last
              fresh == Freshness[epochs[e].sig]
              tail == TailEnd(e, end)
              row == [epoch |-> e, cursor |-> last, end |-> tail, state |-> epochs[e].state]
              s == FlushTail(e, end)
  <1>1. /\ now \in Nat /\ Instants \subseteq Nat /\ now \in Instants
        /\ e \in DOMAIN epochs /\ epochs[e].start \in Nat /\ epochs[e].end = Null
        /\ fresh \in Nat \ {0} /\ (last # Null => last \in Nat)
    BY NowType, OneActive
  <1>2. \A t : InTail(t) <=> last # Null /\ last <= t
    BY OneActive DEF InTail
  <1>3. \A i \in 1 .. Len(spans) :
          /\ spans[i].end \in Nat /\ spans[i].cursor \in Nat /\ spans[i].end <= now
          /\ spans[i].end <= IF last = Null THEN epochs[e].start ELSE last
          /\ spans[i].end <= end
    BY <1>1, SpanOfRow DEF TimeInv, SpanInv
  <1>4. ASSUME NEW t \in Instants, timeline[t] \in Counted, end <= t
        PROVE  InTail(t)
    <2>1. t \in Nat /\ timeline[t] # "none"
      BY <1>1, <1>4 DEF Counted
    <2>2. last # Null
      BY <1>1, <1>4, <2>1 DEF TimeInv, TailInv
    <2>. QED
      BY <1>1, <1>2, <1>4, <2>1, <2>2
  <1>5. last # Null => /\ epochs[e].start <= last /\ last <= now
                       /\ \A t \in Instants :
                            last <= t => timeline[t] = IF t < last + fresh
                                                         THEN epochs[e].state ELSE "none"
    BY DEF TimeInv, TailInv
  <1>6. last # Null => /\ tail \in Nat /\ tail <= end /\ tail <= last + fresh
                       /\ (tail = end \/ tail = last + fresh)
    BY <1>1, MinOfTwo DEF TailEnd
  <1>7. CASE ~(last # Null /\ tail > last)
    <2>1. s = spans
      BY <1>7 DEF FlushTail
    <2>2. ASSUME NEW t \in Instants, t < end PROVE ~InTail(t)
      BY <1>1, <1>2, <1>6, <1>7, <2>2
    <2>3. \A t \in Instants :
            timeline[t] \in Counted =>
              IF t < end THEN InSpan(spans, t) <=> (InSpan(spans, t) \/ InTail(t)) ELSE InTail(t)
      <3>. SUFFICES ASSUME NEW t \in Instants, timeline[t] \in Counted
                    PROVE  /\ t < end => (InSpan(spans, t) <=> (InSpan(spans, t) \/ InTail(t)))
                           /\ ~(t < end) => InTail(t)
        OBVIOUS
      <3>1. t \in Nat
        BY <1>1
      <3>2. t < end => ~InTail(t)
        BY <2>2
      <3>3. ~(t < end) => InTail(t)
        BY <1>4, <3>1
      <3>. QED
        BY <3>2, <3>3
    <2>. QED
      BY <1>3, <2>1, <2>3 DEF Flushed, TimeInv, SpanInv
  <1>8. CASE last # Null /\ tail > last
    <2>. DEFINE n == Len(spans)
    <2>1. s = Append(spans, row)
      BY <1>8 DEF FlushTail
    <2>2. n \in Nat /\ spans \in Seq(Span(DOMAIN epochs))
      BY DEF RowInv, SpansFit
    <2>3. Len(s) = n + 1 /\ \A i \in 1 .. n + 1 : s[i] = IF i = n + 1 THEN row ELSE spans[i]
      <3>. HIDE DEF row
      <3>. QED
        BY <2>1, <2>2
    <2>4. row.epoch = e /\ row.cursor = last /\ row.end = tail /\ row.state = epochs[e].state
      OBVIOUS
    <2>. HIDE DEF row, s, tail, fresh
    <2>5. ASSUME NEW i \in 1 .. n + 1, NEW j \in 1 .. n + 1, i < j
          PROVE  s[i].end <= s[j].cursor
      <3>1. i \in 1 .. n /\ s[i] = spans[i]
        BY <2>2, <2>3, <2>5
      <3>2. CASE j = n + 1
        BY <1>3, <1>8, <2>2, <2>3, <2>4, <3>1, <3>2
      <3>3. CASE j # n + 1
        <4>1. j \in 1 .. n /\ s[j] = spans[j]
          BY <2>2, <2>3, <3>3
        <4>. QED
          BY <2>5, <3>1, <4>1 DEF TimeInv, SpanInv
      <3>. QED
        BY <3>2, <3>3
    <2>6. ASSUME NEW t \in last .. tail - 1
          PROVE  timeline[t] = epochs[e].state /\ Lives(e, t) /\ t \in Instants
      <3>1. t \in Nat /\ last <= t /\ t < end /\ t < last + fresh
        BY <1>1, <1>6, <1>8
      <3>2. t \in Instants
        BY <1>1, <3>1, HistoryAssumption DEF Instants
      <3>. QED
        BY <1>1, <1>5, <1>8, <3>1, <3>2 DEF Lives
    <2>7. ASSUME NEW i \in 1 .. n + 1
          PROVE  /\ s[i].end <= end
                 /\ \A t \in s[i].cursor .. s[i].end - 1 :
                      timeline[t] = s[i].state /\ Lives(s[i].epoch, t)
      <3>1. CASE i = n + 1
        BY <1>6, <1>8, <2>2, <2>3, <2>4, <2>6, <3>1
      <3>2. CASE i # n + 1
        <4>1. i \in 1 .. n /\ s[i] = spans[i]
          BY <2>2, <2>3, <3>2
        <4>. QED
          BY <1>3, <4>1 DEF TimeInv, SpanInv
      <3>. QED
        BY <3>1, <3>2
    <2>8. ASSUME NEW t \in Instants, timeline[t] \in Counted, t < end
          PROVE  InSpan(s, t) <=> (InSpan(spans, t) \/ InTail(t))
      <3>1. InSpan(s, t) <=> (InSpan(spans, t) \/ (last <= t /\ t < tail))
        <4>1. ASSUME NEW i \in 1 .. Len(s), s[i].cursor <= t, t < s[i].end
              PROVE  InSpan(spans, t) \/ (last <= t /\ t < tail)
          <5>1. CASE i = n + 1
            BY <2>2, <2>3, <2>4, <4>1, <5>1
          <5>2. CASE i # n + 1
            <6>1. i \in 1 .. n /\ s[i] = spans[i]
              BY <2>2, <2>3, <5>2
            <6>. QED
              BY <4>1, <6>1 DEF InSpan
          <5>. QED
            BY <5>1, <5>2
        <4>2. ASSUME NEW i \in 1 .. Len(spans), spans[i].cursor <= t, t < spans[i].end
              PROVE  InSpan(s, t)
          <5>1. i \in 1 .. Len(s) /\ s[i] = spans[i]
            BY <2>2, <2>3
          <5>. QED
            BY <4>2, <5>1 DEF InSpan
        <4>3. ASSUME last <= t, t < tail
              PROVE  InSpan(s, t)
          <5>1. n + 1 \in 1 .. Len(s) /\ s[n + 1] = row
            BY <2>2, <2>3
          <5>. QED
            BY <2>4, <4>3, <5>1 DEF InSpan
        <4>. QED
          BY <4>1, <4>2, <4>3 DEF InSpan
      <3>2. InTail(t) => t < tail
        <4>1. timeline[t] # "none" /\ t \in Nat
          BY <1>1, <2>8 DEF Counted
        <4>. QED
          BY <1>1, <1>2, <1>5, <1>6, <1>8, <2>8, <4>1
      <3>. QED
        BY <1>2, <1>8, <3>1, <3>2
    <2>9. \A t \in Instants :
            timeline[t] \in Counted =>
              IF t < end THEN InSpan(s, t) <=> (InSpan(spans, t) \/ InTail(t)) ELSE InTail(t)
      BY <1>1, <1>4, <2>8
    <2>10. Flushed(s, end)
      BY <2>3, <2>5, <2>7, <2>9 DEF Flushed
    <2>. QED
      BY <2>10 DEF s
  <1>. QED
    BY <1>7, <1>8

\* A step that keeps what was observed until end and forgets the rest.
LEMMA AfterFlush ==
  ASSUME EpochInv, RowInv, TimeInv, NEW end \in Nat, end <= now, now' = now,
         Flushed(spans', end), SpansFit(spans', DOMAIN epochs),
         DOMAIN epochs \subseteq DOMAIN epochs',
         \A t \in Instants :
           t < end =>
             /\ timeline'[t] = timeline[t] /\ ~InTail(t)'
             /\ \A f \in DOMAIN epochs : Lives(f, t)' <=> Lives(f, t),
         \A t \in Instants : end <= t => timeline'[t] \notin Counted \/ InTail(t)',
         \A e \in Active' :
           end <= IF epochs'[e].last = Null THEN epochs'[e].start ELSE epochs'[e].last,
         \A e \in Active' : epochs'[e].start \in Nat /\ epochs'[e].last \in Nat \cup {Null}
  PROVE  /\ SpanInv(spans)'
         /\ \A f \in DOMAIN epochs, c \in Counted :
              RolledUp(spans)'[f][c] = RolledUp(spans)[f][c]
  <1>1. now \in Nat /\ now \in Instants /\ Instants \subseteq Nat /\ MaxTime \in Nat
    BY NowType, HistoryAssumption
  <1>2. \A i \in 1 .. Len(spans') :
          /\ spans'[i].epoch \in DOMAIN epochs /\ spans'[i].cursor \in Nat
          /\ spans'[i].end \in Nat /\ spans'[i].end <= end
    <2>. SUFFICES ASSUME NEW i \in 1 .. Len(spans')
                  PROVE  /\ spans'[i].epoch \in DOMAIN epochs /\ spans'[i].cursor \in Nat
                         /\ spans'[i].end \in Nat /\ spans'[i].end <= end
      OBVIOUS
    <2>1. spans'[i] \in Span(DOMAIN epochs)
      BY DEF SpansFit
    <2>. QED
      BY <2>1 DEF Span, Flushed
  <1>3. ASSUME NEW i \in 1 .. Len(spans')
        PROVE  /\ spans'[i].end <= now'
               /\ \A t \in spans'[i].cursor .. spans'[i].end - 1 :
                    timeline'[t] = spans'[i].state /\ Lives(spans[i].epoch, t)'
               /\ \A e \in Active' :
                    spans'[i].end <= IF epochs'[e].last = Null
                                       THEN epochs'[e].start ELSE epochs'[e].last
    <2>1. spans'[i].end <= now'
      BY <1>1, <1>2
    <2>2. ASSUME NEW t \in spans'[i].cursor .. spans'[i].end - 1
          PROVE  timeline'[t] = spans'[i].state /\ Lives(spans[i].epoch, t)'
      <3>1. t \in Instants /\ t < end
        BY <1>1, <1>2 DEF Instants
      <3>2. timeline[t] = spans'[i].state /\ Lives(spans'[i].epoch, t)
        BY DEF Flushed
      <3>. QED
        BY <1>2, <3>1, <3>2
    <2>3. ASSUME NEW e \in Active'
          PROVE  spans'[i].end <= IF epochs'[e].last = Null
                                    THEN epochs'[e].start ELSE epochs'[e].last
      BY <1>2, HistoryAssumption DEF Null
    <2>. QED
      BY <2>1, <2>2, <2>3
  <1>4. SpanInv(spans)'
    <2>1. \A i, j \in 1 .. Len(spans') : i < j => spans'[i].end <= spans'[j].cursor
      BY DEF Flushed
    <2>. QED
      BY <1>3, <2>1 DEF SpanInv
  <1>5. ASSUME NEW f \in DOMAIN epochs, NEW c \in Counted, NEW t \in Instants
        PROVE  t \in RolledUp(spans)'[f][c] <=> t \in RolledUp(spans)[f][c]
    <2>1. t \in RolledUp(spans)[f][c] <=>
            timeline[t] = c /\ Lives(f, t) /\ ~InSpan(spans, t) /\ ~InTail(t)
      BY RolledUpOf
    <2>2. t \in RolledUp(spans)'[f][c] <=>
            timeline'[t] = c /\ Lives(f, t)' /\ ~InSpan(spans', t) /\ ~InTail(t)'
      BY DEF RolledUp, InSpan, Instants
    <2>3. CASE t < end
      BY <2>1, <2>2, <2>3 DEF Flushed
    <2>4. CASE ~(t < end)
      <3>1. end <= t
        BY <1>1, <2>4
      <3>. QED
        BY <2>1, <2>2, <2>4, <3>1 DEF Flushed
    <2>. QED
      BY <2>3, <2>4
  <1>6. ASSUME NEW f \in DOMAIN epochs, NEW c \in Counted
        PROVE  RolledUp(spans)'[f][c] = RolledUp(spans)[f][c]
    <2>1. RolledUp(spans)'[f][c] \subseteq Instants
      BY DEF RolledUp, Instants
    <2>2. RolledUp(spans)[f][c] \subseteq Instants
      BY RolledUpOf
    <2>. DEFINE A == RolledUp(spans)'[f][c]
                B == RolledUp(spans)[f][c]
    <2>3. \A t \in Instants : t \in A <=> t \in B
      BY <1>5
    <2>. HIDE DEF A, B
    <2>4. A = B
      BY <2>1, <2>2, <2>3 DEF A, B
    <2>. QED
      BY <2>4 DEF A, B
  <1>. QED
    BY <1>4, <1>6

LEMMA CountsNext ==
  ASSUME NEW S, NEW b, now' = now, buckets' = b, RolledUp(spans)' = S, Counts(b, S)
  PROVE  Counts(buckets, RolledUp(spans))'
  BY DEF Counts, Window, Boundary, Cutoff, Floor

LEMMA SyncedRows ==
  ASSUME EpochInv, NEW sig \in Signatures \cup {NoCheck}, SyncEpochs(sig)
  PROVE  /\ DOMAIN epochs \subseteq DOMAIN epochs'
         /\ \A e \in Active : /\ epochs'[e].start = epochs[e].start
                              /\ epochs'[e].end = now /\ epochs'[e].last = Null
         /\ \A e \in DOMAIN epochs \ Active : epochs'[e] = epochs[e]
         /\ \A e \in DOMAIN epochs' \ DOMAIN epochs :
              epochs'[e].start = now /\ epochs'[e].end = Null /\ epochs'[e].last = Null
  <1>. DEFINE id == CHOOSE i \in 1 .. MaxEpochs : i \notin DOMAIN epochs
              New == [sig |-> sig, start |-> now, end |-> Null, last |-> Null,
                      state |-> "none"]
              D == DOMAIN epochs \cup (IF sig = NoCheck THEN {} ELSE {id})
  <1>1. epochs' = [e \in D |-> IF e \notin DOMAIN epochs
                                 THEN New
                                 ELSE IF e \in Active THEN Closed(e) ELSE epochs[e]]
    BY DEF SyncEpochs
  <1>. HIDE DEF id
  <1>2. ASSUME NEW e \in Active
        PROVE  /\ e \in DOMAIN epochs /\ epochs'[e].start = epochs[e].start
               /\ epochs'[e].end = now /\ epochs'[e].last = Null
    <2>1. e \in DOMAIN epochs /\ epochs[e].end = Null
      BY DEF Active
    <2>2. epochs'[e] = Closed(e) /\ Closed(e).start = epochs[e].start /\ Closed(e).end = now
      BY <1>1, <2>1, ClosedEndsNow
    <2>3. epochs'[e].last = Null
      BY <1>2, <2>1, SyncedEpochs
    <2>. QED
      BY <2>1, <2>2, <2>3
  <1>3. \A e \in DOMAIN epochs \ Active : epochs'[e] = epochs[e]
    BY <1>1
  <1>4. \A e \in D \ DOMAIN epochs :
          epochs'[e].start = now /\ epochs'[e].end = Null /\ epochs'[e].last = Null
    BY <1>1
  <1>. QED
    BY <1>1, <1>2, <1>3, <1>4

LEMMA SyncTime ==
  ASSUME EpochInv, RowInv, TimeInv, NEW sig \in Signatures \cup {NoCheck}, SyncEpochs(sig)
  PROVE  TimeInv'
  <1>1. /\ now \in Nat /\ now \in Instants /\ Instants \subseteq Nat /\ Null # now
        /\ now' = now /\ buckets' = buckets /\ timeline' = Unobserved(now)
        /\ spans' = IF Active = {} THEN spans ELSE FlushTail(CHOOSE e \in Active : TRUE, now)
    BY NowType DEF SyncEpochs, Null
  <1>2. /\ \A t \in Instants : t < now => timeline'[t] = timeline[t]
        /\ \A t \in Instants : now <= t => timeline'[t] = "none"
    BY <1>1 DEF Unobserved
  <1>3. /\ DOMAIN epochs \subseteq DOMAIN epochs'
        /\ \A e \in Active : /\ epochs'[e].start = epochs[e].start
                             /\ epochs'[e].end = now /\ epochs'[e].last = Null
        /\ \A e \in DOMAIN epochs \ Active : epochs'[e] = epochs[e]
        /\ \A e \in DOMAIN epochs' \ DOMAIN epochs :
             epochs'[e].start = now /\ epochs'[e].end = Null /\ epochs'[e].last = Null
    BY SyncedRows
  <1>4. \A e \in DOMAIN epochs' : epochs'[e].last = Null
    BY <1>3 DEF TimeInv, TailInv, Active
  <1>5. \A e \in Active' : e \in DOMAIN epochs' \ DOMAIN epochs
    BY <1>1, <1>3 DEF Active
  <1>6. \A t : ~InTail(t)'
    BY <1>4 DEF InTail, Active
  <1>7. ASSUME NEW f \in DOMAIN epochs, NEW t \in Instants, t < now
        PROVE  Lives(f, t)' <=> Lives(f, t)
    <2>1. CASE f \in Active
      BY <1>1, <1>3, <1>7, <2>1 DEF Lives, Active
    <2>2. CASE f \notin Active
      BY <1>3, <2>2 DEF Lives
    <2>. QED
      BY <2>1, <2>2
  <1>8. Flushed(spans', now) /\ SpansFit(spans', DOMAIN epochs)
    <2>1. CASE Active = {}
      BY <1>1, <2>1, NoTailFlushed DEF RowInv
    <2>2. CASE Active # {}
      <3>1. PICK e \in Active : spans' = FlushTail(e, now)
        BY <1>1, <2>2
      <3>2. /\ e \in DOMAIN epochs /\ epochs[e].start <= now
            /\ epochs[e].last # Null => epochs[e].last <= now
        BY <3>1, NowType DEF Active, TimeInv, TailInv
      <3>. QED
        BY <1>1, <3>1, <3>2, TailFlushed, FlushFits
    <2>. QED
      BY <2>1, <2>2
  <1>9. "none" \notin Counted
    BY DEF Counted
  <1>10. \A e \in Active' : /\ now <= IF epochs'[e].last = Null
                                        THEN epochs'[e].start ELSE epochs'[e].last
                            /\ epochs'[e].start \in Nat /\ epochs'[e].last \in Nat \cup {Null}
    BY <1>1, <1>3, <1>5
  <1>11. /\ SpanInv(spans)'
         /\ \A f \in DOMAIN epochs, c \in Counted :
              RolledUp(spans)'[f][c] = RolledUp(spans)[f][c]
    BY <1>1, <1>2, <1>3, <1>6, <1>7, <1>8, <1>9, <1>10, AfterFlush
  <1>12. TailInv'
    <2>1. \A t \in Instants : now <= t => timeline'[t] = "none"
      BY <1>2
    <2>2. \A e \in Active' : e \in DOMAIN epochs' /\ epochs'[e].start = now
      BY <1>3, <1>5
    <2>. QED
      BY <1>1, <1>4, <2>1, <2>2 DEF TailInv, Instants, Active
  <1>13. Known'
    <2>. SUFFICES ASSUME NEW t \in Instants, timeline'[t] \in Counted,
                         t >= Boundary(now, Coarsest)
                  PROVE  \E e \in DOMAIN epochs' : Lives(e, t)'
      BY <1>1 DEF Known, Instants, Boundary, Cutoff, Floor
    <2>1. t < now
      BY <1>1, <1>2, <1>9
    <2>2. \E e \in DOMAIN epochs : Lives(e, t)
      BY <1>2, <2>1 DEF TimeInv, Known
    <2>. QED
      BY <1>3, <1>7, <2>1, <2>2
  <1>14. Counts(buckets, RolledUp(spans)')
    <2>. DEFINE R == RolledUp(spans)
                S == RolledUp(spans)'
    <2>1. DOMAIN S = DOMAIN epochs' /\ DOMAIN R = DOMAIN epochs
      BY DEF RolledUp
    <2>2. ASSUME NEW f \in DOMAIN epochs' \ DOMAIN epochs, NEW c \in Counted, NEW t \in S[f][c]
          PROVE  FALSE
      <3>1. t \in Instants /\ timeline'[t] = c /\ Lives(f, t)'
        BY <2>2 DEF RolledUp, Instants
      <3>. QED
        BY <1>1, <1>2, <1>3, <1>9, <3>1 DEF Lives
    <2>. HIDE DEF R, S
    <2>3. Counts(buckets, R)
      BY DEF TimeInv, R
    <2>4. \A k \in DOMAIN buckets : k[1] \in DOMAIN epochs
      BY DEF RowInv, BucketsFit, KeyFits
    <2>5. \A f \in DOMAIN epochs, c \in Counted : S[f][c] = R[f][c]
      BY <1>11 DEF S, R
    <2>. QED
      BY <2>1, <2>2, <2>3, <2>4, <2>5 DEF Counts, S
  <1>. QED
    BY <1>1, <1>11, <1>12, <1>13, <1>14, CountsNext DEF TimeInv

LEMMA RecordTime ==
  ASSUME EpochInv, RowInv, TimeInv,
         NEW at \in Instants, NEW state \in Observations, Record(at, state)
  PROVE  TimeInv'
  <1>1. PICK e \in Active :
          /\ Accepted(e, at)
          /\ spans' = FlushTail(e, at)
          /\ buckets' = AddStats(buckets, {<<e, r, Floor(at, r)>> : r \in Tiers}, NoTime)
          /\ epochs' = [epochs EXCEPT ![e].last = at, ![e].state = state]
          /\ timeline' = [u \in Instants |->
                            IF at <= u /\ u < at + Freshness[epochs[e].sig]
                              THEN state ELSE Unobserved(at)[u]]
          /\ now' = now
    BY DEF Record
  <1>2. /\ now \in Nat /\ Instants \subseteq Nat /\ at \in Nat /\ at # Null
        /\ e \in DOMAIN epochs /\ epochs[e] \in Epoch /\ epochs[e].end = Null
        /\ epochs[e].start \in Nat /\ (epochs[e].last # Null => epochs[e].last \in Nat)
        /\ epochs[e].sig \in Signatures /\ Freshness[epochs[e].sig] \in Nat \ {0}
    BY NowType DEF Active, Null
  <1>3. at <= now /\ epochs[e].start <= at /\ (epochs[e].last # Null => epochs[e].last < at)
    BY <1>1, <1>2 DEF Accepted
  <1>4. /\ DOMAIN epochs' = DOMAIN epochs
        /\ \A f \in DOMAIN epochs : f # e => epochs'[f] = epochs[f]
        /\ epochs'[e].state = state /\ epochs'[e].last = at /\ epochs'[e].end = Null
        /\ epochs'[e].start = epochs[e].start /\ epochs'[e].sig = epochs[e].sig
    BY <1>1, <1>2 DEF Epoch
  <1>5. Active' = Active /\ Active = {e}
    BY <1>2, <1>4, OneActive DEF Active
  <1>6. \A t : InTail(t)' <=> at <= t
    BY <1>2, <1>4, <1>5 DEF InTail
  <1>7. \A f \in DOMAIN epochs : \A t : Lives(f, t)' <=> Lives(f, t)
    BY <1>2, <1>4 DEF Lives
  <1>8. /\ \A t \in Instants : t < at => timeline'[t] = timeline[t]
        /\ \A t \in Instants :
             at <= t => timeline'[t] = IF t < at + Freshness[epochs[e].sig]
                                         THEN state ELSE "none"
    BY <1>1, <1>2 DEF Unobserved
  <1>9. Flushed(spans', at) /\ SpansFit(spans', DOMAIN epochs)
    BY <1>1, <1>2, <1>3, TailFlushed, FlushFits
  <1>10. \A t \in Instants : t < at => ~InTail(t)'
    BY <1>2, <1>6
  <1>11. \A f \in Active' : /\ at <= IF epochs'[f].last = Null
                                       THEN epochs'[f].start ELSE epochs'[f].last
                            /\ epochs'[f].start \in Nat /\ epochs'[f].last \in Nat \cup {Null}
    BY <1>2, <1>4, <1>5
  <1>12. /\ SpanInv(spans)'
         /\ \A f \in DOMAIN epochs, c \in Counted :
              RolledUp(spans)'[f][c] = RolledUp(spans)[f][c]
    <2>1. \A t \in Instants :
            t < at =>
              /\ timeline'[t] = timeline[t] /\ ~InTail(t)'
              /\ \A f \in DOMAIN epochs : Lives(f, t)' <=> Lives(f, t)
      BY <1>7, <1>8, <1>10
    <2>2. \A t \in Instants : at <= t => timeline'[t] \notin Counted \/ InTail(t)'
      BY <1>6
    <2>3. DOMAIN epochs \subseteq DOMAIN epochs'
      BY <1>4
    <2>. QED
      <3>1. at \in Nat /\ at <= now /\ now' = now
        BY <1>1, <1>2, <1>3
      <3>2. \A f \in Active' :
              at <= IF epochs'[f].last = Null THEN epochs'[f].start ELSE epochs'[f].last
        BY <1>11
      <3>3. \A f \in Active' : epochs'[f].start \in Nat /\ epochs'[f].last \in Nat \cup {Null}
        BY <1>11
      <3>. QED
        BY <1>9, <2>1, <2>2, <2>3, <3>1, <3>2, <3>3, AfterFlush
  <1>13. TailInv'
    <2>1. \A f \in DOMAIN epochs' : epochs'[f].end # Null => epochs'[f].last = Null
      BY <1>4 DEF TimeInv, TailInv
    <2>2. \A f \in Active' :
            /\ epochs'[f].last # Null
            /\ epochs'[f].start <= epochs'[f].last /\ epochs'[f].last <= now'
            /\ \A t \in Instants :
                 epochs'[f].last <= t =>
                   timeline'[t] = IF t < epochs'[f].last + Freshness[epochs'[f].sig]
                                    THEN epochs'[f].state ELSE "none"
      BY <1>1, <1>2, <1>3, <1>4, <1>5, <1>8
    <2>3. Active' # {}
      BY <1>5
    <2>. QED
      BY <2>1, <2>2, <2>3 DEF TailInv, Instants
  <1>14. Known'
    <2>. SUFFICES ASSUME NEW t \in Instants, timeline'[t] \in Counted,
                         t >= Boundary(now, Coarsest)
                  PROVE  \E f \in DOMAIN epochs' : Lives(f, t)'
      BY <1>1 DEF Known, Instants, Boundary, Cutoff, Floor
    <2>0. t \in Nat
      BY <1>2
    <2>1. CASE t < at
      <3>1. \E f \in DOMAIN epochs : Lives(f, t)
        BY <1>8, <2>1 DEF TimeInv, Known
      <3>. QED
        BY <1>4, <1>7, <3>1
    <2>2. CASE at <= t
      <3>1. Lives(e, t)
        BY <1>2, <1>3, <2>0, <2>2 DEF Lives
      <3>. QED
        BY <1>2, <1>4, <1>7, <3>1
    <2>. QED
      BY <1>2, <2>0, <2>1, <2>2
  <1>15. Counts(buckets', RolledUp(spans)')
    <2>. DEFINE D == DOMAIN epochs
                R == RolledUp(spans)
                S == RolledUp(spans)'
    <2>1. DOMAIN R = D /\ DOMAIN S = D
      BY <1>4 DEF RolledUp
    <2>2. \A f \in D, c \in Counted : R[f][c] \subseteq Nat /\ S[f][c] = R[f][c]
      BY <1>12, RolledUpOf
    <2>3. buckets' = AddStats(buckets, Keys(e, at, Tiers), NoTime)
      <3>1. Keys(e, at, Tiers) = {<<e, r, Floor(at, r)>> : r \in Tiers}
        BY DEF Keys
      <3>. QED
        BY <1>1, <3>1
    <2>4. Counts(buckets, R) /\ BucketsFit(buckets, D)
      BY DEF TimeInv, RowInv
    <2>5. ASSUME NEW r \in Tiers
          PROVE  IF at >= Boundary(now, r) THEN r \in Tiers /\ at <= Floor(at, r) + r
                                           ELSE at <= Boundary(now, r)
      <3>1. Boundary(now, r) \in Int /\ r \in Nat \ {0}
        BY <1>2, BoundaryOf, HistoryAssumption
      <3>2. Floor(at, r) \in Int /\ at < Floor(at, r) + r
        BY <1>2, <3>1, FloorOf
      <3>. QED
        BY <1>2, <3>1, <3>2
    <2>6. \A t \in Nat : ~(at <= t /\ t < at)
      BY <1>2
    <2>. HIDE DEF D, R, S
    <2>7. Counts(AddStats(buckets, Keys(e, at, Tiers), NoTime), S)
      <3>1. e \in D /\ at \in Nat /\ now \in Nat /\ Tiers \in SUBSET Tiers
        BY <1>2 DEF D
      <3>2. Gains(R, S, D, e, state, at, at)
        BY <2>1, <2>2, <2>6 DEF Gains
      <3>3. PieceOf(at, at, Tiers)
        BY <1>2, <2>5 DEF PieceOf
      <3>4. NoTime = Duration(state, 0) /\ 0 = at - at
        BY <1>2 DEF Duration, NoTime
      <3>. QED
        BY <2>4, <3>1, <3>2, <3>3, <3>4, AddedCounts
    <2>. QED
      BY <2>3, <2>7 DEF S
  <1>. QED
    BY <1>1, <1>12, <1>13, <1>14, <1>15, CountsNext DEF TimeInv

LEMMA PruneTime ==
  ASSUME EpochInv, RowInv, TimeInv, Prune, RowInv'
  PROVE  TimeInv'
  <1>1. PICK gone \in Batch(Unused(raw', buckets', events')) :
          epochs' = Restrict(epochs, DOMAIN epochs \ gone)
    BY DEF Prune
  <1>2. gone \subseteq Unused(raw', buckets', events')
    BY DEF Batch, kSubset
  <1>3. /\ DOMAIN epochs' = DOMAIN epochs \ gone
        /\ \A e \in DOMAIN epochs' : e \in DOMAIN epochs /\ epochs'[e] = epochs[e]
    BY <1>1 DEF Restrict
  <1>4. PICK removed \in SUBSET UNION {ExpiredBuckets(r) : r \in Tiers} :
          buckets' = Restrict(buckets, DOMAIN buckets \ removed)
    BY DEF Prune
  <1>5. /\ DOMAIN buckets' = DOMAIN buckets \ removed
        /\ \A k \in DOMAIN buckets' : k \in DOMAIN buckets /\ buckets'[k] = buckets[k]
        /\ \A k \in removed : k[2] \in Tiers /\ k[3] < Boundary(now, k[2])
    BY <1>4 DEF Restrict, ExpiredBuckets
  <1>6. now' = now /\ spans' = spans /\ timeline' = timeline
    BY DEF Prune
  <1>7. /\ now \in Nat /\ Instants \subseteq Nat
        /\ \A r \in Tiers : Boundary(now, r) \in Int /\ Boundary(now, r) % r = 0
        /\ \A r \in Tiers : r \in Nat \ {0}
    BY NowType, BoundaryOf, HistoryAssumption
  <1>8. gone \subseteq Ended /\ \A e \in gone : e \in DOMAIN epochs /\ epochs[e].end # Null
    BY <1>2 DEF Unused, Ended
  <1>9. Active' = Active
    BY <1>3, <1>8 DEF Active
  <1>10. \A t : /\ InTail(t)' <=> InTail(t)
                /\ \A e \in DOMAIN epochs' : Lives(e, t)' <=> Lives(e, t)
    <2>1. \A e \in Active : e \in DOMAIN epochs' /\ epochs'[e] = epochs[e]
      BY <1>3, <1>9 DEF Active
    <2>. QED
      BY <1>3, <1>9, <2>1 DEF InTail, Lives
  <1>11. \A e \in Active : epochs'[e] = epochs[e]
    BY <1>3, <1>9 DEF Active
  <1>12. SpanInv(spans)'
    <2>1. \A i \in 1 .. Len(spans) : spans[i].epoch \in DOMAIN epochs'
      <3>. SUFFICES ASSUME NEW i \in 1 .. Len(spans) PROVE spans[i].epoch \in DOMAIN epochs'
        OBVIOUS
      <3>1. spans[i] \in Span(DOMAIN epochs')
        BY <1>6 DEF RowInv, SpansFit
      <3>. QED
        BY <3>1 DEF Span
    <2>2. \A i \in 1 .. Len(spans) : \A t : Lives(spans[i].epoch, t)' <=> Lives(spans[i].epoch, t)
      BY <1>3, <1>6, <2>1 DEF Lives
    <2>3. SpanInv(spans)
      BY DEF TimeInv
    <2>. QED
      BY <1>6, <1>9, <1>11, <2>2, <2>3 DEF SpanInv
  <1>13. TailInv'
    BY <1>3, <1>6, <1>9, <1>11 DEF TimeInv, TailInv, Instants
  <1>14. Known'
    <2>. SUFFICES ASSUME NEW t \in Instants, timeline[t] \in Counted,
                         t >= Boundary(now, Coarsest)
                  PROVE  \E e \in DOMAIN epochs' : Lives(e, t)
      BY <1>6, <1>10 DEF Known, Instants, Boundary, Cutoff, Floor
    <2>1. PICK e \in DOMAIN epochs : Lives(e, t)
      BY DEF TimeInv, Known
    <2>. SUFFICES ASSUME e \in gone PROVE FALSE
      BY <1>3, <2>1
    <2>2. /\ \A k \in DOMAIN buckets' : k[1] # e
          /\ \A i \in 1 .. Len(spans) : spans[i].epoch # e
      BY <1>2 DEF Unused
    <2>3. ~InSpan(spans, t)
      <3>. SUFFICES ASSUME NEW i \in 1 .. Len(spans), spans[i].cursor <= t, t < spans[i].end
                    PROVE  FALSE
        BY DEF InSpan
      <3>1. t \in spans[i].cursor .. spans[i].end - 1
        BY <1>7, SpanOfRow
      <3>2. Lives(spans[i].epoch, t) /\ spans[i].epoch \in DOMAIN epochs
        BY <3>1, SpanOfRow DEF TimeInv, SpanInv
      <3>. QED
        BY <1>7, <2>1, <2>2, <3>2, OneEpoch
    <2>4. ~InTail(t)
      <3>. SUFFICES ASSUME NEW f \in Active, epochs[f].last # Null, epochs[f].last <= t
                    PROVE  FALSE
        BY DEF InTail
      <3>1. Lives(f, t) /\ f \in DOMAIN epochs
        BY <1>7, NowType DEF TimeInv, TailInv, Lives, Active
      <3>2. e = f
        BY <1>7, <2>1, <3>1, OneEpoch
      <3>. QED
        BY <1>8, <3>2 DEF Active
    <2>5. t \in RolledUp(spans)[e][timeline[t]] /\ DOMAIN RolledUp(spans) = DOMAIN epochs
      BY <2>1, <2>3, <2>4, RolledUpOf
    <2>. DEFINE R == RolledUp(spans)
                k == <<e, Coarsest, Floor(t, Coarsest)>>
    <2>6. Counts(buckets, R)
      BY DEF TimeInv
    <2>. HIDE DEF R
    <2>7. k \in DOMAIN buckets
      BY <2>5, <2>6, CoarsestIsATier DEF Counts, R
    <2>8. Boundary(now, Coarsest) <= Floor(t, Coarsest) /\ Floor(t, Coarsest) \in Int
      <3>1. t \in Nat
        BY <1>7
      <3>. QED
        BY <1>7, <3>1, CoarsestIsATier, RetainedFloor
    <2>9. k \notin removed
      BY <1>5, <1>7, <2>8, CoarsestIsATier
    <2>. QED
      BY <1>5, <2>2, <2>7, <2>9
  <1>15. Counts(buckets', RolledUp(spans)')
    <2>. DEFINE R == RolledUp(spans)
                S == RolledUp(spans)'
    <2>1. DOMAIN R = DOMAIN epochs /\ DOMAIN S = DOMAIN epochs'
      BY DEF RolledUp
    <2>2. \A e \in DOMAIN epochs', c \in Counted : S[e][c] = R[e][c] /\ R[e][c] \subseteq Nat
      <3>. SUFFICES ASSUME NEW e \in DOMAIN epochs', NEW c \in Counted
                    PROVE  S[e][c] = R[e][c] /\ R[e][c] \subseteq Nat
        OBVIOUS
      <3>1. S[e][c] = {t \in Instants : timeline'[t] = c /\ Lives(e, t)'
                                          /\ ~InSpan(spans', t) /\ ~InTail(t)'}
        BY DEF RolledUp, InSpan, Instants
      <3>2. R[e][c] = {t \in Instants : timeline[t] = c /\ Lives(e, t)
                                          /\ ~InSpan(spans, t) /\ ~InTail(t)}
        BY <1>3 DEF RolledUp
      <3>. QED
        BY <1>6, <1>7, <1>10, <3>1, <3>2
    <2>3. Counts(buckets, R)
      BY DEF TimeInv
    <2>4. \A k \in DOMAIN buckets' : k[1] \in DOMAIN epochs'
      BY DEF RowInv, BucketsFit, KeyFits
    <2>. HIDE DEF R, S
    <2>5. ASSUME NEW e \in DOMAIN S, NEW c \in Counted, NEW r \in Tiers, NEW t \in S[e][c],
                 t >= Boundary(now, r)
          PROVE  <<e, r, Floor(t, r)>> \in DOMAIN buckets'
      <3>1. t \in Nat /\ t \in R[e][c] /\ e \in DOMAIN R
        BY <1>3, <2>1, <2>2
      <3>2. <<e, r, Floor(t, r)>> \in DOMAIN buckets
        BY <2>3, <2>5, <3>1 DEF Counts
      <3>3. Boundary(now, r) <= Floor(t, r) /\ Floor(t, r) \in Int
        BY <1>7, <2>5, <3>1, RetainedFloor
      <3>4. <<e, r, Floor(t, r)>> \notin removed
        BY <1>5, <1>7, <3>3
      <3>. QED
        BY <1>5, <3>2, <3>4
    <2>6. Counts(buckets', S)
      BY <1>5, <2>1, <2>2, <2>3, <2>4, <2>5 DEF Counts
    <2>. QED
      BY <2>6 DEF S
  <1>. QED
    BY <1>6, <1>12, <1>13, <1>14, <1>15, CountsNext DEF TimeInv

\* A piece lies in one window of every width retained where it begins, and does not reach
\* into what is retained of another one.
LEMMA PieceInWindow ==
  ASSUME now \in Nat, NEW s \in Nat, NEW end \in Nat, s < end, NEW r \in Tiers
  PROVE  IF s >= Boundary(now, r) THEN PieceEnd(s, end) <= Floor(s, r) + r
                                  ELSE PieceEnd(s, end) <= Boundary(now, r)
  <1>. DEFINE S == {w \in Tiers : s >= Boundary(now, w)} \cup {Coarsest}
              m == Smallest(s)
              next == Floor(s, m) + m
              T == {end, next} \cup {b \in {Boundary(now, w) : w \in Tiers} : b > s}
  <1>1. m \in S /\ (\A w \in S : m <= w) /\ S \subseteq Tiers /\ Tiers \subseteq Nat \ {0}
    <2>1. S \subseteq Tiers /\ Tiers \subseteq Nat \ {0} /\ S # {}
      BY CoarsestIsATier, HistoryAssumption
    <2>2. Min(S) \in S /\ \A w \in S : Min(S) <= w
      BY <2>1, MinOfNaturals
    <2>. QED
      BY <2>1, <2>2 DEF Smallest
  <1>2. m \in Tiers /\ m \in Nat \ {0} /\ r \in Nat \ {0}
    BY <1>1
  <1>. HIDE DEF m
  <1>3. Floor(s, m) \in Int /\ Floor(s, m) <= s /\ Floor(s, m) % m = 0 /\ next > s /\ next \in Int
    <2>. DEFINE g == Floor(s, m)
    <2>1. g \in Int /\ g <= s /\ s < g + m /\ g % m = 0
      <3>1. s \in Int /\ m \in Nat \ {0}
        BY <1>2
      <3>. QED
        BY <3>1, FloorOf
    <2>. HIDE DEF g
    <2>2. g + m \in Int /\ g + m > s
      BY <1>2, <2>1
    <2>. QED
      BY <2>1, <2>2 DEF g
  <1>4. \A w \in Tiers : Boundary(now, w) \in Int
    BY BoundaryType
  <1>5. T \subseteq Nat
    BY <1>3, <1>4
  <1>6. \A t \in T : PieceEnd(s, end) <= t
    <2>1. PieceEnd(s, end) = Min(T)
      BY DEF PieceEnd, m
    <2>. HIDE DEF T
    <2>2. T # {}
      BY DEF T
    <2>. QED
      BY <1>5, <2>1, <2>2, MinOfNaturals
  <1>7. PieceEnd(s, end) \in Nat
    BY PieceEndOf
  <1>8. CASE s >= Boundary(now, r)
    <2>1. m <= r
      BY <1>1, <1>8
    <2>2. r % m = 0
      <3>1. CASE m = r
        BY <1>2, <3>1
      <3>2. CASE m # r
        BY <1>2, <2>1, <3>2, HistoryAssumption
      <3>. QED
        BY <3>1, <3>2
    <2>. DEFINE f == Floor(s, r)
                g == Floor(s, m)
    <2>3. f \in Int /\ f % r = 0 /\ s < f + r
      <3>1. s \in Int /\ r \in Nat \ {0}
        BY <1>2
      <3>. QED
        BY <3>1, FloorOf
    <2>4. g \in Int /\ g % m = 0 /\ g <= s
      BY <1>3
    <2>. HIDE DEF f, g
    <2>5. f % m = 0
      BY <1>2, <2>2, <2>3, MultipleOfMultiple
    <2>6. (f + r) % m = 0 /\ f + r \in Int
      <3>1. r \in Int
        BY <1>2
      <3>2. (f + r) % m = 0
        BY <1>2, <2>2, <2>3, <2>5, <3>1, SumOfMultiples
      <3>. QED
        BY <2>3, <3>1, <3>2
    <2>7. g + m <= f + r
      <3>. DEFINE h == f + r
      <3>1. h \in Int /\ h % m = 0 /\ g < h
        BY <2>3, <2>4, <2>6
      <3>. HIDE DEF h
      <3>2. g + m <= h
        BY <1>2, <2>4, <3>1, MultiplesApart
      <3>. QED
        BY <3>2 DEF h
    <2>8. PieceEnd(s, end) <= g + m
      BY <1>6 DEF g
    <2>. QED
      BY <1>2, <1>7, <1>8, <2>3, <2>4, <2>7, <2>8 DEF f
  <1>9. CASE ~(s >= Boundary(now, r))
    <2>1. Boundary(now, r) \in T
      BY <1>4, <1>9
    <2>. QED
      BY <1>6, <1>9, <2>1
  <1>. QED
    BY <1>8, <1>9

\* The spans s after their first one is rolled up until that time.
Shortened(s, until) ==
  IF until = s[1].end THEN Tail(s) ELSE [s EXCEPT ![1].cursor = until]

LEMMA ShortenedSpans ==
  ASSUME EpochInv, NEW s, SpansFit(s, DOMAIN epochs), s # << >>, SpanInv(s),
         NEW until \in Nat, s[1].cursor < until, until <= s[1].end
  PROVE  /\ SpanInv(Shortened(s, until))
         /\ \A t \in Nat : InSpan(s, t) <=> \/ InSpan(Shortened(s, until), t)
                                            \/ s[1].cursor <= t /\ t < until
         /\ \A t \in Nat : s[1].cursor <= t /\ t < until => ~InSpan(Shortened(s, until), t)
  <1>. DEFINE D == DOMAIN epochs
              n == Len(s)
              z == Shortened(s, until)
  <1>1. /\ s \in Seq(Span(D)) /\ n \in Nat /\ n >= 1
        /\ \A i \in 1 .. n : s[i] \in Span(D) /\ s[i].cursor < s[i].end
    BY DEF SpansFit
  <1>2. \A i \in 1 .. n : s[i].cursor \in Nat /\ s[i].end \in Nat
    BY <1>1 DEF Span
  <1>3. \A i \in 2 .. n : s[1].end <= s[i].cursor
    BY <1>1 DEF SpanInv
  <1>4. CASE until = s[1].end
    <2>1. /\ z = Tail(s) /\ Len(z) = n - 1
          /\ \A i \in 1 .. n - 1 : z[i] = s[i + 1] /\ i + 1 \in 2 .. n
      BY <1>1, <1>4 DEF Shortened
    <2>. HIDE DEF z
    <2>2. SpanInv(z)
      <3>1. ASSUME NEW i \in 1 .. Len(z), NEW j \in 1 .. Len(z), i < j
            PROVE  z[i].end <= z[j].cursor
        <4>1. /\ z[i] = s[i + 1] /\ z[j] = s[j + 1]
              /\ i + 1 \in 1 .. n /\ j + 1 \in 1 .. n /\ i + 1 < j + 1
          BY <1>1, <2>1, <3>1
        <4>. QED
          BY <4>1 DEF SpanInv
      <3>2. ASSUME NEW i \in 1 .. Len(z)
            PROVE  z[i] = s[i + 1] /\ i + 1 \in 1 .. n
        BY <1>1, <2>1
      <3>. QED
        BY <3>1, <3>2 DEF SpanInv
    <2>3. ASSUME NEW t \in Nat
          PROVE  /\ InSpan(s, t) <=> InSpan(z, t) \/ (s[1].cursor <= t /\ t < until)
                 /\ s[1].cursor <= t /\ t < until => ~InSpan(z, t)
      <3>1. ASSUME NEW i \in 1 .. n, s[i].cursor <= t, t < s[i].end
            PROVE  InSpan(z, t) \/ (s[1].cursor <= t /\ t < until)
        <4>1. CASE i = 1
          BY <1>4, <3>1, <4>1
        <4>2. CASE i # 1
          <5>1. i - 1 \in 1 .. Len(z) /\ z[i - 1] = s[(i - 1) + 1] /\ (i - 1) + 1 = i
            BY <1>1, <2>1, <4>2
          <5>. QED
            BY <3>1, <5>1 DEF InSpan
        <4>. QED
          BY <4>1, <4>2
      <3>2. ASSUME NEW i \in 1 .. Len(z), z[i].cursor <= t, t < z[i].end
            PROVE  InSpan(s, t) /\ ~(t < until)
        <4>1. z[i] = s[i + 1] /\ i + 1 \in 2 .. n /\ i + 1 \in 1 .. n
          BY <1>1, <2>1
        <4>2. until <= s[i + 1].cursor /\ s[i + 1].cursor \in Nat
          BY <1>2, <1>3, <1>4, <4>1
        <4>. QED
          BY <3>2, <4>1, <4>2 DEF InSpan
      <3>3. s[1].cursor <= t /\ t < until => InSpan(s, t)
        BY <1>1, <1>4 DEF InSpan
      <3>. QED
        BY <3>1, <3>2, <3>3 DEF InSpan
    <2>. QED
      BY <2>2, <2>3 DEF z
  <1>5. CASE until # s[1].end
    <2>. DEFINE first == [s[1] EXCEPT !.cursor = until]
    <2>1. /\ first.cursor = until /\ first.end = s[1].end /\ first.state = s[1].state
          /\ first.epoch = s[1].epoch
      BY <1>1 DEF Span
    <2>2. z = [s EXCEPT ![1] = first]
      BY <1>1, <1>5 DEF Shortened
    <2>. HIDE DEF first, z
    <2>3. Len(z) = n /\ \A i \in 1 .. n : z[i] = IF i = 1 THEN first ELSE s[i]
      BY <1>1, <2>2
    <2>4. SpanInv(z)
      <3>1. ASSUME NEW i \in 1 .. n, NEW j \in 1 .. n, i < j
            PROVE  z[i].end <= z[j].cursor
        <4>1. j # 1 /\ z[j] = s[j] /\ z[i].end = s[i].end
          BY <2>1, <2>3, <3>1
        <4>. QED
          BY <3>1, <4>1 DEF SpanInv
      <3>2. ASSUME NEW i \in 1 .. n
            PROVE  /\ z[i].end = s[i].end /\ z[i].state = s[i].state
                   /\ z[i].epoch = s[i].epoch
                   /\ z[i].cursor .. z[i].end - 1 \subseteq s[i].cursor .. s[i].end - 1
        <4>1. CASE i = 1
          BY <1>1, <1>2, <2>1, <2>3, <4>1
        <4>2. CASE i # 1
          BY <2>3, <4>2
        <4>. QED
          BY <4>1, <4>2
      <3>. QED
        BY <2>3, <3>1, <3>2 DEF SpanInv
    <2>5. ASSUME NEW t \in Nat
          PROVE  /\ InSpan(s, t) <=> InSpan(z, t) \/ (s[1].cursor <= t /\ t < until)
                 /\ s[1].cursor <= t /\ t < until => ~InSpan(z, t)
      <3>1. ASSUME NEW i \in 1 .. n, s[i].cursor <= t, t < s[i].end
            PROVE  InSpan(z, t) \/ (s[1].cursor <= t /\ t < until)
        <4>1. CASE i = 1
          BY <1>1, <2>1, <2>3, <3>1, <4>1 DEF InSpan
        <4>2. CASE i # 1
          BY <2>3, <3>1, <4>2 DEF InSpan
        <4>. QED
          BY <4>1, <4>2
      <3>2. ASSUME NEW i \in 1 .. n, z[i].cursor <= t, t < z[i].end
            PROVE  InSpan(s, t) /\ ~(t < until)
        <4>1. CASE i = 1
          <5>1. until <= t /\ t < s[1].end /\ s[1].cursor <= t /\ 1 \in 1 .. n
            BY <1>1, <1>2, <2>1, <2>3, <3>2, <4>1
          <5>. QED
            BY <5>1 DEF InSpan
        <4>2. CASE i # 1
          <5>1. z[i] = s[i] /\ i \in 2 .. n
            BY <1>1, <2>3, <4>2
          <5>2. s[1].end <= s[i].cursor /\ s[i].cursor \in Nat /\ s[1].end \in Nat
            BY <1>1, <1>2, <1>3, <5>1
          <5>. QED
            BY <3>2, <5>1, <5>2 DEF InSpan
        <4>. QED
          BY <4>1, <4>2
      <3>3. s[1].cursor <= t /\ t < until => InSpan(s, t)
        BY <1>1, <1>2 DEF InSpan
      <3>. QED
        BY <2>3, <3>1, <3>2, <3>3 DEF InSpan
    <2>. QED
      BY <2>4, <2>5 DEF z
  <1>. QED
    BY <1>4, <1>5

\* What it says of these instants is then rolled up.
LEMMA ShortenedRolledUp ==
  ASSUME EpochInv, NEW s, SpansFit(s, DOMAIN epochs), s # << >>, SpanInv(s),
         NEW until \in Nat, s[1].cursor < until, until <= s[1].end,
         NEW f \in DOMAIN epochs, NEW c \in Counted, NEW t \in Nat
  PROVE  /\ t \in RolledUp(Shortened(s, until))[f][c] <=>
              \/ t \in RolledUp(s)[f][c]
              \/ f = s[1].epoch /\ c = s[1].state /\ s[1].cursor <= t /\ t < until
         /\ s[1].cursor <= t /\ t < until => t \notin RolledUp(s)[f][c]
  <1>. DEFINE z == Shortened(s, until)
              In == s[1].cursor <= t /\ t < until
  <1>1. /\ 1 \in 1 .. Len(s) /\ s[1] \in Span(DOMAIN epochs)
        /\ s[1].cursor \in Nat /\ s[1].end \in Nat /\ s[1].epoch \in DOMAIN epochs
    <2>1. 1 \in 1 .. Len(s) /\ s[1] \in Span(DOMAIN epochs)
      BY DEF SpansFit
    <2>. QED
      BY <2>1 DEF Span
  <1>2. /\ InSpan(s, t) <=> InSpan(z, t) \/ In
        /\ In => ~InSpan(z, t)
    BY ShortenedSpans
  <1>3. ASSUME In
        PROVE  /\ t \in Instants /\ timeline[t] = s[1].state /\ Lives(s[1].epoch, t)
               /\ ~InTail(t) /\ (Lives(f, t) => f = s[1].epoch)
    <2>1. t \in s[1].cursor .. s[1].end - 1 /\ t < s[1].end
      BY <1>1, <1>3
    <2>2. s[1].end <= now /\ now \in Instants /\ now \in Nat
      BY <1>1, NowType DEF SpanInv
    <2>3. t \in Instants
      BY <1>1, <2>1, <2>2, HistoryAssumption DEF Instants
    <2>4. timeline[t] = s[1].state /\ Lives(s[1].epoch, t)
      BY <1>1, <2>1 DEF SpanInv
    <2>5. ~InTail(t)
      <3>. SUFFICES ASSUME NEW e \in Active, epochs[e].last # Null, epochs[e].last <= t
                    PROVE  FALSE
        BY DEF InTail
      <3>1. s[1].end <= epochs[e].last /\ epochs[e].last \in Nat
        BY <1>1, NowType DEF SpanInv, Active
      <3>. QED
        BY <1>1, <2>1, <3>1
    <2>6. Lives(f, t) => f = s[1].epoch
      BY <1>1, <2>4, OneEpoch
    <2>. QED
      BY <2>3, <2>4, <2>5, <2>6
  <1>4. t \in RolledUp(z)[f][c] <=>
          t \in Instants /\ timeline[t] = c /\ Lives(f, t) /\ ~InSpan(z, t) /\ ~InTail(t)
    BY RolledUpOf
  <1>5. t \in RolledUp(s)[f][c] <=>
          t \in Instants /\ timeline[t] = c /\ Lives(f, t) /\ ~InSpan(s, t) /\ ~InTail(t)
    BY RolledUpOf
  <1>. HIDE DEF z, In
  <1>6. CASE In
    BY <1>2, <1>3, <1>4, <1>5, <1>6 DEF z, In
  <1>7. CASE ~In
    BY <1>2, <1>4, <1>5, <1>7 DEF z, In
  <1>. QED
    BY <1>6, <1>7

\* The tables have what was observed after some turns of the loop of rollup.
DbTime(db) ==
  IsDb(db, DOMAIN epochs) /\ SpanInv(db.spans) /\ Counts(db.buckets, RolledUp(db.spans))

LEMMA PieceTime ==
  ASSUME EpochInv, NEW db, DbTime(db)
  PROVE  DbTime(RollUpPiece(db))
  <1>. DEFINE D == DOMAIN epochs
              s == db.spans
              b == db.buckets
              span == Head(s)
              low == Boundary(now, Coarsest)
              start == Max({span.cursor, low})
              until == PieceEnd(start, span.end)
              R == RolledUp(s)
  <1>1. now \in Nat /\ IsDb(RollUpPiece(db), D)
    BY NowType, PieceFits DEF DbTime
  <1>2. /\ db = [spans |-> s, buckets |-> b] /\ SpansFit(s, D) /\ BucketsFit(b, D)
        /\ SpanInv(s) /\ Counts(b, R)
    BY DEF DbTime, IsDb
  <1>3. CASE s = << >>
    <2>1. RollUpPiece(db) = db
      BY <1>3 DEF RollUpPiece
    <2>. QED
      BY <2>1
  <1>4. ASSUME s # << >>
        PROVE  /\ span = s[1] /\ span.cursor \in Nat /\ span.end \in Nat
               /\ span.cursor < span.end /\ span.epoch \in D
               /\ low \in Int /\ start \in Nat
               /\ start = IF span.cursor <= low THEN low ELSE span.cursor
    <2>1. /\ s \in Seq(Span(D)) /\ 1 \in 1 .. Len(s) /\ span = s[1]
          /\ s[1] \in Span(D) /\ s[1].cursor < s[1].end
      BY <1>2, <1>4 DEF SpansFit
    <2>2. /\ s[1].cursor \in Nat /\ s[1].end \in Nat /\ s[1].epoch \in D
      BY <2>1 DEF Span
    <2>3. low \in Int
      BY <1>1, BoundaryType, CoarsestIsATier
    <2>4. start = IF span.cursor <= low THEN low ELSE span.cursor
      BY <2>1, <2>2, <2>3, MaxOfTwo
    <2>. HIDE DEF start, low, span
    <2>. QED
      BY <2>1, <2>2, <2>3, <2>4
  <1>5. /\ DOMAIN R = D
        /\ \A f \in D, c \in Counted : R[f][c] \subseteq Nat
    BY RolledUpOf
  <1>6. \A z : /\ DOMAIN RolledUp(z) = D
               /\ \A f \in D, c \in Counted : RolledUp(z)[f][c] \subseteq Nat
    BY RolledUpOf
  <1>7. CASE s # << >> /\ start >= span.end
    <2>1. RollUpPiece(db) = [db EXCEPT !.spans = Tail(@)]
      BY <1>7 DEF RollUpPiece
    <2>2. RollUpPiece(db) = [spans |-> Tail(s), buckets |-> b]
      BY <1>2, <2>1
    <2>3. RollUpPiece(db).spans = Tail(s) /\ RollUpPiece(db).buckets = b
      BY <2>2
    <2>. DEFINE end == span.end
                z == Shortened(s, end)
    <2>4. z = Tail(s) /\ end \in Nat /\ s[1].cursor < end /\ end <= s[1].end /\ end <= low
      BY <1>4, <1>7 DEF Shortened
    <2>. HIDE DEF z, end, start, low, span, R, s, b
    <2>5. SpanInv(z)
      BY <1>2, <1>7, <2>4, ShortenedSpans DEF z
    <2>6. ASSUME NEW f \in D, NEW c \in Counted, NEW t \in Nat, t >= low
          PROVE  t \in RolledUp(z)[f][c] <=> t \in R[f][c]
      <3>1. t \in RolledUp(z)[f][c] <=>
              \/ t \in R[f][c]
              \/ f = s[1].epoch /\ c = s[1].state /\ s[1].cursor <= t /\ t < end
        BY <1>2, <1>7, <2>4, ShortenedRolledUp DEF z, R
      <3>2. ~(t < end)
        BY <1>4, <1>7, <2>4, <2>6
      <3>. QED
        BY <3>1, <3>2
    <2>7. Counts(b, RolledUp(z))
      BY <1>1, <1>2, <1>5, <1>6, <2>6, SameCounts DEF low
    <2>. QED
      BY <1>1, <2>3, <2>4, <2>5, <2>7 DEF DbTime
  <1>8. CASE s # << >> /\ ~(start >= span.end)
    <2>. DEFINE Q == {r \in Tiers : start >= Boundary(now, r)}
                added == AddStats(b, Keys(span.epoch, start, Q),
                                  Duration(span.state, until - start))
                z == Shortened(s, until)
    <2>1. RollUpPiece(db).spans = z /\ RollUpPiece(db).buckets = added
      BY <1>4, <1>8 DEF RollUpPiece, Shortened, Keys
    <2>2. start < span.end /\ span.cursor <= start /\ low <= start
      BY <1>4, <1>8
    <2>. HIDE DEF start, span, low, s, b, R
    <2>3. until \in Nat /\ start < until /\ until <= span.end /\ start <= until
      BY <1>1, <1>4, <1>8, <2>2, PieceEndOf
    <2>4. s[1].cursor < until /\ until <= s[1].end
      BY <1>4, <1>8, <2>2, <2>3
    <2>5. ASSUME NEW r \in Tiers
          PROVE  IF start >= Boundary(now, r)
                   THEN r \in Q /\ until <= Floor(start, r) + r ELSE until <= Boundary(now, r)
      BY <1>1, <1>4, <1>8, <2>2, PieceInWindow
    <2>. HIDE DEF until, z
    <2>6. SpanInv(z)
      BY <1>2, <1>8, <2>3, <2>4, ShortenedSpans DEF z
    <2>7. ASSUME NEW f \in D, NEW c \in Counted, NEW t \in Nat
          PROVE  /\ t \in RolledUp(z)[f][c] <=>
                      \/ t \in R[f][c]
                      \/ f = span.epoch /\ c = span.state /\ span.cursor <= t /\ t < until
                 /\ span.cursor <= t /\ t < until => t \notin R[f][c]
      BY <1>2, <1>4, <1>8, <2>3, <2>4, ShortenedRolledUp DEF z, R
    <2>8. ASSUME NEW f \in D, NEW c \in Counted, NEW t \in Nat, t >= Boundary(now, Coarsest)
          PROVE  t \in RolledUp(z)[f][c] <=>
                   t \in R[f][c] \/ (f = span.epoch /\ c = span.state /\ start <= t /\ t < until)
      <3>1. t >= low
        BY <2>8 DEF low
      <3>2. span.cursor <= t <=> start <= t
        BY <1>4, <1>8, <3>1
      <3>. QED
        BY <2>7, <3>2
    <2>9. ASSUME NEW c \in Counted, NEW t \in Nat, c = span.state, start <= t, t < until
          PROVE  t \notin R[span.epoch][c]
      <3>1. span.cursor <= t
        BY <1>4, <1>8, <2>2, <2>9
      <3>. QED
        BY <1>4, <1>8, <2>7, <2>9, <3>1
    <2>10. Counts(added, RolledUp(z))
      <3>. DEFINE S == RolledUp(z)
                  n == until - start
                  stats == Duration(span.state, n)
      <3>1. n = until - start /\ stats = Duration(span.state, n) /\ Q \in SUBSET Tiers
        OBVIOUS
      <3>2. Gains(R, S, D, span.epoch, span.state, start, until)
        <4>1. /\ DOMAIN S = D
              /\ \A f \in D, c \in Counted : R[f][c] \subseteq Nat /\ S[f][c] \subseteq Nat
          BY <1>5, <1>6
        <4>2. \A f \in D, c \in Counted, t \in Nat :
                t >= Boundary(now, Coarsest) =>
                  (t \in S[f][c] <=>
                     t \in R[f][c]
                       \/ (f = span.epoch /\ c = span.state /\ start <= t /\ t < until))
          BY <2>8
        <4>3. \A c \in Counted, t \in Nat :
                c = span.state /\ start <= t /\ t < until => t \notin R[span.epoch][c]
          BY <2>9
        <4>. HIDE DEF S, D
        <4>. QED
          BY <1>5, <4>1, <4>2, <4>3 DEF Gains
      <3>3. PieceOf(start, until, Q)
        BY <2>3, <2>5 DEF PieceOf
      <3>4. start \in Nat /\ span.epoch \in D /\ until \in Nat
        BY <1>4, <1>8, <2>3
      <3>5. BucketsFit(b, D) /\ Counts(b, R)
        BY <1>2
      <3>. HIDE DEF S, Q, stats, D, n
      <3>6. Counts(AddStats(b, Keys(span.epoch, start, Q), stats), S)
        BY <1>1, <3>1, <3>2, <3>3, <3>4, <3>5, AddedCounts
      <3>. QED
        BY <3>6 DEF S, stats, n
    <2>. QED
      BY <1>1, <2>1, <2>6, <2>10 DEF DbTime
  <1>. QED
    BY <1>3, <1>7, <1>8 DEF DbTime

LEMMA RollUpTime ==
  ASSUME EpochInv, RowInv, TimeInv, RollUp
  PROVE  TimeInv'
  <1>1. BatchSize \in Nat
    BY HistoryAssumption
  <1>. DEFINE after == CHOOSE after : Turns(after, BatchSize)
  <1>2. /\ spans' = after[BatchSize].spans /\ buckets' = after[BatchSize].buckets
        /\ now' = now /\ epochs' = epochs /\ timeline' = timeline
    BY DEF RollUp, Turns
  <1>3. Turns(after, BatchSize)
    BY <1>1, TurnsExist
  <1>. HIDE DEF after
  <1>. DEFINE T == {m \in Nat : m <= BatchSize => DbTime(after[m])}
  <1>4. 0 \in T
    <2>1. after[0] = [spans |-> spans, buckets |-> buckets]
      BY <1>1, <1>3 DEF Turns
    <2>. QED
      BY <2>1 DEF IsDb, DbTime, RowInv, TimeInv
  <1>5. ASSUME NEW m \in Nat, m \in T
        PROVE  m + 1 \in T
    <2>. SUFFICES ASSUME m + 1 <= BatchSize PROVE DbTime(after[m + 1])
      OBVIOUS
    <2>1. DbTime(after[m])
      BY <1>1, <1>5
    <2>2. after[m + 1] = RollUpPiece(after[m])
      BY <1>1, <1>3 DEF Turns
    <2>. QED
      BY <2>1, <2>2, PieceTime
  <1>6. BatchSize \in T
    <2>. HIDE DEF T
    <2>. QED
      BY <1>1, <1>4, <1>5, AllNaturals
  <1>7. SpanInv(spans') /\ Counts(buckets', RolledUp(spans'))
    BY <1>1, <1>2, <1>6 DEF DbTime
  <1>8. Active' = Active
    BY <1>2 DEF Active
  <1>9. SpanInv(spans)'
    BY <1>2, <1>7, <1>8 DEF SpanInv, Lives
  <1>10. TailInv'
    BY <1>2, <1>8 DEF TimeInv, TailInv, Instants
  <1>11. Known'
    BY <1>2 DEF TimeInv, Known, Lives, Instants, Boundary, Cutoff, Floor
  <1>12. RolledUp(spans)' = RolledUp(spans')
    BY <1>2, <1>8 DEF RolledUp, Lives, InSpan, InTail, Instants
  <1>. QED
    BY <1>2, <1>7, <1>9, <1>10, <1>11, <1>12, CountsNext DEF TimeInv

\* Whatever has been rolled up or pruned, the spans, the buckets of every width and the
\* last observation have what was observed at each retained instant, once (record,
\* rollup, prune, sync_epochs).
THEOREM HistoryKeepsTime == Spec => []TimeInv
  <1>1. Init => TimeInv
    BY InitialTime
  <1>2. EpochInv /\ RowInv /\ RowInv' /\ TimeInv /\ [Next]_vars => TimeInv'
    <2>. SUFFICES ASSUME EpochInv, RowInv, RowInv', TimeInv, [Next]_vars PROVE TimeInv'
      OBVIOUS
    <2>. QED
      BY TickTime, SyncTime, RecordTime, RollUpTime, PruneTime, SameTime DEF Next
  <1>. QED
    BY <1>1, <1>2, HistoryInvariant, PTL DEF Spec

-----------------------------------------------------------------------------
(* The grid of an answer.                                                  *)

LEMMA TimesUpTo ==
  ASSUME NEW n \in Nat, NEW s \in Nat \ {0}, NEW i \in Nat, i <= n \div s
  PROVE  i * s \in Nat /\ i * s <= n /\ (i * s) % s = 0
  <1>. DEFINE q == n \div s
  <1>1. q \in Nat /\ s * q <= n
    OBVIOUS
  <1>. HIDE DEF q
  <1>2. i <= q
    BY DEF q
  <1>3. s * i \in Int /\ s * i <= s * q
    BY <1>1, <1>2, LessTimes
  <1>4. i * s = s * i /\ s * i >= 0
    BY LessTimes
  <1>5. (s * i) % s = 0
    OBVIOUS
  <1>. DEFINE p == s * i
  <1>6. s * q \in Int
    BY <1>1
  <1>. QED
    BY <1>1, <1>3, <1>4, <1>5, <1>6

LEMMA SourceOf ==
  ASSUME NEW q
  PROVE  Source(q) \in Tiers /\ Source(q) \in Nat \ {0}
  <1>. DEFINE length == Min({q.to, now}) - q.from
              desired == length \div q.points
              fits(r) == /\ q.from >= Cutoff(now, Retention[r])
                         /\ \A s \in Tiers : s > r => desired < s
                         /\ Cardinality(Selected(q)) * (length \div r + 1) <= MaxRows
              S == {r \in Tiers : fits(r)} \cup {Coarsest}
  <1>1. Source(q) = Min(S)
    BY DEF Source
  <1>. HIDE DEF fits
  <1>2. S \subseteq Tiers /\ Tiers \subseteq Nat \ {0} /\ S # {}
    BY CoarsestIsATier, HistoryAssumption
  <1>. HIDE DEF S
  <1>3. Min(S) \in S
    BY <1>2, MinOfNaturals
  <1>. QED
    BY <1>1, <1>2, <1>3

\* The points of an answer are whole windows up to now.
LEMMA GridOf ==
  ASSUME EpochInv, NEW q \in Requests
  PROVE  LET g == Grid(q)
         IN  /\ g.width \in Tiers /\ g.width \in Nat \ {0}
             /\ g.from \in Nat /\ g.to \in Nat /\ g.from < g.to /\ g.to <= now
             /\ g.from % g.width = 0 /\ (g.to = now \/ g.to % g.width = 0)
             /\ g.step \in Nat \ {0} /\ g.step % g.width = 0
             /\ g.retained = Boundary(now, g.width)
             /\ g.chosen = {e \in DOMAIN epochs : epochs[e].start < g.to /\ EpochEnd(e) > g.from}
             /\ g.starts = {g.from + i * g.step : i \in 0 .. (g.to - g.from - 1) \div g.step}
  <1>. DEFINE w == Source(q)
              from == Floor(q.from, w)
              m == Min({q.to, now}) - 1
              to == Min({Floor(m, w) + w, now})
              span == q.points * w
              x == (to - from + span - 1) \div span
              k == Max({1, x})
              step == w * k
  <1>1. /\ Grid(q).width = w /\ Grid(q).from = from /\ Grid(q).to = to
        /\ Grid(q).step = step /\ Grid(q).retained = Boundary(now, w)
        /\ Grid(q).chosen = {e \in DOMAIN epochs : epochs[e].start < to /\ EpochEnd(e) > from}
        /\ Grid(q).starts = {from + i * step : i \in 0 .. (to - from - 1) \div step}
    BY DEF Grid
  <1>2. /\ now \in Nat /\ w \in Tiers /\ w \in Nat \ {0}
        /\ q.from \in Nat /\ q.to \in Nat /\ q.points \in Nat \ {0}
        /\ q.from < q.to /\ q.from < now
    BY NowType, SourceOf, HistoryAssumption DEF Requests
  <1>. HIDE DEF w
  <1>3. from \in Nat /\ from <= q.from /\ from % w = 0
    <2>. DEFINE t == q.from
    <2>1. t \in Int /\ t \in Nat /\ w \in Nat \ {0}
      BY <1>2
    <2>. HIDE DEF t
    <2>2. Floor(t, w) \in Nat /\ Floor(t, w) <= t /\ Floor(t, w) % w = 0
      BY <2>1, FloorOf, FloorOfNat
    <2>. QED
      BY <2>2 DEF t
  <1>4. m \in Nat /\ q.from <= m
    BY <1>2, MinOfTwo
  <1>. HIDE DEF m, from
  <1>5. /\ to \in Nat /\ from < to /\ to <= now /\ (to = now \/ to % w = 0)
    <2>. DEFINE f == Floor(m, w)
                u == f + w
    <2>1. f \in Nat /\ m < f + w /\ f % w = 0
      <3>1. m \in Int /\ m \in Nat /\ w \in Nat \ {0}
        BY <1>2, <1>4
      <3>. QED
        BY <3>1, FloorOf, FloorOfNat
    <2>. HIDE DEF f
    <2>2. u \in Nat /\ m < u
      BY <1>2, <2>1
    <2>3. u % w = 0
      <3>1. w % w = 0 /\ w \in Int /\ f \in Int
        BY <1>2, <2>1
      <3>. QED
        BY <1>2, <2>1, <3>1, SumOfMultiples
    <2>4. to = Min({u, now})
      BY DEF f
    <2>. HIDE DEF u, to
    <2>5. to = IF u <= now THEN u ELSE now
      BY <1>2, <2>2, <2>4, MinOfTwo
    <2>. QED
      BY <1>2, <1>3, <1>4, <2>2, <2>3, <2>5
  <1>. HIDE DEF to
  <1>6. x \in Int
    <2>1. span \in Nat \ {0}
      BY <1>2
    <2>. HIDE DEF span
    <2>. QED
      BY <1>3, <1>5, <2>1
  <1>. HIDE DEF x
  <1>7. k \in Int /\ 1 <= k
    BY <1>6, MaxOfTwo
  <1>. HIDE DEF k
  <1>8. step \in Nat \ {0} /\ step % w = 0
    <2>1. w * 1 <= w * k /\ w * k \in Int
      BY <1>2, <1>7, LessTimes
    <2>2. (w * k) % w = 0
      BY <1>2, <1>7
    <2>3. w * 1 = w
      BY <1>2
    <2>. DEFINE p == w * k
    <2>. HIDE DEF p
    <2>4. p \in Nat \ {0} /\ p % w = 0
      BY <1>2, <2>1, <2>2, <2>3 DEF p
    <2>. QED
      BY <2>4 DEF p
  <1>. HIDE DEF step
  <1>. QED
    BY <1>1, <1>2, <1>3, <1>5, <1>8

LEMMA PointOf ==
  ASSUME EpochInv, NEW q \in Requests, NEW b \in Grid(q).starts
  PROVE  LET g == Grid(q)
             end == PointEnd(g, b)
         IN  /\ b \in Nat /\ b % g.width = 0 /\ g.from <= b
             /\ end \in Nat /\ b < end /\ end <= g.to /\ end <= now
             /\ end = IF b + g.step <= g.to THEN b + g.step ELSE g.to
             /\ end = now \/ end % g.width = 0
  <1>. DEFINE g == Grid(q)
              from == g.from
              to == g.to
              w == g.width
              step == g.step
              end == PointEnd(g, b)
  <1>1. /\ now \in Nat /\ w \in Nat \ {0} /\ from \in Nat /\ to \in Nat /\ from < to /\ to <= now
        /\ from % w = 0 /\ (to = now \/ to % w = 0) /\ step \in Nat \ {0} /\ step % w = 0
    BY GridOf, NowType
  <1>2. PICK i \in 0 .. (to - from - 1) \div step : b = from + i * step
    BY GridOf
  <1>3. end = Min({b + step, to})
    BY DEF PointEnd
  <1>. HIDE DEF g, from, to, w, step, end
  <1>. DEFINE n == to - from - 1
              p == i * step
  <1>4. n \in Nat /\ i \in Nat /\ i <= n \div step
    BY <1>1
  <1>. HIDE DEF n
  <1>5. p \in Nat /\ p <= n /\ p % step = 0
    BY <1>1, <1>4, TimesUpTo
  <1>. HIDE DEF p
  <1>6. p % w = 0
    <2>1. p \in Int /\ step \in Nat \ {0} /\ w \in Nat \ {0}
      BY <1>1, <1>5
    <2>. QED
      BY <1>1, <1>5, <2>1, MultipleOfMultiple
  <1>7. b = from + p /\ b \in Nat /\ from <= b /\ b < to
    BY <1>1, <1>2, <1>5 DEF p, n
  <1>8. b % w = 0
    <2>1. p \in Int /\ from \in Int /\ w \in Nat \ {0} /\ from % w = 0
      BY <1>1, <1>5
    <2>2. (from + p) % w = 0
      BY <1>6, <2>1, SumOfMultiples
    <2>. QED
      BY <1>7, <2>2
  <1>. DEFINE u == b + step
  <1>9. u \in Nat /\ b < u
    BY <1>1, <1>7
  <1>10. u % w = 0
    BY <1>1, <1>7, <1>8, SumOfMultiples
  <1>11. end = IF u <= to THEN u ELSE to
    BY <1>1, <1>3, <1>9, MinOfTwo
  <1>. HIDE DEF u
  <1>12. end \in Nat /\ b < end /\ end <= to /\ end <= now /\ (end = now \/ end % w = 0)
    BY <1>1, <1>7, <1>9, <1>10, <1>11
  <1>. QED
    BY <1>7, <1>8, <1>11, <1>12 DEF g, from, to, w, step, end, u

-----------------------------------------------------------------------------
(* What an answer shows.                                                   *)

\* The instants of [s, t) in [u, v).
Shared(s, t, u, v) == {x \in u .. v - 1 : s <= x /\ x < t}

\* The length of an overlap is its number of instants.
LEMMA OverlapSize ==
  ASSUME NEW s \in Int, NEW t \in Int, NEW u \in Int, NEW v \in Int
  PROVE  /\ IsFiniteSet(Shared(s, t, u, v))
         /\ Overlap(s, t, u, v) = Cardinality(Shared(s, t, u, v))
  <1>. DEFINE m == Max({s, u})
              n == Min({t, v})
              X == Shared(s, t, u, v)
  <1>1. m = (IF s <= u THEN u ELSE s) /\ n = (IF t <= v THEN t ELSE v) /\ m \in Int /\ n \in Int
    BY MaxOfTwo, MinOfTwo
  <1>2. Overlap(s, t, u, v) = Max({0, n - m})
    BY DEF Overlap
  <1>. HIDE DEF m, n
  <1>3. X = m .. n - 1
    BY <1>1 DEF Shared
  <1>. DEFINE d == n - m
  <1>4. d \in Int /\ Max({0, d}) = IF 0 <= d THEN d ELSE 0
    BY <1>1, MaxOfTwo
  <1>. HIDE DEF X
  <1>5. CASE m <= n
    <2>1. IsFiniteSet(m .. n - 1) /\ Cardinality(m .. n - 1) = n - m
      BY <1>1, <1>5, IntervalSize
    <2>2. Overlap(s, t, u, v) = n - m
      BY <1>1, <1>2, <1>4, <1>5
    <2>. QED
      BY <1>3, <2>1, <2>2 DEF X
  <1>6. CASE ~(m <= n)
    <2>1. X = {}
      BY <1>1, <1>3, <1>6
    <2>. QED
      BY <1>1, <1>2, <1>4, <1>6, <2>1, FS_EmptySet DEF X
  <1>. QED
    BY <1>5, <1>6

\* The three parts of a point: rows of buckets, spans and last observations.
RowsOf(g, b) ==
  {k \in DOMAIN buckets :
     /\ k[1] \in g.chosen /\ k[2] = g.width
     /\ k[3] >= Max({b, g.retained}) /\ k[3] < PointEnd(g, b)}
SpansOf(g, c) == {i \in 1 .. Len(spans) : spans[i].epoch \in g.chosen /\ spans[i].state = c}
TailsOf(g, c) == {e \in g.chosen : epochs[e].last # Null /\ epochs[e].state = c}
Within(g, b, s, t) == Overlap(Max({s, g.retained}), Min({t, g.to}), b, b + g.step)

FromRows(g, b, c) == SumFunction([k \in RowsOf(g, b) |-> buckets[k][c]])
FromSpans(g, b, c) ==
  SumFunction([i \in SpansOf(g, c) |-> Within(g, b, spans[i].cursor, spans[i].end)])
FromTails(g, b, c) ==
  SumFunction([e \in TailsOf(g, c) |->
                 Within(g, b, epochs[e].last, TailEnd(e, EpochEnd(e)))])

LEMMA ShownParts ==
  ASSUME NEW g, NEW b, NEW c, ~(PointEnd(g, b) <= g.retained)
  PROVE  Shown(g, b, c) = FromRows(g, b, c) + FromSpans(g, b, c) + FromTails(g, b, c)
  BY DEF Shown, FromRows, FromSpans, FromTails, RowsOf, SpansOf, TailsOf, Within

\* The instants a point shows.
Visible(g, b) == Max({b, g.retained}) .. PointEnd(g, b) - 1

LEMMA VisibleOf ==
  ASSUME EpochInv, NEW q \in Requests, NEW b \in Grid(q).starts
  PROVE  LET g == Grid(q)
         IN  /\ IsFiniteSet(Visible(g, b))
             /\ \A t \in Visible(g, b) :
                  /\ t \in Instants /\ t \in Nat /\ t >= g.retained /\ t >= b
                  /\ t < PointEnd(g, b) /\ t < now
                  /\ t >= Boundary(now, Coarsest)
                  /\ \A e \in DOMAIN epochs : Lives(e, t) => e \in g.chosen
             /\ Max({b, g.retained}) \in Nat
             /\ Max({b, g.retained}) = IF b <= g.retained THEN g.retained ELSE b
  <1>. DEFINE g == Grid(q)
              end == PointEnd(g, b)
              lo == Max({b, g.retained})
  <1>1. /\ now \in Nat /\ now \in Instants /\ MaxTime \in Nat
        /\ g.width \in Tiers /\ g.to \in Nat /\ g.from \in Nat
        /\ g.retained = Boundary(now, g.width) /\ g.retained \in Int
        /\ Boundary(now, Coarsest) <= g.retained /\ Boundary(now, Coarsest) \in Int
        /\ g.chosen = {e \in DOMAIN epochs : epochs[e].start < g.to /\ EpochEnd(e) > g.from}
    BY GridOf, NowType, BoundaryOf, CoarsestIsATier, HistoryAssumption
  <1>2. b \in Nat /\ g.from <= b /\ end \in Nat /\ b < end /\ end <= g.to /\ end <= now
    BY PointOf
  <1>. HIDE DEF g, end
  <1>3. lo = (IF b <= g.retained THEN g.retained ELSE b) /\ lo \in Nat
    BY <1>1, <1>2, MaxOfTwo
  <1>. HIDE DEF lo
  <1>4. Visible(g, b) = lo .. end - 1
    BY DEF Visible, lo, end
  <1>5. IsFiniteSet(lo .. end - 1)
    <2>1. end - 1 \in Int /\ lo \in Int
      BY <1>2, <1>3
    <2>. QED
      BY <2>1, FS_Interval
  <1>6. ASSUME NEW t \in lo .. end - 1
        PROVE  /\ t \in Instants /\ t \in Nat /\ t >= g.retained /\ t >= b /\ t < end /\ t < now
               /\ t >= Boundary(now, Coarsest)
               /\ \A e \in DOMAIN epochs : Lives(e, t) => e \in g.chosen
    <2>1. t \in Nat /\ t >= g.retained /\ t >= b /\ t < end /\ t < now
      BY <1>1, <1>2, <1>3
    <2>2. t \in Instants /\ t >= Boundary(now, Coarsest)
      BY <1>1, <2>1 DEF Instants
    <2>3. ASSUME NEW e \in DOMAIN epochs, Lives(e, t)
          PROVE  e \in g.chosen
      <3>1. /\ epochs[e].start \in Nat /\ epochs[e].start <= t
            /\ epochs[e].end # Null => epochs[e].end \in Nat /\ t < epochs[e].end
        BY <2>3, NowType DEF Lives
      <3>2. EpochEnd(e) \in Int /\ t < EpochEnd(e)
        BY <1>1, <2>1, <3>1, MinOfTwo DEF EpochEnd
      <3>. QED
        BY <1>1, <1>2, <2>1, <3>1, <3>2
    <2>. QED
      BY <2>1, <2>2, <2>3
  <1>. QED
    BY <1>3, <1>4, <1>5, <1>6 DEF g, end, lo

\* What a point shows of [s, t) is the number of its instants there.
LEMMA WithinSize ==
  ASSUME EpochInv, NEW q \in Requests, NEW b \in Grid(q).starts, NEW s \in Int, NEW t \in Int
  PROVE  LET g == Grid(q)
             X == {x \in Visible(g, b) : s <= x /\ x < t}
         IN  IsFiniteSet(X) /\ Within(g, b, s, t) = Cardinality(X)
  <1>. DEFINE g == Grid(q)
              low == g.retained
              to == g.to
              u == b + g.step
              lo == Max({b, low})
              end == PointEnd(g, b)
              m == Max({s, low})
              n == Min({t, to})
              X == {x \in Visible(g, b) : s <= x /\ x < t}
              Y == Shared(m, n, b, u)
  <1>1. b \in Int /\ u \in Int /\ low \in Int /\ to \in Int
    BY GridOf, PointOf, NowType, BoundaryOf
  <1>2. Visible(g, b) = lo .. end - 1 /\ end = Min({u, to})
    BY DEF Visible, PointEnd
  <1>3. Within(g, b, s, t) = Overlap(m, n, b, u)
    BY DEF Within
  <1>. HIDE DEF low, to, u, g
  <1>4. /\ m = (IF s <= low THEN low ELSE s) /\ n = (IF t <= to THEN t ELSE to)
        /\ lo = (IF b <= low THEN low ELSE b) /\ Min({u, to}) = (IF u <= to THEN u ELSE to)
    BY <1>1, MaxOfTwo, MinOfTwo
  <1>5. end = (IF u <= to THEN u ELSE to) /\ m \in Int /\ n \in Int
    BY <1>1, <1>2, <1>4
  <1>. HIDE DEF m, n, lo, end
  <1>6. X = Y
    <2>1. ASSUME NEW x \in Int
          PROVE  (lo <= x /\ x <= end - 1 /\ s <= x /\ x < t)
                   <=> (b <= x /\ x <= u - 1 /\ m <= x /\ x < n)
      BY <1>1, <1>4, <1>5
    <2>2. lo \in Int /\ end \in Int
      BY <1>1, <1>4, <1>5
    <2>3. X = {x \in Int : lo <= x /\ x <= end - 1 /\ s <= x /\ x < t}
      BY <1>2, <2>2
    <2>4. Y = {x \in Int : b <= x /\ x <= u - 1 /\ m <= x /\ x < n}
      BY <1>1 DEF Shared
    <2>. HIDE DEF X, Y
    <2>. QED
      BY <2>1, <2>3, <2>4
  <1>7. IsFiniteSet(Y) /\ Overlap(m, n, b, u) = Cardinality(Y)
    BY <1>1, <1>5, OverlapSize
  <1>. HIDE DEF X, Y
  <1>. QED
    BY <1>3, <1>6, <1>7 DEF X, g

LEMMA RowsShown ==
  ASSUME EpochInv, RowInv, TimeInv, NEW q \in Requests, NEW b \in Grid(q).starts,
         NEW c \in Counted
  PROVE  FromRows(Grid(q), b, c) =
           Cardinality({t \in Visible(Grid(q), b) :
                          \E e \in DOMAIN epochs : t \in RolledUp(spans)[e][c]})
  <1>. DEFINE g == Grid(q)
              w == g.width
              end == PointEnd(g, b)
              lo == Max({b, g.retained})
              R == RolledUp(spans)
              rows == RowsOf(g, b)
              f == [k \in rows |-> buckets[k][c]]
              T == [k \in rows |-> R[k[1]][c] \cap Window(k)]
              V == {t \in Visible(g, b) : \E e \in DOMAIN epochs : t \in R[e][c]}
  <1>1. /\ now \in Nat /\ w \in Tiers /\ w \in Nat \ {0} /\ g.retained = Boundary(now, w)
        /\ g.retained \in Int /\ g.retained % w = 0
    BY GridOf, NowType, BoundaryOf
  <1>2. b \in Nat /\ b % w = 0 /\ end \in Nat /\ (end = now \/ end % w = 0)
    BY PointOf
  <1>3. /\ lo \in Nat /\ lo >= g.retained /\ lo % w = 0
        /\ \A t \in Visible(g, b) :
             /\ t \in Nat /\ t >= g.retained /\ lo <= t /\ t < end
             /\ \A e \in DOMAIN epochs : Lives(e, t) => e \in g.chosen
        /\ \A t \in Nat : lo <= t /\ t < end => t \in Visible(g, b)
    <2>1. lo = (IF b <= g.retained THEN g.retained ELSE b) /\ lo \in Nat
      BY VisibleOf
    <2>2. Visible(g, b) = lo .. end - 1
      BY DEF Visible
    <2>3. \A t \in Visible(g, b) :
            /\ t \in Nat /\ t >= g.retained /\ t < end
            /\ \A e \in DOMAIN epochs : Lives(e, t) => e \in g.chosen
      BY VisibleOf
    <2>. HIDE DEF g, w, lo, end
    <2>. QED
      BY <1>1, <1>2, <2>1, <2>2, <2>3
  <1>4. Counts(buckets, R) /\ BucketsFit(buckets, DOMAIN epochs)
    BY DEF TimeInv, RowInv
  <1>5. /\ DOMAIN R = DOMAIN epochs
        /\ \A e \in DOMAIN epochs : \A t \in R[e][c] :
             /\ t \in Instants /\ t \in Nat /\ timeline[t] = c /\ Lives(e, t) /\ ~InTail(t)
    BY RolledUpOf
  <1>6. \A e \in DOMAIN epochs : \A t \in R[e][c] : t < now
    BY <1>5, ObservedBefore DEF TimeInv
  <1>7. ASSUME NEW k \in rows
        PROVE  /\ k \in DOMAIN buckets /\ k = <<k[1], k[2], k[3]>> /\ k[1] \in DOMAIN epochs
               /\ k[2] = w /\ k[3] \in Nat /\ k[3] % w = 0 /\ lo <= k[3] /\ k[3] < end
               /\ Window(k) = k[3] .. k[3] + w - 1
               /\ buckets[k][c] = Cardinality(R[k[1]][c] \cap Window(k))
    <2>1. k \in DOMAIN buckets /\ k[2] = w /\ k[3] >= lo /\ k[3] < end
      BY <1>7 DEF RowsOf
    <2>2. k = <<k[1], k[2], k[3]>> /\ k[3] \in Nat /\ k[1] \in DOMAIN epochs /\ k[3] % w = 0
      BY <1>4, <2>1 DEF Counts, BucketsFit, KeyFits
    <2>3. k[3] >= Boundary(now, k[2])
      BY <1>1, <1>3, <2>1, <2>2
    <2>4. buckets[k][c] = Cardinality(R[k[1]][c] \cap Window(k))
      BY <1>4, <2>1, <2>3 DEF Counts
    <2>. QED
      BY <1>3, <2>1, <2>2, <2>4 DEF Window
  <1>8. IsFiniteSet(rows)
    <2>1. rows \subseteq DOMAIN buckets
      BY DEF RowsOf
    <2>. QED
      BY <1>4, <2>1, FS_Subset DEF BucketsFit
  <1>. HIDE DEF g, w, end, lo, rows, R
  <1>9. ASSUME NEW k \in rows, NEW n \in Int, n = k[3]
        PROVE  /\ n \in Nat /\ n % w = 0 /\ lo <= n /\ n < end
               /\ k[1] \in DOMAIN epochs /\ k = <<k[1], w, n>>
               /\ T[k] = R[k[1]][c] \cap (n .. n + w - 1)
               /\ f[k] = Cardinality(T[k])
    <2>1. /\ n \in Nat /\ n % w = 0 /\ lo <= n /\ n < end
          /\ k[1] \in DOMAIN epochs /\ k = <<k[1], w, n>>
          /\ Window(k) = n .. n + w - 1
          /\ buckets[k][c] = Cardinality(R[k[1]][c] \cap Window(k))
      BY <1>7, <1>9
    <2>2. T[k] = R[k[1]][c] \cap Window(k) /\ f[k] = buckets[k][c]
      OBVIOUS
    <2>. HIDE DEF f, T
    <2>. QED
      BY <2>1, <2>2
  <1>10. ASSUME NEW k \in rows
         PROVE  k[3] \in Int
    <2>1. k[3] \in Nat
      BY <1>7
    <2>. QED
      BY <2>1
  <1>. HIDE DEF f, T
  <1>11. ASSUME NEW k \in rows
         PROVE  IsFiniteSet(T[k]) /\ f[k] = Cardinality(T[k])
    <2>1. PICK n \in Int : n = k[3]
      BY <1>10
    <2>2. T[k] \subseteq n .. n + w - 1 /\ f[k] = Cardinality(T[k])
      BY <1>9, <2>1
    <2>. DEFINE z == n + w
    <2>3. z \in Int /\ n <= z
      BY <1>1
    <2>4. T[k] \subseteq n .. z - 1
      <3>1. n + w - 1 = z - 1
        BY <1>1
      <3>. QED
        BY <2>2, <3>1
    <2>. HIDE DEF z
    <2>5. IsFiniteSet(n .. z - 1)
      BY <2>3, IntervalSize
    <2>. QED
      BY <2>2, <2>4, <2>5, FS_Subset
  <1>12. ASSUME NEW k \in rows, NEW l \in rows, NEW t \in T[k], t \in T[l]
         PROVE  k = l
    <2>1. PICK m \in Int : m = k[3]
      BY <1>10
    <2>2. PICK n \in Int : n = l[3]
      BY <1>10
    <2>3. /\ m % w = 0 /\ k[1] \in DOMAIN epochs /\ k = <<k[1], w, m>>
          /\ t \in R[k[1]][c] /\ t \in m .. m + w - 1
      BY <1>9, <1>12, <2>1
    <2>4. /\ n % w = 0 /\ l[1] \in DOMAIN epochs /\ l = <<l[1], w, n>>
          /\ t \in R[l[1]][c] /\ t \in n .. n + w - 1
      BY <1>9, <1>12, <2>2
    <2>5. t \in Int /\ m <= t /\ t < m + w /\ n <= t /\ t < n + w /\ w \in Nat \ {0}
      BY <1>1, <2>3, <2>4
    <2>6. Floor(t, w) = m
      BY <2>3, <2>5, FloorIs
    <2>7. Floor(t, w) = n
      BY <2>4, <2>5, FloorIs
    <2>8. Lives(k[1], t) /\ Lives(l[1], t)
      BY <1>5, <2>3, <2>4
    <2>9. t \in Nat
      BY <1>5, <2>3
    <2>10. k[1] = l[1]
      BY <2>3, <2>4, <2>8, <2>9, OneEpoch
    <2>. QED
      BY <2>3, <2>4, <2>6, <2>7, <2>10
  <1>13. ASSUME NEW k \in rows, NEW t \in T[k]
         PROVE  t \in V
    <2>1. PICK n \in Int : n = k[3]
      BY <1>10
    <2>2. /\ n \in Nat /\ n % w = 0 /\ lo <= n /\ n < end
          /\ k[1] \in DOMAIN epochs /\ t \in R[k[1]][c] /\ t \in n .. n + w - 1
      BY <1>9, <1>13, <2>1
    <2>3. t \in Nat /\ t < now
      BY <1>5, <1>6, <2>2
    <2>4. n <= t /\ t < n + w
      BY <1>1, <2>2
    <2>5. t < end
      <3>1. CASE end = now
        BY <2>3, <3>1
      <3>2. CASE end % w = 0
        <4>1. w \in Nat \ {0} /\ n \in Int /\ end \in Int /\ n % w = 0 /\ n < end
          BY <1>1, <1>2, <2>2
        <4>2. n + w <= end
          BY <3>2, <4>1, MultiplesApart
        <4>. QED
          BY <2>3, <2>4, <4>1, <4>2
      <3>. QED
        BY <1>2, <3>1, <3>2
    <2>6. lo <= t
      BY <1>3, <2>2, <2>3, <2>4
    <2>7. t \in Visible(g, b)
      BY <1>3, <2>3, <2>5, <2>6
    <2>. QED
      BY <2>2, <2>7
  <1>14. ASSUME NEW t \in V
         PROVE  \E k \in rows : t \in T[k]
    <2>1. PICK e \in DOMAIN epochs : t \in R[e][c]
      OBVIOUS
    <2>. DEFINE n == Floor(t, w)
                k == <<e, w, n>>
    <2>2. /\ t \in Nat /\ t >= g.retained /\ lo <= t /\ t < end /\ e \in g.chosen
      BY <1>3, <1>5, <2>1
    <2>3. k \in DOMAIN buckets
      BY <1>1, <1>4, <1>5, <2>1, <2>2 DEF Counts
    <2>4. n \in Int /\ n <= t /\ t < n + w
      <3>1. t \in Int
        BY <2>2
      <3>. QED
        BY <1>1, <3>1, FloorOf
    <2>5. lo <= n
      BY <1>1, <1>3, <2>2, FloorIsLast
    <2>. HIDE DEF n
    <2>6. n < end
      BY <1>2, <2>2, <2>4
    <2>7. k \in rows
      BY <2>2, <2>3, <2>4, <2>5, <2>6, <1>3 DEF RowsOf, rows, w, lo, end
    <2>8. t \in n .. n + w - 1
      BY <1>1, <2>2, <2>4
    <2>9. T[k] = R[k[1]][c] \cap (n .. n + w - 1) /\ k[1] = e
      BY <1>9, <2>4, <2>7
    <2>. QED
      BY <2>1, <2>7, <2>8, <2>9
  <1>. HIDE DEF V
  <1>15. UNION {T[k] : k \in rows} = V
    BY <1>13, <1>14
  <1>16. SumFunction(f) = Cardinality(V)
    <2>1. DOMAIN f = rows
      BY DEF f
    <2>2. \A k \in rows : IsFiniteSet(T[k]) /\ f[k] = Cardinality(T[k])
      BY <1>11
    <2>3. \A k, l \in rows : k # l => T[k] \cap T[l] = {}
      BY <1>12
    <2>. QED
      BY <1>8, <1>15, <2>1, <2>2, <2>3, SumOfSizes
  <1>. QED
    BY <1>16 DEF FromRows, f, rows, V, g, R

LEMMA SpansShown ==
  ASSUME EpochInv, RowInv, TimeInv, NEW q \in Requests, NEW b \in Grid(q).starts,
         NEW c \in Counted
  PROVE  FromSpans(Grid(q), b, c) =
           Cardinality({t \in Visible(Grid(q), b) : timeline[t] = c /\ InSpan(spans, t)})
  <1>. DEFINE g == Grid(q)
              I == SpansOf(g, c)
              f == [i \in I |-> Within(g, b, spans[i].cursor, spans[i].end)]
              T == [i \in I |-> {t \in Visible(g, b) : spans[i].cursor <= t /\ t < spans[i].end}]
              V == {t \in Visible(g, b) : timeline[t] = c /\ InSpan(spans, t)}
  <1>1. \A t \in Visible(g, b) :
          t \in Nat /\ \A e \in DOMAIN epochs : Lives(e, t) => e \in g.chosen
    BY VisibleOf
  <1>2. I \subseteq 1 .. Len(spans) /\ IsFiniteSet(I) /\ Len(spans) \in Nat
    <2>1. Len(spans) \in Nat
      BY DEF RowInv, SpansFit
    <2>2. IsFiniteSet(1 .. Len(spans))
      BY <2>1, FS_Interval
    <2>3. I \subseteq 1 .. Len(spans)
      BY DEF SpansOf
    <2>. QED
      BY <2>1, <2>2, <2>3, FS_Subset
  <1>3. ASSUME NEW i \in I
        PROVE  IsFiniteSet(T[i]) /\ f[i] = Cardinality(T[i])
    <2>. DEFINE s == spans[i].cursor
                x == spans[i].end
    <2>1. s \in Int /\ x \in Int
      BY <1>2, SpanOfRow
    <2>2. f[i] = Within(g, b, s, x) /\ T[i] = {t \in Visible(g, b) : s <= t /\ t < x}
      OBVIOUS
    <2>. HIDE DEF f, T, s, x
    <2>. QED
      BY <2>1, <2>2, WithinSize
  <1>4. ASSUME NEW i \in I, NEW j \in I, NEW t \in T[i], t \in T[j]
        PROVE  i = j
    <2>1. /\ i \in 1 .. Len(spans) /\ j \in 1 .. Len(spans) /\ t \in Nat
          /\ spans[i].cursor <= t /\ t < spans[i].end
          /\ spans[j].cursor <= t /\ t < spans[j].end
          /\ spans[i].cursor \in Nat /\ spans[i].end \in Nat
          /\ spans[j].cursor \in Nat /\ spans[j].end \in Nat
      BY <1>1, <1>2, <1>4, SpanOfRow
    <2>2. i < j => spans[i].end <= spans[j].cursor
      BY <2>1 DEF TimeInv, SpanInv
    <2>3. j < i => spans[j].end <= spans[i].cursor
      BY <2>1 DEF TimeInv, SpanInv
    <2>. QED
      BY <1>2, <2>1, <2>2, <2>3
  <1>5. ASSUME NEW i \in 1 .. Len(spans), NEW t \in Visible(g, b),
               spans[i].cursor <= t, t < spans[i].end
        PROVE  timeline[t] = spans[i].state /\ spans[i].epoch \in g.chosen
    <2>1. t \in spans[i].cursor .. spans[i].end - 1
      BY <1>1, <1>5, SpanOfRow
    <2>2. timeline[t] = spans[i].state /\ Lives(spans[i].epoch, t)
      BY <2>1 DEF TimeInv, SpanInv
    <2>3. spans[i].epoch \in DOMAIN epochs
      BY SpanOfRow
    <2>. QED
      BY <1>1, <2>2, <2>3
  <1>6. UNION {T[i] : i \in I} = V
    <2>1. ASSUME NEW i \in I, NEW t \in T[i]
          PROVE  t \in V
      <3>1. /\ i \in 1 .. Len(spans) /\ spans[i].state = c /\ t \in Visible(g, b)
            /\ spans[i].cursor <= t /\ t < spans[i].end
        BY <1>1, <1>2 DEF SpansOf
      <3>. QED
        BY <1>5, <3>1 DEF InSpan
    <2>2. ASSUME NEW t \in V
          PROVE  \E i \in I : t \in T[i]
      <3>1. PICK i \in 1 .. Len(spans) : spans[i].cursor <= t /\ t < spans[i].end
        BY DEF InSpan
      <3>2. t \in Visible(g, b) /\ timeline[t] = c
        OBVIOUS
      <3>3. i \in I
        BY <1>5, <3>1, <3>2 DEF SpansOf
      <3>. QED
        BY <1>1, <3>1, <3>2, <3>3
    <2>. HIDE DEF T, I, V
    <2>. QED
      BY <2>1, <2>2
  <1>. HIDE DEF f, T, V, I
  <1>7. SumFunction(f) = Cardinality(V)
    <2>1. DOMAIN f = I
      BY DEF f
    <2>2. \A i \in I : IsFiniteSet(T[i]) /\ f[i] = Cardinality(T[i])
      BY <1>3
    <2>3. \A i, j \in I : i # j => T[i] \cap T[j] = {}
      BY <1>4
    <2>4. IsFiniteSet(I)
      BY <1>2
    <2>. QED
      BY <1>6, <2>1, <2>2, <2>3, <2>4, SumOfSizes
  <1>. QED
    BY <1>7 DEF FromSpans, f, I, V, g

LEMMA TailsShown ==
  ASSUME EpochInv, TailInv, NEW q \in Requests, NEW b \in Grid(q).starts, NEW c \in Counted
  PROVE  FromTails(Grid(q), b, c) =
           Cardinality({t \in Visible(Grid(q), b) : timeline[t] = c /\ InTail(t)})
  <1>. DEFINE g == Grid(q)
              I == TailsOf(g, c)
              f == [e \in I |-> Within(g, b, epochs[e].last, TailEnd(e, EpochEnd(e)))]
              T == [e \in I |-> {t \in Visible(g, b) :
                                   epochs[e].last <= t /\ t < TailEnd(e, EpochEnd(e))}]
              V == {t \in Visible(g, b) : timeline[t] = c /\ InTail(t)}
  <1>1. \A t \in Visible(g, b) :
          /\ t \in Nat /\ t \in Instants /\ t < now
          /\ \A e \in DOMAIN epochs : Lives(e, t) => e \in g.chosen
    BY VisibleOf
  <1>2. g.chosen \subseteq DOMAIN epochs
    BY GridOf
  <1>. HIDE DEF g
  <1>3. ASSUME NEW e \in Active, epochs[e].last # Null, NEW t \in Visible(g, b),
               epochs[e].last <= t
        PROVE  /\ timeline[t] = c <=> epochs[e].state = c /\ t < TailEnd(e, EpochEnd(e))
               /\ e \in g.chosen
    <2>. DEFINE n == epochs[e].last + Freshness[epochs[e].sig]
    <2>1. /\ e \in DOMAIN epochs /\ epochs[e].end = Null /\ epochs[e].start \in Nat
          /\ epochs[e].last \in Nat /\ now \in Nat /\ n \in Nat
      BY <1>3, NowType, OneActive
    <2>2. /\ epochs[e].start <= epochs[e].last
          /\ timeline[t] = IF t < n THEN epochs[e].state ELSE "none"
      BY <1>1, <1>3 DEF TailInv
    <2>3. TailEnd(e, EpochEnd(e)) = Min({now, n})
      BY <2>1 DEF TailEnd, EpochEnd
    <2>. HIDE DEF n
    <2>4. Min({now, n}) = IF now <= n THEN now ELSE n
      BY <2>1, MinOfTwo
    <2>5. t \in Nat /\ t < now
      BY <1>1
    <2>6. t < TailEnd(e, EpochEnd(e)) <=> t < n
      BY <2>1, <2>3, <2>4, <2>5
    <2>7. c # "none"
      BY DEF Counted
    <2>8. Lives(e, t)
      BY <1>3, <2>1, <2>2, <2>5 DEF Lives
    <2>. QED
      BY <1>1, <2>1, <2>2, <2>6, <2>7, <2>8
  <1>4. ASSUME NEW e \in I
        PROVE  /\ e \in Active /\ epochs[e].last # Null /\ epochs[e].state = c
               /\ epochs[e].last \in Int /\ TailEnd(e, EpochEnd(e)) \in Int
    <2>. DEFINE n == epochs[e].last + Freshness[epochs[e].sig]
    <2>1. e \in DOMAIN epochs /\ epochs[e].last # Null /\ epochs[e].state = c
      BY <1>2 DEF TailsOf
    <2>2. e \in Active /\ epochs[e].end = Null
      BY <2>1 DEF TailInv, Active
    <2>3. now \in Int /\ n \in Int /\ epochs[e].last \in Int
      BY <2>1, NowType
    <2>4. TailEnd(e, EpochEnd(e)) = Min({now, n})
      BY <2>2 DEF TailEnd, EpochEnd
    <2>. HIDE DEF n
    <2>5. Min({now, n}) \in Int
      BY <2>3, MinOfTwo
    <2>. QED
      BY <2>1, <2>2, <2>3, <2>4, <2>5
  <1>5. \A e, d \in I : e = d
    BY <1>4, OneActive
  <1>6. IsFiniteSet(I)
    <2>1. CASE I = {}
      BY <2>1, FS_EmptySet
    <2>2. CASE I # {}
      <3>1. PICK e : I = {e}
        BY <1>5, <2>2
      <3>. QED
        BY <3>1, FS_Singleton
    <2>. QED
      BY <2>1, <2>2
  <1>7. ASSUME NEW e \in I
        PROVE  IsFiniteSet(T[e]) /\ f[e] = Cardinality(T[e])
    <2>. DEFINE s == epochs[e].last
                x == TailEnd(e, EpochEnd(e))
    <2>1. s \in Int /\ x \in Int
      BY <1>4
    <2>2. f[e] = Within(g, b, s, x) /\ T[e] = {t \in Visible(g, b) : s <= t /\ t < x}
      OBVIOUS
    <2>. HIDE DEF f, T, s, x
    <2>. QED
      BY <2>1, <2>2, WithinSize DEF g
  <1>8. UNION {T[e] : e \in I} = V
    <2>1. ASSUME NEW e \in I, NEW t \in T[e]
          PROVE  t \in V
      <3>1. t \in Visible(g, b) /\ epochs[e].last <= t /\ t < TailEnd(e, EpochEnd(e))
        OBVIOUS
      <3>. QED
        BY <1>3, <1>4, <3>1 DEF InTail
    <2>2. ASSUME NEW t \in V
          PROVE  \E e \in I : t \in T[e]
      <3>1. PICK e \in Active : epochs[e].last # Null /\ epochs[e].last <= t
        BY DEF InTail
      <3>2. t \in Visible(g, b) /\ timeline[t] = c
        OBVIOUS
      <3>3. epochs[e].state = c /\ t < TailEnd(e, EpochEnd(e)) /\ e \in I
        BY <1>3, <3>1, <3>2 DEF TailsOf
      <3>. QED
        BY <3>1, <3>2, <3>3
    <2>. HIDE DEF T, I, V
    <2>. QED
      BY <2>1, <2>2
  <1>. HIDE DEF f, T, V, I
  <1>9. SumFunction(f) = Cardinality(V)
    <2>1. DOMAIN f = I
      BY DEF f
    <2>2. \A e \in I : IsFiniteSet(T[e]) /\ f[e] = Cardinality(T[e])
      BY <1>7
    <2>3. \A e, d \in I : e # d => T[e] \cap T[d] = {}
      BY <1>5
    <2>4. SumFunction(f) = Cardinality(UNION {T[e] : e \in I})
      BY <1>6, <2>1, <2>2, <2>3, SumOfSizes
    <2>. QED
      BY <1>8, <2>4
  <1>. QED
    BY <1>9 DEF FromTails, f, I, V, g

\* Every instant of a counted state that a point shows is in one of its parts.
LEMMA ShownIs ==
  ASSUME EpochInv, RowInv, TimeInv, NEW q \in Requests, NEW b \in Grid(q).starts,
         NEW c \in Counted
  PROVE  LET V == {t \in Visible(Grid(q), b) : timeline[t] = c}
         IN  IsFiniteSet(V) /\ Shown(Grid(q), b, c) = Cardinality(V)
  <1>. DEFINE g == Grid(q)
              W == Visible(g, b)
              V == {t \in W : timeline[t] = c}
              A == {t \in W : \E e \in DOMAIN epochs : t \in RolledUp(spans)[e][c]}
              B == {t \in W : timeline[t] = c /\ InSpan(spans, t)}
              C == {t \in W : timeline[t] = c /\ InTail(t)}
  <1>1. /\ IsFiniteSet(W)
        /\ \A t \in W : t \in Instants /\ t \in Nat /\ t >= Boundary(now, Coarsest)
                        /\ t >= g.retained /\ t < PointEnd(g, b)
    BY VisibleOf
  <1>2. IsFiniteSet(A) /\ IsFiniteSet(B) /\ IsFiniteSet(C) /\ IsFiniteSet(V)
    BY <1>1, FS_Subset
  <1>3. CASE PointEnd(g, b) <= g.retained
    <2>1. PointEnd(g, b) \in Int /\ g.retained \in Int
      BY GridOf, PointOf, NowType, BoundaryOf
    <2>2. W = {}
      BY <1>1, <1>3, <2>1
    <2>3. V = {}
      BY <2>2
    <2>4. Shown(g, b, c) = 0
      BY <1>3 DEF Shown
    <2>. QED
      BY <2>3, <2>4, FS_EmptySet
  <1>4. CASE ~(PointEnd(g, b) <= g.retained)
    <2>1. Shown(g, b, c) = FromRows(g, b, c) + FromSpans(g, b, c) + FromTails(g, b, c)
      BY <1>4, ShownParts
    <2>2. /\ FromRows(g, b, c) = Cardinality(A) /\ FromSpans(g, b, c) = Cardinality(B)
          /\ FromTails(g, b, c) = Cardinality(C)
      BY RowsShown, SpansShown, TailsShown DEF TimeInv
    <2>3. \A t \in A : t \in V /\ ~InSpan(spans, t) /\ ~InTail(t)
      BY RolledUpOf
    <2>4. ASSUME NEW t \in Nat, NEW e \in Active, NEW i \in 1 .. Len(spans),
                 spans[i].cursor <= t, t < spans[i].end, epochs[e].last # Null,
                 epochs[e].last <= t
          PROVE  FALSE
      <3>1. spans[i].end \in Nat /\ epochs[e].last \in Nat
        BY <2>4, SpanOfRow, NowType, OneActive
      <3>2. spans[i].end <= epochs[e].last
        BY <2>4 DEF TimeInv, SpanInv
      <3>. QED
        BY <2>4, <3>1, <3>2
    <2>5. \A t \in B : t \in V /\ ~InTail(t)
      BY <1>1, <2>4 DEF InSpan, InTail
    <2>6. ASSUME NEW t \in V, ~InSpan(spans, t), ~InTail(t)
          PROVE  t \in A
      <3>1. /\ t \in W /\ t \in Instants /\ t \in Nat /\ t >= Boundary(now, Coarsest)
            /\ timeline[t] = c
        BY <1>1
      <3>2. PICK e \in DOMAIN epochs : Lives(e, t)
        BY <3>1 DEF TimeInv, Known
      <3>3. t \in RolledUp(spans)[e][c]
        BY <2>6, <3>1, <3>2, RolledUpOf
      <3>. QED
        BY <3>1, <3>3
    <2>7. V = (A \cup B) \cup C
      <3>1. \A t \in V : t \in A \/ t \in B \/ t \in C
        BY <2>6
      <3>2. \A t \in C : t \in V
        OBVIOUS
      <3>. HIDE DEF V, A, B, C
      <3>. QED
        BY <2>3, <2>5, <3>1, <3>2
    <2>8. A \cap B = {} /\ (A \cup B) \cap C = {}
      <3>1. (\A t \in B : InSpan(spans, t)) /\ (\A t \in C : InTail(t))
        OBVIOUS
      <3>. HIDE DEF V, A, B, C
      <3>. QED
        BY <2>3, <2>5, <3>1
    <2>. HIDE DEF g, V, A, B, C
    <2>9. /\ Cardinality(A) \in Nat /\ Cardinality(B) \in Nat /\ Cardinality(C) \in Nat
          /\ Cardinality({}) = 0
      BY <1>2, FS_CardinalityType, FS_EmptySet
    <2>10. IsFiniteSet(A \cup B) /\ Cardinality(A \cup B) = Cardinality(A) + Cardinality(B)
      <3>1. /\ IsFiniteSet(A \cup B)
            /\ Cardinality(A \cup B)
                 = Cardinality(A) + Cardinality(B) - Cardinality(A \cap B)
        BY <1>2, FS_Union
      <3>2. Cardinality(A \cap B) = 0
        BY <2>8, <2>9
      <3>. QED
        BY <2>9, <3>1, <3>2
    <2>11. Cardinality(V) = Cardinality(A) + Cardinality(B) + Cardinality(C)
      <3>1. Cardinality((A \cup B) \cup C)
              = Cardinality(A \cup B) + Cardinality(C) - Cardinality((A \cup B) \cap C)
        BY <1>2, <2>10, FS_Union
      <3>2. Cardinality((A \cup B) \cap C) = 0
        BY <2>8, <2>9
      <3>3. V = (A \cup B) \cup C
        BY <2>7
      <3>. QED
        BY <2>9, <2>10, <3>1, <3>2, <3>3
    <2>12. Shown(g, b, c) = Cardinality(V)
      BY <2>1, <2>2, <2>11
    <2>. QED
      BY <1>2, <2>12 DEF g, V
  <1>. QED
    BY <1>3, <1>4

LEMMA EndOfEpoch ==
  ASSUME EpochInv, NEW e \in DOMAIN epochs
  PROVE  /\ EpochEnd(e) \in Int /\ epochs[e].start \in Int
         /\ \A t \in Int :
              t < now => (t < EpochEnd(e) <=> epochs[e].end = Null \/ t < epochs[e].end)
         /\ \A t \in Int : t < EpochEnd(e) => t < now
  <1>1. /\ now \in Nat /\ epochs[e].start \in Nat
        /\ epochs[e].end # Null => epochs[e].end \in Nat /\ epochs[e].end <= now
    BY NowType
  <1>2. EpochEnd(e) = IF epochs[e].end = Null THEN now ELSE epochs[e].end
    <2>1. CASE epochs[e].end = Null
      BY <2>1 DEF EpochEnd
    <2>2. CASE epochs[e].end # Null
      <3>1. EpochEnd(e) = Min({epochs[e].end, now})
        BY <2>2 DEF EpochEnd
      <3>2. epochs[e].end \in Int /\ now \in Int /\ epochs[e].end <= now
        BY <1>1, <2>2
      <3>. QED
        BY <2>2, <3>1, <3>2, MinOfTwo
    <2>. QED
      BY <2>1, <2>2
  <1>. QED
    BY <1>1, <1>2

\* The eligible time of a point is the number of its instants that an epoch has.
LEMMA EligibleIs ==
  ASSUME EpochInv, NEW q \in Requests, NEW b \in Grid(q).starts
  PROVE  LET g == Grid(q)
             U == {t \in b .. PointEnd(g, b) - 1 : \E e \in g.chosen : t < now /\ Lives(e, t)}
         IN  IsFiniteSet(U) /\ Eligible(g, b) = Cardinality(U)
  <1>. DEFINE g == Grid(q)
              end == PointEnd(g, b)
              U == {t \in b .. end - 1 : \E e \in g.chosen : t < now /\ Lives(e, t)}
              I == g.chosen
              f == [e \in I |-> Overlap(epochs[e].start, EpochEnd(e), b, end)]
              T == [e \in I |-> Shared(epochs[e].start, EpochEnd(e), b, end)]
  <1>1. b \in Int /\ end \in Int
    BY PointOf
  <1>2. I \subseteq DOMAIN epochs
    BY GridOf
  <1>3. IsFiniteSet(I)
    <2>1. DOMAIN epochs \subseteq 1 .. MaxEpochs /\ MaxEpochs \in Int
      BY HistoryAssumption DEF EpochInv, EpochTypes
    <2>2. IsFiniteSet(1 .. MaxEpochs)
      BY <2>1, FS_Interval
    <2>. QED
      BY <1>2, <2>1, <2>2, FS_Subset
  <1>. HIDE DEF g, end, I
  <1>4. ASSUME NEW e \in I
        PROVE  IsFiniteSet(T[e]) /\ f[e] = Cardinality(T[e])
    <2>. DEFINE s == epochs[e].start
                x == EpochEnd(e)
    <2>1. s \in Int /\ x \in Int
      BY <1>2, EndOfEpoch
    <2>2. f[e] = Overlap(s, x, b, end) /\ T[e] = Shared(s, x, b, end)
      OBVIOUS
    <2>. HIDE DEF f, T, s, x
    <2>. QED
      BY <1>1, <2>1, <2>2, OverlapSize
  <1>5. ASSUME NEW e \in I, NEW t
        PROVE  t \in T[e] <=> t \in b .. end - 1 /\ t < now /\ Lives(e, t)
    <2>1. t \in T[e] <=> t \in b .. end - 1 /\ epochs[e].start <= t /\ t < EpochEnd(e)
      BY DEF Shared
    <2>2. t \in b .. end - 1 => t \in Int
      BY <1>1
    <2>3. e \in DOMAIN epochs
      BY <1>2
    <2>. HIDE DEF T
    <2>. QED
      BY <2>1, <2>2, <2>3, EndOfEpoch DEF Lives
  <1>6. ASSUME NEW e \in I, NEW d \in I, NEW t \in T[e], t \in T[d]
        PROVE  e = d
    <2>. HIDE DEF T
    <2>1. t \in Int /\ Lives(e, t) /\ Lives(d, t)
      BY <1>1, <1>5, <1>6
    <2>. QED
      BY <1>2, <2>1, OneEpoch
  <1>. HIDE DEF f, T
  <1>7. UNION {T[e] : e \in I} = U
    <2>1. ASSUME NEW e \in I, NEW t \in T[e]
          PROVE  t \in U
      BY <1>5 DEF I
    <2>2. ASSUME NEW t \in U
          PROVE  \E e \in I : t \in T[e]
      BY <1>5 DEF I
    <2>. HIDE DEF U
    <2>. QED
      BY <2>1, <2>2
  <1>. HIDE DEF U
  <1>8. IsFiniteSet(U) /\ SumFunction(f) = Cardinality(U)
    <2>1. DOMAIN f = I
      BY DEF f
    <2>2. \A e \in I : IsFiniteSet(T[e]) /\ f[e] = Cardinality(T[e])
      BY <1>4
    <2>3. \A e, d \in I : e # d => T[e] \cap T[d] = {}
      BY <1>6
    <2>4. /\ IsFiniteSet(UNION {T[e] : e \in I})
          /\ SumFunction(f) = Cardinality(UNION {T[e] : e \in I})
      BY <1>3, <2>1, <2>2, <2>3, SumOfSizes
    <2>. QED
      BY <1>7, <2>4
  <1>. QED
    BY <1>8 DEF Eligible, f, I, U, g, end

LEMMA ShownFits ==
  ASSUME EpochInv, RowInv, TimeInv, NEW q \in Requests, NEW b \in Grid(q).starts
  PROVE  LET g == Grid(q)
         IN  /\ SumFunction([c \in Counted |-> Shown(g, b, c)]) <= Eligible(g, b)
             /\ Eligible(g, b) <= PointEnd(g, b) - b
  <1>. DEFINE g == Grid(q)
              end == PointEnd(g, b)
              W == Visible(g, b)
              U == {t \in b .. end - 1 : \E e \in g.chosen : t < now /\ Lives(e, t)}
              f == [c \in Counted |-> Shown(g, b, c)]
              T == [c \in Counted |-> {t \in W : timeline[t] = c}]
              V == UNION {T[c] : c \in Counted}
  <1>1. /\ \A t \in W : /\ t \in Instants /\ t \in Nat /\ t >= b /\ t < end /\ t < now
                        /\ t >= Boundary(now, Coarsest)
                        /\ \A e \in DOMAIN epochs : Lives(e, t) => e \in g.chosen
    BY VisibleOf
  <1>2. b \in Int /\ end \in Int /\ b <= end
    BY PointOf
  <1>3. IsFiniteSet(U) /\ Eligible(g, b) = Cardinality(U)
    BY EligibleIs
  <1>4. \A c \in Counted : IsFiniteSet(T[c]) /\ f[c] = Cardinality(T[c])
    BY ShownIs
  <1>. HIDE DEF g, end, W
  <1>5. SumFunction(f) = Cardinality(V)
    <2>1. IsFiniteSet(Counted)
      <3>1. IsFiniteSet({"up"}) /\ Counted = {"up"} \cup {"down"}
        BY FS_Singleton DEF Counted
      <3>. QED
        BY <3>1, FS_AddElement
    <2>2. DOMAIN f = Counted
      OBVIOUS
    <2>3. \A c, d \in Counted : c # d => T[c] \cap T[d] = {}
      OBVIOUS
    <2>. HIDE DEF f, T
    <2>. QED
      BY <1>4, <2>1, <2>2, <2>3, SumOfSizes
  <1>6. V \subseteq U
    <2>1. ASSUME NEW c \in Counted, NEW t \in W, timeline[t] = c
          PROVE  t \in U
      <3>1. PICK e \in DOMAIN epochs : Lives(e, t)
        BY <1>1, <2>1 DEF TimeInv, Known
      <3>2. e \in g.chosen /\ t < now
        BY <1>1, <3>1
      <3>3. t \in b .. end - 1
        BY <1>1, <1>2
      <3>. QED
        BY <3>1, <3>2, <3>3
    <2>. HIDE DEF U
    <2>. QED
      BY <2>1
  <1>7. IsFiniteSet(b .. end - 1) /\ Cardinality(b .. end - 1) = end - b
    BY <1>2, IntervalSize
  <1>8. U \subseteq b .. end - 1
    OBVIOUS
  <1>. HIDE DEF f, V, U
  <1>9. Cardinality(V) <= Cardinality(U) /\ Cardinality(U) <= end - b
    BY <1>3, <1>6, <1>7, <1>8, FS_Subset
  <1>. QED
    BY <1>3, <1>5, <1>9 DEF f, g, end

\* However much was rolled up and pruned, an answer shows of each retained instant what
\* was observed there (query): the rows, the spans and the last observation together
\* have it once.
THEOREM QueryShowsTimelineCorrect == Spec => []QueryShowsTimeline
  <1>1. EpochInv /\ RowInv /\ TimeInv => QueryShowsTimeline
    BY ShownIs DEF QueryShowsTimeline, Visible
  <1>. QED
    BY <1>1, HistoryInvariant, HistoryKeepsTime, PTL

\* What is shown of a point fits its eligible time, and that fits the point (query).
THEOREM ShownFitsEligibleCorrect == Spec => []ShownFitsEligible
  <1>1. EpochInv /\ RowInv /\ TimeInv => ShownFitsEligible
    BY ShownFits DEF ShownFitsEligible
  <1>. QED
    BY <1>1, HistoryInvariant, HistoryKeepsTime, PTL
=============================================================================
