---------------------------- MODULE ProbesProofs ----------------------------
(***************************************************************************)
(* Proofs about Probes, for any tasks, number of permits, identifier space *)
(* and number of reloads.                                                  *)
(***************************************************************************)
EXTENDS Probes, FiniteSetTheorems, WellFoundedInduction, TLAPS

\* What the types say without the bounds on permits, which come from ResolverIsBounded.
TypePart ==
  /\ generation \in Generations
  /\ pc \in [Generations -> [Tasks -> Pcs]]
  /\ ident \in [Generations -> [Tasks -> SUBSET Identifiers]]
  /\ free \in Nat /\ orphans \in Nat
  /\ seed \in [Generations -> Identifiers]
  /\ inflight \in [Generations -> SUBSET Identifiers]

\* Generations to come have no tasks.
ComingPart == \A g \in Generations : g > generation => \A t \in Tasks : pc[g][t] = "gone"

IInv == TypePart /\ ComingPart /\ IdentifiersInUse /\ ResolverIsBounded

\* There are finitely many calls.
LEMMA CallsFinite == IsFiniteSet(Calls)
<1>1. IsFiniteSet(Generations)
  BY FS_Interval, ProbesAssumption DEF Generations
<1>2. IsFiniteSet(Generations \X Tasks)
  BY <1>1, FS_Product, ProbesAssumption
<1> QED
  BY <1>2, FS_Subset DEF Calls

\* Their number is a natural number.
LEMMA CallsCounted == Cardinality(Calls) \in Nat
BY CallsFinite, FS_CardinalityType

\* A task that becomes "resolving" or stops to be so changes the number of calls by one.
LEMMA CallsOfBecome ==
  ASSUME pc \in [Generations -> [Tasks -> Pcs]],
         NEW g \in Generations, NEW t \in Tasks, NEW next \in Pcs,
         Become(g, t, next)
  PROVE  /\ pc' \in [Generations -> [Tasks -> Pcs]]
         /\ Cardinality(Calls)' \in Nat
         /\ pc[g][t] = "resolving" /\ next # "resolving"
              => Cardinality(Calls)' = Cardinality(Calls) - 1
         /\ pc[g][t] # "resolving" /\ next = "resolving"
              => Cardinality(Calls)' = Cardinality(Calls) + 1
         /\ pc[g][t] # "resolving" /\ next # "resolving"
              => Cardinality(Calls)' = Cardinality(Calls)
<1> DEFINE p == <<g, t>>
<1>1. pc' \in [Generations -> [Tasks -> Pcs]]
  BY DEF Become
<1>2. /\ pc'[g][t] = next
      /\ \A h \in Generations, u \in Tasks : <<h, u>> # p => pc'[h][u] = pc[h][u]
  BY DEF Become
<1>3. p \in Generations \X Tasks /\ p[1] = g /\ p[2] = t
  OBVIOUS
<1>4. \A q \in Generations \X Tasks : q # p => pc'[q[1]][q[2]] = pc[q[1]][q[2]]
  BY <1>2
<1>5. p \in Calls <=> pc[g][t] = "resolving"
  BY <1>3 DEF Calls
<1>6. CASE next = "resolving"
  <2>1. Calls' = Calls \cup {p}
    BY <1>2, <1>3, <1>4, <1>6 DEF Calls
  <2>2. Cardinality(Calls') = IF p \in Calls THEN Cardinality(Calls)
                              ELSE Cardinality(Calls) + 1
    BY <2>1, CallsFinite, FS_AddElement
  <2> QED
    BY <1>1, <1>5, <1>6, <2>2, CallsCounted
<1>7. CASE next # "resolving"
  <2>1. Calls' = Calls \ {p}
    BY <1>2, <1>3, <1>4, <1>7 DEF Calls
  <2>2. /\ IsFiniteSet(Calls')
        /\ Cardinality(Calls') = IF p \in Calls THEN Cardinality(Calls) - 1
                                 ELSE Cardinality(Calls)
    BY <2>1, CallsFinite, FS_RemoveElement
  <2>3. Cardinality(Calls') \in Nat
    BY <2>2, FS_CardinalityType
  <2> QED
    BY <1>1, <1>5, <1>7, <2>2, <2>3
<1> QED
  BY <1>6, <1>7

\* The counter stays within the identifiers.
LEMMA FollowingTyped == \A i \in Identifiers : Following(i) \in Identifiers
BY ProbesAssumption DEF Following, Identifiers

\* next_unique_identifier fails only if all identifiers are in flight.
THEOREM NextUniqueFinds ==
  ASSUME NEW used, NEW s \in Identifiers, NextUnique(used, s) = {}
  PROVE  Identifiers \subseteq used
<1> SUFFICES ASSUME NEW i \in Identifiers \ used PROVE FALSE
  OBVIOUS
<1> DEFINE R == {ss \in Nat \X Nat : ss[1] < ss[2]}
           D == {Distance(s, j) : j \in Identifiers \ used}
<1>1. IsWellFoundedOn(R, Nat)
  BY NatLessThanWellFounded DEF OpToRel
<1>2. \A x, y \in Nat : <<y, x>> \in R <=> y < x
  OBVIOUS
<1>3. \A j \in Identifiers : Distance(s, j) \in Nat
  BY ProbesAssumption DEF Distance, Identifiers
<1>4. D \subseteq Nat /\ Distance(s, i) \in D
  BY <1>3
<1> HIDE DEF R
<1>5. PICK x \in D : \A y \in D : ~(<<y, x>> \in R)
  BY <1>1, <1>4, WFMin, Zenon
<1>6. ASSUME NEW y \in D PROVE x <= y
  <2>1. x \in Nat /\ y \in Nat
    BY <1>4
  <2>2. ~(y < x)
    BY <1>2, <1>5, <2>1
  <2> QED
    BY <2>1, <2>2
<1>7. PICK j \in Identifiers \ used : x = Distance(s, j)
  OBVIOUS
<1>8. j \in NextUnique(used, s)
  BY <1>6, <1>7 DEF NextUnique
<1> QED
  BY <1>8

\* A step that changes one task and leaves its identifier alone, if it has none and is not
\* going to probe.
LEMMA IdentifiersOfOther ==
  ASSUME TypePart, IdentifiersInUse,
         NEW g \in Generations, NEW t \in Tasks, NEW next \in Pcs,
         Become(g, t, next), pc[g][t] # "probing", next # "probing",
         UNCHANGED <<ident, inflight>>
  PROVE  IdentifiersInUse'
<1>1. \A h \in Generations, u \in Tasks :
        pc'[h][u] = "probing" <=> pc[h][u] = "probing"
  BY DEF Become, TypePart
<1> QED
  BY <1>1 DEF IdentifiersInUse

\* A probe that takes an identifier takes one that is not in use.
LEMMA IdentifiersOfSend ==
  ASSUME TypePart, IdentifiersInUse,
         NEW g \in Generations, NEW t \in Tasks, pc[g][t] # "probing",
         SendEcho(g, t)
  PROVE  /\ IdentifiersInUse'
         /\ ident' \in [Generations -> [Tasks -> SUBSET Identifiers]]
         /\ inflight' \in [Generations -> SUBSET Identifiers]
         /\ seed' \in [Generations -> Identifiers]
         /\ Become(g, t, "probing")
<1>1. PICK i \in NextUnique(inflight[g], seed[g]) :
        /\ ident' = [ident EXCEPT ![g][t] = {i}]
        /\ inflight' = [inflight EXCEPT ![g] = @ \cup {i}]
        /\ Become(g, t, "probing")
  BY DEF SendEcho
<1>2. i \in Identifiers /\ i \notin inflight[g]
  BY DEF NextUnique
<1>3. ident[g][t] = {}
  BY DEF IdentifiersInUse
<1>4. \A u \in Tasks : i \notin ident[g][u]
  BY <1>2 DEF IdentifiersInUse
<1>5. /\ ident'[g][t] = {i}
      /\ \A u \in Tasks : u # t => ident'[g][u] = ident[g][u]
      /\ \A h \in Generations : h # g => ident'[h] = ident[h]
      /\ inflight'[g] = inflight[g] \cup {i}
      /\ \A h \in Generations : h # g => inflight'[h] = inflight[h]
  BY <1>1 DEF TypePart
<1>6. /\ pc'[g][t] = "probing"
      /\ \A u \in Tasks : u # t => pc'[g][u] = pc[g][u]
      /\ \A h \in Generations : h # g => pc'[h] = pc[h]
  BY <1>1 DEF Become, TypePart
<1>7. \A h \in Generations :
        /\ inflight'[h] = UNION {ident'[h][u] : u \in Tasks}
        /\ \A u \in Tasks : ident'[h][u] # {} <=> pc'[h][u] = "probing"
        /\ \A u, v \in Tasks : u # v => ident'[h][u] \cap ident'[h][v] = {}
  <2> SUFFICES ASSUME NEW h \in Generations
               PROVE  /\ inflight'[h] = UNION {ident'[h][u] : u \in Tasks}
                      /\ \A u \in Tasks : ident'[h][u] # {} <=> pc'[h][u] = "probing"
                      /\ \A u, v \in Tasks : u # v => ident'[h][u] \cap ident'[h][v] = {}
    OBVIOUS
  <2>1. CASE h # g
    BY <1>5, <1>6, <2>1 DEF IdentifiersInUse
  <2>2. CASE h = g
    <3>1. inflight[g] = UNION {ident[g][u] : u \in Tasks}
      BY DEF IdentifiersInUse
    <3>2. UNION {ident'[g][u] : u \in Tasks} = (UNION {ident[g][u] : u \in Tasks}) \cup {i}
      BY <1>3, <1>5
    <3>3. \A u \in Tasks : ident'[g][u] # {} <=> pc'[g][u] = "probing"
      BY <1>5, <1>6 DEF IdentifiersInUse
    <3>4. \A u, v \in Tasks : u # v => ident'[g][u] \cap ident'[g][v] = {}
      BY <1>4, <1>5 DEF IdentifiersInUse
    <3> QED
      BY <1>5, <2>2, <3>1, <3>2, <3>3, <3>4
  <2> QED
    BY <2>1, <2>2
<1>8. ident' \in [Generations -> [Tasks -> SUBSET Identifiers]]
  BY <1>1, <1>2 DEF TypePart
<1>9. inflight' \in [Generations -> SUBSET Identifiers]
  BY <1>1, <1>2 DEF TypePart
<1>10. seed' \in [Generations -> Identifiers]
  BY FollowingTyped DEF SendEcho, TypePart
<1> QED
  BY <1>1, <1>7, <1>8, <1>9, <1>10 DEF IdentifiersInUse

\* Dropping a probe gives back its identifier and no other, and its permit to the orphan.
LEMMA LeaveKeeps ==
  ASSUME IInv,
         NEW g \in Generations, NEW t \in Tasks, NEW next \in Pcs,
         Leave(g, t, next), next \notin {"resolving", "probing"},
         g > generation => next = "gone", UNCHANGED free
  PROVE  IInv'
<1> USE DEF IInv
<1>1. Become(g, t, next)
  BY DEF Leave
<1>2. /\ ident'[g][t] = {}
      /\ \A u \in Tasks : u # t => ident'[g][u] = ident[g][u]
      /\ \A h \in Generations : h # g => ident'[h] = ident[h]
      /\ inflight'[g] = inflight[g] \ ident[g][t]
      /\ \A h \in Generations : h # g => inflight'[h] = inflight[h]
  BY DEF Leave, TypePart
<1>3. /\ pc'[g][t] = next
      /\ \A u \in Tasks : u # t => pc'[g][u] = pc[g][u]
      /\ \A h \in Generations : h # g => pc'[h] = pc[h]
  BY <1>1 DEF Become, TypePart
<1>4. IdentifiersInUse'
  <2> SUFFICES ASSUME NEW h \in Generations
               PROVE  /\ inflight'[h] = UNION {ident'[h][u] : u \in Tasks}
                      /\ \A u \in Tasks : ident'[h][u] # {} <=> pc'[h][u] = "probing"
                      /\ \A u, v \in Tasks : u # v => ident'[h][u] \cap ident'[h][v] = {}
    BY DEF IdentifiersInUse
  <2>1. CASE h # g
    BY <1>2, <1>3, <2>1 DEF IdentifiersInUse
  <2>2. CASE h = g
    <3>1. /\ inflight[g] = UNION {ident[g][u] : u \in Tasks}
          /\ \A u, v \in Tasks : u # v => ident[g][u] \cap ident[g][v] = {}
      BY DEF IdentifiersInUse
    <3>2. UNION {ident'[g][u] : u \in Tasks} = inflight[g] \ ident[g][t]
      BY <1>2, <3>1
    <3>3. \A u \in Tasks : ident'[g][u] # {} <=> pc'[g][u] = "probing"
      BY <1>2, <1>3 DEF IdentifiersInUse
    <3>4. \A u, v \in Tasks : u # v => ident'[g][u] \cap ident'[g][v] = {}
      BY <1>2, <3>1
    <3> QED
      BY <1>2, <2>2, <3>2, <3>3, <3>4
  <2> QED
    BY <2>1, <2>2
<1>5. ComingPart'
  BY <1>3 DEF ComingPart, Leave, Generations
<1>6. TypePart'
  <2>1. pc' \in [Generations -> [Tasks -> Pcs]]
    BY <1>1, CallsOfBecome DEF TypePart
  <2>2. ident' \in [Generations -> [Tasks -> SUBSET Identifiers]]
    BY DEF Leave, TypePart
  <2>3. inflight' \in [Generations -> SUBSET Identifiers]
    BY DEF Leave, TypePart
  <2>4. orphans' \in Nat
    BY DEF Leave, TypePart
  <2> QED
    BY <2>1, <2>2, <2>3, <2>4 DEF Leave, TypePart
<1>7. ResolverIsBounded'
  <2>1. CASE pc[g][t] = "resolving"
    <3>1. Cardinality(Calls)' = Cardinality(Calls) - 1
      BY <1>1, <2>1, CallsOfBecome DEF TypePart
    <3>2. orphans' = orphans + 1
      BY <2>1 DEF Leave
    <3> QED
      BY <3>1, <3>2, CallsCounted, ProbesAssumption DEF ResolverIsBounded, TypePart
  <2>2. CASE pc[g][t] # "resolving"
    <3>1. Cardinality(Calls)' = Cardinality(Calls)
      BY <1>1, <2>2, CallsOfBecome DEF TypePart
    <3>2. orphans' = orphans
      BY <2>2 DEF Leave
    <3> QED
      BY <3>1, <3>2 DEF ResolverIsBounded
  <2> QED
    BY <2>1, <2>2
<1> QED
  BY <1>4, <1>5, <1>6, <1>7

\* A task that is neither resolving nor probing begins or gives up an echo request.
LEMMA EchoKeeps ==
  ASSUME IInv,
         NEW g \in Generations, NEW t \in Tasks,
         pc[g][t] \notin {"resolving", "probing", "gone"},
         SendEcho(g, t) \/ RunOut(g, t),
         UNCHANGED <<generation, free, orphans>>
  PROVE  IInv'
<1> USE DEF IInv
<1>1. PICK next \in {"probing", "storing"} : Become(g, t, next)
  BY DEF SendEcho, RunOut
<1>2. /\ pc' \in [Generations -> [Tasks -> Pcs]]
      /\ Cardinality(Calls)' = Cardinality(Calls)
  BY <1>1, CallsOfBecome DEF TypePart, Pcs
<1>3. ~(g > generation)
  BY DEF ComingPart
<1>4. ComingPart'
  BY <1>1, <1>3 DEF ComingPart, Become, TypePart
<1>5. /\ IdentifiersInUse'
      /\ ident' \in [Generations -> [Tasks -> SUBSET Identifiers]]
      /\ inflight' \in [Generations -> SUBSET Identifiers]
      /\ seed' \in [Generations -> Identifiers]
  <2>1. CASE SendEcho(g, t)
    BY <2>1, IdentifiersOfSend
  <2>2. CASE RunOut(g, t)
    <3>1. IdentifiersInUse'
      BY <2>2, IdentifiersOfOther DEF RunOut, Pcs
    <3>2. seed' \in [Generations -> Identifiers]
      BY <2>2, FollowingTyped DEF RunOut, TypePart
    <3> QED
      BY <2>2, <3>1, <3>2 DEF RunOut, TypePart
  <2> QED
    BY <2>1, <2>2
<1> QED
  BY <1>2, <1>4, <1>5 DEF TypePart, ResolverIsBounded

\* A task becomes something that needs no identifier, and permits follow the calls.
LEMMA OtherKeeps ==
  ASSUME IInv,
         NEW g \in Generations, NEW t \in Tasks, NEW next \in Pcs \ {"probing"},
         pc[g][t] \notin {"probing", "gone"},
         Become(g, t, next), free' \in Nat,
         free' + Cardinality(Calls)' = free + Cardinality(Calls),
         UNCHANGED <<generation, ident, orphans, seed, inflight>>
  PROVE  IInv'
<1> USE DEF IInv
<1>1. pc' \in [Generations -> [Tasks -> Pcs]] /\ Cardinality(Calls)' \in Nat
  BY CallsOfBecome DEF TypePart
<1>2. IdentifiersInUse'
  BY IdentifiersOfOther
<1>3. ~(g > generation)
  BY DEF ComingPart
<1>4. ComingPart'
  BY <1>3 DEF ComingPart, Become, TypePart
<1>5. ResolverIsBounded'
  BY <1>1, CallsCounted, ProbesAssumption DEF ResolverIsBounded, TypePart
<1> QED
  BY <1>1, <1>2, <1>4, <1>5 DEF TypePart

\* The parts give the types of the module, bounds included.
LEMMA InvImpliesType == IInv => TypeOK
<1> SUFFICES ASSUME IInv PROVE TypeOK
  OBVIOUS
<1>1. free \in 0 .. DnsAdmission /\ orphans \in 0 .. DnsAdmission
  BY CallsCounted, ProbesAssumption DEF IInv, ResolverIsBounded, TypePart
<1> QED
  BY <1>1 DEF IInv, TypePart, TypeOK

\* The initial state satisfies the invariant.
LEMMA InitInv == Init => IInv
<1> SUFFICES ASSUME Init PROVE IInv
  OBVIOUS
<1>1. 0 \in Generations
  BY ProbesAssumption DEF Generations
<1>2. TypePart
  <2>1. pc \in [Generations -> [Tasks -> Pcs]]
    BY DEF Init, Pcs
  <2>2. 1 % Space \in Identifiers
    BY ProbesAssumption DEF Identifiers
  <2> QED
    BY <1>1, <2>1, <2>2, ProbesAssumption DEF Init, TypePart
<1>3. ComingPart
  BY DEF Init, ComingPart, Generations
<1>4. IdentifiersInUse
  BY DEF Init, IdentifiersInUse
<1>5. ResolverIsBounded
  <2>1. Calls = {}
    BY DEF Init, Calls
  <2> QED
    BY <2>1, FS_EmptySet, ProbesAssumption DEF Init, ResolverIsBounded
<1> QED
  BY <1>2, <1>3, <1>4, <1>5 DEF IInv

\* The invariant is inductive.
LEMMA StepInv == IInv /\ [Next]_vars => IInv'
<1> SUFFICES ASSUME IInv, [Next]_vars PROVE IInv'
  OBVIOUS
<1> USE DEF IInv
<1>1. ASSUME NEW g \in Generations, NEW t \in Tasks, Step(g, t)
      PROVE  IInv'
  <2>1. CASE BeginLiteral(g, t)
    BY <2>1, EchoKeeps DEF BeginLiteral
  <2>2. CASE BeginName(g, t)
    <3>1. Become(g, t, "resolving") /\ pc[g][t] = "idle" /\ "resolving" \in Pcs \ {"probing"}
      BY <2>2 DEF BeginName, Pcs
    <3>2. Cardinality(Calls)' = Cardinality(Calls) + 1
      BY <3>1, CallsOfBecome DEF TypePart
    <3>3. free' = free - 1 /\ free' \in Nat
      BY <2>2 DEF BeginName, TypePart
    <3>4. free' + Cardinality(Calls)' = free + Cardinality(Calls)
      BY <3>2, <3>3, CallsCounted DEF TypePart
    <3> QED
      BY <2>2, <3>1, <3>3, <3>4, OtherKeeps DEF BeginName
  <2>3. CASE RefuseName(g, t)
    <3>1. Become(g, t, "storing") /\ pc[g][t] = "idle" /\ "storing" \in Pcs \ {"probing"}
      BY <2>3 DEF RefuseName, Pcs
    <3>2. Cardinality(Calls)' = Cardinality(Calls)
      BY <3>1, CallsOfBecome DEF TypePart
    <3>3. free' \in Nat /\ free' = free
      BY <2>3 DEF RefuseName, TypePart
    <3> QED
      BY <2>3, <3>1, <3>2, <3>3, OtherKeeps DEF RefuseName
  <2>4. CASE CallEnds(g, t)
    <3>1. /\ Become(g, t, "resolved") /\ pc[g][t] = "resolving"
          /\ "resolved" \in Pcs \ {"probing"}
      BY <2>4 DEF CallEnds, Pcs
    <3>2. Cardinality(Calls)' = Cardinality(Calls) - 1
      BY <3>1, CallsOfBecome DEF TypePart
    <3>3. free' = free + 1 /\ free' \in Nat
      BY <2>4 DEF CallEnds, TypePart
    <3>4. free' + Cardinality(Calls)' = free + Cardinality(Calls)
      BY <3>2, <3>3, CallsCounted DEF TypePart
    <3> QED
      BY <2>4, <3>1, <3>3, <3>4, OtherKeeps DEF CallEnds
  <2>5. CASE Proceed(g, t)
    BY <2>5, EchoKeeps DEF Proceed
  <2>6. CASE FailToResolve(g, t)
    <3>1. /\ Become(g, t, "storing") /\ pc[g][t] = "resolved"
          /\ "storing" \in Pcs \ {"probing"}
      BY <2>6 DEF FailToResolve, Pcs
    <3>2. Cardinality(Calls)' = Cardinality(Calls)
      BY <3>1, CallsOfBecome DEF TypePart
    <3>3. free' \in Nat /\ free' = free
      BY <2>6 DEF FailToResolve, TypePart
    <3> QED
      BY <2>6, <3>1, <3>2, <3>3, OtherKeeps DEF FailToResolve
  <2>7. CASE Answer(g, t) \/ Deadline(g, t)
    <3>1. Leave(g, t, "storing") /\ UNCHANGED free /\ pc[g][t] # "gone"
      BY <2>7 DEF Answer, Deadline
    <3>2. ~(g > generation)
      BY <3>1 DEF ComingPart
    <3> QED
      BY <3>1, <3>2, LeaveKeeps DEF Pcs
  <2>8. CASE Store(g, t)
    <3>1. Become(g, t, "idle") /\ pc[g][t] = "storing" /\ "idle" \in Pcs \ {"probing"}
      BY <2>8 DEF Store, Pcs
    <3>2. Cardinality(Calls)' = Cardinality(Calls)
      BY <3>1, CallsOfBecome DEF TypePart
    <3>3. free' \in Nat /\ free' = free
      BY <2>8 DEF Store, TypePart
    <3> QED
      BY <2>8, <3>1, <3>2, <3>3, OtherKeeps DEF Store
  <2>9. CASE Drop(g, t)
    BY <2>9, LeaveKeeps DEF Drop, Pcs
  <2> QED
    BY <1>1, <2>1, <2>2, <2>3, <2>4, <2>5, <2>6, <2>7, <2>8, <2>9 DEF Step, Begin
<1>2. CASE OrphanEnds
  <2>1. Calls' = Calls
    BY <1>2 DEF OrphanEnds, Calls
  <2>2. free' = free + 1 /\ orphans' = orphans - 1 /\ free' \in Nat /\ orphans' \in Nat
    BY <1>2 DEF OrphanEnds, TypePart
  <2>3. ResolverIsBounded'
    BY <2>1, <2>2, CallsCounted, ProbesAssumption DEF ResolverIsBounded, TypePart
  <2> QED
    BY <1>2, <2>2, <2>3 DEF OrphanEnds, TypePart, ComingPart, IdentifiersInUse
<1>3. CASE Reload
  <2>1. generation + 1 \in Generations /\ generation' = generation + 1
    BY <1>3, ProbesAssumption DEF Reload, TypePart, Generations
  <2>2. /\ pc' \in [Generations -> [Tasks -> Pcs]]
        /\ \A t \in Tasks : /\ pc'[generation + 1][t] = "idle"
                            /\ pc[generation + 1][t] = "gone"
        /\ \A g \in Generations : g # generation + 1 => pc'[g] = pc[g]
    BY <1>3, <2>1 DEF Reload, TypePart, ComingPart, Pcs, Generations
  <2>3. \A g \in Generations, t \in Tasks :
          /\ pc'[g][t] = "probing" <=> pc[g][t] = "probing"
          /\ pc'[g][t] = "resolving" <=> pc[g][t] = "resolving"
    BY <2>2
  <2>4. Calls' = Calls
    BY <2>3 DEF Calls
  <2>5. ComingPart'
    BY <2>1, <2>2 DEF ComingPart, TypePart, Generations
  <2>6. IdentifiersInUse'
    BY <1>3, <2>3 DEF Reload, IdentifiersInUse
  <2> QED
    BY <1>3, <2>1, <2>2, <2>4, <2>5, <2>6 DEF Reload, TypePart, ResolverIsBounded
<1>4. CASE UNCHANGED vars
  BY <1>4 DEF vars, TypePart, ComingPart, IdentifiersInUse, ResolverIsBounded, Calls
<1> QED
  BY <1>1, <1>2, <1>3, <1>4 DEF Next

\* The inductive invariant: types, no tasks in generations to come, and the two properties.
THEOREM ProbesInvariant == Spec => []IInv
<1> QED
  BY InitInv, StepInv, PTL DEF Spec

\* Every variable has its type, and permits stay within their number.
THEOREM ProbesTypeCorrect == Spec => []TypeOK
<1> QED
  BY ProbesInvariant, InvImpliesType, PTL

\* Identifiers of waiting probes differ and come back, for any number of them, wherever the
\* counter has got to.
THEOREM IdentifiersCorrect == Spec => []IdentifiersInUse
<1>1. IInv => IdentifiersInUse
  BY DEF IInv
<1> QED
  BY ProbesInvariant, <1>1, PTL

\* Resolver calls are never more than the permits, and permits are never lost.
THEOREM ResolverCorrect == Spec => []ResolverIsBounded
<1>1. IInv => ResolverIsBounded
  BY DEF IInv
<1> QED
  BY ProbesInvariant, <1>1, PTL

=============================================================================
