------------------------- MODULE CatalogReadsProofs -------------------------
(* Tables, replies and pages fit the inventory, for any hosts, inventories,  *)
(* clients and bounds.                                                       *)
EXTENDS CatalogReads, FiniteSetTheorems, NaturalsInduction, WellFoundedInduction, TLAPS

-----------------------------------------------------------------------------
(* The inductive invariant.                                                *)

\* The types of what the argument is about: neither paging nor permits.
TypedTables ==
  /\ catalog \in Inventory /\ stored \in Inventory
  /\ locked \in BOOLEAN
  /\ fence \in Generations
  /\ running \in [generation : Generations, inventory : Inventory]
  /\ writes \subseteq Write
  /\ status \subseteq Row /\ tcp \subseteq Row
  /\ reading \in [Clients -> SUBSET Read]
  /\ pages \in [Clients -> SUBSET Shown]
  /\ since \in [HostIds -> [Kinds -> Nat]]

\* The published catalog is the stored one, but between a commit and its publication; an
\* overtaken generation is known by its number.
FenceInv ==
  /\ locked => fence < MaxGenerations
  /\ ~locked => stored = catalog
  /\ running.generation <= fence
  /\ running.generation = fence => running.inventory = catalog
  /\ \A h \in HostIds, k \in Kinds : since[h][k] <= IF locked THEN fence + 1 ELSE fence

\* An update that will be written probed what the catalog says, and found the same there.
WritesInv ==
  \A w \in writes :
    /\ w.generation <= fence
    /\ w.generation = fence =>
         /\ w.probed \in Places(catalog[w.host], w.kind)
         /\ w.columns # {} => w.columns = Places(catalog[w.host], w.kind)

RowsInv ==
  /\ \A r \in tcp : r.columns = r.probed
  /\ \A r \in status \cup tcp : r.generation <= fence

\* A read that no reload overtook has the published catalog.
ReadingInv ==
  \A c \in Clients : \A k \in reading[c] :
    /\ k.generation <= fence
    /\ k.generation = fence => k.catalog = catalog

ReadsInv ==
  /\ TypedTables
  /\ FenceInv
  /\ WritesInv
  /\ RowsInv
  /\ ReadingInv
  /\ RowsAreCurrent
  /\ TcpResultsFitTheirChecks
  /\ MixedRepliesWereOvertaken

-----------------------------------------------------------------------------
(* Places and tables.                                                      *)

LEMMA PlacesFact ==
  ASSUME NEW host \in Optional(Host), NEW k \in Kinds
  PROVE  /\ Places(host, k) \subseteq Place
         /\ HasAtMostOne(Places(host, k))
         /\ k = "status" => \A p \in Places(host, k) : \A h \in host : p.address = h.address
         /\ Places(host, k) # {} => host # {}
  <1>1. host \subseteq Host /\ \A g, h \in host : g = h
    BY DEF Optional
  <1>2. CASE k = "status"
    <2>1. Places(host, k) = {[address |-> h.address, port |-> {}] : h \in host}
      BY <1>2 DEF Places
    <2>2. \A h \in host : [address |-> h.address, port |-> {}] \in Place
      BY <1>1 DEF Host, Place, Optional
    <2>. QED
      BY <1>1, <2>1, <2>2 DEF HasAtMostOne
  <1>3. CASE k # "status"
    BY <1>1, <1>3 DEF Places, HasAtMostOne, Host, Place
  <1>. QED
    BY <1>2, <1>3

LEMMA InventoryPlaces ==
  ASSUME NEW inventory \in Inventory, NEW h \in HostIds, NEW k \in Kinds
  PROVE  /\ Places(inventory[h], k) \subseteq Place
         /\ HasAtMostOne(Places(inventory[h], k))
  BY PlacesFact DEF Inventory

\* What a synchronisation leaves is configured, and was before, where it is now.
LEMMA SyncKeepsCurrentRows ==
  ASSUME ReadsInv, NEW new \in Inventory, SyncTables(new)
  PROVE  /\ RowsAreCurrent'
         /\ status' \subseteq status /\ tcp' \subseteq tcp
         /\ stored' = new
         /\ since' \in [HostIds -> [Kinds -> Nat]]
         /\ \A h \in HostIds, k \in Kinds : since'[h][k] <= fence + 1
  <1>. USE DEF ReadsInv
  <1>1. stored' = new /\ status' \subseteq status /\ tcp' \subseteq tcp
    BY DEF SyncTables, SyncedStatus, SyncedTcp
  <1>2. fence \in Nat
    BY CatalogAssumption DEF TypedTables, Generations
  <1>3. \A h \in HostIds, k \in Kinds :
          since'[h][k] = IF Places(new[h], k) = Places(stored[h], k)
                         THEN since[h][k] ELSE fence + 1
    BY DEF SyncTables
  <1>4. since' \in [HostIds -> [Kinds -> Nat]]
    BY <1>2 DEF SyncTables, TypedTables
  <1>5. \A h \in HostIds, k \in Kinds : since[h][k] \in Nat /\ since[h][k] <= fence + 1
    BY <1>2 DEF TypedTables, FenceInv
  <1>6. \A r \in status' : /\ r.probed \in Places(new[r.host], "status")
                           /\ r.generation >= since'[r.host]["status"]
    <2>1. SUFFICES ASSUME NEW r \in status'
                   PROVE  /\ r.probed \in Places(new[r.host], "status")
                          /\ r.generation >= since'[r.host]["status"]
      OBVIOUS
    <2>2. r \in status /\ Places(new[r.host], "status") = Places(stored[r.host], "status")
      BY DEF SyncTables, SyncedStatus
    <2>3. r.host \in HostIds /\ "status" \in Kinds
      BY <2>2 DEF TypedTables, Row, Kinds
    <2>. QED
      BY <1>3, <2>2, <2>3 DEF RowsAreCurrent
  <1>7. \A r \in tcp' : /\ r.probed \in Places(new[r.host], "tcp")
                        /\ r.generation >= since'[r.host]["tcp"]
    <2>1. SUFFICES ASSUME NEW r \in tcp'
                   PROVE  /\ r.probed \in Places(new[r.host], "tcp")
                          /\ r.generation >= since'[r.host]["tcp"]
      OBVIOUS
    <2>2. r \in tcp /\ r.columns \in Places(new[r.host], "tcp")
      BY DEF SyncTables, SyncedTcp
    <2>3. r.host \in HostIds /\ "tcp" \in Kinds
      BY <2>2 DEF TypedTables, Row, Kinds
    <2>4. r.probed \in Places(new[r.host], "tcp") /\ r.probed \in Places(stored[r.host], "tcp")
      BY <2>2 DEF RowsInv, RowsAreCurrent
    <2>5. HasAtMostOne(Places(new[r.host], "tcp")) /\ HasAtMostOne(Places(stored[r.host], "tcp"))
      BY <2>3, InventoryPlaces DEF TypedTables
    <2>6. Places(new[r.host], "tcp") = Places(stored[r.host], "tcp")
      BY <2>4, <2>5 DEF HasAtMostOne
    <2>. QED
      BY <1>3, <2>2, <2>3, <2>4, <2>6 DEF RowsAreCurrent
  <1>8. RowsAreCurrent'
    BY <1>1, <1>6, <1>7 DEF RowsAreCurrent
  <1>9. \A h \in HostIds, k \in Kinds : since'[h][k] <= fence + 1
    BY <1>2, <1>3, <1>5
  <1>. QED
    BY <1>1, <1>4, <1>8, <1>9

-----------------------------------------------------------------------------
(* Every step preserves the invariant.                                     *)

LEMMA InitEstablishesReadsInv == Init => ReadsInv
  <1>. SUFFICES ASSUME Init PROVE ReadsInv
    OBVIOUS
  <1>1. catalog \in Inventory /\ 0 \in Generations
    BY CatalogAssumption DEF Init, Generations
  <1>2. TypedTables
    BY <1>1 DEF Init, TypedTables
  <1>3. FenceInv /\ WritesInv /\ RowsInv /\ ReadingInv
    BY DEF Init, FenceInv, WritesInv, RowsInv, ReadingInv
  <1>4. RowsAreCurrent /\ TcpResultsFitTheirChecks /\ MixedRepliesWereOvertaken
    BY DEF Init, RowsAreCurrent, TcpResultsFitTheirChecks, MixedRepliesWereOvertaken
  <1>. QED
    BY <1>2, <1>3, <1>4 DEF ReadsInv

LEMMA CommitPreservesReadsInv ==
  ASSUME ReadsInv, NEW new \in Configurations, CommitReload(new)
  PROVE  ReadsInv'
  <1>. USE DEF ReadsInv
  <1>1. new \in Inventory
    BY CatalogAssumption
  <1>2. /\ RowsAreCurrent'
        /\ status' \subseteq status /\ tcp' \subseteq tcp
        /\ stored' = new
        /\ since' \in [HostIds -> [Kinds -> Nat]]
        /\ \A h \in HostIds, k \in Kinds : since'[h][k] <= fence + 1
    BY <1>1, SyncKeepsCurrentRows DEF CommitReload
  <1>3. /\ ~locked /\ fence < MaxGenerations /\ locked' = TRUE
        /\ UNCHANGED <<catalog, fence, running, writes, reading, pages>>
    BY DEF CommitReload, monitors, readers
  <1>4. TypedTables'
    BY <1>1, <1>2, <1>3 DEF TypedTables
  <1>5. FenceInv'
    BY <1>2, <1>3 DEF FenceInv
  <1>6. WritesInv' /\ ReadingInv'
    BY <1>3 DEF WritesInv, ReadingInv
  <1>7. RowsInv'
    BY <1>2, <1>3 DEF RowsInv
  <1>8. TcpResultsFitTheirChecks' /\ MixedRepliesWereOvertaken'
    BY <1>3 DEF TcpResultsFitTheirChecks, MixedRepliesWereOvertaken
  <1>. QED
    BY <1>2, <1>4, <1>5, <1>6, <1>7, <1>8

LEMMA NewGeneration ==
  ASSUME ReadsInv, fence' = fence + 1, fence < MaxGenerations
  PROVE  /\ fence \in Nat /\ fence' \in Generations
         /\ \A g \in Generations : g <= fence => g <= fence' /\ g # fence'
  BY CatalogAssumption DEF ReadsInv, TypedTables, Generations

LEMMA PublishPreservesReadsInv ==
  ASSUME ReadsInv, PublishReload
  PROVE  ReadsInv'
  <1>. USE DEF ReadsInv
  <1>1. /\ locked /\ locked' = FALSE /\ fence' = fence + 1 /\ catalog' = stored
        /\ UNCHANGED <<stored, running, writes, status, tcp, reading, pages, since>>
    BY DEF PublishReload, monitors
  <1>2. /\ fence \in Nat /\ fence' \in Generations
        /\ \A g \in Generations : g <= fence => g <= fence' /\ g # fence'
    BY <1>1, NewGeneration DEF FenceInv
  <1>3. TypedTables'
    BY <1>1, <1>2 DEF TypedTables
  <1>4. FenceInv'
    BY <1>1, <1>2 DEF FenceInv, TypedTables
  <1>5. WritesInv'
    BY <1>1, <1>2 DEF WritesInv, TypedTables, Write
  <1>6. RowsInv'
    BY <1>1, <1>2 DEF RowsInv, TypedTables, Row
  <1>7. ReadingInv'
    <2>1. \A c \in Clients : \A k \in reading[c] : k.generation \in Generations
      BY DEF TypedTables, Read
    <2>. QED
      BY <1>1, <1>2, <2>1 DEF ReadingInv
  <1>8. RowsAreCurrent' /\ TcpResultsFitTheirChecks' /\ MixedRepliesWereOvertaken'
    BY <1>1 DEF RowsAreCurrent, TcpResultsFitTheirChecks, MixedRepliesWereOvertaken
  <1>. QED
    BY <1>3, <1>4, <1>5, <1>6, <1>7, <1>8

LEMMA RestartPreservesReadsInv ==
  ASSUME ReadsInv, NEW new \in Configurations, Restart(new)
  PROVE  ReadsInv'
  <1>. USE DEF ReadsInv
  <1>1. new \in Inventory
    BY CatalogAssumption
  <1>2. /\ RowsAreCurrent'
        /\ status' \subseteq status /\ tcp' \subseteq tcp
        /\ stored' = new
        /\ since' \in [HostIds -> [Kinds -> Nat]]
        /\ \A h \in HostIds, k \in Kinds : since'[h][k] <= fence + 1
    BY <1>1, SyncKeepsCurrentRows DEF Restart
  <1>3. /\ locked' = FALSE /\ fence' = fence + 1 /\ fence < MaxGenerations
        /\ catalog' = new
        /\ running' = [generation |-> fence', inventory |-> new]
        /\ writes' = {}
        /\ reading' = [c \in Clients |-> {}] /\ pages' = [c \in Clients |-> {}]
    BY DEF Restart
  <1>4. /\ fence \in Nat /\ fence' \in Generations
        /\ \A g \in Generations : g <= fence => g <= fence' /\ g # fence'
    BY <1>3, NewGeneration
  <1>5. TypedTables'
    BY <1>1, <1>2, <1>3, <1>4 DEF TypedTables
  <1>6. FenceInv'
    BY <1>2, <1>3, <1>4 DEF FenceInv
  <1>7. WritesInv' /\ ReadingInv'
    BY <1>3 DEF WritesInv, ReadingInv
  <1>8. RowsInv'
    BY <1>2, <1>4 DEF RowsInv, TypedTables, Row
  <1>9. TcpResultsFitTheirChecks' /\ MixedRepliesWereOvertaken'
    BY <1>3 DEF TcpResultsFitTheirChecks, MixedRepliesWereOvertaken
  <1>. QED
    BY <1>2, <1>5, <1>6, <1>7, <1>8, <1>9

\* Steps of the manager and of the updates that store nothing.
LEMMA UpdatePreservesReadsInv ==
  ASSUME ReadsInv,
         UNCHANGED <<catalog, stored, locked, fence, status, tcp, reading, pages, since>>,
         running' \in [generation : Generations, inventory : Inventory],
         running'.generation <= fence,
         running'.generation = fence => running'.inventory = catalog,
         writes' \subseteq Write,
         WritesInv'
  PROVE  ReadsInv'
  <1>. USE DEF ReadsInv
  <1>1. TypedTables'
    BY DEF TypedTables
  <1>2. FenceInv'
    BY DEF FenceInv
  <1>3. RowsInv' /\ ReadingInv'
    BY DEF RowsInv, ReadingInv
  <1>4. RowsAreCurrent' /\ TcpResultsFitTheirChecks' /\ MixedRepliesWereOvertaken'
    BY DEF RowsAreCurrent, TcpResultsFitTheirChecks, MixedRepliesWereOvertaken
  <1>. QED
    BY <1>1, <1>2, <1>3, <1>4

LEMMA SwapPreservesReadsInv ==
  ASSUME ReadsInv, SwapTasks
  PROVE  ReadsInv'
  <1>1. /\ running' = [generation |-> fence, inventory |-> catalog]
        /\ writes' \subseteq writes
        /\ UNCHANGED <<catalog, stored, locked, fence, status, tcp, reading, pages, since>>
    BY DEF SwapTasks, readers
  <1>2. fence \in Nat /\ fence \in Generations /\ catalog \in Inventory
    BY CatalogAssumption DEF ReadsInv, TypedTables, Generations
  <1>3. WritesInv' /\ writes' \subseteq Write
    BY <1>1 DEF ReadsInv, WritesInv, TypedTables
  <1>. QED
    BY <1>1, <1>2, <1>3, UpdatePreservesReadsInv

LEMMA ObservePreservesReadsInv ==
  ASSUME ReadsInv, NEW h \in HostIds, NEW k \in Kinds, Observe(h, k)
  PROVE  ReadsInv'
  <1>1. PICK p \in Places(running.inventory[h], k) :
          writes' = writes \cup {[host |-> h, kind |-> k, generation |-> running.generation,
                                  probed |-> p, columns |-> {}]}
    BY DEF Observe
  <1>2. UNCHANGED <<catalog, stored, locked, fence, running, status, tcp, reading, pages,
                    since>>
    BY DEF Observe, readers
  <1>. DEFINE w == [host |-> h, kind |-> k, generation |-> running.generation,
                    probed |-> p, columns |-> {}]
  <1>3. /\ running \in [generation : Generations, inventory : Inventory]
        /\ running.generation \in Generations /\ running.inventory \in Inventory
        /\ running.generation <= fence
        /\ running.generation = fence => running.inventory = catalog
    BY DEF ReadsInv, TypedTables, FenceInv
  <1>4. p \in Place
    BY <1>3, InventoryPlaces
  <1>5. w \in Write
    BY <1>3, <1>4 DEF Write, Optional
  <1>6. /\ w.host = h /\ w.kind = k /\ w.generation = running.generation
        /\ w.probed = p /\ w.columns = {}
    OBVIOUS
  <1>. HIDE DEF w
  <1>7. writes' = writes \cup {w}
    BY <1>1 DEF w
  <1>8. writes' \subseteq Write
    BY <1>5, <1>7 DEF ReadsInv, TypedTables
  <1>9. WritesInv'
    BY <1>2, <1>3, <1>6, <1>7 DEF ReadsInv, WritesInv
  <1>. QED
    BY <1>2, <1>3, <1>8, <1>9, UpdatePreservesReadsInv

LEMMA LookUpPreservesReadsInv ==
  ASSUME ReadsInv, NEW w \in writes, LookUp(w)
  PROVE  ReadsInv'
  <1>. DEFINE cols == Places(catalog[w.host], w.kind)
              x == [w EXCEPT !.columns = cols]
  <1>1. /\ writes' = (writes \ {w}) \cup {x}
        /\ UNCHANGED <<catalog, stored, locked, fence, running, status, tcp, reading, pages,
                       since>>
    BY DEF LookUp, readers
  <1>2. w \in Write /\ w.host \in HostIds /\ w.kind \in Kinds /\ catalog \in Inventory
    BY DEF ReadsInv, TypedTables, Write
  <1>3. cols \in Optional(Place)
    <2>1. cols # {} /\ cols \subseteq Place /\ HasAtMostOne(cols)
      BY <1>2, InventoryPlaces DEF LookUp
    <2>2. PICK p \in cols : p \in Place
      BY <2>1
    <2>3. cols = {p}
      BY <2>1, <2>2 DEF HasAtMostOne
    <2>. QED
      BY <2>2, <2>3 DEF Optional
  <1>. HIDE DEF cols
  <1>4. /\ x \in Write /\ x.host = w.host /\ x.kind = w.kind
        /\ x.generation = w.generation /\ x.probed = w.probed /\ x.columns = cols
    BY <1>2, <1>3 DEF Write
  <1>. HIDE DEF x
  <1>5. writes' \subseteq Write
    BY <1>1, <1>4 DEF ReadsInv, TypedTables
  <1>6. WritesInv'
    BY <1>1, <1>4 DEF ReadsInv, WritesInv, cols
  <1>7. /\ running \in [generation : Generations, inventory : Inventory]
        /\ running.generation <= fence
        /\ running.generation = fence => running.inventory = catalog
    BY DEF ReadsInv, TypedTables, FenceInv
  <1>. QED
    BY <1>1, <1>5, <1>6, <1>7, UpdatePreservesReadsInv

LEMMA RejectOrFailPreservesReadsInv ==
  ASSUME ReadsInv, NEW w \in writes, RejectStale(w) \/ FailWrite(w)
  PROVE  ReadsInv'
  <1>. DEFINE x == [w EXCEPT !.columns = {}]
  <1>1. /\ writes' \subseteq writes \cup {x}
        /\ UNCHANGED <<catalog, stored, locked, fence, running, status, tcp, reading, pages,
                       since>>
    BY DEF RejectStale, FailWrite, readers
  <1>2. w \in Write
    BY DEF ReadsInv, TypedTables
  <1>3. /\ x \in Write /\ x.host = w.host /\ x.kind = w.kind
        /\ x.generation = w.generation /\ x.probed = w.probed /\ x.columns = {}
    BY <1>2 DEF Write, Optional
  <1>. HIDE DEF x
  <1>4. writes' \subseteq Write
    BY <1>1, <1>3 DEF ReadsInv, TypedTables
  <1>5. WritesInv'
    BY <1>1, <1>3 DEF ReadsInv, WritesInv
  <1>6. /\ running \in [generation : Generations, inventory : Inventory]
        /\ running.generation <= fence
        /\ running.generation = fence => running.inventory = catalog
    BY DEF ReadsInv, TypedTables, FenceInv
  <1>. QED
    BY <1>1, <1>4, <1>5, <1>6, UpdatePreservesReadsInv

\* The row says what the catalog says, since a reload would have made the update stale.
LEMMA StorePreservesReadsInv ==
  ASSUME ReadsInv, NEW w \in writes, StoreRow(w)
  PROVE  ReadsInv'
  <1>. USE DEF ReadsInv
  <1>1. /\ ~locked /\ w.columns # {} /\ w.generation = fence
        /\ writes' \subseteq writes
        /\ status' = IF w.kind = "status" THEN Upsert(status, w) ELSE status
        /\ tcp' = IF w.kind = "tcp" THEN Upsert(tcp, w) ELSE tcp
        /\ UNCHANGED <<catalog, stored, locked, fence, running, reading, pages, since>>
    BY DEF StoreRow, PresentGeneration, readers
  <1>2. /\ w \in Write /\ w.host \in HostIds /\ w.kind \in Kinds
        /\ w.probed \in Place /\ w.columns \in Optional(Place) /\ w.generation \in Generations
    BY DEF TypedTables, Write
  <1>3. /\ w.probed \in Places(catalog[w.host], w.kind)
        /\ w.columns = Places(catalog[w.host], w.kind)
        /\ HasAtMostOne(w.columns)
    BY <1>1, <1>2, InventoryPlaces DEF WritesInv, TypedTables
  <1>4. w.columns = {w.probed}
    BY <1>3 DEF HasAtMostOne
  <1>. DEFINE r == [host |-> w.host, columns |-> w.probed, probed |-> w.probed,
                    generation |-> w.generation]
  <1>5. /\ r \in Row /\ r.host = w.host /\ r.columns = w.probed /\ r.probed = w.probed
        /\ r.generation = fence
    BY <1>1, <1>2 DEF Row
  <1>6. \A table : Upsert(table, w) = (table \ RowsOf(table, w.host)) \cup {r}
    BY <1>4 DEF Upsert
  <1>. HIDE DEF r
  <1>7. \A table : Upsert(table, w) \subseteq table \cup {r}
    BY <1>6
  <1>8. /\ status' \subseteq status \/ (w.kind = "status" /\ status' \subseteq status \cup {r})
        /\ tcp' \subseteq tcp \/ (w.kind = "tcp" /\ tcp' \subseteq tcp \cup {r})
    BY <1>1, <1>7
  <1>9. TypedTables'
    BY <1>1, <1>5, <1>8 DEF TypedTables
  <1>10. FenceInv' /\ ReadingInv'
    BY <1>1 DEF FenceInv, ReadingInv
  <1>11. WritesInv'
    BY <1>1 DEF WritesInv
  <1>12. RowsInv'
    <2>1. fence \in Nat
      BY CatalogAssumption DEF TypedTables, Generations
    <2>. QED
      BY <1>1, <1>5, <1>8, <2>1 DEF RowsInv
  <1>13. RowsAreCurrent'
    <2>1. /\ r.probed \in Places(stored[r.host], w.kind)
          /\ r.generation >= since[r.host][w.kind]
      <3>1. stored = catalog /\ since[w.host][w.kind] <= fence
        BY <1>1, <1>2 DEF FenceInv
      <3>2. fence \in Nat
        BY CatalogAssumption DEF TypedTables, Generations
      <3>3. since[w.host] \in [Kinds -> Nat]
        BY <1>2 DEF TypedTables
      <3>4. since[w.host][w.kind] \in Nat
        BY <1>2, <3>3
      <3>. QED
        BY <1>3, <1>5, <3>1, <3>2, <3>4
    <2>. QED
      BY <1>1, <1>8, <2>1 DEF RowsAreCurrent
  <1>14. TcpResultsFitTheirChecks' /\ MixedRepliesWereOvertaken'
    BY <1>1 DEF TcpResultsFitTheirChecks, MixedRepliesWereOvertaken
  <1>. QED
    BY <1>9, <1>10, <1>11, <1>12, <1>13, <1>14

\* Steps of the clients: the tables stay as they are.
LEMMA ReadPreservesReadsInv ==
  ASSUME ReadsInv,
         UNCHANGED <<catalog, stored, locked, fence, running, writes, status, tcp, since>>,
         reading' \in [Clients -> SUBSET Read],
         pages' \in [Clients -> SUBSET Shown],
         ReadingInv', TcpResultsFitTheirChecks', MixedRepliesWereOvertaken'
  PROVE  ReadsInv'
  <1>. USE DEF ReadsInv
  <1>1. TypedTables'
    BY DEF TypedTables
  <1>2. FenceInv' /\ WritesInv' /\ RowsInv' /\ RowsAreCurrent'
    BY DEF FenceInv, WritesInv, RowsInv, RowsAreCurrent
  <1>. QED
    BY <1>1, <1>2

LEMMA UnchangedTables ==
  ASSUME ReadsInv,
         UNCHANGED <<catalog, stored, locked, fence, running, writes, status, tcp, since,
                     reading, pages>>
  PROVE  ReadsInv'
  BY DEF ReadsInv, TypedTables, FenceInv, WritesInv, RowsInv, ReadingInv, RowsAreCurrent,
     TcpResultsFitTheirChecks, MixedRepliesWereOvertaken

LEMMA AskPreservesReadsInv ==
  ASSUME ReadsInv, NEW c \in Clients, Begin(c) \/ Ask(c) \/ Abandon(c)
  PROVE  ReadsInv'
  <1>. DEFINE k == [catalog |-> catalog, generation |-> fence]
  <1>1. /\ UNCHANGED <<catalog, stored, locked, fence, running, writes, status, tcp, since>>
        /\ \/ reading' = reading
           \/ reading' = [reading EXCEPT ![c] = {}]
           \/ reading' = [reading EXCEPT ![c] = {k}]
        /\ pages' = pages \/ pages' = [pages EXCEPT ![c] = {}]
    BY DEF Begin, Ask, Abandon, Leave, monitors
  <1>2. k \in Read /\ k.catalog = catalog /\ k.generation = fence /\ fence \in Nat
    BY CatalogAssumption DEF ReadsInv, TypedTables, Read, Generations
  <1>. HIDE DEF k
  <1>3. reading \in [Clients -> SUBSET Read] /\ pages \in [Clients -> SUBSET Shown]
    BY DEF ReadsInv, TypedTables
  <1>4. /\ reading' \in [Clients -> SUBSET Read]
        /\ \A d \in Clients : reading'[d] \subseteq reading[d] \cup {k}
    BY <1>1, <1>2, <1>3
  <1>5. /\ pages' \in [Clients -> SUBSET Shown]
        /\ \A d \in Clients : pages'[d] \subseteq pages[d]
    BY <1>1, <1>3
  <1>6. ReadingInv'
    BY <1>1, <1>2, <1>4 DEF ReadsInv, ReadingInv
  <1>7. TcpResultsFitTheirChecks' /\ MixedRepliesWereOvertaken'
    BY <1>5 DEF ReadsInv, TcpResultsFitTheirChecks, MixedRepliesWereOvertaken
  <1>. QED
    BY <1>1, <1>4, <1>5, <1>6, <1>7, ReadPreservesReadsInv

\* A record that an answer shows.
LEMMA RecordFits ==
  ASSUME ReadsInv, NEW c \in Clients, NEW k \in reading[c], NEW h \in HostIds,
         NEW s \in HostRecord(k, h)
  PROVE  /\ s \in Shown
         /\ \A r \in s.tcp : r.probed = s.place
         /\ \A r \in s.status : r.probed.address # s.place.address => s.taken < s.read
  <1>. USE DEF ReadsInv
  <1>1. k \in Read /\ k.catalog \in Inventory /\ k.generation \in Generations
    BY DEF TypedTables, Read
  <1>2. k.generation <= fence /\ (k.generation = fence => k.catalog = catalog)
    BY DEF ReadingInv
  <1>. DEFINE n == IF locked THEN fence + 1 ELSE fence
  <1>3. fence \in Nat /\ n \in Generations /\ n \in Nat
    BY CatalogAssumption DEF TypedTables, FenceInv, Generations
  <1>4. PICK place \in k.catalog[h] :
          s = [host |-> h, place |-> place, status |-> RowsOf(status, h),
               tcp |-> LoadTcp(place, h), taken |-> k.generation, read |-> n]
    BY DEF HostRecord
  <1>5. /\ s.host = h /\ s.place = place /\ s.status = RowsOf(status, h)
        /\ s.tcp = LoadTcp(place, h) /\ s.taken = k.generation /\ s.read = n
    BY <1>4
  <1>. HIDE DEF n
  <1>6. place \in Place
    BY <1>1 DEF Inventory, Optional, Host, Place
  <1>7. s \in Shown
    <2>1. RowsOf(status, h) \in SUBSET Row /\ LoadTcp(place, h) \in SUBSET Row
      BY DEF RowsOf, LoadTcp, TypedTables
    <2>. QED
      BY <1>1, <1>3, <1>4, <1>6, <2>1 DEF Shown
  <1>8. \A r \in s.tcp : r.probed = s.place
    BY <1>5 DEF LoadTcp, RowsOf, RowsInv
  <1>9. ASSUME NEW r \in s.status, r.probed.address # s.place.address, ~(s.taken < s.read)
        PROVE  FALSE
    <2>1. r \in status /\ r.host = h
      BY <1>5 DEF RowsOf
    <2>2. ~locked /\ k.generation = fence
      <3>1. k.generation \in Nat
        BY <1>1 DEF Generations
      <3>. QED
        BY <1>2, <1>3, <1>5, <1>9, <3>1 DEF n
    <2>3. k.catalog = stored
      BY <1>2, <2>2 DEF FenceInv
    <2>4. r.probed \in Places(stored[h], "status")
      BY <2>1 DEF RowsAreCurrent
    <2>5. stored[h] \in Optional(Host) /\ "status" \in Kinds
      BY DEF TypedTables, Inventory, Kinds
    <2>6. r.probed.address = place.address
      BY <1>4, <2>3, <2>4, <2>5, PlacesFact
    <2>. QED
      BY <1>5, <1>9, <2>6
  <1>. QED
    BY <1>7, <1>8, <1>9

LEMMA AnswerPreservesReadsInv ==
  ASSUME ReadsInv, NEW c \in Clients, Answer(c)
  PROVE  ReadsInv'
  <1>1. PICK k \in reading[c], page \in SUBSET HostIds :
          /\ reading' = [reading EXCEPT ![c] = {}]
          /\ pages' = [pages EXCEPT ![c] = UNION {HostRecord(k, h) : h \in page}]
          /\ UNCHANGED <<catalog, stored, locked, fence, running, writes, status, tcp, since>>
    <2>. DEFINE page(k) ==
                  FirstOf(FirstOf(AfterCursor(k.catalog, clients[c].cursor),
                                  LookAhead(PageSize)), PageSize)
    <2>1. PICK k \in reading[c] :
            /\ reading' = [reading EXCEPT ![c] = {}]
            /\ pages' = [pages EXCEPT ![c] = UNION {HostRecord(k, h) : h \in page(k)}]
            /\ UNCHANGED <<catalog, stored, locked, fence, running, writes, status, tcp,
                           since>>
      BY Zenon DEF Answer, monitors
    <2>2. page(k) \in SUBSET HostIds
      BY DEF FirstOf, AfterCursor, Present
    <2>. QED
      BY <2>1, <2>2
  <1>. DEFINE shown == UNION {HostRecord(k, h) : h \in page}
  <1>2. \A s \in shown : \E h \in HostIds : s \in HostRecord(k, h)
    OBVIOUS
  <1>. HIDE DEF shown
  <1>3. \A s \in shown :
          /\ s \in Shown
          /\ \A r \in s.tcp : r.probed = s.place
          /\ \A r \in s.status : r.probed.address # s.place.address => s.taken < s.read
    BY <1>2, RecordFits
  <1>4. reading \in [Clients -> SUBSET Read] /\ pages \in [Clients -> SUBSET Shown]
    BY DEF ReadsInv, TypedTables
  <1>5. /\ reading' \in [Clients -> SUBSET Read]
        /\ \A d \in Clients : reading'[d] \subseteq reading[d]
    BY <1>1, <1>4
  <1>6. /\ pages' \in [Clients -> SUBSET Shown]
        /\ \A d \in Clients : pages'[d] = pages[d] \/ pages'[d] = shown
    <2>1. shown \subseteq Shown /\ pages' = [pages EXCEPT ![c] = shown]
      BY <1>1, <1>3 DEF shown
    <2>. QED
      BY <1>4, <2>1
  <1>7. ReadingInv'
    BY <1>1, <1>5 DEF ReadsInv, ReadingInv
  <1>8. TcpResultsFitTheirChecks'
    BY <1>3, <1>6 DEF ReadsInv, TcpResultsFitTheirChecks
  <1>9. MixedRepliesWereOvertaken'
    BY <1>3, <1>6 DEF ReadsInv, MixedRepliesWereOvertaken
  <1>. QED
    BY <1>1, <1>5, <1>6, <1>7, <1>8, <1>9, ReadPreservesReadsInv

LEMMA StepPreservesReadsInv == ReadsInv /\ [Next]_vars => ReadsInv'
  <1>. SUFFICES ASSUME ReadsInv, [Next]_vars PROVE ReadsInv'
    OBVIOUS
  <1>1. CASE \E new \in Configurations : CommitReload(new) \/ Restart(new)
    BY <1>1, CommitPreservesReadsInv, RestartPreservesReadsInv
  <1>2. CASE PublishReload \/ SwapTasks
    BY <1>2, PublishPreservesReadsInv, SwapPreservesReadsInv
  <1>3. CASE \E h \in HostIds, k \in Kinds : Observe(h, k)
    BY <1>3, ObservePreservesReadsInv
  <1>4. CASE \E w \in writes : LookUp(w) \/ StoreRow(w) \/ RejectStale(w) \/ FailWrite(w)
    BY <1>4, LookUpPreservesReadsInv, StorePreservesReadsInv, RejectOrFailPreservesReadsInv
  <1>5. CASE \E c \in Clients : Begin(c) \/ Ask(c) \/ Answer(c) \/ Abandon(c)
    BY <1>5, AskPreservesReadsInv, AnswerPreservesReadsInv
  <1>6. CASE OrphanEnds
    <2>1. UNCHANGED <<catalog, stored, locked, fence, running, writes, status, tcp, since,
                      reading, pages>>
      BY <1>6 DEF OrphanEnds, monitors
    <2>. QED
      BY <2>1, UnchangedTables
  <1>7. CASE UNCHANGED vars
    <2>1. UNCHANGED <<catalog, stored, locked, fence, running, writes, status, tcp, since,
                      reading, pages>>
      BY <1>7 DEF vars, monitors, readers
    <2>. QED
      BY <2>1, UnchangedTables
  <1>. QED
    BY <1>1, <1>2, <1>3, <1>4, <1>5, <1>6, <1>7 DEF Next

\* The tables fit the inventory and the replies fit the tables in every reachable state.
THEOREM ReadsInvariant == Spec => []ReadsInv
  BY InitEstablishesReadsInv, StepPreservesReadsInv, PTL DEF Spec

\* No row remains that was measured somewhere else than its host or check now is, or
\* before it came there, whatever updates reloads and restarts overtake.
THEOREM RowsCorrect == Spec => []RowsAreCurrent
  <1>1. ReadsInv => RowsAreCurrent
    BY DEF ReadsInv
  <1>. QED
    BY <1>1, ReadsInvariant, PTL

\* A TCP result is shown only with the address and port that it was measured at.
THEOREM TcpReplies == Spec => []TcpResultsFitTheirChecks
  <1>1. ReadsInv => TcpResultsFitTheirChecks
    BY DEF ReadsInv
  <1>. QED
    BY <1>1, ReadsInvariant, PTL

\* Only a read that a reload overtakes shows a status with an address it does not fit.
THEOREM MixedReplies == Spec => []MixedRepliesWereOvertaken
  <1>1. ReadsInv => MixedRepliesWereOvertaken
    BY DEF ReadsInv
  <1>. QED
    BY <1>1, ReadsInvariant, PTL

-----------------------------------------------------------------------------
(* Permits and connections.                                                *)

\* Every permit is free, or belongs to a read, with its client or without.
PermitInv ==
  /\ permits \in Nat /\ orphans \in Nat
  /\ reading \in [Clients -> SUBSET Read]
  /\ permits + orphans + Cardinality(Reading) = PoolSize

LEMMA ReadingCounted == IsFiniteSet(Reading) /\ Cardinality(Reading) \in Nat
  BY CatalogAssumption, FS_Subset, FS_CardinalityType DEF Reading

\* A client that begins to read, or ceases to, changes their number by one.
LEMMA ReadingOfOne ==
  ASSUME NEW c \in Clients, NEW k \in SUBSET Read,
         reading \in [Clients -> SUBSET Read],
         reading' = [reading EXCEPT ![c] = k]
  PROVE  /\ reading' \in [Clients -> SUBSET Read]
         /\ Cardinality(Reading)' \in Nat
         /\ reading[c] = {} /\ k # {} => Cardinality(Reading)' = Cardinality(Reading) + 1
         /\ reading[c] # {} /\ k = {} => Cardinality(Reading)' = Cardinality(Reading) - 1
  <1>1. reading' \in [Clients -> SUBSET Read]
    OBVIOUS
  <1>2. CASE k # {}
    <2>1. Reading' = Reading \cup {c}
      BY <1>2 DEF Reading
    <2>2. /\ IsFiniteSet(Reading')
          /\ Cardinality(Reading') = IF c \in Reading THEN Cardinality(Reading)
                                     ELSE Cardinality(Reading) + 1
      BY <2>1, ReadingCounted, FS_AddElement
    <2>3. Cardinality(Reading') \in Nat
      BY <2>2, FS_CardinalityType
    <2>4. c \in Reading <=> reading[c] # {}
      BY DEF Reading
    <2>. QED
      BY <1>1, <1>2, <2>2, <2>3, <2>4
  <1>3. CASE k = {}
    <2>1. Reading' = Reading \ {c}
      BY <1>3 DEF Reading
    <2>2. /\ IsFiniteSet(Reading')
          /\ Cardinality(Reading') = IF c \in Reading THEN Cardinality(Reading) - 1
                                     ELSE Cardinality(Reading)
      BY <2>1, ReadingCounted, FS_RemoveElement
    <2>3. Cardinality(Reading') \in Nat
      BY <2>2, FS_CardinalityType
    <2>4. c \in Reading <=> reading[c] # {}
      BY DEF Reading
    <2>. QED
      BY <1>1, <1>3, <2>2, <2>3, <2>4
  <1>. QED
    BY <1>2, <1>3

\* A process starts with every permit.
LEMMA AllPermits ==
  ASSUME permits = PoolSize, orphans = 0, reading = [c \in Clients |-> {}]
  PROVE  PermitInv
  <1>1. Reading = {}
    BY DEF Reading
  <1>2. Cardinality(Reading) = 0
    BY <1>1, FS_EmptySet
  <1>. QED
    BY <1>2, CatalogAssumption DEF PermitInv

\* Every step keeps the sum; that a read takes a proper catalog is TypedTables.
LEMMA NextPreservesPermitInv ==
  ASSUME PermitInv, TypedTables, [Next]_vars
  PROVE  PermitInv'
  <1>. USE DEF PermitInv
  <1>1. CASE UNCHANGED <<permits, orphans, reading>>
    BY <1>1 DEF Reading
  <1>2. ASSUME NEW new \in Configurations, Restart(new)
        PROVE  PermitInv'
    <2>1. permits' = PoolSize /\ orphans' = 0 /\ reading' = [c \in Clients |-> {}]
      BY <1>2 DEF Restart
    <2>2. Reading' = {}
      BY <2>1 DEF Reading
    <2>3. Cardinality(Reading)' = 0
      BY <2>2, FS_EmptySet
    <2>. QED
      BY <2>1, <2>3, CatalogAssumption
  <1>3. ASSUME NEW c \in Clients, Ask(c)
        PROVE  PermitInv'
    <2>1. {[catalog |-> catalog, generation |-> fence]} \in SUBSET Read
      BY DEF TypedTables, Read
    <2>. DEFINE k == {[catalog |-> catalog, generation |-> fence]}
    <2>4. /\ reading[c] = {} /\ k # {} /\ k \in SUBSET Read
          /\ reading' = [reading EXCEPT ![c] = k]
      BY <1>3, <2>1 DEF Ask
    <2>. HIDE DEF k
    <2>2. /\ reading' \in [Clients -> SUBSET Read]
          /\ Cardinality(Reading)' = Cardinality(Reading) + 1
      BY <2>4, ReadingOfOne
    <2>3. permits' = permits - 1 /\ permits' \in Nat /\ orphans' = orphans
      BY <1>3 DEF Ask
    <2>. QED
      BY <2>2, <2>3, ReadingCounted, CatalogAssumption
  <1>4. ASSUME NEW c \in Clients, Answer(c)
        PROVE  PermitInv'
    <2>1. /\ reading[c] # {} /\ reading' = [reading EXCEPT ![c] = {}]
          /\ permits' = permits + 1 /\ orphans' = orphans
      BY <1>4 DEF Answer
    <2>2. /\ reading' \in [Clients -> SUBSET Read]
          /\ Cardinality(Reading)' = Cardinality(Reading) - 1
      BY <2>1, ReadingOfOne
    <2>. QED
      BY <2>1, <2>2, ReadingCounted, CatalogAssumption
  <1>5. ASSUME NEW c \in Clients, Abandon(c)
        PROVE  PermitInv'
    <2>1. /\ reading[c] # {} /\ reading' = [reading EXCEPT ![c] = {}]
          /\ permits' = permits /\ orphans' = orphans + 1
      BY <1>5 DEF Abandon, Leave
    <2>2. /\ reading' \in [Clients -> SUBSET Read]
          /\ Cardinality(Reading)' = Cardinality(Reading) - 1
      BY <2>1, ReadingOfOne
    <2>. QED
      BY <2>1, <2>2, ReadingCounted, CatalogAssumption
  <1>6. CASE OrphanEnds
    <2>1. /\ permits' = permits + 1 /\ orphans' = orphans - 1 /\ orphans > 0
          /\ reading' = reading
      BY <1>6 DEF OrphanEnds
    <2>2. Reading' = Reading
      BY <2>1 DEF Reading
    <2>. QED
      BY <2>1, <2>2, ReadingCounted, CatalogAssumption
  <1>7. CASE \/ \E new \in Configurations : CommitReload(new)
             \/ PublishReload \/ SwapTasks
             \/ \E h \in HostIds, k \in Kinds : Observe(h, k)
             \/ \E w \in writes : LookUp(w) \/ StoreRow(w) \/ RejectStale(w) \/ FailWrite(w)
             \/ \E c \in Clients : Begin(c)
             \/ UNCHANGED vars
    <2>1. UNCHANGED <<permits, orphans, reading>>
      BY <1>7 DEF CommitReload, PublishReload, SwapTasks, Observe, LookUp, StoreRow,
                  RejectStale, FailWrite, Begin, readers, vars
    <2>. QED
      BY <1>1, <2>1
  <1>. QED
    BY <1>2, <1>3, <1>4, <1>5, <1>6, <1>7 DEF Next

LEMMA PermitsInvariant == Spec => []PermitInv
  <1>1. Init => PermitInv
    BY AllPermits DEF Init
  <1>2. ReadsInv /\ PermitInv /\ [Next]_vars => PermitInv'
    BY NextPreservesPermitInv DEF ReadsInv
  <1>. QED
    BY ReadsInvariant, <1>1, <1>2, PTL DEF Spec

\* There is a connection for every read that was admitted, for any size of the pool, and
\* however many clients go while their reads run.
THEOREM ReadsConnect == Spec => []AdmittedReadsHaveConnections
  <1>1. PermitInv => AdmittedReadsHaveConnections
    BY ReadingCounted, CatalogAssumption DEF PermitInv, AdmittedReadsHaveConnections
  <1>. QED
    BY <1>1, PermitsInvariant, PTL

-----------------------------------------------------------------------------
(* Sets of ids and their order.                                            *)

LEMMA IdsAreNumbers ==
  ASSUME NEW S, S \subseteq HostIds
  PROVE  S \subseteq Nat /\ IsFiniteSet(S) /\ Cardinality(S) \in Nat
  BY CatalogAssumption, FS_Subset, FS_CardinalityType

LEMMA LeastId ==
  ASSUME NEW S, S \subseteq HostIds, S # {}
  PROVE  \E x \in S : \A y \in S : x <= y
  <1>. DEFINE R == {ss \in Nat \X Nat : ss[1] < ss[2]}
  <1>1. IsWellFoundedOn(R, Nat)
    BY NatLessThanWellFounded DEF OpToRel
  <1>2. \A x, y \in Nat : <<y, x>> \in R <=> y < x
    OBVIOUS
  <1>3. S \subseteq Nat
    BY IdsAreNumbers
  <1>. HIDE DEF R
  <1>4. PICK x \in S : \A y \in S : ~(<<y, x>> \in R)
    BY <1>1, <1>3, WFMin, Zenon
  <1>5. ASSUME NEW y \in S PROVE x <= y
    <2>1. x \in Nat /\ y \in Nat /\ ~(y < x)
      BY <1>2, <1>3, <1>4
    <2>. QED
      BY <2>1
  <1>. QED
    BY <1>5

\* There is a smallest set among some sets of ids: no other of them is part of it.
LEMMA SmallestSet ==
  ASSUME NEW F, F \subseteq SUBSET HostIds, F # {}
  PROVE  \E U \in F : \A V \in F : V \subseteq U => V = U
  <1>1. F \subseteq FiniteSubsetsOf(HostIds)
    BY IdsAreNumbers DEF FiniteSubsetsOf
  <1>2. PICK U \in F : \A V \in F : ~(<<V, U>> \in StrictSubsetOrdering(HostIds))
    BY <1>1, FS_StrictSubsetOrderingWellFounded, WFMin, Zenon
  <1>3. \A V \in F : V \subseteq U /\ V # U => <<V, U>> \in StrictSubsetOrdering(HostIds)
    BY DEF StrictSubsetOrdering
  <1>4. \A V \in F : V \subseteq U => V = U
    BY <1>2, <1>3
  <1>. QED
    BY <1>4

LEMMA GreatestId ==
  ASSUME NEW S, S \subseteq HostIds, S # {}
  PROVE  \E x \in S : \A y \in S : y <= x
  <1>. DEFINE Up(x) == {y \in S : x <= y}
              F == {Up(x) : x \in S}
  <1>1. F \subseteq SUBSET HostIds /\ F # {}
    OBVIOUS
  <1>2. PICK x \in S : \A V \in F : V \subseteq Up(x) => V = Up(x)
    <2>. HIDE DEF Up
    <2>1. PICK U \in F : \A V \in F : V \subseteq U => V = U
      <3>. HIDE DEF F
      <3>. QED
        BY <1>1, SmallestSet
    <2>. QED
      BY <2>1
  <1>3. ASSUME NEW y \in S, ~(y <= x) PROVE FALSE
    <2>1. S \subseteq Nat
      BY IdsAreNumbers
    <2>2. x \in Nat /\ y \in Nat /\ x < y
      BY <1>3, <2>1
    <2>3. Up(y) \subseteq Up(x)
      <3>1. ASSUME NEW z \in S, y <= z PROVE x <= z
        BY <2>1, <2>2, <3>1
      <3>. QED
        BY <3>1
    <2>4. x \in Up(x) /\ x \notin Up(y)
      BY <2>2
    <2>. QED
      BY <1>2, <2>3, <2>4
  <1>. QED
    BY <1>3

\* A listing of S in ascending order.
Ascending(s, S) ==
  /\ s \in [1 .. Cardinality(S) -> S]
  /\ \A i, j \in 1 .. Cardinality(S) : i < j => s[i] < s[j]

LEMMA ListingExists ==
  ASSUME NEW S, S \subseteq HostIds
  PROVE  \E s : Ascending(s, S)
  <1>. DEFINE Bad == {U \in SUBSET HostIds : ~\E s : Ascending(s, U)}
  <1>. SUFFICES ASSUME Bad # {} PROVE FALSE
    OBVIOUS
  <1>1. PICK U \in Bad : \A V \in Bad : V \subseteq U => V = U
    <2>1. Bad \subseteq SUBSET HostIds
      OBVIOUS
    <2>. HIDE DEF Bad
    <2>. QED
      BY <2>1, SmallestSet
  <1>2. U \subseteq HostIds /\ ~\E s : Ascending(s, U)
    OBVIOUS
  <1>3. U # {}
    <2>. SUFFICES ASSUME U = {} PROVE FALSE
      OBVIOUS
    <2>1. Cardinality(U) = 0
      BY FS_EmptySet
    <2>2. Ascending([i \in 1 .. 0 |-> 0], U)
      BY <2>1 DEF Ascending
    <2>. QED
      BY <1>2, <2>2
  <1>4. PICK m \in U : \A y \in U : y <= m
    BY <1>2, <1>3, GreatestId
  <1>. DEFINE V == U \ {m}
              n == Cardinality(V)
  <1>5. n \in Nat /\ Cardinality(U) = n + 1
    BY <1>2, IdsAreNumbers, FS_RemoveElement
  <1>6. PICK s : Ascending(s, V)
    <2>1. V \in SUBSET HostIds /\ V # U /\ V \subseteq U
      BY <1>2
    <2>. QED
      BY <1>1, <2>1
  <1>. DEFINE t == [i \in 1 .. n + 1 |-> IF i <= n THEN s[i] ELSE m]
  <1>. HIDE DEF n
  <1>7. s \in [1 .. n -> V] /\ \A i, j \in 1 .. n : i < j => s[i] < s[j]
    BY <1>6 DEF Ascending, n
  <1>8. t \in [1 .. n + 1 -> U]
    BY <1>5, <1>7
  <1>9. ASSUME NEW i \in 1 .. n + 1, NEW j \in 1 .. n + 1, i < j
        PROVE  t[i] < t[j]
    <2>1. i \in 1 .. n /\ t[i] = s[i] /\ s[i] \in V
      BY <1>5, <1>7, <1>9
    <2>2. CASE j <= n
      BY <1>5, <1>7, <1>9, <2>1, <2>2
    <2>3. CASE ~(j <= n)
      <3>1. t[j] = m
        BY <2>3
      <3>2. s[i] \in Nat /\ m \in Nat /\ s[i] <= m /\ s[i] # m
        BY <1>2, <1>4, <2>1, IdsAreNumbers
      <3>. QED
        BY <2>1, <3>1, <3>2
    <2>. QED
      BY <2>2, <2>3
  <1>10. Ascending(t, U)
    BY <1>5, <1>8, <1>9 DEF Ascending
  <1>. QED
    BY <1>2, <1>10

\* The ids of a page in their order: all of them, each once.
LEMMA OrderOfPage ==
  ASSUME NEW S, S \subseteq HostIds
  PROVE  /\ InOrder(S) \in Seq(S) /\ DOMAIN InOrder(S) = 1 .. Cardinality(S)
         /\ Len(InOrder(S)) = Cardinality(S)
         /\ \A i, j \in 1 .. Cardinality(S) : i < j => InOrder(S)[i] < InOrder(S)[j]
         /\ \A h \in S : \E i \in 1 .. Cardinality(S) : InOrder(S)[i] = h
  <1>. DEFINE n == Cardinality(S)
              s == InOrder(S)
  <1>1. n \in Nat /\ IsFiniteSet(S) /\ S \subseteq Nat
    BY IdsAreNumbers
  <1>2. s \in [1 .. n -> S] /\ \A i, j \in 1 .. n : i < j => s[i] < s[j]
    <2>1. \E q \in [1 .. n -> S] : \A i, j \in 1 .. n : i < j => q[i] < q[j]
      BY ListingExists DEF Ascending
    <2>. QED
      BY <2>1 DEF InOrder
  <1>. HIDE DEF s, n
  <1>3. ASSUME NEW i \in 1 .. n, NEW j \in 1 .. n, s[i] = s[j] PROVE i = j
    <2>1. s[i] \in Nat /\ s[j] \in Nat
      BY <1>1, <1>2
    <2>2. ~(s[i] < s[j]) /\ ~(s[j] < s[i])
      BY <1>3, <2>1
    <2>3. ~(i < j) /\ ~(j < i)
      BY <1>2, <2>2
    <2>. QED
      BY <2>3
  <1>4. s \in Injection(1 .. n, S)
    BY <1>2, <1>3 DEF Injection, IsInjective
  <1>5. Cardinality(1 .. n) = Cardinality(S)
    BY <1>1, FS_Interval DEF n
  <1>6. s \in Surjection(1 .. n, S)
    BY <1>1, <1>4, <1>5, FS_Injection
  <1>7. \A h \in S : \E i \in 1 .. n : s[i] = h
    BY <1>6 DEF Surjection
  <1>8. s \in Seq(S) /\ Len(s) = n /\ DOMAIN s = 1 .. n
    BY <1>1, <1>2
  <1>. QED
    BY <1>2, <1>7, <1>8 DEF s, n

-----------------------------------------------------------------------------
(* Pages.                                                                  *)

\* FirstOf takes a host only with every one that comes before it.
LEMMA FirstOfIsInitial ==
  ASSUME NEW S, S \subseteq HostIds, NEW n \in Nat,
         NEW h \in FirstOf(S, n), NEW g \in S, g <= h
  PROVE  g \in FirstOf(S, n)
  <1>. DEFINE less(x) == {y \in S : y < x}
  <1>1. h \in S /\ Cardinality(less(h)) < n
    BY DEF FirstOf
  <1>2. S \subseteq Nat
    BY IdsAreNumbers
  <1>3. less(g) \in SUBSET less(h) /\ less(h) \subseteq HostIds
    <2>1. ASSUME NEW y \in S, y < g PROVE y < h
      <3>1. y \in Nat /\ g \in Nat /\ h \in Nat
        BY <1>1, <1>2
      <3>. QED
        BY <2>1, <3>1
    <2>. QED
      BY <2>1
  <1>4. /\ Cardinality(less(g)) <= Cardinality(less(h))
        /\ Cardinality(less(g)) \in Nat /\ Cardinality(less(h)) \in Nat
    <2>. HIDE DEF less
    <2>. QED
      BY <1>3, IdsAreNumbers, FS_Subset
  <1>5. Cardinality(less(g)) < n
    <2>. HIDE DEF less
    <2>. QED
      BY <1>1, <1>4
  <1>. QED
    BY <1>5 DEF FirstOf

\* A page of the hosts A that are left: the first of them, all of them if there are not more
\* than a page, and some if there are.
LEMMA PageOf ==
  ASSUME NEW A, A \subseteq HostIds, NEW n \in Nat \ {0},
         NEW records, records = FirstOf(A, n + 1),
         NEW page, page = FirstOf(records, n)
  PROVE  /\ page \subseteq A
         /\ \A h \in page, g \in A : g <= h => g \in page
         /\ Cardinality(records) <= n => page = A
         /\ Cardinality(records) > n => page # {}
  <1>1. records \subseteq A /\ page \subseteq records
    BY DEF FirstOf
  <1>2. records \subseteq HostIds /\ Cardinality(records) \in Nat /\ IsFiniteSet(records)
    BY <1>1, IdsAreNumbers
  <1>3. ASSUME NEW h \in page, NEW g \in A, g <= h PROVE g \in page
    <2>1. g \in records
      BY <1>1, <1>3, FirstOfIsInitial
    <2>. QED
      BY <1>2, <1>3, <2>1, FirstOfIsInitial
  <1>4. ASSUME Cardinality(records) <= n PROVE page = A
    <2>1. records = A
      <3>. SUFFICES ASSUME A \ records # {} PROVE FALSE
        BY <1>1
      <3>1. PICK h \in A \ records : \A g \in A \ records : h <= g
        <4>1. A \ records \subseteq HostIds
          OBVIOUS
        <4>. QED
          BY <4>1, LeastId
      <3>2. {g \in A : g < h} \in SUBSET records
        <4>1. ASSUME NEW g \in A, g < h, g \notin records PROVE FALSE
          <5>1. g \in Nat /\ h \in Nat /\ h <= g
            BY <3>1, <4>1, IdsAreNumbers
          <5>. QED
            BY <4>1, <5>1
        <4>. QED
          BY <4>1
      <3>3. /\ Cardinality({g \in A : g < h}) <= Cardinality(records)
            /\ Cardinality({g \in A : g < h}) \in Nat
        BY <1>2, <3>2, FS_Subset, FS_CardinalityType
      <3>4. Cardinality({g \in A : g < h}) < n + 1
        BY <1>2, <1>4, <3>3
      <3>. QED
        BY <3>1, <3>4 DEF FirstOf
    <2>2. ASSUME NEW h \in records PROVE h \in page
      <3>. DEFINE less == {g \in records : g < h}
      <3>1. h \notin less
        BY <1>2, IdsAreNumbers
      <3>2. less \in SUBSET (records \ {h})
        BY <3>1
      <3>3. /\ IsFiniteSet(records \ {h})
            /\ Cardinality(records \ {h}) = Cardinality(records) - 1
        BY <1>2, <2>2, FS_RemoveElement
      <3>4. Cardinality(less) <= Cardinality(records) - 1 /\ Cardinality(less) \in Nat
        BY <3>2, <3>3, FS_Subset, FS_CardinalityType
      <3>5. Cardinality(less) < n
        BY <1>2, <1>4, <3>4
      <3>. QED
        BY <2>2, <3>5 DEF FirstOf
    <2>. QED
      BY <1>1, <2>1, <2>2
  <1>5. ASSUME Cardinality(records) > n PROVE page # {}
    <2>1. records # {}
      BY <1>2, <1>5, FS_EmptySet
    <2>2. PICK h \in records : \A g \in records : h <= g
      BY <1>2, <2>1, LeastId
    <2>3. {g \in records : g < h} = {}
      BY <1>2, <2>2, IdsAreNumbers
    <2>4. Cardinality({g \in records : g < h}) = 0
      BY <2>3, FS_EmptySet
    <2>5. Cardinality({g \in records : g < h}) < n
      BY <2>4
    <2>. QED
      BY <2>2, <2>5 DEF FirstOf
  <1>. QED
    BY <1>1, <1>3, <1>4, <1>5

-----------------------------------------------------------------------------
(* Paging.                                                                 *)

\* A client, the reads that it waits for and a catalog: what it has got is in order and ends
\* at its cursor, and all of its steady hosts up to the cursor are among it.
ClientFits(k, reads, inventory) ==
  /\ k \in Client
  /\ HasAtMostOne(reads)
  /\ k.state # "paging" => reads = {}
  /\ k.steady \subseteq Present(inventory)
  /\ \A r \in reads : k.steady \subseteq Present(r.catalog)
  /\ \A i, j \in DOMAIN k.got : i < j => k.got[i] < k.got[j]
  /\ k.state = "paging" => \A i \in DOMAIN k.got : k.got[i] <= k.cursor
  /\ \A h \in k.steady : k.state = "done" \/ h <= k.cursor =>
                           \E i \in DOMAIN k.got : k.got[i] = h

PagesInv ==
  /\ clients = [c \in Clients |-> clients[c]]
  /\ \A c \in Clients : ClientFits(clients[c], reading[c], catalog)

\* What a list becomes when another is added to it.
LEMMA Joined ==
  ASSUME NEW S, NEW s \in Seq(S), NEW t \in Seq(S)
  PROVE  /\ s \o t \in Seq(S)
         /\ DOMAIN (s \o t) = 1 .. Len(s) + Len(t)
         /\ \A i \in 1 .. Len(s) : i \in DOMAIN (s \o t) /\ (s \o t)[i] = s[i]
         /\ \A i \in 1 .. Len(t) : /\ Len(s) + i \in DOMAIN (s \o t)
                                   /\ (s \o t)[Len(s) + i] = t[i]
  <1>1. Len(s) \in Nat /\ Len(t) \in Nat
    OBVIOUS
  <1>2. s \o t \in Seq(S) /\ Len(s \o t) = Len(s) + Len(t)
    OBVIOUS
  <1>3. DOMAIN (s \o t) = 1 .. Len(s) + Len(t)
    BY <1>1, <1>2
  <1>4. ASSUME NEW i \in 1 .. Len(s)
        PROVE  i \in DOMAIN (s \o t) /\ (s \o t)[i] = s[i]
    BY <1>1, <1>3
  <1>5. ASSUME NEW i \in 1 .. Len(t)
        PROVE  Len(s) + i \in DOMAIN (s \o t) /\ (s \o t)[Len(s) + i] = t[i]
    BY <1>1, <1>3
  <1>. QED
    BY <1>2, <1>3, <1>4, <1>5

LEMMA IdleFits ==
  ASSUME NEW inventory
  PROVE  ClientFits(Idle, {}, inventory)
  BY DEF ClientFits, Idle, Client, HasAtMostOne

\* A client that begins has all hosts of the catalog before it.
LEMMA BeginFits ==
  ASSUME NEW inventory, NEW k,
         k = [Idle EXCEPT !.steady = Present(inventory), !.state = "paging"]
  PROVE  ClientFits(k, {}, inventory)
  <1>1. /\ k = [cursor |-> 0, got |-> <<>>, steady |-> Present(inventory), state |-> "paging"]
        /\ k.cursor = 0 /\ k.got = <<>> /\ k.steady = Present(inventory) /\ k.state = "paging"
    BY DEF Idle
  <1>2. Present(inventory) \subseteq HostIds
    BY DEF Present
  <1>3. \A h \in HostIds : ~(h <= 0)
    BY CatalogAssumption
  <1>4. k \in Client
    <2>1. <<>> \in Seq(HostIds)
      OBVIOUS
    <2>2. Present(inventory) \in SUBSET HostIds
      BY <1>2
    <2>3. [cursor |-> 0, got |-> <<>>, steady |-> Present(inventory), state |-> "paging"]
            \in Client
      BY <2>1, <2>2 DEF Client
    <2>. QED
      BY <1>1, <2>3
  <1>. QED
    BY <1>1, <1>2, <1>3, <1>4 DEF ClientFits, HasAtMostOne

\* Hosts that leave the catalog do not count as steady any more.
LEMMA WitnessFits ==
  ASSUME NEW k, NEW reads, NEW old, NEW new, ClientFits(k, reads, old)
  PROVE  ClientFits([k EXCEPT !.steady = @ \cap Present(new)], reads, new)
  <1>. DEFINE w == [k EXCEPT !.steady = @ \cap Present(new)]
  <1>1. k \in Client
    BY DEF ClientFits
  <1>2. /\ w \in Client /\ w.cursor = k.cursor /\ w.got = k.got /\ w.state = k.state
        /\ w.steady = k.steady \cap Present(new)
    BY <1>1 DEF Client
  <1>. HIDE DEF w
  <1>3. ClientFits(w, reads, new)
    BY <1>2 DEF ClientFits
  <1>. QED
    BY <1>3 DEF w

\* A read takes the catalog that is published.
LEMMA AskFits ==
  ASSUME NEW k, NEW inventory, ClientFits(k, {}, inventory), k.state = "paging", NEW n
  PROVE  ClientFits(k, {[catalog |-> inventory, generation |-> n]}, inventory)
  <1>. DEFINE r == [catalog |-> inventory, generation |-> n]
  <1>1. r.catalog = inventory
    OBVIOUS
  <1>. HIDE DEF r
  <1>2. ClientFits(k, {r}, inventory)
    BY <1>1 DEF ClientFits, HasAtMostOne
  <1>. QED
    BY <1>2 DEF r

\* What a reply adds: the first of the hosts after the cursor, up to the new cursor if more
\* are to come.
LEMMA AnswerFits ==
  ASSUME NEW k, NEW reads, NEW inventory, ClientFits(k, reads, inventory),
         NEW r \in reads, r \in Read,
         NEW page, page \subseteq AfterCursor(r.catalog, k.cursor),
         \A h \in page, g \in AfterCursor(r.catalog, k.cursor) : g <= h => g \in page,
         NEW cursor, NEW state,
         \/ state = "paging" /\ cursor \in page /\ \A g \in page : g <= cursor
         \/ state = "done" /\ cursor = k.cursor /\ page = AfterCursor(r.catalog, k.cursor),
         NEW w,
         w = [cursor |-> w.cursor, got |-> w.got, steady |-> w.steady, state |-> w.state],
         w.cursor = cursor, w.got = k.got \o InOrder(page), w.steady = k.steady,
         w.state = state
  PROVE  ClientFits(w, {}, inventory)
  <1>. DEFINE A == AfterCursor(r.catalog, k.cursor)
              q == InOrder(page)
              m == Cardinality(page)
              n == Len(k.got)
  <1>1. k \in Client /\ k.state = "paging"
    BY DEF ClientFits
  <1>2. /\ k.cursor \in Nat /\ k.got \in Seq(HostIds) /\ k.steady \subseteq HostIds
        /\ HostIds \subseteq Nat /\ n \in Nat /\ DOMAIN k.got = 1 .. n
    BY <1>1, CatalogAssumption DEF Client
  <1>3. page \subseteq HostIds /\ \A h \in page : h \in Nat /\ k.cursor < h
    BY <1>2 DEF AfterCursor, Present
  <1>4. /\ q \in Seq(page) /\ Len(q) = m /\ DOMAIN q = 1 .. m /\ m \in Nat
        /\ \A i, j \in 1 .. m : i < j => q[i] < q[j]
        /\ \A h \in page : \E i \in 1 .. m : q[i] = h
        /\ \A i \in 1 .. m : q[i] \in page
    <2>1. m \in Nat
      BY <1>3, IdsAreNumbers
    <2>2. /\ q \in Seq(page) /\ Len(q) = m /\ DOMAIN q = 1 .. m
          /\ \A i, j \in 1 .. m : i < j => q[i] < q[j]
          /\ \A h \in page : \E i \in 1 .. m : q[i] = h
      BY <1>3, OrderOfPage
    <2>. HIDE DEF q, m
    <2>3. \A i \in 1 .. m : q[i] \in page
      BY <2>1, <2>2
    <2>. QED
      BY <2>1, <2>2, <2>3
  <1>. DEFINE all == k.got \o q
  <1>6. w.cursor = cursor /\ w.got = all /\ w.steady = k.steady /\ w.state = state
    BY <1>1 DEF Client
  <1>. HIDE DEF A, q, m, n
  <1>7. /\ all \in Seq(HostIds) /\ DOMAIN all = 1 .. n + m
        /\ \A i \in 1 .. n : i \in DOMAIN all /\ all[i] = k.got[i]
        /\ \A i \in 1 .. m : n + i \in DOMAIN all /\ all[n + i] = q[i]
    <2>1. q \in Seq(HostIds)
      BY <1>3, <1>4
    <2>. QED
      <3>. DEFINE g == k.got
      <3>1. g \in Seq(HostIds)
        BY <1>2
      <3>. HIDE DEF g
      <3>3. /\ g \o q \in Seq(HostIds)
            /\ DOMAIN (g \o q) = 1 .. Len(g) + Len(q)
            /\ \A i \in 1 .. Len(g) : i \in DOMAIN (g \o q) /\ (g \o q)[i] = g[i]
            /\ \A i \in 1 .. Len(q) : /\ Len(g) + i \in DOMAIN (g \o q)
                                      /\ (g \o q)[Len(g) + i] = q[i]
        BY <2>1, <3>1, Joined
      <3>4. Len(g) = n /\ Len(q) = m /\ all = g \o q /\ k.got = g
        BY <1>4 DEF n, g
      <3>. HIDE DEF all
      <3>. QED
        BY <3>3, <3>4
  <1>8. \A i \in DOMAIN all :
          \/ i \in 1 .. n /\ all[i] = k.got[i] /\ all[i] \in Nat /\ all[i] <= k.cursor
          \/ i - n \in 1 .. m /\ all[i] = q[i - n] /\ all[i] \in page
    <2>. SUFFICES ASSUME NEW i \in DOMAIN all
                  PROVE \/ i \in 1 .. n /\ all[i] = k.got[i] /\ all[i] \in Nat
                           /\ all[i] <= k.cursor
                        \/ i - n \in 1 .. m /\ all[i] = q[i - n] /\ all[i] \in page
      OBVIOUS
    <2>1. CASE i <= n
      <3>1. i \in 1 .. n /\ all[i] = k.got[i] /\ k.got[i] \in HostIds
        BY <1>2, <1>4, <1>7, <2>1
      <3>. QED
        BY <1>1, <1>2, <3>1 DEF ClientFits
    <2>2. CASE ~(i <= n)
      <3>1. i \in Int /\ i <= n + m
        BY <1>2, <1>4, <1>7
      <3>2. n \in Nat /\ m \in Nat
        BY <1>2, <1>4
      <3>. DEFINE j == i - n
      <3>3. j \in 1 .. m /\ n + j = i
        BY <2>2, <3>1, <3>2
      <3>. HIDE DEF j
      <3>4. all[i] = q[j] /\ q[j] \in page
        BY <1>4, <1>7, <3>3
      <3>. QED
        BY <3>3, <3>4 DEF j
    <2>. QED
      BY <2>1, <2>2
  <1>. HIDE DEF all
  <1>9. w \in Client
    <2>1. w.cursor \in HostIds \cup {0} /\ w.state \in {"paging", "done"}
      BY <1>1, <1>3, <1>6 DEF Client
    <2>. QED
      BY <1>2, <1>6, <1>7, <2>1 DEF Client
  <1>10. ASSUME NEW i \in DOMAIN all, NEW j \in DOMAIN all, i < j
         PROVE  all[i] < all[j]
    <2>1. i \in Int /\ j \in Int
      BY <1>7
    <2>2. CASE j \in 1 .. n /\ all[j] = k.got[j]
      <3>1. i \in 1 .. n /\ all[i] = k.got[i]
        BY <1>2, <1>8, <1>10, <2>1, <2>2
      <3>. QED
        BY <1>2, <1>10, <2>2, <3>1 DEF ClientFits
    <2>3. CASE j - n \in 1 .. m /\ all[j] = q[j - n] /\ all[j] \in page
      <3>1. CASE all[i] \in Nat /\ all[i] <= k.cursor
        BY <1>2, <1>3, <2>3, <3>1
      <3>2. CASE i - n \in 1 .. m /\ all[i] = q[i - n]
        <4>1. i - n < j - n
          BY <1>2, <1>10, <2>1
        <4>. QED
          BY <1>4, <2>3, <3>2, <4>1
      <3>. QED
        BY <1>8, <3>1, <3>2
    <2>. QED
      BY <1>8, <2>2, <2>3
  <1>11. ASSUME w.state = "paging", NEW i \in DOMAIN all
         PROVE  all[i] <= w.cursor
    <2>1. w.cursor = cursor /\ cursor \in page /\ \A g \in page : g <= cursor
      BY <1>6, <1>11
    <2>2. CASE all[i] \in Nat /\ all[i] <= k.cursor
      BY <1>2, <1>3, <2>1, <2>2
    <2>3. CASE all[i] \in page
      BY <2>1, <2>3
    <2>. QED
      BY <1>8, <2>2, <2>3
  <1>12. ASSUME NEW h \in k.steady, w.state = "done" \/ h <= w.cursor
         PROVE  \E i \in DOMAIN all : all[i] = h
    <2>1. h \in Nat /\ h \in Present(r.catalog)
      BY <1>2 DEF ClientFits
    <2>2. CASE h <= k.cursor
      <3>1. PICK i \in 1 .. n : k.got[i] = h
        BY <1>2, <2>2 DEF ClientFits
      <3>. QED
        BY <1>7, <3>1
    <2>3. CASE ~(h <= k.cursor)
      <3>1. h \in A
        BY <1>2, <2>1, <2>3 DEF A, AfterCursor
      <3>2. h \in page
        <4>1. CASE state = "paging" /\ cursor \in page
          BY <1>6, <1>12, <3>1, <4>1 DEF A
        <4>2. CASE page = A
          BY <3>1, <4>2
        <4>. QED
          BY <4>1, <4>2 DEF A
      <3>3. PICK i \in 1 .. m : q[i] = h
        BY <1>4, <3>2
      <3>. QED
        BY <1>7, <3>3
    <2>. QED
      BY <2>2, <2>3
  <1>13. w.steady \subseteq Present(inventory)
    BY <1>6 DEF ClientFits
  <1>. QED
    BY <1>6, <1>9, <1>10, <1>11, <1>12, <1>13 DEF ClientFits, HasAtMostOne

\* A step of one client leaves the others as they are.
LEMMA StepOfOne ==
  ASSUME PagesInv, TypedTables, NEW c \in Clients, NEW k, NEW reads,
         clients' = [clients EXCEPT ![c] = k],
         reading' = [reading EXCEPT ![c] = reads],
         catalog' = catalog,
         ClientFits(k, reads, catalog)
  PROVE  PagesInv'
  <1>1. reading = [d \in Clients |-> reading[d]]
    BY DEF TypedTables
  <1>2. \A d \in Clients : /\ clients'[d] = IF d = c THEN k ELSE clients[d]
                           /\ reading'[d] = IF d = c THEN reads ELSE reading[d]
    BY <1>1 DEF PagesInv
  <1>3. clients' = [d \in Clients |-> clients'[d]]
    BY DEF PagesInv
  <1>. QED
    BY <1>2, <1>3 DEF PagesInv

LEMMA AnswerPreservesPagesInv ==
  ASSUME PagesInv, TypedTables, NEW c \in Clients, Answer(c)
  PROVE  PagesInv'
  <1>. DEFINE A(k) == AfterCursor(k.catalog, clients[c].cursor)
              records(k) == FirstOf(A(k), LookAhead(PageSize))
              page(k) == FirstOf(records(k), PageSize)
              more(k) == Cardinality(records(k)) > PageSize
              cursor(k) == IF more(k) THEN CHOOSE h \in page(k) : \A g \in page(k) : g <= h
                           ELSE clients[c].cursor
              got(k) == clients[c].got \o InOrder(page(k))
              state(k) == IF more(k) THEN "paging" ELSE "done"
              new(k) == [clients[c] EXCEPT !.cursor = cursor(k), !.got = got(k),
                                           !.state = state(k)]
  <1>1. PICK k \in reading[c] :
          /\ reading' = [reading EXCEPT ![c] = {}]
          /\ clients' = [clients EXCEPT ![c].cursor = cursor(k), ![c].got = got(k),
                                        ![c].state = state(k)]
          /\ catalog' = catalog
    BY Zenon DEF Answer
  <1>2. ClientFits(clients[c], reading[c], catalog) /\ k \in Read
    BY DEF PagesInv, TypedTables
  <1>3. clients' = [clients EXCEPT ![c] = new(k)]
    <2>. HIDE DEF cursor, got, state
    <2>1. clients[c] \in Client /\ clients = [d \in Clients |-> clients[d]]
      BY <1>2 DEF ClientFits, PagesInv
    <2>. QED
      BY <1>1, <2>1 DEF Client
  <1>4. /\ page(k) \subseteq A(k)
        /\ \A h \in page(k), g \in A(k) : g <= h => g \in page(k)
        /\ ~more(k) => page(k) = A(k)
        /\ more(k) => page(k) # {}
    <2>1. A(k) \subseteq HostIds /\ PageSize \in Nat \ {0} /\ LookAhead(PageSize) = PageSize + 1
      BY CatalogAssumption DEF AfterCursor, Present, LookAhead
    <2>2. Cardinality(records(k)) \in Nat
      BY <2>1, IdsAreNumbers DEF FirstOf
    <2>. HIDE DEF A, records
    <2>3. records(k) = FirstOf(A(k), PageSize + 1)
      BY <2>1 DEF records
    <2>4. more(k) \/ Cardinality(records(k)) <= PageSize
      BY <2>1, <2>2
    <2>5. /\ page(k) \subseteq A(k)
          /\ \A h \in page(k), g \in A(k) : g <= h => g \in page(k)
          /\ Cardinality(records(k)) <= PageSize => page(k) = A(k)
          /\ more(k) => page(k) # {}
      BY <2>1, <2>3, PageOf
    <2>. QED
      BY <2>4, <2>5
  <1>5. \/ state(k) = "paging" /\ cursor(k) \in page(k) /\ \A g \in page(k) : g <= cursor(k)
        \/ state(k) = "done" /\ cursor(k) = clients[c].cursor /\ page(k) = A(k)
    <2>1. CASE more(k)
      <3>1. page(k) # {} /\ page(k) \subseteq HostIds
        BY <1>4, <2>1 DEF AfterCursor, Present
      <3>. HIDE DEF page, more
      <3>2. \E h \in page(k) : \A g \in page(k) : g <= h
        BY <3>1, GreatestId
      <3>. QED
        BY <2>1, <3>2
    <2>2. CASE ~more(k)
      <3>. HIDE DEF page, A, more
      <3>. QED
        BY <1>4, <2>2
    <2>. QED
      BY <2>1, <2>2
  <1>6. ClientFits(new(k), {}, catalog)
    <2>1. /\ new(k) = [cursor |-> new(k).cursor, got |-> new(k).got,
                       steady |-> new(k).steady, state |-> new(k).state]
          /\ new(k).cursor = cursor(k) /\ new(k).state = state(k)
          /\ new(k).got = got(k)
          /\ new(k).steady = clients[c].steady
      <3>1. clients[c] \in Client
        BY <1>2 DEF ClientFits
      <3>2. new(k) = [clients[c] EXCEPT !.cursor = cursor(k), !.got = got(k),
                                        !.state = state(k)]
        OBVIOUS
      <3>. HIDE DEF cursor, got, state, new
      <3>. QED
        BY <3>1, <3>2 DEF Client
    <2>2. /\ page(k) \subseteq AfterCursor(k.catalog, clients[c].cursor)
          /\ \A h \in page(k), g \in AfterCursor(k.catalog, clients[c].cursor) :
               g <= h => g \in page(k)
      BY <1>4
    <2>3. \/ /\ state(k) = "paging" /\ cursor(k) \in page(k)
             /\ \A g \in page(k) : g <= cursor(k)
          \/ /\ state(k) = "done" /\ cursor(k) = clients[c].cursor
             /\ page(k) = AfterCursor(k.catalog, clients[c].cursor)
      BY <1>5
    <2>. HIDE DEF page, cursor, state, new
    <2>. QED
      BY <1>2, <2>1, <2>2, <2>3, AnswerFits
  <1>. QED
    <2>. HIDE DEF new
    <2>. QED
      BY <1>1, <1>3, <1>6, StepOfOne

LEMMA StepPreservesPagesInv ==
  ASSUME PagesInv, TypedTables, [Next]_vars
  PROVE  PagesInv'
  <1>1. CASE UNCHANGED <<clients, reading, catalog>>
    BY <1>1 DEF PagesInv
  <1>2. ASSUME NEW new \in Configurations, Restart(new)
        PROVE  PagesInv'
    <2>1. reading' = [c \in Clients |-> {}] /\ clients' = [c \in Clients |-> Idle]
      BY <1>2 DEF Restart
    <2>. QED
      BY <2>1, IdleFits DEF PagesInv
  <1>3. CASE PublishReload
    <2>1. /\ catalog' = stored /\ reading' = reading
          /\ clients' = [c \in Clients |->
                           [clients[c] EXCEPT !.steady = @ \cap Present(stored)]]
      BY <1>3 DEF PublishReload, Witnessed
    <2>2. \A c \in Clients :
            ClientFits([clients[c] EXCEPT !.steady = @ \cap Present(stored)], reading[c],
                       stored)
      BY WitnessFits DEF PagesInv
    <2>. QED
      BY <2>1, <2>2 DEF PagesInv
  <1>4. ASSUME NEW c \in Clients, Begin(c)
        PROVE  PagesInv'
    <2>. DEFINE k == [Idle EXCEPT !.steady = Present(catalog), !.state = "paging"]
    <2>1. /\ clients' = [clients EXCEPT ![c] = k] /\ reading' = reading /\ catalog' = catalog
          /\ clients[c].state # "paging"
      BY <1>4 DEF Begin
    <2>2. ClientFits(k, {}, catalog)
      BY BeginFits
    <2>. HIDE DEF k
    <2>3. reading[c] = {} /\ reading = [d \in Clients |-> reading[d]]
      BY <2>1 DEF PagesInv, ClientFits, TypedTables
    <2>4. reading' = [reading EXCEPT ![c] = {}]
      BY <2>1, <2>3
    <2>. QED
      BY <2>1, <2>2, <2>4, StepOfOne
  <1>5. ASSUME NEW c \in Clients, Ask(c)
        PROVE  PagesInv'
    <2>. DEFINE r == {[catalog |-> catalog, generation |-> fence]}
    <2>1. /\ reading' = [reading EXCEPT ![c] = r] /\ clients' = clients /\ catalog' = catalog
          /\ clients[c].state = "paging" /\ reading[c] = {}
      BY <1>5 DEF Ask
    <2>2. ClientFits(clients[c], r, catalog)
      BY <2>1, AskFits DEF PagesInv
    <2>. HIDE DEF r
    <2>3. clients = [clients EXCEPT ![c] = clients[c]]
      BY DEF PagesInv
    <2>. QED
      BY <2>1, <2>2, <2>3, StepOfOne
  <1>6. ASSUME NEW c \in Clients, Abandon(c)
        PROVE  PagesInv'
    <2>1. /\ reading' = [reading EXCEPT ![c] = {}] /\ clients' = [clients EXCEPT ![c] = Idle]
          /\ catalog' = catalog
      BY <1>6 DEF Abandon, Leave
    <2>. QED
      BY <2>1, IdleFits, StepOfOne
  <1>7. CASE \/ \E new \in Configurations : CommitReload(new)
             \/ SwapTasks \/ OrphanEnds
             \/ \E h \in HostIds, k \in Kinds : Observe(h, k)
             \/ \E w \in writes : LookUp(w) \/ StoreRow(w) \/ RejectStale(w) \/ FailWrite(w)
             \/ UNCHANGED vars
    <2>1. UNCHANGED <<clients, reading, catalog>>
      BY <1>7 DEF CommitReload, SwapTasks, OrphanEnds, Observe, LookUp, StoreRow,
                  RejectStale, FailWrite, readers, vars
    <2>. QED
      BY <1>1, <2>1
  <1>. QED
    BY <1>2, <1>3, <1>4, <1>5, <1>6, <1>7, AnswerPreservesPagesInv DEF Next

LEMMA PagesInvariant == Spec => []PagesInv
  <1>1. Init => PagesInv
    BY IdleFits DEF Init, PagesInv
  <1>2. ReadsInv /\ PagesInv /\ [Next]_vars => PagesInv'
    BY StepPreservesPagesInv DEF ReadsInv
  <1>. QED
    BY ReadsInvariant, <1>1, <1>2, PTL DEF Spec

\* A client that follows next_after to its end has got every host that stayed, in order and
\* each once, for any size of pages and whatever reloads come between them (hosts_page).
THEOREM PagesCover == Spec => []PagesCoverSteadyHosts
  <1>1. PagesInv => PagesCoverSteadyHosts
    BY DEF PagesInv, ClientFits, PagesCoverSteadyHosts
  <1>. QED
    BY <1>1, PagesInvariant, PTL

-----------------------------------------------------------------------------
(* Types.                                                                  *)

LEMMA CountersInvariant == Spec => [](observed \in Nat /\ failures \in Nat)
  <1>1. Init => observed \in Nat /\ failures \in Nat
    BY DEF Init
  <1>2. observed \in Nat /\ failures \in Nat /\ [Next]_vars =>
          (observed \in Nat /\ failures \in Nat)'
    <2>. SUFFICES ASSUME observed \in Nat, failures \in Nat, [Next]_vars
                  PROVE  observed' \in Nat /\ failures' \in Nat
      OBVIOUS
    <2>1. observed' = observed \/ observed' = observed + 1
      BY DEF Next, CommitReload, Restart, PublishReload, SwapTasks, Observe, LookUp, StoreRow,
             RejectStale, FailWrite, Begin, Ask, Answer, Abandon, OrphanEnds, monitors, vars
    <2>2. failures' = failures \/ failures' = failures + 1
      BY DEF Next, CommitReload, Restart, PublishReload, SwapTasks, Observe, LookUp, StoreRow,
             RejectStale, FailWrite, Begin, Ask, Answer, Abandon, OrphanEnds, monitors, vars
    <2>. QED
      BY <2>1, <2>2
  <1>. QED
    BY <1>1, <1>2, PTL DEF Spec

\* Tables, updates, reads and clients keep their types, and no more permits come back than
\* there were.
THEOREM ReadsTypeCorrect == Spec => []TypeOK
  <1>1. ReadsInv /\ PermitInv /\ PagesInv /\ observed \in Nat /\ failures \in Nat => TypeOK
    <2>. SUFFICES ASSUME ReadsInv, PermitInv, PagesInv, observed \in Nat, failures \in Nat
                  PROVE  TypeOK
      OBVIOUS
    <2>1. permits \in 0 .. PoolSize /\ orphans \in Nat
      BY ReadingCounted, CatalogAssumption DEF PermitInv
    <2>2. /\ clients \in [Clients -> Client]
          /\ \A c \in Clients : HasAtMostOne(reading[c])
      <3>1. \A c \in Clients : clients[c] \in Client
        BY DEF PagesInv, ClientFits
      <3>. QED
        BY <3>1 DEF PagesInv, ClientFits
    <2>. QED
      BY <2>1, <2>2 DEF TypeOK, ReadsInv, TypedTables
  <1>. QED
    BY <1>1, ReadsInvariant, PermitsInvariant, PagesInvariant, CountersInvariant, PTL

=============================================================================
