---------------------------- MODULE CatalogReads ----------------------------
(***************************************************************************)
(* API reads beside reloads and writes (src/src/storage/sqlite/mod.rs,     *)
(* queries.rs, tcp.rs and src/src/api/routes/mod.rs).  A read takes the    *)
(* catalog of hosts first and reads the tables later, in a transaction of  *)
(* its own; an update looks its target up in the catalog before it waits   *)
(* for the writer; a reload commits to the tables before it publishes the  *)
(* catalog.                                                                *)
(*                                                                         *)
(* A host has one TCP check at most, since rows of two checks never touch. *)
(* `status' stands for latest_status and for latest_usage: both have the   *)
(* host's id as their key and no address.  What is absent is an empty set. *)
(*                                                                         *)
(* A transaction that fails is rolled back.  For a reload and for a read   *)
(* that is a stutter.                                                      *)
(***************************************************************************)
EXTENDS Integers, Sequences, FiniteSets

CONSTANTS
  HostIds,         \* numbers, which are ordered as the ids are
  Addresses,
  Ports,
  Configurations,  \* that a reload or a restart can bring
  Clients,
  PageSize,        \* the limit of a page
  PoolSize,        \* READER_POOL_SIZE: connections, and reads that are admitted
  \* Bounds of the model.
  MaxGenerations,
  MaxOrphans,      \* reads whose client has gone
  MaxObservations,
  MaxFailures      \* writes that fail

\* Subsets of S with at most one element.
Optional(S) == {{}} \cup {{x} : x \in S}

Host == [address : Addresses, port : Optional(Ports)]
Inventory == [HostIds -> Optional(Host)]

ASSUME CatalogAssumption ==
  /\ HostIds \subseteq Nat \ {0} /\ IsFiniteSet(HostIds)
  /\ Configurations \subseteq Inventory
  /\ IsFiniteSet(Clients)
  /\ PageSize \in Nat \ {0} /\ PoolSize \in Nat \ {0}
  /\ MaxGenerations \in Nat /\ MaxOrphans \in Nat
  /\ MaxObservations \in Nat /\ MaxFailures \in Nat

VARIABLES
  catalog,    \* SqliteStorage::hosts, as published
  stored,     \* host_identity and the checks, as committed
  locked,     \* a reload has committed and not published yet
  fence,      \* Inner::generation
  running,    \* generation and inventory of the monitors' tasks
  writes,     \* updates that are under way
  status,     \* latest_status, latest_usage
  tcp,        \* latest_tcp
  permits,    \* read_admission
  orphans,    \* reads whose client has gone
  reading,    \* the read that a client waits for
  pages,      \* the last reply that it got (for the properties)
  clients,    \* how far it has come
  observed,   \* how many observations there were
  failures,   \* how many writes failed
  since       \* per host and check, its first generation at the place where it is (for
              \* the properties)

monitors == <<running, writes, observed, failures>>
readers == <<permits, orphans, reading, pages, clients>>
vars == <<catalog, stored, locked, fence, monitors, status, tcp, readers, since>>

Kinds == {"status", "tcp"}
Generations == 0 .. MaxGenerations

\* Where a host, or its TCP check, is found.
Place == [address : Addresses, port : Optional(Ports)]

\* An update: what was probed, in which generation, and what its columns will be, once it
\* has looked its host up.  A status has no columns; its look-up only finds the host.
Write == [host : HostIds, kind : Kinds, generation : Generations,
          probed : Place, columns : Optional(Place)]

\* A row, with the place where it was measured and when (for the properties).
Row == [host : HostIds, columns : Place, probed : Place, generation : Generations]

\* A read under way: the catalog that it took, and the generation at that time.
Read == [catalog : Inventory, generation : Generations]

\* A record of a reply.
Shown == [host : HostIds, place : Place, status : SUBSET Row, tcp : SUBSET Row,
          taken : Generations, read : Generations]

\* A client pages through the inventory: cursor is `after', 0 at first; got has the ids in
\* the pages so far; steady are the hosts that were in every catalog since it began (for
\* the properties).
Client == [cursor : HostIds \cup {0}, got : Seq(HostIds), steady : SUBSET HostIds,
           state : {"idle", "paging", "done"}]

HasAtMostOne(S) == \A x, y \in S : x = y

TypeOK ==
  /\ catalog \in Inventory /\ stored \in Inventory
  /\ locked \in BOOLEAN
  /\ fence \in Generations
  /\ running \in [generation : Generations, inventory : Inventory]
  /\ writes \subseteq Write
  /\ status \subseteq Row /\ tcp \subseteq Row
  /\ permits \in 0 .. PoolSize
  /\ orphans \in Nat
  /\ reading \in [Clients -> SUBSET Read]
  /\ \A c \in Clients : HasAtMostOne(reading[c])
  /\ pages \in [Clients -> SUBSET Shown]
  /\ clients \in [Clients -> Client]
  /\ observed \in Nat /\ failures \in Nat
  /\ since \in [HostIds -> [Kinds -> Nat]]

-----------------------------------------------------------------------------
(* The tables.                                                             *)

\* A target of a kind in a host's configuration: its address, and for TCP the port of a
\* check that is there.
Places(host, kind) ==
  IF kind = "status" THEN {[address |-> h.address, port |-> {}] : h \in host}
  ELSE {h \in host : h.port # {}}

\* Variant: a host keeps its status if it is configured at all.
SyncedById(new) == {r \in status : new[r.host] # {}}

\* sync_identities_in_transaction: a host keeps its status if it keeps its address.
SyncedStatus(new) ==
  {r \in status : /\ new[r.host] # {}
                  /\ Places(new[r.host], "status") = Places(stored[r.host], "status")}

\* sync_checks: rows of checks that are configured where the row was measured.
SyncedTcp(new) == {r \in tcp : r.columns \in Places(new[r.host], "tcp")}

SyncTables(new) ==
  /\ stored' = new
  /\ status' = SyncedStatus(new)
  /\ tcp' = SyncedTcp(new)
  /\ since' = [h \in HostIds |-> [k \in Kinds |->
       IF Places(new[h], k) = Places(stored[h], k) THEN since[h][k] ELSE fence + 1]]

\* The row that a kind's table has for a host, as a set.
RowsOf(table, h) == {r \in table : r.host = h}

Upsert(table, w) ==
  (table \ RowsOf(table, w.host)) \cup
    {[host |-> w.host, columns |-> c, probed |-> w.probed, generation |-> w.generation]
       : c \in w.columns}

-----------------------------------------------------------------------------
(* Reloads and restarts.                                                   *)

Present(inventory) == {h \in HostIds : inventory[h] # {}}

\* Hosts that leave the catalog are not steady (for the properties).
Witnessed(new) ==
  [c \in Clients |-> [clients[c] EXCEPT !.steady = @ \cap Present(new)]]

Idle == [cursor |-> 0, got |-> <<>>, steady |-> {}, state |-> "idle"]

Init ==
  /\ catalog \in Configurations /\ stored = catalog
  /\ locked = FALSE
  /\ fence = 0
  /\ running = [generation |-> 0, inventory |-> catalog]
  /\ writes = {} /\ status = {} /\ tcp = {}
  /\ permits = PoolSize /\ orphans = 0
  /\ reading = [c \in Clients |-> {}] /\ pages = [c \in Clients |-> {}]
  /\ clients = [c \in Clients |-> Idle]
  /\ observed = 0 /\ failures = 0
  /\ since = [h \in HostIds |-> [k \in Kinds |-> 0]]

\* replace_configuration up to its commit.  It holds the catalog's lock and the writer's
\* mutex until it publishes; transactions of readers need neither.
CommitReload(new) ==
  /\ ~locked /\ fence < MaxGenerations
  /\ running.generation = fence
  /\ SyncTables(new)
  /\ locked' = TRUE
  /\ UNCHANGED <<catalog, fence, monitors, readers>>

PublishReload ==
  /\ locked
  /\ locked' = FALSE
  /\ fence' = fence + 1
  /\ catalog' = stored
  /\ clients' = Witnessed(stored)
  /\ UNCHANGED <<stored, monitors, status, tcp, permits, orphans, reading, pages,
                 since>>

\* The manager aborts the replaced tasks and spawns new ones.  An update that has looked
\* its host up may be with the writer already and goes on.
SwapTasks ==
  /\ ~locked /\ running.generation # fence
  /\ running' = [generation |-> fence, inventory |-> catalog]
  /\ writes' = {w \in writes : w.columns # {}}
  /\ UNCHANGED <<catalog, stored, locked, fence, status, tcp, readers, observed, failures,
                 since>>

\* The process ends, between the commit and the publication of a reload too, and starts
\* again with another inventory.  Generations count on, which
\* distinguishes nothing, since no update survives.
Restart(new) ==
  /\ fence < MaxGenerations
  /\ SyncTables(new)
  /\ locked' = FALSE
  /\ fence' = fence + 1
  /\ catalog' = new
  /\ running' = [generation |-> fence + 1, inventory |-> new]
  /\ writes' = {}
  /\ permits' = PoolSize /\ orphans' = 0
  /\ reading' = [c \in Clients |-> {}] /\ pages' = [c \in Clients |-> {}]
  /\ clients' = [c \in Clients |-> Idle]
  /\ UNCHANGED <<observed, failures>>

-----------------------------------------------------------------------------
(* Updates.                                                                *)

\* A task takes an observation.
Observe(h, k) ==
  /\ observed < MaxObservations /\ observed' = observed + 1
  /\ ~\E w \in writes : /\ w.host = h /\ w.kind = k
                        /\ w.generation = running.generation
  /\ \E p \in Places(running.inventory[h], k) :
       writes' = writes \cup {[host |-> h, kind |-> k, generation |-> running.generation,
                               probed |-> p, columns |-> {}]}
  /\ UNCHANGED <<catalog, stored, locked, fence, running, status, tcp, readers, failures,
                 since>>

\* An update looks its host or check up in the catalog, which fails if it is not there:
\* then the runner tries again later.
LookUp(w) ==
  /\ ~locked /\ w.columns = {}
  /\ Places(catalog[w.host], w.kind) # {}
  /\ writes' = (writes \ {w}) \cup
                 {[w EXCEPT !.columns = Places(catalog[w.host], w.kind)]}
  /\ UNCHANGED <<catalog, stored, locked, fence, running, status, tcp, readers, observed,
                 failures, since>>

\* Variant: the writer does not look at the generation.
AnyGeneration(w) == TRUE

\* with_inner: only the present generation writes.
PresentGeneration(w) == w.generation = fence

\* with_inner: the closure runs under the mutex, which a reload holds up to its publication.
StoreRow(w) ==
  /\ ~locked /\ w.columns # {}
  /\ PresentGeneration(w)
  /\ writes' = writes \ {w}
  /\ status' = IF w.kind = "status" THEN Upsert(status, w) ELSE status
  /\ tcp' = IF w.kind = "tcp" THEN Upsert(tcp, w) ELSE tcp
  /\ UNCHANGED <<catalog, stored, locked, fence, running, readers, observed, failures, since>>

RejectStale(w) ==
  /\ ~locked /\ w.columns # {}
  /\ ~PresentGeneration(w)
  /\ writes' = writes \ {w}
  /\ UNCHANGED <<catalog, stored, locked, fence, running, status, tcp, readers, observed,
                 failures, since>>

\* The transaction fails, and the runner tries the update again from its look-up on.
FailWrite(w) ==
  /\ ~locked /\ w.columns # {} /\ PresentGeneration(w)
  /\ failures < MaxFailures /\ failures' = failures + 1
  /\ writes' = (writes \ {w}) \cup {[w EXCEPT !.columns = {}]}
  /\ UNCHANGED <<catalog, stored, locked, fence, running, status, tcp, readers, observed,
                 since>>

-----------------------------------------------------------------------------
(* Reads.                                                                  *)

\* hosts_page: the hosts after the cursor.
AfterCursor(inventory, cursor) == {h \in Present(inventory) : h > cursor}

\* The first n of a set of ids, or all.
FirstOf(S, n) == {h \in S : Cardinality({g \in S : g < h}) < n}

\* Variant: rows are attached by their key alone.
LoadByKey(place, h) == RowsOf(tcp, h)

\* tcp::load: a row is attached to the check that it was measured for.
LoadTcp(place, h) == {r \in RowsOf(tcp, h) : place.port # {} /\ r.columns = place}

\* host_record, for a host of the catalog k.catalog.
HostRecord(k, h) ==
  {[host |-> h, place |-> place, status |-> RowsOf(status, h), tcp |-> LoadTcp(place, h),
    taken |-> k.generation, read |-> IF locked THEN fence + 1 ELSE fence]
     : place \in k.catalog[h]}

\* Ids in their order.
InOrder(S) ==
  CHOOSE s \in [1 .. Cardinality(S) -> S] :
    \A i, j \in 1 .. Cardinality(S) : i < j => s[i] < s[j]

\* A client asks for the first page.
Begin(c) ==
  /\ ~locked
  /\ clients[c].state # "paging"
  /\ clients' = [clients EXCEPT ![c] =
       [Idle EXCEPT !.steady = Present(catalog), !.state = "paging"]]
  /\ pages' = [pages EXCEPT ![c] = {}]
  /\ UNCHANGED <<catalog, stored, locked, fence, monitors, status, tcp, permits, orphans,
                 reading, since>>

\* A page is asked for: the catalog is taken and a permit too.  Without a permit the answer
\* is 503, and the client asks again.
Ask(c) ==
  /\ ~locked
  /\ clients[c].state = "paging" /\ reading[c] = {}
  /\ permits > 0 /\ permits' = permits - 1
  /\ reading' = [reading EXCEPT ![c] = {[catalog |-> catalog, generation |-> fence]}]
  /\ UNCHANGED <<catalog, stored, locked, fence, monitors, status, tcp, orphans, pages,
                 clients, since>>

\* Variant: as many are read as are returned.
OneTooFew(n) == n

\* hosts_page asks the storage for one host more than it returns, to see if there are more.
LookAhead(n) == n + 1

\* The transaction of the read, and the reply.
Answer(c) ==
  \E k \in reading[c] :
    LET records == FirstOf(AfterCursor(k.catalog, clients[c].cursor), LookAhead(PageSize))
        page == FirstOf(records, PageSize)
        more == Cardinality(records) > PageSize
    IN  /\ permits' = permits + 1
        /\ reading' = [reading EXCEPT ![c] = {}]
        /\ pages' = [pages EXCEPT ![c] = UNION {HostRecord(k, h) : h \in page}]
        /\ clients' = [clients EXCEPT
             ![c].cursor = IF more THEN CHOOSE h \in page : \A g \in page : g <= h ELSE @,
             ![c].got = @ \o InOrder(page),
             ![c].state = IF more THEN "paging" ELSE "done"]
        /\ UNCHANGED <<catalog, stored, locked, fence, monitors, status, tcp, orphans,
                       since>>

Leave(c) ==
  /\ reading' = [reading EXCEPT ![c] = {}]
  /\ pages' = [pages EXCEPT ![c] = {}]
  /\ clients' = [clients EXCEPT ![c] = Idle]

\* Variant: the permit is given back as the request is dropped.
AbandonWithPermit(c) ==
  /\ reading[c] # {} /\ orphans < MaxOrphans
  /\ orphans' = orphans + 1
  /\ permits' = permits + 1
  /\ Leave(c)
  /\ UNCHANGED <<catalog, stored, locked, fence, monitors, status, tcp, since>>

\* A client goes while its read waits or runs; the read keeps its permit.
Abandon(c) ==
  /\ reading[c] # {} /\ orphans < MaxOrphans
  /\ orphans' = orphans + 1
  /\ Leave(c)
  /\ UNCHANGED <<catalog, stored, locked, fence, monitors, status, tcp, permits, since>>

OrphanEnds ==
  /\ orphans > 0
  /\ orphans' = orphans - 1
  /\ permits' = permits + 1
  /\ UNCHANGED <<catalog, stored, locked, fence, monitors, status, tcp, reading, pages,
                 clients, since>>

Next ==
  \/ \E new \in Configurations : CommitReload(new) \/ Restart(new)
  \/ PublishReload
  \/ SwapTasks
  \/ \E h \in HostIds, k \in Kinds : Observe(h, k)
  \/ \E w \in writes : LookUp(w) \/ StoreRow(w) \/ RejectStale(w) \/ FailWrite(w)
  \/ \E c \in Clients : Begin(c) \/ Ask(c) \/ Answer(c) \/ Abandon(c)
  \/ OrphanEnds

Spec == Init /\ [][Next]_vars

-----------------------------------------------------------------------------
(* Properties.                                                             *)

\* Every row was measured at the place where its host or check is configured by the last
\* commit, and since it is there: no update that a reload overtook, and no row from before
\* a host moved and came back, remains (sync_identities, sync_checks, with_inner).
RowsAreCurrent ==
  /\ \A r \in status : /\ r.probed \in Places(stored[r.host], "status")
                       /\ r.generation >= since[r.host]["status"]
  /\ \A r \in tcp : /\ r.probed \in Places(stored[r.host], "tcp")
                    /\ r.generation >= since[r.host]["tcp"]

\* "A read using an older catalog must not attach a changed target's result"
\* (storage/sqlite/tcp.rs): a TCP result is shown with the address and port it was
\* measured at, whatever reloads overtake the read.
TcpResultsFitTheirChecks ==
  \A c \in Clients : \A s \in pages[c] : \A r \in s.tcp : r.probed = s.place

\* A status or usage that is shown with an address that it was not measured at was read by
\* a request that a reload overtook; a request that none overtakes shows what fits.
MixedRepliesWereOvertaken ==
  \A c \in Clients : \A s \in pages[c] : \A r \in s.status :
    r.probed.address # s.place.address => s.taken < s.read

\* A client that follows next_after to its end has got every host that was configured all
\* the while, and none twice, whatever reloads came between the pages.
PagesCoverSteadyHosts ==
  \A c \in Clients :
    LET got == clients[c].got
    IN  /\ \A i, j \in DOMAIN got : i < j => got[i] < got[j]
        /\ clients[c].state = "done" =>
             \A h \in clients[c].steady : \E i \in DOMAIN got : got[i] = h

\* Clients whose read was admitted.
Reading == {c \in Clients : reading[c] # {}}

\* There is a connection for every read that was admitted, those included whose client has
\* gone: none waits for the pool.
AdmittedReadsHaveConnections ==
  Cardinality(Reading) + orphans <= PoolSize

=============================================================================
