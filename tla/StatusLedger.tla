---------------------------- MODULE StatusLedger ----------------------------
(***************************************************************************)
(* What the database promises about host status, whatever the number of    *)
(* monitor tasks, reloads, retries and crashes behind it: it reads as if   *)
(* one sequential monitor checked the hosts one at a time and stored each  *)
(* result at once.  MonitorGenerations implements this specification.      *)
(***************************************************************************)
EXTENDS IcmpCheck, Sequences

VARIABLES
  identity,   \* host_identity: the address each stored row belongs to
  latest,     \* latest_status: the last stored state, Fresh when there is no row
  log,        \* transitions: those of each host, in insertion order
  life        \* number of identities each host id has had (observation only)

ledgerVars == <<identity, latest, log, life>>

\* A row of the transitions table. Its life is not a column: it numbers the
\* identity of the host at the time the row was inserted.
LogEntry == [from : Statuses, to : Statuses, at : Nat, life : Nat]

LedgerTypeOK ==
  /\ identity \in AddressMap
  /\ latest \in [Hosts -> State]
  /\ log \in [Hosts -> Seq(LogEntry)]
  /\ life \in [Hosts -> Nat]

LedgerInit ==
  /\ identity = [h \in Hosts |-> NoAddress]
  /\ latest = [h \in Hosts |-> Fresh]
  /\ log = [h \in Hosts |-> <<>>]
  /\ life = [h \in Hosts |-> 0]

\* The log of a host after an event, in the host's n-th life.
Logged(entries, e, n) ==
  IF e.from = e.to
    THEN entries
    ELSE Append(entries, [from |-> e.from, to |-> e.to, at |-> e.at, life |-> n])

\* One check of host h becomes visible: the row advances by exactly one check, and
\* the log gets its transition, if it has one.
StoreCheck(h, ok, at) ==
  LET next == Checked(latest[h], identity[h], ok, at)
  IN  /\ identity[h] # NoAddress
      /\ \A i \in 1 .. Len(log[h]) : log[h][i].at < at
      /\ latest' = [latest EXCEPT ![h] = next]
      /\ log' = [log EXCEPT ![h] = Logged(@, EventOf(latest[h], next), life[h])]
      /\ UNCHANGED <<identity, life>>

\* Variant: a host id keeps its rows although the host has moved.
KeepsId(h, c) == c[h] # NoAddress /\ identity[h] # NoAddress

\* Host h keeps its stored state under configuration c.
KeepsIdentity(h, c) == c[h] # NoAddress /\ identity[h] = c[h]

\* The configuration changes: a host that is new, gone or has moved to another
\* address starts over.  The log of transitions is kept.
Reconfigure(c) ==
  /\ identity' = c
  /\ latest' = [h \in Hosts |-> IF KeepsIdentity(h, c) THEN latest[h] ELSE Fresh]
  /\ life' = [h \in Hosts |-> IF KeepsIdentity(h, c) THEN life[h] ELSE life[h] + 1]
  /\ UNCHANGED log

LedgerNext ==
  \/ \E h \in Hosts, ok \in BOOLEAN, at \in Instants : StoreCheck(h, ok, at)
  \/ \E c \in AddressMap : Reconfigure(c)

LedgerSpec == LedgerInit /\ [][LedgerNext]_ledgerVars

-----------------------------------------------------------------------------

\* The status that host h's log leads to within its present identity.
LoggedStatus(h) ==
  IF log[h] # <<>> /\ log[h][Len(log[h])].life = life[h]
    THEN log[h][Len(log[h])].to
    ELSE "unknown"

\* A stored state always is the result of a check of the address the host has in
\* host_identity: a result measured against a previous address, or for a host that
\* has been removed, is never in latest_status (the promise of
\* sync_identities_in_transaction together with the writer fence).
RowsBelongToIdentity ==
  \A h \in Hosts : latest[h] = Fresh \/ latest[h].address = identity[h]

\* The transitions of a host form a chain: each one starts at the status where the
\* previous one of the same identity ended (at "unknown" when it is the first), and
\* the stored status is where the chain ends.  No transition is lost, doubled or
\* recorded from a stale status.
TransitionsChain ==
  \A h \in Hosts :
    /\ latest[h].status = LoggedStatus(h)
    /\ \A i \in 1 .. Len(log[h]) :
         /\ log[h][i].from # log[h][i].to
         /\ log[h][i].from =
              IF i > 1 /\ log[h][i-1].life = log[h][i].life
                THEN log[h][i-1].to ELSE "unknown"
=============================================================================
