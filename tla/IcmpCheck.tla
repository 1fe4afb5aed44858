----------------------------- MODULE IcmpCheck -----------------------------
(***************************************************************************)
(* The ICMP check as a pure function on a host's runtime state: counters,  *)
(* thresholds and the transition a check produces (check_once and          *)
(* transition_to in src/src/modules/icmp/monitor.rs).                      *)
(*                                                                         *)
(* Latency, error text, backend name and reason are left out: no           *)
(* property depends on them.  An instant is a natural number; 0 means that  *)
(* a host has not been checked.                                            *)
(***************************************************************************)
EXTENDS Naturals

CONSTANTS
  Hosts,             \* host ids
  Addresses,         \* addresses a host can be configured with
  NoAddress,         \* "this host is not configured"
  SuccessThreshold,  \* successes in a row that make a host up
  FailureThreshold,  \* failures in a row that make a host down
  CounterMax,        \* where the saturating u32 counters stop
  Instants           \* instants at which a check can be made

ASSUME IcmpCheckAssumption ==
  /\ NoAddress \notin Addresses
  /\ Instants \subseteq Nat \ {0}
  /\ SuccessThreshold \in Nat \ {0}
  /\ FailureThreshold \in Nat \ {0}
  /\ CounterMax \in Nat
  /\ SuccessThreshold <= CounterMax
  /\ FailureThreshold <= CounterMax

Statuses == {"unknown", "up", "down"}

\* The address of every host, NoAddress when it is not configured.
AddressMap == [Hosts -> Addresses \cup {NoAddress}]

Counter == 0 .. CounterMax

\* HostRuntimeState.  "address" is the address the check was made against: it is
\* not a column, it only lets the properties say whose result a row holds.
State ==
  [status : Statuses, successes : Counter, failures : Counter,
   checkedAt : Nat, address : Addresses \cup {NoAddress}]

\* The default state of a host with no row in latest_status.
Fresh ==
  [status |-> "unknown", successes |-> 0, failures |-> 0,
   checkedAt |-> 0, address |-> NoAddress]

\* Variant: a plain n + 1.
NotSaturating(n) == n + 1

\* u32::saturating_add(1), with u32::MAX lowered to CounterMax.
Saturating(n) == IF n < CounterMax THEN n + 1 ELSE n

\* A successful check of address a at instant at.
Succeed(s, a, at) ==
  [status    |-> IF s.status # "up" /\ Saturating(s.successes) >= SuccessThreshold
                   THEN "up" ELSE s.status,
   successes |-> Saturating(s.successes),
   failures  |-> 0,
   checkedAt |-> at,
   address   |-> a]

\* A failed check of address a at instant at.
Fail(s, a, at) ==
  [status    |-> IF s.status # "down" /\ Saturating(s.failures) >= FailureThreshold
                   THEN "down" ELSE s.status,
   successes |-> 0,
   failures  |-> Saturating(s.failures),
   checkedAt |-> at,
   address   |-> a]

\* The state after one check: ok is whether the host answered.
Checked(s, a, ok, at) == IF ok THEN Succeed(s, a, at) ELSE Fail(s, a, at)

\* Option<IcmpTransition> of a check; changed_at is the instant of the check. It is
\* None when the status did not change, here an event with from = to.
Event == [from : Statuses, to : Statuses, at : Nat]

NoEvent == [from |-> "unknown", to |-> "unknown", at |-> 0]

\* The transition of a check that took a host from state s to state t.
EventOf(s, t) ==
  IF s.status = t.status
    THEN NoEvent
    ELSE [from |-> s.status, to |-> t.status, at |-> t.checkedAt]
=============================================================================
