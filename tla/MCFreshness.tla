---------------------------- MODULE MCFreshness ----------------------------
(* Freshness on a small instance.                                          *)
EXTENDS Freshness

CONSTANTS t1, t2, t3

Home == [t \in Tasks |-> 1]

\* Slow checks, of which one is off; fast ones, of which one has moved; and checks whose
\* interval is too short for a round of them, and shorter than their deadline.
MCConfigurations ==
  {[interval |-> 5, timeout |-> 2, enabled |-> Tasks \ {t3}, address |-> Home],
   [interval |-> 3, timeout |-> 1, enabled |-> Tasks, address |-> [Home EXCEPT ![t1] = 2]],
   [interval |-> 1, timeout |-> 2, enabled |-> Tasks, address |-> Home]}
=============================================================================
