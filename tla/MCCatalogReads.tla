--------------------------- MODULE MCCatalogReads ---------------------------
EXTENDS CatalogReads, TLC

CONSTANTS a1, a2, p1, p2

At(a, ports) == {[address |-> a, port |-> ports]}

\* The first host moves, changes its port, loses its check or is gone; others come and go.
MCConfigurations ==
  {[h \in HostIds |-> IF h = 2 THEN At(a1, {p1}) ELSE {}],
   [h \in HostIds |-> IF h = 2 THEN At(a2, {p1}) ELSE At(a1, {})],
   [h \in HostIds |-> IF h = 2 THEN At(a1, {p2}) ELSE IF h = 3 THEN At(a1, {}) ELSE {}],
   [h \in HostIds |-> IF h = 2 THEN At(a1, {}) ELSE At(a1, {})]}

Symmetry == Permutations(Clients)
=============================================================================
