------------------------------ MODULE MCHistory ------------------------------
EXTENDS History, TLC

\* An observation holds for three units.
FreshnessOf == [s \in Signatures |-> 3]

Symmetry == Permutations(Signatures)

\* Two widths, the finer one kept for as long as a day has units.
KeptFor == [r \in Tiers |-> IF r = Coarsest THEN Coarsest + 1 ELSE Coarsest]
=============================================================================
