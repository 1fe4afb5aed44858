------------------------------ MODULE MCUsage ------------------------------
EXTENDS Usage, TLC

Symmetry == Permutations(Addresses)
=============================================================================
