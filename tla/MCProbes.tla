------------------------------ MODULE MCProbes ------------------------------
EXTENDS Probes

CONSTANTS i1, i2, i3
=============================================================================
