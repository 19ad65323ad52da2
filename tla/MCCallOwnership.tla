--------------------------- MODULE MCCallOwnership ---------------------------
EXTENDS CallOwnership, TLC

Symmetric == Permutations(Handlers)
=============================================================================
