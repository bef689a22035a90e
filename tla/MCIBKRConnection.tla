-------------------------- MODULE MCIBKRConnection --------------------------
EXTENDS IBKRConnection, TLC

Symmetry == Permutations(Attempts) \cup Permutations(Reconnectors)
=============================================================================
