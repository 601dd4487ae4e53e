-------------------------- MODULE MCMatchingThread --------------------------
EXTENDS MatchingThread
Symmetry == Permutations(Accounts) \cup Permutations(OrderIds) \cup Permutations(Conns)
=============================================================================
