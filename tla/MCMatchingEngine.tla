-------------------------- MODULE MCMatchingEngine --------------------------
EXTENDS MatchingEngine, TLC
Symmetry == Permutations(Accounts) \cup Permutations(OrderIds)
=============================================================================
