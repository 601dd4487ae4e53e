-------------------------- MODULE MCEngineReports --------------------------
EXTENDS EngineReports
Symmetry == Permutations(Accounts) \cup Permutations(OrderIds)
=============================================================================
