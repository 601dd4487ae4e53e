---------------------------- MODULE MCBookIndex ----------------------------
(* BookIndex on a small instance: account ids and order ids are only ever    *)
(* compared for equality.                                                    *)
EXTENDS BookIndex, TLC

Symmetry == Permutations(Accounts) \cup Permutations(OrderIds)
=============================================================================
