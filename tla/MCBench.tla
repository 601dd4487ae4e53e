------------------------------- MODULE MCBench -------------------------------
(* The default mix of the benchmark. *)
EXTENDS Bench

MCMix == [new |-> 70, cancel |-> 20, cross |-> 10]
=============================================================================
