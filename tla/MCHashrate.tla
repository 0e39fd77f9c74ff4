---------------------------- MODULE MCHashrate ----------------------------
(* HashrateEstimator for TLC: two request threads, two workers.           *)
EXTENDS HashrateEstimator, TLC

Symmetry == Permutations(Threads) \cup Permutations(Addresses)
=============================================================================
