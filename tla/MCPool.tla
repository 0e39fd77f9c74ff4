------------------------------- MODULE MCPool -------------------------------
(***************************************************************************)
(* Pool instantiated for TLC. Model values and bounds are given in each    *)
(* .cfg; request threads and valid addresses are interchangeable.          *)
(***************************************************************************)
EXTENDS Pool, TLC

Symmetry == Permutations(Threads) \cup Permutations(ValidAddr)
=============================================================================
