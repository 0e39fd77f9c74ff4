----------------------------- MODULE MCPoolLive -----------------------------
(* PoolLive for TLC. No symmetry: the runs check liveness.                *)
EXTENDS PoolLive, TLC
=============================================================================
