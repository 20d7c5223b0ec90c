---------------------------- MODULE MCThreadPool ----------------------------
(* Small instances of ThreadPool for TLC.                                  *)
EXTENDS ThreadPool, TLC

PoolSymmetry == Permutations(Workers) \union Permutations(Jobs)
=============================================================================
