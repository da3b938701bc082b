-------------------------- MODULE MCOrderLifecycle --------------------------
(* Small instances of OrderLifecycle.                                      *)
EXTENDS OrderLifecycle, TLC

CONSTANTS o1, r1, r2

Symmetry == Permutations(Requests)
=============================================================================
