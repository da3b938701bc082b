---------------------------- MODULE MCOrderCosts ----------------------------
(* Small instances of OrderCosts.                                          *)
EXTENDS OrderCosts, TLC

CONSTANTS l1, l2, r1, r2

\* A desktop that sends totals of its own.
MCPushedCosts == {[parts |-> 1, labor |-> 0, total |-> 0]}

Symmetry == Permutations(Requests) \cup Permutations(Lines)
=============================================================================
