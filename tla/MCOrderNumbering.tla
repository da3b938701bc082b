-------------------------- MODULE MCOrderNumbering --------------------------
(* Small instances of OrderNumbering.                                      *)
EXTENDS OrderNumbering, TLC

CONSTANTS s1, s2, k1, r1, r2

=============================================================================
