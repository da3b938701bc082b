------------------------------ MODULE MCSeats ------------------------------
(* Small instances of Seats.                                               *)
EXTENDS Seats, TLC

CONSTANTS c1, i1, i2, i3, r1, r2, k

\* Every company hashes to the same lock key.
SharedLockKey == [c \in Companies |-> k]
=============================================================================
