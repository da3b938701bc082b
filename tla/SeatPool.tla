------------------------------ MODULE SeatPool ------------------------------
(***************************************************************************)
(* What the desktop seat register promises, independently of how requests  *)
(* interleave: one indivisible grant, one indivisible revocation, and a    *)
(* ceiling, the largest seat limit the company's plan has ever carried,    *)
(* that the number of active seats never passes.                           *)
(***************************************************************************)
EXTENDS Integers, FiniteSets

CONSTANTS Companies,      \* tenants
          Installations   \* identifiers of desktop installations

VARIABLES seats,    \* seats[c][i]: "free" (no row), "active" or "revoked"
          ceiling   \* ceiling[c]: largest limit in force so far

vars == <<seats, ceiling>>

SeatState == {"free", "active", "revoked"}

ActiveSeats(c) == {i \in Installations : seats[c][i] = "active"}

Init == /\ seats = [c \in Companies |-> [i \in Installations |-> "free"]]
        /\ ceiling \in [Companies -> Nat]

Grant(c, i) ==
  /\ seats[c][i] = "free"
  /\ Cardinality(ActiveSeats(c)) < ceiling[c]
  /\ seats' = [seats EXCEPT ![c][i] = "active"]
  /\ UNCHANGED ceiling

Revoke(c, i) ==
  /\ seats[c][i] = "active"
  /\ seats' = [seats EXCEPT ![c][i] = "revoked"]
  /\ UNCHANGED ceiling

RaiseCeiling ==
  /\ ceiling' \in [Companies -> Nat]
  /\ \A c \in Companies : ceiling'[c] >= ceiling[c]
  /\ UNCHANGED seats

Next == \/ \E c \in Companies, i \in Installations : Grant(c, i) \/ Revoke(c, i)
        \/ RaiseCeiling

Spec == Init /\ [][Next]_vars
=============================================================================
