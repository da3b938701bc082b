--------------------------- MODULE NumberRegister ---------------------------
(***************************************************************************)
(* What order numbering promises: for each site and kind of order the      *)
(* numbers 1, 2, 3, ... are issued one at a time, none twice, none skipped. *)
(***************************************************************************)
EXTENDS Integers

CONSTANTS Sites, Kinds

VARIABLES next,   \* next[s][k]: the number the next order will get
          taken   \* numbers issued: <<site, kind, number>>

vars == <<next, taken>>

Init == /\ next = [s \in Sites |-> [k \in Kinds |-> 1]]
        /\ taken = {}

Take(s, k) == /\ taken' = taken \cup {<<s, k, next[s][k]>>}
              /\ next' = [next EXCEPT ![s][k] = @ + 1]

Spec == Init /\ [][\E s \in Sites, k \in Kinds : Take(s, k)]_vars
=============================================================================
