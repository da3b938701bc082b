---------------------------- MODULE OrderHistory ----------------------------
(***************************************************************************)
(* What the history of a service order promises, whatever requests         *)
(* overlap: it only grows, by moves that ALLOWED_TRANSITIONS permits from  *)
(* a status the order has held, and the order's status is where the last   *)
(* recorded move led.                                                      *)
(***************************************************************************)
EXTENDS Integers, Sequences, OrderStatuses

CONSTANT Orders

VARIABLES status,     \* status[o]: an order status, "absent" or "deleted"
          timeline    \* timeline[o]: moves [old, new], oldest first

vars == <<status, timeline>>

Held(o) == {timeline[o][n].new : n \in DOMAIN timeline[o]}

Init == /\ status = [o \in Orders |-> "absent"]
        /\ timeline = [o \in Orders |-> <<>>]

Open(o) ==
  /\ status[o] = "absent"
  /\ status' = [status EXCEPT ![o] = "received"]
  /\ timeline' = [timeline EXCEPT ![o] = <<[old |-> "absent", new |-> "received"]>>]

Move(o, old, new) ==
  /\ old \in Held(o)
  /\ new \in AllowedTransitions(old)
  /\ status' = [status EXCEPT ![o] = new]
  /\ timeline' = [timeline EXCEPT ![o] = Append(@, [old |-> old, new |-> new])]

Remove(o) ==
  /\ status[o] \in OrderStatus
  /\ status' = [status EXCEPT ![o] = "deleted"]
  /\ timeline' = [timeline EXCEPT ![o] = <<>>]

Next == \E o \in Orders : \/ Open(o) \/ Remove(o)
                          \/ \E old, new \in OrderStatus : Move(o, old, new)

Spec == Init /\ [][Next]_vars
=============================================================================
