---------------------------- MODULE OrderStatuses ----------------------------
(***************************************************************************)
(* The statuses of a service order and the moves between them:             *)
(* app/core/enums.py and ALLOWED_TRANSITIONS of                            *)
(* app/services/order_service.py.                                          *)
(***************************************************************************)

OrderStatus == {"received", "diagnosing", "waiting_parts", "in_repair",
                "completed", "delivered", "cancelled"}

\* A cancelled order can be opened again.
AllowedTransitions_Faulty(current) ==
  CASE current = "received"      -> {"diagnosing", "cancelled"}
    [] current = "diagnosing"    -> {"waiting_parts", "in_repair", "cancelled"}
    [] current = "waiting_parts" -> {"in_repair", "cancelled"}
    [] current = "in_repair"     -> {"waiting_parts", "completed", "cancelled"}
    [] current = "completed"     -> {"delivered", "cancelled"}
    [] current = "cancelled"     -> {"diagnosing"}
    [] OTHER                     -> {}

AllowedTransitions(current) ==
  CASE current = "received"      -> {"diagnosing", "cancelled"}
    [] current = "diagnosing"    -> {"waiting_parts", "in_repair", "cancelled"}
    [] current = "waiting_parts" -> {"in_repair", "cancelled"}
    [] current = "in_repair"     -> {"waiting_parts", "completed", "cancelled"}
    [] current = "completed"     -> {"delivered", "cancelled"}
    [] OTHER                     -> {}

\* DELIVERED: set(), CANCELLED: set().
Terminal == {"delivered", "cancelled"}
=============================================================================
