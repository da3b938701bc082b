----------------------------- MODULE Inventory -----------------------------
(***************************************************************************)
(* The stock of an inventory item and the movements that account for it:   *)
(* apply_stock_change, the inventory endpoints, and apply_inventory_item   *)
(* of the desktop synchronisation.  A request loads the item, computes the *)
(* new stock from what it loaded, and commits the absolute value together  *)
(* with its movement; nothing locks the item in between.                   *)
(* Left out: the columns other than quantity_stock, the kinds of movement  *)
(* and the order a movement belongs to.                                    *)
(***************************************************************************)
EXTENDS Integers, Sequences, FiniteSetsExt

CONSTANTS Requests,   \* concurrently running requests
          Deltas,     \* quantities a movement may carry
          Quantities, \* quantities an item is created with or a push sets
          MaxMoves,   \* bound on the movements of an item
          NoItem      \* the stock of an item that does not exist

ASSUME DeltasAssumption     == Deltas \subseteq Int
ASSUME QuantitiesAssumption == Quantities \subseteq Nat
ASSUME MaxMovesAssumption   == MaxMoves \in Nat
ASSUME NoItemAssumption     == NoItem \notin Int

VARIABLES
  stock,    \* committed quantity_stock, or NoItem
  bases,    \* quantities the item was created with or a push has set (history)
  moves,    \* quantity_change of the movements ever committed, oldest first
  gone,     \* how many of them, the oldest, have no row any more
  req       \* req[r]: progress and local reads of request r

vars == <<stock, bases, moves, gone, req>>

\* loaded: the stock as read; delta: the movement to record; next: the stock to
\* write; rows: movements a delete has loaded; overlapped: whether another
\* request has committed since.
IdleRequest == [pc |-> "idle", loaded |-> 0, delta |-> 0, next |-> 0, rows |-> 0,
                overlapped |-> FALSE]

Exists == stock # NoItem

TypeOK ==
  /\ stock \in Nat \cup {NoItem}
  /\ bases \subseteq Nat
  /\ moves \in Seq(Deltas) /\ Len(moves) <= MaxMoves
  /\ gone \in 0..Len(moves)
  /\ req \in [Requests -> [pc : {"idle", "adjusting", "pushing", "deleting", "emptying"}, loaded : Nat,
                           delta : Deltas \cup {0}, next : Nat, rows : 0..MaxMoves,
                           overlapped : BOOLEAN]]

Init ==
  /\ stock = NoItem
  /\ bases = {}
  /\ moves = <<>>
  /\ gone = 0
  /\ req = [r \in Requests |-> IdleRequest]

-----------------------------------------------------------------------------
(* A definition named ..._Faulty is the definition that follows it with a   *)
(* plausible mistake; no formula uses it.                                  *)

Start(r, pc, delta, next) ==
  /\ req[r].pc = "idle"
  /\ Exists
  /\ req' = [req EXCEPT ![r] = [pc |-> pc, loaded |-> stock, delta |-> delta, next |-> next,
                                rows |-> Len(moves), overlapped |-> FALSE]]
  /\ UNCHANGED <<stock, bases, moves, gone>>

\* The end of a request; the others that are running have been overlapped.
Finish(r, committed) ==
  req' = [q \in Requests |->
            IF q = r THEN IdleRequest
            ELSE [req[q] EXCEPT !.overlapped = @ \/ (committed /\ req[q].pc # "idle")]]

\* create_inventory_item, or a pushed "create": the initial quantity has no
\* movement.  A deleted item comes back under a new identifier, which no request
\* in flight knows.
CreateItem(q) ==
  /\ ~Exists
  /\ \A r \in Requests : req[r].pc = "idle"
  /\ stock' = q
  /\ bases' = {q}
  /\ moves' = <<>>
  /\ gone' = 0
  /\ UNCHANGED req

\* adjust_stock and apply_stock_change: a result below zero is refused (400).
LoadForAdjust(r, delta) ==
  /\ Exists
  /\ stock + delta >= 0
  /\ Start(r, "adjusting", delta, stock + delta)

\* The change is applied twice: once by the endpoint, once by the service.
Written_Faulty(r) == req[r].next + req[r].delta

\* The column is written when the new value differs from the loaded one.
Written(r) == IF req[r].next = req[r].loaded THEN stock ELSE req[r].next

\* The stock and the movement become visible together; the UPDATE, or the
\* foreign key of the movement, fails when the item is gone (Rollback).
CommitAdjust(r) ==
  /\ req[r].pc = "adjusting"
  /\ Exists
  /\ Len(moves) < MaxMoves
  /\ stock' = Written(r)
  /\ moves' = Append(moves, req[r].delta)
  /\ Finish(r, TRUE)
  /\ UNCHANGED <<bases, gone>>

\* delete_inventory_item: the movements that were loaded are deleted with the
\* item; one recorded since makes the DELETE fail.
LoadForDelete(r) == Start(r, "deleting", 0, 0)

CommitItemDelete(r) ==
  /\ req[r].pc = "deleting"
  /\ Exists
  /\ Len(moves) <= req[r].rows
  /\ stock' = NoItem
  /\ moves' = <<>>
  /\ gone' = 0
  /\ Finish(r, TRUE)
  /\ UNCHANGED bases

Rollback(r) ==
  /\ req[r].pc # "idle"
  /\ Finish(r, FALSE)
  /\ UNCHANGED <<stock, bases, moves, gone>>

\* apply_inventory_item: "update" and "stock_change" set quantity_stock and
\* record no movement.
LoadForPush(r, q) == Start(r, "pushing", 0, q)

CommitPush(r) ==
  /\ req[r].pc = "pushing"
  /\ Exists
  /\ stock' = Written(r)
  /\ Finish(r, TRUE)
  /\ bases' = IF req[r].next = req[r].loaded THEN bases ELSE bases \cup {req[r].next}
  /\ UNCHANGED <<moves, gone>>

\* "delete": db.delete(item) followed by db.add(item) keeps the item, but the
\* movements the delete has loaded are deleted.
LoadForPushDelete(r) == Start(r, "emptying", 0, 0)

CommitPushDelete(r) ==
  /\ req[r].pc = "emptying"
  /\ Exists
  /\ gone' = IF req[r].rows > gone THEN req[r].rows ELSE gone
  /\ Finish(r, TRUE)
  /\ UNCHANGED <<stock, bases, moves>>

-----------------------------------------------------------------------------
Next ==
  \/ \E q \in Quantities : CreateItem(q)
  \/ \E r \in Requests :
       \/ \E delta \in Deltas : LoadForAdjust(r, delta)
       \/ LoadForDelete(r) \/ CommitAdjust(r) \/ CommitItemDelete(r) \/ Rollback(r)

Push == \E r \in Requests : \/ \E q \in Quantities : LoadForPush(r, q)
                             \/ CommitPush(r) \/ LoadForPushDelete(r) \/ CommitPushDelete(r)

Spec         == Init /\ [][Next]_vars
SpecWithPush == Init /\ [][Next \/ Push]_vars

-----------------------------------------------------------------------------
(* Properties                                                              *)

\* The sum of the movements at the places in T.
Net(T) == MapThenSumSet(LAMBDA n : moves[n], T)

\* Overlapping requests lose whole movements, never parts of one: the stock is
\* a quantity the item was created with or a push has set, and some of the
\* recorded movements; so is every stock a request is about to write, with its
\* own movement.
StockExplained ==
  Exists =>
    /\ \E q \in bases, T \in SUBSET DOMAIN moves : stock = q + Net(T)
    /\ \A r \in Requests : req[r].pc = "adjusting" =>
          \E q \in bases, T \in SUBSET DOMAIN moves : req[r].next = q + Net(T) + req[r].delta

\* A movement that no other commit overlaps changes the stock by its quantity,
\* also when pushed mutations set the stock in between.
UndisturbedAddsUp ==
  [][\A r \in Requests : CommitAdjust(r) /\ ~req[r].overlapped =>
        stock' = stock + moves'[Len(moves')]]_vars
=============================================================================
