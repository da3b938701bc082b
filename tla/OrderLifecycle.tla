--------------------------- MODULE OrderLifecycle ---------------------------
(***************************************************************************)
(* The status of service orders, their timeline and the slips that depend  *)
(* on it: app/services/order_service.py and the endpoints that run it.     *)
(* Requests run concurrently, each in a READ COMMITTED transaction; no     *)
(* handler locks the order's row before it checks the status it has read.  *)
(* A request is two steps: what it reads and checks, and its commit, at    *)
(* which its row lock makes its writes one step.                           *)
(* Left out: the order's other columns (costs are in OrderCosts, numbers   *)
(* in OrderNumbering), and who may call which endpoint.                    *)
(***************************************************************************)
EXTENDS Integers, Sequences, FiniteSets, OrderStatuses

CONSTANTS Orders,       \* service order identifiers
          Requests,     \* concurrently running requests
          MaxEntries,   \* bound on the timeline entries of an order
          SyncEnabled,  \* whether desktop synchronisation pushes orders too
          PushStatuses, \* bound on the statuses that pushed mutations carry
          NoOrder       \* the order of an idle request

ASSUME MaxEntriesAssumption == MaxEntries \in Nat
ASSUME SyncAssumption       == SyncEnabled \in BOOLEAN
ASSUME PushAssumption       == PushStatuses \subseteq OrderStatus
ASSUME NoOrderAssumption    == NoOrder \notin Orders

VARIABLES
  status,    \* status[o]: committed status, "absent" or "deleted"
  timeline,  \* timeline[o]: committed rows of service_order_timeline
  slips,     \* slips[o]: kinds of documents registered for the order
  req        \* req[r]: progress and local reads of request r

vars == <<status, timeline, slips, req>>

SlipKind  == {"intake", "delivery"}
RowState  == OrderStatus \cup {"absent", "deleted"}
PC        == {"idle", "slips", "patching", "cancelling", "printing", "deleting",
              "inserting", "overwriting", "emptying"}

IdleRequest == [pc |-> "idle", order |-> NoOrder, seen |-> "absent",
                target |-> "absent", entries |-> 0]

Exists(o) == status[o] \in OrderStatus

TypeOK ==
  /\ status \in [Orders -> RowState]
  /\ timeline \in [Orders -> Seq([old : OrderStatus \cup {"absent"}, new : OrderStatus])]
  /\ \A o \in Orders : Len(timeline[o]) <= MaxEntries
  /\ slips \in [Orders -> SUBSET SlipKind]
  /\ req \in [Requests -> [pc : PC, order : Orders \cup {NoOrder}, seen : RowState,
                           target : RowState \cup SlipKind, entries : 0..MaxEntries]]
  /\ \A r \in Requests : req[r].pc # "idle" => req[r].order \in Orders

Init ==
  /\ status = [o \in Orders |-> "absent"]
  /\ timeline = [o \in Orders |-> <<>>]
  /\ slips = [o \in Orders |-> {}]
  /\ req = [r \in Requests |-> IdleRequest]

-----------------------------------------------------------------------------
(* A definition named ..._Faulty is the definition that follows it with a   *)
(* plausible mistake; no formula uses it.                                  *)

\* A request that has read an order and goes on to step pc, remembering the
\* status it saw, what it is to write and how many timeline rows it has loaded.
Start(r, o, pc, seen, target, entries) ==
  /\ req[r].pc = "idle"
  /\ req' = [req EXCEPT ![r] = [pc |-> pc, order |-> o, seen |-> seen,
                                target |-> target, entries |-> entries]]

Finish(r) == req' = [req EXCEPT ![r] = IdleRequest]

Fail(r) == Finish(r) /\ UNCHANGED <<status, timeline, slips>>

\* A request that ends with an error or loses its connection is rolled back.
\* A portal cancellation has only its own way to fail (PortalCancelFails).
Rollback(r) == req[r].pc \notin {"idle", "cancelling"} /\ Fail(r)

\* create_order's first commit: the order and its first timeline entry.
\* Workshop kinds go on to their intake slips in a second transaction; orders
\* of other kinds, and those made in the portal, have none.
CommitCreate(r, o, workshop) ==
  /\ req[r].pc = "idle"
  /\ status[o] = "absent"
  /\ MaxEntries > 0
  /\ status' = [status EXCEPT ![o] = "received"]
  /\ timeline' = [timeline EXCEPT ![o] = <<[old |-> "absent", new |-> "received"]>>]
  /\ IF workshop THEN req' = [req EXCEPT ![r].pc = "slips", ![r].order = o]
                 ELSE UNCHANGED req
  /\ UNCHANGED slips

\* The second commit.  An error while a slip is made is logged and swallowed;
\* an order that has been deleted by now gets none.
CommitIntakeSlips(r) ==
  /\ req[r].pc = "slips"
  /\ Exists(req[r].order)
  /\ slips' = [slips EXCEPT ![req[r].order] = @ \cup {"intake"}]
  /\ Finish(r)
  /\ UNCHANGED <<status, timeline>>

\* Without assert_transition_allowed.
LoadForPatch_Faulty(r, o, new) ==
  /\ Exists(o)
  /\ Start(r, o, "patching", status[o], new, 0)
  /\ UNCHANGED <<status, timeline, slips>>

\* patch_order_status: the move is checked against the status just read; a
\* move that is not allowed is answered with 400.
LoadForPatch(r, o, new) ==
  /\ Exists(o)
  /\ new \in AllowedTransitions(status[o])
  /\ Start(r, o, "patching", status[o], new, 0)
  /\ UNCHANGED <<status, timeline, slips>>

\* The old status of the entry is read again when the entry is written.
CommitPatch_Faulty(r) ==
  LET o == req[r].order
  IN  /\ req[r].pc = "patching"
      /\ Exists(o)
      /\ Len(timeline[o]) < MaxEntries
      /\ status' = [status EXCEPT ![o] = req[r].target]
      /\ timeline' = [timeline EXCEPT ![o] =
                        Append(@, [old |-> status[o], new |-> req[r].target])]
      /\ UNCHANGED slips
      /\ Finish(r)

\* The status and the entry that records the move are written together, and
\* with a delivery its slips, unless making them fails.  The entry's old status
\* is the one that was read.  The UPDATE of a deleted row fails (Rollback).
CommitPatch(r) ==
  LET o == req[r].order
  IN  /\ req[r].pc = "patching"
      /\ Exists(o)
      /\ Len(timeline[o]) < MaxEntries
      /\ status' = [status EXCEPT ![o] = req[r].target]
      /\ timeline' = [timeline EXCEPT ![o] =
                        Append(@, [old |-> req[r].seen, new |-> req[r].target])]
      /\ \/ UNCHANGED slips
         \/ /\ req[r].target = "delivered"
            /\ slips' = [slips EXCEPT ![o] = @ \cup {"delivery"}]
      /\ Finish(r)

\* portal_cancel_order refuses delivered and cancelled orders with 400.
LoadForPortalCancel(r, o) ==
  /\ Exists(o)
  /\ status[o] \notin {"delivered", "cancelled"}
  /\ Start(r, o, "cancelling", "absent", "cancelled", 0)
  /\ UNCHANGED <<status, timeline, slips>>

\* change_order_status is given changed_by=None and evaluates changed_by.id:
\* the AttributeError reaches no handler and the transaction is rolled back.
PortalCancelFails(r) == req[r].pc = "cancelling" /\ Fail(r)

\* The check of the status for a delivery slip is missing.
LoadForDocument_Faulty(r, o, kind) ==
  /\ Exists(o)
  /\ Start(r, o, "printing", "absent", kind, 0)
  /\ UNCHANGED <<status, timeline, slips>>

\* generate_document: a delivery slip needs a completed or delivered order.
LoadForDocument(r, o, kind) ==
  /\ Exists(o)
  /\ kind = "delivery" => status[o] \in {"completed", "delivered"}
  /\ Start(r, o, "printing", "absent", kind, 0)
  /\ UNCHANGED <<status, timeline, slips>>

\* The foreign key refuses a document of an order that is gone.
CommitDocument(r) ==
  /\ req[r].pc = "printing"
  /\ Exists(req[r].order)
  /\ slips' = [slips EXCEPT ![req[r].order] = @ \cup {req[r].target}]
  /\ Finish(r)
  /\ UNCHANGED <<status, timeline>>

\* delete_order loads the timeline rows that are to be deleted with the order.
LoadForDelete(r, o) ==
  /\ Exists(o)
  /\ Start(r, o, "deleting", "absent", "deleted", Len(timeline[o]))
  /\ UNCHANGED <<status, timeline, slips>>

\* The foreign keys of documents and of timeline rows that were not loaded
\* make the DELETE fail.
CommitDelete(r) ==
  LET o == req[r].order
  IN  /\ req[r].pc = "deleting"
      /\ Exists(o)
      /\ slips[o] = {}
      /\ Len(timeline[o]) <= req[r].entries
      /\ status' = [status EXCEPT ![o] = "deleted"]
      /\ timeline' = [timeline EXCEPT ![o] = <<>>]
      /\ Finish(r)
      /\ UNCHANGED slips

-----------------------------------------------------------------------------
(* Desktop synchronisation: apply_service_order.  Whether reject_if_stale   *)
(* refuses a mutation depends on clocks and is left open: a refused one     *)
(* changes nothing.                                                        *)

\* A create of an order that exists is answered "applied" and does nothing.
PushCreate(r, o, s) ==
  /\ ~Exists(o)
  /\ Start(r, o, "inserting", "absent", s, 0)
  /\ UNCHANGED <<status, timeline, slips>>

PushStatus(r, o, s) ==
  /\ Exists(o)
  /\ Start(r, o, "overwriting", status[o], s, 0)
  /\ UNCHANGED <<status, timeline, slips>>

PushDelete(r, o) ==
  /\ Exists(o)
  /\ Start(r, o, "emptying", "absent", "deleted", Len(timeline[o]))
  /\ UNCHANGED <<status, timeline, slips>>

\* Any status, no timeline entry.  A concurrent insert of the same identifier
\* makes the push fail.
CommitPushCreate(r) ==
  /\ req[r].pc = "inserting"
  /\ ~Exists(req[r].order)
  /\ status' = [status EXCEPT ![req[r].order] = req[r].target]
  /\ Finish(r)
  /\ UNCHANGED <<timeline, slips>>

\* The column is written when the new status differs from the one read, with
\* no check of the move and no timeline entry.
CommitPushStatus(r) ==
  /\ req[r].pc = "overwriting"
  /\ Exists(req[r].order)
  /\ status' = [status EXCEPT ![req[r].order] =
                  IF req[r].target = req[r].seen THEN @ ELSE req[r].target]
  /\ Finish(r)
  /\ UNCHANGED <<timeline, slips>>

\* db.delete(order) followed by db.add(order): the order is kept, the timeline
\* rows the delete had loaded go.
CommitPushDelete(r) ==
  LET o == req[r].order
  IN  /\ req[r].pc = "emptying"
      /\ Exists(o)
      /\ timeline' = [timeline EXCEPT ![o] = SubSeq(@, req[r].entries + 1, Len(@))]
      /\ Finish(r)
      /\ UNCHANGED <<status, slips>>

-----------------------------------------------------------------------------
Rest(r) ==
  \/ \E o \in Orders :
       \/ \E workshop \in BOOLEAN : CommitCreate(r, o, workshop)
       \/ \E new \in OrderStatus : LoadForPatch(r, o, new)
       \/ LoadForPortalCancel(r, o)
       \/ \E kind \in SlipKind : LoadForDocument(r, o, kind)
       \/ LoadForDelete(r, o)
  \/ CommitIntakeSlips(r) \/ CommitPatch(r) \/ PortalCancelFails(r)
  \/ CommitDocument(r) \/ CommitDelete(r) \/ Rollback(r)

Sync(r) ==
  \/ \E o \in Orders : \/ \E s \in PushStatuses : PushCreate(r, o, s) \/ PushStatus(r, o, s)
                       \/ PushDelete(r, o)
  \/ CommitPushCreate(r) \/ CommitPushStatus(r) \/ CommitPushDelete(r)

Next == \E r \in Requests : Rest(r) \/ (SyncEnabled /\ Sync(r))

Spec == Init /\ [][Next]_vars

-----------------------------------------------------------------------------
(* Properties                                                              *)

Held(o) == {timeline[o][n].new : n \in DOMAIN timeline[o]}

\* Every move the timeline records is one ALLOWED_TRANSITIONS permits, with or
\* without synchronisation: change_order_status checks the status it records.
EntriesLegal ==
  /\ \A o \in Orders : \A n \in DOMAIN timeline[o] :
        LET e == timeline[o][n]
        IN  \/ e = [old |-> "absent", new |-> "received"]
            \/ e.new \in AllowedTransitions(e.old)
  /\ \A r \in Requests : req[r].pc = "patching" =>
        req[r].target \in AllowedTransitions(req[r].seen)

\* The status of an order is where its last timeline entry led: what the
\* timeline tab ("Historial de estados de la orden") shows.
StatusMatchesTimeline ==
  \A o \in Orders : Exists(o) => /\ timeline[o] # <<>>
                                 /\ status[o] = timeline[o][Len(timeline[o])].new

\* A move starts from a status the order has held, even when a concurrent
\* request has changed it since: an order is never recorded as delivered
\* unless it was recorded as completed before.
MovesGrounded ==
  \A o \in Orders : \A n \in DOMAIN timeline[o] :
     n > 1 => \E m \in 1..(n - 1) : timeline[o][m].new = timeline[o][n].old

\* What requests in flight have read is part of the history while the order
\* exists, and a delivery slip waits to be written only for a completed one.
ReadsGrounded ==
  /\ \A o \in Orders : Exists(o) \/ timeline[o] = <<>>
  /\ \A r \in Requests :
       /\ req[r].pc = "patching" /\ Exists(req[r].order) => req[r].seen \in Held(req[r].order)
       /\ req[r].pc = "printing" /\ req[r].target = "delivery" /\ Exists(req[r].order) =>
             "completed" \in Held(req[r].order)

\* An order with a delivery slip has been recorded as completed, although the
\* slip is written later than the status was checked (create_order_document).
SlipsGrounded ==
  \A o \in Orders : "delivery" \in slips[o] => Exists(o) /\ "completed" \in Held(o)

\* The inductive invariant of the API alone.
HistoryInv ==
  /\ TypeOK
  /\ EntriesLegal
  /\ StatusMatchesTimeline
  /\ MovesGrounded
  /\ ReadsGrounded
  /\ SlipsGrounded

\* Once an order is delivered or cancelled and every PATCH that read an earlier
\* status has ended, no PATCH takes it out of that status again.
Settled(o) ==
  /\ status[o] \in Terminal
  /\ \A r \in Requests : req[r].pc = "patching" /\ req[r].order = o => req[r].seen \in Terminal

TerminalSettles ==
  [][\A o \in Orders : Settled(o) => status'[o] \in {status[o], "deleted"}]_vars

\* A cancellation that portal_cancel_order accepts ends with the order cancelled.
PortalCancelCancels ==
  [][\A r \in Requests : req[r].pc = "cancelling" /\ req'[r].pc = "idle" =>
        status'[req[r].order] = "cancelled"]_vars

\* Without synchronisation the timeline implements OrderHistory.
History == INSTANCE OrderHistory
HistorySpec == History!Spec
=============================================================================
