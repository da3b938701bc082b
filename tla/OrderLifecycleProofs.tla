------------------------ MODULE OrderLifecycleProofs ------------------------
(***************************************************************************)
(* For any number of orders and concurrent requests: what the timeline of  *)
(* an order records is legal, with or without synchronisation; and of the  *)
(* API alone, the history is grounded, ends in the order's status, settles *)
(* in terminal statuses and implements OrderHistory.                       *)
(*                                                                         *)
(* A PATCH writes what it has checked against the status it read, which    *)
(* may be another one by then.  The invariant therefore speaks of what     *)
(* requests carry (Legal, Grounded), and it survives the steps of others   *)
(* because an order is never created again and its history only grows      *)
(* while it exists (Advances).                                             *)
(***************************************************************************)
EXTENDS OrderLifecycle, TLAPS

Entry == [old : OrderStatus \cup {"absent"}, new : OrderStatus]

RequestType == [pc : PC, order : Orders \cup {NoOrder}, seen : RowState,
                target : RowState \cup SlipKind, entries : 0..MaxEntries]

\* What a request may carry, whatever happens to the orders.
Legal(q) ==
  /\ q.pc # "idle" => q.order \in Orders
  /\ q.pc = "patching" => q.target \in AllowedTransitions(q.seen)
  /\ q.pc \in {"inserting", "overwriting"} => q.target \in OrderStatus
  /\ q.pc = "printing" => q.target \in SlipKind

LegalMove(e) == \/ e = [old |-> "absent", new |-> "received"]
                \/ e.new \in AllowedTransitions(e.old)

RowsOK ==
  /\ status \in [Orders -> RowState]
  /\ timeline \in [Orders -> Seq(Entry)]
  /\ \A o \in Orders : Len(timeline[o]) <= MaxEntries
  /\ \A o \in Orders : \A n \in DOMAIN timeline[o] : LegalMove(timeline[o][n])
  /\ slips \in [Orders -> SUBSET SlipKind]

RequestsOK ==
  /\ req \in [Requests -> RequestType]
  /\ \A r \in Requests : Legal(req[r])

LegalInv == RowsOK /\ RequestsOK

\* What a request has read is part of the history of its order.
Grounded(q) ==
  /\ q.pc # "idle" => status[q.order] # "absent"
  /\ q.pc = "patching" /\ Exists(q.order) => q.seen \in Held(q.order)
  /\ q.pc = "printing" /\ q.target = "delivery" /\ Exists(q.order) =>
        "completed" \in Held(q.order)

\* The history of an order: it begins with its receipt, every move starts where
\* an earlier one ended, and the status is where the last one ended.
Told(o) ==
  /\ Exists(o) => /\ timeline[o] # <<>>
                  /\ status[o] = timeline[o][Len(timeline[o])].new
  /\ ~Exists(o) => timeline[o] = <<>>
  /\ timeline[o] # <<>> => timeline[o][1].old = "absent"
  /\ \A n \in DOMAIN timeline[o] :
       n > 1 => \E k \in 1..(n - 1) : timeline[o][k].new = timeline[o][n].old
  /\ "delivery" \in slips[o] => Exists(o) /\ "completed" \in Held(o)

ApiInv ==
  /\ LegalInv
  /\ \A o \in Orders : Told(o)
  /\ \A r \in Requests : Grounded(req[r])

\* What every step of the API does to every order.
Advances ==
  \A o \in Orders : status[o] # "absent" =>
     /\ status'[o] # "absent"
     /\ Exists(o)' => Exists(o) /\ Held(o) \subseteq Held(o)'

USE MaxEntriesAssumption, SyncAssumption, PushAssumption, NoOrderAssumption

-----------------------------------------------------------------------------
(* The table of moves *)

LEMMA MovesFacts ==
  ASSUME NEW s \in RowState, NEW t \in AllowedTransitions(s)
  PROVE  s \in OrderStatus /\ t \in OrderStatus /\ s \notin Terminal
BY DEF AllowedTransitions, OrderStatus, RowState, Terminal

LEMMA StatusFacts ==
  /\ "absent" \notin OrderStatus /\ "deleted" \notin OrderStatus
  /\ {"received", "completed", "delivered", "cancelled"} \subseteq OrderStatus
  /\ OrderStatus \subseteq RowState /\ {"absent", "deleted"} \subseteq RowState
  /\ Terminal \subseteq OrderStatus
  /\ "delivery" \in SlipKind /\ "intake" \in SlipKind
BY DEF OrderStatus, RowState, Terminal, SlipKind

-----------------------------------------------------------------------------
(* Requests *)

LEMMA IdleFacts == IdleRequest \in RequestType /\ Legal(IdleRequest) /\ IdleRequest.pc = "idle"
BY DEF IdleRequest, RequestType, Legal, PC, RowState

LEMMA RequestStep ==
  ASSUME RequestsOK, NEW r \in Requests, NEW q \in RequestType, Legal(q),
         req' = [req EXCEPT ![r] = q]
  PROVE  /\ RequestsOK'
         /\ \A x \in Requests : req'[x] = IF x = r THEN q ELSE req[x]
<1>1. \A x \in Requests : req'[x] = IF x = r THEN q ELSE req[x]
  BY DEF RequestsOK
<1>2. \A x \in Requests : Legal(req'[x])
  BY <1>1 DEF RequestsOK
<1>3. \A x \in Requests : Legal(req[x])'
  BY <1>2 DEF Legal
<1>4. req' \in [Requests -> RequestType]
  BY DEF RequestsOK
<1> QED BY <1>1, <1>3, <1>4 DEF RequestsOK

\* A request that begins with what fits its purpose.
LEMMA StartStep ==
  ASSUME RequestsOK, NEW r \in Requests, NEW o \in Orders, NEW pc \in PC,
         NEW seen \in RowState, NEW target \in RowState \cup SlipKind,
         NEW entries \in 0..MaxEntries,
         pc = "patching" => target \in AllowedTransitions(seen),
         pc \in {"inserting", "overwriting"} => target \in OrderStatus,
         pc = "printing" => target \in SlipKind,
         Start(r, o, pc, seen, target, entries)
  PROVE  /\ RequestsOK'
         /\ \A x \in Requests : req'[x] =
              IF x = r THEN [pc |-> pc, order |-> o, seen |-> seen,
                             target |-> target, entries |-> entries] ELSE req[x]
<1> DEFINE q == [pc |-> pc, order |-> o, seen |-> seen,
                 target |-> target, entries |-> entries]
<1>1. q \in RequestType /\ Legal(q)
  BY DEF RequestType, Legal
<1>2. req' = [req EXCEPT ![r] = q]
  BY DEF Start
<1> HIDE DEF q
<1>3. RequestsOK' /\ \A x \in Requests : req'[x] = IF x = r THEN q ELSE req[x]
  BY <1>1, <1>2, RequestStep
<1> QED BY <1>3 DEF q

LEMMA FinishStep ==
  ASSUME RequestsOK, NEW r \in Requests, Finish(r)
  PROVE  /\ RequestsOK'
         /\ \A x \in Requests : req'[x] = IF x = r THEN IdleRequest ELSE req[x]
BY IdleFacts, RequestStep DEF Finish

\* A creation that goes on to its slips.
LEMMA SlipsStep ==
  ASSUME RequestsOK, NEW r \in Requests, NEW o \in Orders, req[r].pc = "idle",
         req' = [req EXCEPT ![r].pc = "slips", ![r].order = o]
  PROVE  /\ RequestsOK'
         /\ \A x \in Requests : x # r => req'[x] = req[x]
         /\ req'[r].pc = "slips" /\ req'[r].order = o
<1>1. PICK q0 \in RequestType : q0 = req[r]
  BY DEF RequestsOK
<1> DEFINE q == [q0 EXCEPT !.pc = "slips", !.order = o]
<1>2. q \in RequestType /\ Legal(q) /\ q.pc = "slips" /\ q.order = o
  BY DEF RequestType, Legal, PC
<1>3. req' = [req EXCEPT ![r] = q]
  BY <1>1 DEF RequestsOK
<1> HIDE DEF q
<1>4. RequestsOK' /\ \A x \in Requests : req'[x] = IF x = r THEN q ELSE req[x]
  BY <1>2, <1>3, RequestStep
<1> QED BY <1>2, <1>4
-----------------------------------------------------------------------------
(* Rows *)

\* A timeline that holds legal moves still does after one more, or without its
\* oldest ones.
LEMMA AppendFacts ==
  ASSUME NEW t \in Seq(Entry), NEW e \in Entry
  PROVE  /\ Append(t, e) \in Seq(Entry)
         /\ Len(Append(t, e)) = Len(t) + 1
         /\ \A n \in DOMAIN t : n \in DOMAIN Append(t, e) /\ Append(t, e)[n] = t[n]
         /\ Append(t, e)[Len(t) + 1] = e
         /\ DOMAIN Append(t, e) = 1..(Len(t) + 1) /\ DOMAIN t = 1..Len(t)
OBVIOUS

LEMMA ShortenFacts ==
  ASSUME NEW t \in Seq(Entry), NEW n \in Nat
  PROVE  /\ SubSeq(t, n + 1, Len(t)) \in Seq(Entry)
         /\ Len(SubSeq(t, n + 1, Len(t))) <= Len(t)
         /\ \A k \in DOMAIN SubSeq(t, n + 1, Len(t)) :
              \E m \in DOMAIN t : SubSeq(t, n + 1, Len(t))[k] = t[m]
<1>1. \A k \in DOMAIN SubSeq(t, n + 1, Len(t)) :
         n + k \in DOMAIN t /\ SubSeq(t, n + 1, Len(t))[k] = t[n + k]
  OBVIOUS
<1> QED BY <1>1

\* A step that changes the rows of one order only.
LEMMA RowsStep ==
  ASSUME RowsOK, NEW o \in Orders, NEW s \in RowState, NEW t \in Seq(Entry),
         NEW d \in SUBSET SlipKind, Len(t) <= MaxEntries,
         \A n \in DOMAIN t : LegalMove(t[n]),
         status' = [status EXCEPT ![o] = s],
         timeline' = [timeline EXCEPT ![o] = t],
         slips' = [slips EXCEPT ![o] = d]
  PROVE  RowsOK'
<1>1. /\ status' \in [Orders -> RowState]
      /\ timeline' \in [Orders -> Seq(Entry)]
      /\ slips' \in [Orders -> SUBSET SlipKind]
  BY DEF RowsOK
<1>2. /\ status'[o] = s /\ timeline'[o] = t /\ slips'[o] = d
      /\ \A x \in Orders : x # o => /\ status'[x] = status[x]
                                    /\ timeline'[x] = timeline[x]
                                    /\ slips'[x] = slips[x]
  BY DEF RowsOK
<1>3. \A x \in Orders : Len(timeline'[x]) <= MaxEntries
  BY <1>2 DEF RowsOK
<1>4. \A x \in Orders : \A n \in DOMAIN timeline'[x] : LegalMove(timeline'[x][n])
  <2> SUFFICES ASSUME NEW x \in Orders, NEW n \in DOMAIN timeline'[x]
               PROVE  LegalMove(timeline'[x][n])
    OBVIOUS
  <2>1. CASE x = o
    BY <2>1, <1>2
  <2>2. CASE x # o
    BY <2>2, <1>2 DEF RowsOK
  <2> QED BY <2>1, <2>2
<1> QED BY <1>1, <1>2, <1>3, <1>4 DEF RowsOK, LegalMove

LEMMA RowFacts ==
  ASSUME RowsOK, NEW o \in Orders
  PROVE  /\ status[o] \in RowState /\ timeline[o] \in Seq(Entry) /\ slips[o] \in SUBSET SlipKind
         /\ Len(timeline[o]) <= MaxEntries /\ Len(timeline[o]) \in 0..MaxEntries
         /\ \A n \in DOMAIN timeline[o] : LegalMove(timeline[o][n])
         /\ status = [status EXCEPT ![o] = status[o]]
         /\ timeline = [timeline EXCEPT ![o] = timeline[o]]
         /\ slips = [slips EXCEPT ![o] = slips[o]]
<1>1. /\ status[o] \in RowState /\ timeline[o] \in Seq(Entry) /\ slips[o] \in SUBSET SlipKind
      /\ Len(timeline[o]) <= MaxEntries
      /\ \A n \in DOMAIN timeline[o] : LegalMove(timeline[o][n])
  BY DEF RowsOK
<1>2. Len(timeline[o]) \in 0..MaxEntries
  BY <1>1
<1>3. status = [status EXCEPT ![o] = status[o]]
  BY DEF RowsOK
<1>4. timeline = [timeline EXCEPT ![o] = timeline[o]]
  BY DEF RowsOK
<1>5. slips = [slips EXCEPT ![o] = slips[o]]
  BY DEF RowsOK
<1> QED BY <1>1, <1>2, <1>3, <1>4, <1>5

LEMMA RowsKept ==
  ASSUME RowsOK, UNCHANGED <<status, timeline, slips>>
  PROVE  RowsOK'
BY DEF RowsOK

LEMMA CarriedFacts ==
  ASSUME RequestsOK, NEW r \in Requests
  PROVE  /\ req[r] \in RequestType /\ Legal(req[r])
         /\ req[r].pc # "idle" => req[r].order \in Orders
BY DEF RequestsOK, Legal

\* The first move and a move that was checked are legal entries.
LEMMA EntryFacts ==
  /\ [old |-> "absent", new |-> "received"] \in Entry
  /\ LegalMove([old |-> "absent", new |-> "received"])
  /\ \A old \in RowState : \A new \in AllowedTransitions(old) :
        [old |-> old, new |-> new] \in Entry /\ LegalMove([old |-> old, new |-> new])
<1>1. [old |-> "absent", new |-> "received"] \in Entry
  BY DEF Entry, OrderStatus
<1>2. \A old \in RowState : \A new \in AllowedTransitions(old) :
        old \in OrderStatus /\ new \in OrderStatus
  BY MovesFacts
<1> QED BY <1>1, <1>2 DEF Entry, LegalMove

-----------------------------------------------------------------------------
(* Steps: what each leaves, for LegalInv and for the history               *)

\* A handler that has read an order and carries on.
LEMMA ReadStep ==
  ASSUME LegalInv, NEW r \in Requests, NEW o \in Orders, NEW pc \in PC,
         NEW seen \in RowState, NEW target \in RowState \cup SlipKind,
         NEW entries \in 0..MaxEntries,
         pc = "patching" => target \in AllowedTransitions(seen),
         pc \in {"inserting", "overwriting"} => target \in OrderStatus,
         pc = "printing" => target \in SlipKind,
         Start(r, o, pc, seen, target, entries),
         UNCHANGED <<status, timeline, slips>>
  PROVE  LegalInv'
BY StartStep, RowsKept DEF LegalInv

LEMMA ReadsLegal ==
  ASSUME LegalInv, NEW r \in Requests, NEW o \in Orders,
         \/ \E new \in OrderStatus : LoadForPatch(r, o, new)
         \/ LoadForPortalCancel(r, o)
         \/ \E kind \in SlipKind : LoadForDocument(r, o, kind)
         \/ LoadForDelete(r, o)
         \/ \E s \in PushStatuses : PushCreate(r, o, s) \/ PushStatus(r, o, s)
         \/ PushDelete(r, o)
  PROVE  LegalInv'
<1> USE StatusFacts
<1>0. /\ status[o] \in RowState /\ Len(timeline[o]) \in 0..MaxEntries /\ 0 \in 0..MaxEntries
      /\ {"patching", "cancelling", "printing", "deleting",
          "inserting", "overwriting", "emptying"} \subseteq PC
  BY RowFacts DEF LegalInv, PC
<1>1. ASSUME NEW new \in OrderStatus, LoadForPatch(r, o, new) PROVE LegalInv'
  BY <1>0, <1>1, ReadStep DEF LoadForPatch
<1>2. ASSUME LoadForPortalCancel(r, o) PROVE LegalInv'
  BY <1>0, <1>2, ReadStep DEF LoadForPortalCancel
<1>3. ASSUME NEW kind \in SlipKind, LoadForDocument(r, o, kind) PROVE LegalInv'
  BY <1>0, <1>3, ReadStep DEF LoadForDocument
<1>4. ASSUME LoadForDelete(r, o) PROVE LegalInv'
  BY <1>0, <1>4, ReadStep DEF LoadForDelete
<1>5. ASSUME NEW s \in PushStatuses, PushCreate(r, o, s) PROVE LegalInv'
  BY <1>0, <1>5, ReadStep DEF PushCreate
<1>6. ASSUME NEW s \in PushStatuses, PushStatus(r, o, s) PROVE LegalInv'
  BY <1>0, <1>6, ReadStep DEF PushStatus
<1>7. ASSUME PushDelete(r, o) PROVE LegalInv'
  BY <1>0, <1>7, ReadStep DEF PushDelete
<1> QED BY <1>1, <1>2, <1>3, <1>4, <1>5, <1>6, <1>7

\* A request that ends without a change.
LEMMA FailStep ==
  ASSUME LegalInv, NEW r \in Requests, Fail(r)
  PROVE  LegalInv' /\ UNCHANGED <<status, timeline, slips>>
BY FinishStep, RowsKept DEF LegalInv, Fail

LEMMA CommitCreateStep ==
  ASSUME LegalInv, NEW r \in Requests, NEW o \in Orders, NEW workshop \in BOOLEAN,
         CommitCreate(r, o, workshop)
  PROVE  /\ LegalInv'
         /\ status[o] = "absent" /\ status'[o] = "received"
         /\ timeline'[o] = <<[old |-> "absent", new |-> "received"]>>
         /\ slips' = slips
         /\ \A x \in Orders : x # o => status'[x] = status[x] /\ timeline'[x] = timeline[x]
         /\ \A x \in Requests : x # r => req'[x] = req[x]
         /\ req' # req => req'[r].pc = "slips" /\ req'[r].order = o
<1> DEFINE e == [old |-> "absent", new |-> "received"]
           t == <<e>>
<1>1. e \in Entry /\ LegalMove(e)
  BY EntryFacts
<1> HIDE DEF e
<1>2. t \in Seq(Entry) /\ Len(t) <= MaxEntries /\ \A n \in DOMAIN t : LegalMove(t[n])
  BY <1>1 DEF CommitCreate
<1>a. PICK d \in SUBSET SlipKind : d = slips[o] /\ slips = [slips EXCEPT ![o] = d]
  BY RowFacts DEF LegalInv
<1>3. /\ status' = [status EXCEPT ![o] = "received"]
      /\ timeline' = [timeline EXCEPT ![o] = t]
      /\ slips' = [slips EXCEPT ![o] = d] /\ slips' = slips
  BY <1>a DEF CommitCreate, e
<1> HIDE DEF t
<1>b. "received" \in RowState /\ RowsOK
  BY StatusFacts DEF LegalInv
<1>4. /\ RowsOK'
      /\ status'[o] = "received" /\ timeline'[o] = t
      /\ \A x \in Orders : x # o => status'[x] = status[x] /\ timeline'[x] = timeline[x]
  <2>1. RowsOK'
    BY <1>2, <1>3, <1>b, RowsStep
  <2> QED BY <2>1, <1>3, <1>b DEF RowsOK
<1>5. CASE workshop
  <2>1. req[r].pc = "idle" /\ req' = [req EXCEPT ![r].pc = "slips", ![r].order = o]
    BY <1>5 DEF CommitCreate
  <2> QED BY <2>1, <1>3, <1>4, SlipsStep DEF LegalInv, CommitCreate, t, e
<1>6. CASE ~workshop
  <2>1. req' = req
    BY <1>6 DEF CommitCreate
  <2>2. RequestsOK'
    BY <2>1 DEF LegalInv, RequestsOK, Legal
  <2> QED BY <2>1, <2>2, <1>3, <1>4 DEF LegalInv, CommitCreate, t, e
<1> QED BY <1>5, <1>6

LEMMA CommitPatchStep ==
  ASSUME LegalInv, NEW r \in Requests, CommitPatch(r)
  PROVE  \E o \in Orders, seen \in OrderStatus, target \in OrderStatus :
           /\ o = req[r].order /\ seen = req[r].seen /\ target = req[r].target
           /\ req[r].pc = "patching" /\ target \in AllowedTransitions(seen)
           /\ Exists(o)
           /\ LegalInv'
           /\ status'[o] = target
           /\ timeline'[o] = Append(timeline[o], [old |-> seen, new |-> target])
           /\ slips'[o] = slips[o] \/ (target = "delivered" /\ slips'[o] = slips[o] \cup {"delivery"})
           /\ \A x \in Orders : x # o => /\ status'[x] = status[x] /\ timeline'[x] = timeline[x]
                                         /\ slips'[x] = slips[x]
           /\ \A x \in Requests : req'[x] = IF x = r THEN IdleRequest ELSE req[x]
<1>1. /\ req[r] \in RequestType /\ Legal(req[r]) /\ req[r].pc = "patching"
  BY CarriedFacts DEF LegalInv, CommitPatch
<1>a. PICK o \in Orders, seen \in RowState :
         o = req[r].order /\ seen = req[r].seen /\ req[r].target \in AllowedTransitions(seen)
  BY <1>1 DEF Legal, RequestType
<1>2. PICK target \in AllowedTransitions(seen) :
         o = req[r].order /\ seen = req[r].seen /\ target = req[r].target
  BY <1>a
<1>3. seen \in OrderStatus /\ target \in OrderStatus /\ target \in RowState
  BY MovesFacts, StatusFacts
<1> DEFINE e == [old |-> seen, new |-> target]
           t == Append(timeline[o], e)
<1>4. e \in Entry /\ LegalMove(e)
  BY EntryFacts
<1> HIDE DEF e
<1>5. /\ timeline[o] \in Seq(Entry) /\ slips[o] \in SUBSET SlipKind
      /\ \A n \in DOMAIN timeline[o] : LegalMove(timeline[o][n])
      /\ slips = [slips EXCEPT ![o] = slips[o]]
  BY RowFacts DEF LegalInv
<1>6. t \in Seq(Entry) /\ Len(t) = Len(timeline[o]) + 1
  BY <1>4, <1>5, AppendFacts
<1>7. \A n \in DOMAIN t : LegalMove(t[n])
  BY <1>4, <1>5, AppendFacts
<1>8. Len(t) <= MaxEntries
  BY <1>2, <1>5, <1>6 DEF CommitPatch
<1>9. /\ status' = [status EXCEPT ![o] = target]
      /\ timeline' = [timeline EXCEPT ![o] = t] /\ Exists(o)
  BY <1>2 DEF CommitPatch, e
<1>10. PICK d \in SUBSET SlipKind :
         /\ slips' = [slips EXCEPT ![o] = d]
         /\ d = slips[o] \/ (target = "delivered" /\ d = slips[o] \cup {"delivery"})
  <2>1. CASE slips' = slips
    BY <2>1, <1>5
  <2>2. CASE target = "delivered" /\ slips' = [slips EXCEPT ![o] = @ \cup {"delivery"}]
    <3>1. slips' = [slips EXCEPT ![o] = slips[o] \cup {"delivery"}]
      BY <2>2
    <3>2. slips[o] \cup {"delivery"} \in SUBSET SlipKind
      BY <1>5, StatusFacts
    <3> QED BY <2>2, <3>1, <3>2
  <2> QED BY <2>1, <2>2, <1>2 DEF CommitPatch
<1> HIDE DEF t
<1>b. target \in RowState /\ RowsOK /\ slips' = [slips EXCEPT ![o] = d]
  BY <1>3, <1>10 DEF LegalInv
<1>11. /\ RowsOK' /\ status'[o] = target /\ timeline'[o] = t /\ slips'[o] = d
       /\ \A x \in Orders : x # o => /\ status'[x] = status[x] /\ timeline'[x] = timeline[x]
                                     /\ slips'[x] = slips[x]
  <2>1. RowsOK'
    BY <1>b, <1>6, <1>7, <1>8, <1>9, RowsStep
  <2> QED BY <2>1, <1>9, <1>b DEF RowsOK
<1>12. RequestsOK' /\ \A x \in Requests : req'[x] = IF x = r THEN IdleRequest ELSE req[x]
  BY FinishStep DEF LegalInv, CommitPatch
<1>14. /\ req[r].pc = "patching" /\ Exists(o) /\ LegalInv'
       /\ timeline'[o] = Append(timeline[o], [old |-> seen, new |-> target])
       /\ slips'[o] = slips[o] \/ (target = "delivered" /\ slips'[o] = slips[o] \cup {"delivery"})
  BY <1>1, <1>9, <1>10, <1>11, <1>12 DEF LegalInv, t, e
<1> QED BY <1>2, <1>3, <1>11, <1>12, <1>14

LEMMA CommitSlipStep ==
  ASSUME LegalInv, NEW r \in Requests, CommitIntakeSlips(r) \/ CommitDocument(r)
  PROVE  /\ LegalInv' /\ UNCHANGED <<status, timeline>>
         /\ \A x \in Requests : req'[x] = IF x = r THEN IdleRequest ELSE req[x]
         /\ \A x \in Orders : "delivery" \in slips'[x] =>
              \/ "delivery" \in slips[x]
              \/ /\ req[r].pc = "printing" /\ req[r].target = "delivery"
                 /\ x = req[r].order /\ Exists(x)
<1>1. /\ req[r] \in RequestType /\ Legal(req[r]) /\ req[r].pc # "idle"
  BY CarriedFacts DEF LegalInv, CommitIntakeSlips, CommitDocument
<1>2. PICK o \in Orders : o = req[r].order
  BY <1>1 DEF Legal
<1>3. PICK k \in SlipKind : /\ slips' = [slips EXCEPT ![o] = @ \cup {k}]
                            /\ k = "delivery" => req[r].pc = "printing" /\ req[r].target = "delivery"
                            /\ Exists(o) /\ UNCHANGED <<status, timeline>> /\ Finish(r)
  <2>1. CASE CommitIntakeSlips(r)
    BY <2>1, <1>2, StatusFacts DEF CommitIntakeSlips
  <2>2. CASE CommitDocument(r)
    BY <2>2, <1>1, <1>2 DEF CommitDocument, Legal
  <2> QED BY <2>1, <2>2
<1>4. PICK s \in RowState, t \in Seq(Entry) :
        /\ slips[o] \in SUBSET SlipKind
        /\ Len(t) <= MaxEntries /\ \A n \in DOMAIN t : LegalMove(t[n])
        /\ status = [status EXCEPT ![o] = s]
        /\ timeline = [timeline EXCEPT ![o] = t]
  BY RowFacts DEF LegalInv
<1>5. PICK d \in SUBSET SlipKind : d = slips[o] \cup {k}
  BY <1>4
<1>6. slips' = [slips EXCEPT ![o] = d]
  BY <1>3, <1>5
<1>7. /\ RowsOK' /\ slips'[o] = d
      /\ \A x \in Orders : x # o => slips'[x] = slips[x]
  <2>1. /\ status' = [status EXCEPT ![o] = s] /\ timeline' = [timeline EXCEPT ![o] = t]
        /\ RowsOK
    BY <1>3, <1>4 DEF LegalInv
  <2>2. RowsOK'
    BY <2>1, <1>4, <1>6, RowsStep
  <2> QED BY <2>1, <2>2, <1>6 DEF RowsOK
<1>8. RequestsOK' /\ \A x \in Requests : req'[x] = IF x = r THEN IdleRequest ELSE req[x]
  BY <1>3, FinishStep DEF LegalInv
<1> QED BY <1>2, <1>3, <1>5, <1>7, <1>8 DEF LegalInv

LEMMA CommitDeleteStep ==
  ASSUME LegalInv, NEW r \in Requests, CommitDelete(r)
  PROVE  \E o \in Orders :
           /\ LegalInv' /\ Exists(o)
           /\ status' = [status EXCEPT ![o] = "deleted"]
           /\ timeline' = [timeline EXCEPT ![o] = <<>>]
           /\ status'[o] = "deleted" /\ timeline'[o] = <<>> /\ slips' = slips /\ slips[o] = {}
           /\ \A x \in Orders : x # o => status'[x] = status[x] /\ timeline'[x] = timeline[x]
           /\ \A x \in Requests : req'[x] = IF x = r THEN IdleRequest ELSE req[x]
<1>1. /\ req[r] \in RequestType /\ Legal(req[r]) /\ req[r].pc # "idle"
  BY CarriedFacts DEF LegalInv, CommitDelete
<1>2. PICK o \in Orders : o = req[r].order
  BY <1>1 DEF Legal
<1>a. PICK d \in SUBSET SlipKind : d = slips[o] /\ slips = [slips EXCEPT ![o] = d]
  BY RowFacts DEF LegalInv
<1>4. PICK t \in Seq(Entry) : t = <<>> /\ Len(t) <= MaxEntries /\ DOMAIN t = {}
  <2>1. <<>> \in Seq(Entry) /\ Len(<<>>) <= MaxEntries /\ DOMAIN <<>> = {}
    OBVIOUS
  <2> QED BY <2>1, Zenon
<1>3. /\ status' = [status EXCEPT ![o] = "deleted"]
      /\ timeline' = [timeline EXCEPT ![o] = t]
      /\ slips' = [slips EXCEPT ![o] = d] /\ slips' = slips /\ slips[o] = {} /\ Exists(o)
  BY <1>2, <1>4, <1>a DEF CommitDelete
<1>b. "deleted" \in RowState /\ RowsOK
  BY StatusFacts DEF LegalInv
<1>5. /\ RowsOK' /\ status'[o] = "deleted" /\ timeline'[o] = t
      /\ \A x \in Orders : x # o => status'[x] = status[x] /\ timeline'[x] = timeline[x]
  <2>1. RowsOK'
    BY <1>3, <1>4, <1>b, RowsStep
  <2> QED BY <2>1, <1>3, <1>b DEF RowsOK
<1>6. RequestsOK' /\ \A x \in Requests : req'[x] = IF x = r THEN IdleRequest ELSE req[x]
  BY FinishStep DEF LegalInv, CommitDelete
<1> QED BY <1>3, <1>4, <1>5, <1>6 DEF LegalInv

\* The commits of pushed mutations.
LEMMA PushesLegal ==
  ASSUME LegalInv, NEW r \in Requests,
         CommitPushCreate(r) \/ CommitPushStatus(r) \/ CommitPushDelete(r)
  PROVE  LegalInv'
<1>1. /\ req[r] \in RequestType /\ Legal(req[r]) /\ req[r].pc # "idle"
  BY CarriedFacts DEF LegalInv, CommitPushCreate, CommitPushStatus, CommitPushDelete
<1>2. PICK o \in Orders : o = req[r].order
  BY <1>1 DEF Legal
<1>3. RequestsOK'
  BY FinishStep DEF LegalInv, CommitPushCreate, CommitPushStatus, CommitPushDelete
<1>4. /\ status[o] \in RowState /\ timeline[o] \in Seq(Entry) /\ slips[o] \in SUBSET SlipKind
      /\ Len(timeline[o]) <= MaxEntries
      /\ \A n \in DOMAIN timeline[o] : LegalMove(timeline[o][n])
      /\ status = [status EXCEPT ![o] = status[o]]
      /\ timeline = [timeline EXCEPT ![o] = timeline[o]]
      /\ slips = [slips EXCEPT ![o] = slips[o]]
  BY RowFacts DEF LegalInv
<1>5. CASE CommitPushCreate(r) \/ CommitPushStatus(r)
  <2>1. PICK s \in RowState : status' = [status EXCEPT ![o] = s]
    <3>1. req[r].target \in RowState
      BY <1>1, <1>5, StatusFacts DEF CommitPushCreate, CommitPushStatus, Legal
    <3>2. CASE CommitPushCreate(r)
      BY <3>1, <3>2, <1>2 DEF CommitPushCreate
    <3>3. CASE CommitPushStatus(r)
      BY <3>1, <3>3, <1>2, <1>4 DEF CommitPushStatus
    <3> QED BY <1>5, <3>2, <3>3
  <2>2. timeline' = timeline /\ slips' = slips
    BY <1>5 DEF CommitPushCreate, CommitPushStatus
  <2>3. RowsOK'
    BY <1>4, <2>1, <2>2, RowsStep DEF LegalInv
  <2> QED BY <1>3, <2>3 DEF LegalInv
<1>6. CASE CommitPushDelete(r)
  <2>1. PICK n \in Nat : n = req[r].entries
    BY <1>1 DEF RequestType
  <2> DEFINE t == SubSeq(timeline[o], n + 1, Len(timeline[o]))
  <2>2. timeline' = [timeline EXCEPT ![o] = t] /\ status' = status /\ slips' = slips
    BY <1>2, <1>6, <2>1 DEF CommitPushDelete
  <2>3. t \in Seq(Entry) /\ Len(t) <= Len(timeline[o])
    BY <1>4, ShortenFacts
  <2>4. \A k \in DOMAIN t : LegalMove(t[k])
    BY <1>4, ShortenFacts
  <2>5. Len(t) <= MaxEntries
    BY <1>4, <2>3
  <2> HIDE DEF t
  <2>6. RowsOK'
    BY <1>4, <2>2, <2>3, <2>4, <2>5, RowsStep DEF LegalInv
  <2> QED BY <1>3, <2>6 DEF LegalInv
<1> QED BY <1>5, <1>6

-----------------------------------------------------------------------------
(* The timeline is legal, with or without synchronisation *)

LEMMA LegalInit == Init => LegalInv
<1> SUFFICES ASSUME Init PROVE LegalInv
  OBVIOUS
<1>1. <<>> \in Seq(Entry) /\ Len(<<>>) = 0 /\ DOMAIN <<>> = {}
  OBVIOUS
<1>2. RowsOK
  BY <1>1, StatusFacts DEF Init, RowsOK
<1>3. RequestsOK
  BY IdleFacts DEF Init, RequestsOK
<1> QED BY <1>2, <1>3 DEF LegalInv

LEMMA RestLegal ==
  ASSUME LegalInv, NEW r \in Requests, Rest(r)
  PROVE  LegalInv'
<1>1. ASSUME NEW o \in Orders, NEW workshop \in BOOLEAN, CommitCreate(r, o, workshop)
      PROVE  LegalInv'
  BY <1>1, CommitCreateStep
<1>2. ASSUME NEW o \in Orders,
             \/ \E new \in OrderStatus : LoadForPatch(r, o, new)
             \/ LoadForPortalCancel(r, o)
             \/ \E kind \in SlipKind : LoadForDocument(r, o, kind)
             \/ LoadForDelete(r, o)
      PROVE  LegalInv'
  BY <1>2, ReadsLegal
<1>3. CASE CommitIntakeSlips(r) \/ CommitDocument(r)
  BY <1>3, CommitSlipStep
<1>4. CASE CommitPatch(r)
  BY <1>4, CommitPatchStep
<1>5. CASE CommitDelete(r)
  BY <1>5, CommitDeleteStep
<1>6. CASE PortalCancelFails(r) \/ Rollback(r)
  BY <1>6, FailStep DEF PortalCancelFails, Rollback
<1> QED BY <1>1, <1>2, <1>3, <1>4, <1>5, <1>6 DEF Rest

LEMMA LegalNext ==
  ASSUME LegalInv, [Next]_vars
  PROVE  LegalInv'
<1>1. ASSUME NEW r \in Requests, Rest(r) PROVE LegalInv'
  BY <1>1, RestLegal
<1>2. ASSUME NEW r \in Requests, Sync(r) PROVE LegalInv'
  <2>1. ASSUME NEW o \in Orders,
               \/ \E s \in PushStatuses : PushCreate(r, o, s) \/ PushStatus(r, o, s)
               \/ PushDelete(r, o)
        PROVE  LegalInv'
    BY <2>1, ReadsLegal
  <2>2. CASE CommitPushCreate(r) \/ CommitPushStatus(r) \/ CommitPushDelete(r)
    BY <2>2, PushesLegal
  <2> QED BY <1>2, <2>1, <2>2 DEF Sync
<1>3. CASE UNCHANGED vars
  BY <1>3 DEF vars, LegalInv, RowsOK, RequestsOK, Legal
<1> QED BY <1>1, <1>2, <1>3 DEF Next

LEMMA LegalAlways == Spec => []LegalInv
<1> QED BY LegalInit, LegalNext, PTL DEF Spec

LEMMA LegalGives == LegalInv => TypeOK /\ EntriesLegal
<1> SUFFICES ASSUME LegalInv PROVE TypeOK /\ EntriesLegal
  OBVIOUS
<1>1. TypeOK
  BY DEF LegalInv, RowsOK, RequestsOK, RequestType, Entry, Legal, TypeOK
<1>2. EntriesLegal
  BY DEF LegalInv, RowsOK, RequestsOK, Legal, LegalMove, EntriesLegal
<1> QED BY <1>1, <1>2

\* Type correctness, pushed mutations included.
THEOREM LifecycleTypeCorrect == Spec => []TypeOK
<1> QED BY LegalAlways, LegalGives, PTL

\* Every entry that change_order_status or create_service_order writes to a
\* timeline is the first one or a move of ALLOWED_TRANSITIONS, for any number
\* of requests and whatever desktops push in between.
THEOREM EntriesAlwaysLegal == Spec => []EntriesLegal
<1> QED BY LegalAlways, LegalGives, PTL

-----------------------------------------------------------------------------
(* The API alone *)

\* The status of an order is one that its timeline holds.
LEMMA StatusHeld ==
  ASSUME RowsOK, NEW o \in Orders, Told(o), Exists(o)
  PROVE  status[o] \in Held(o)
<1>1. timeline[o] \in Seq(Entry) /\ timeline[o] # <<>>
  BY DEF RowsOK, Told
<1>2. Len(timeline[o]) \in DOMAIN timeline[o]
  BY <1>1
<1> QED BY <1>2 DEF Told, Held

\* Only a completed order is delivered.
LEMMA DeliveredCompleted ==
  ASSUME RowsOK, NEW o \in Orders, Told(o), "delivered" \in Held(o)
  PROVE  "completed" \in Held(o)
<1>1. timeline[o] \in Seq(Entry)
  BY DEF RowsOK
<1>2. PICK n \in DOMAIN timeline[o] : timeline[o][n].new = "delivered"
  BY DEF Held
<1>3. timeline[o][n] \in Entry /\ LegalMove(timeline[o][n])
  BY <1>1 DEF RowsOK
<1>4. timeline[o][n].old = "completed"
  BY <1>2, <1>3 DEF LegalMove, Entry, AllowedTransitions, OrderStatus
<1>5. n # 1
  BY <1>1, <1>2, <1>4 DEF Told
<1>6. PICK k \in 1..(n - 1) : timeline[o][k].new = "completed"
  BY <1>1, <1>4, <1>5 DEF Told
<1>7. k \in DOMAIN timeline[o]
  BY <1>1
<1> QED BY <1>6, <1>7 DEF Held

\* A step that leaves statuses and timelines as they are.
LEMMA RowsStill ==
  ASSUME UNCHANGED <<status, timeline>>
  PROVE  Advances
BY DEF Advances, Exists, Held

LEMMA ToldStill ==
  ASSUME NEW o \in Orders, Told(o),
         status'[o] = status[o], timeline'[o] = timeline[o],
         "delivery" \in slips'[o] => "delivery" \in slips[o] \/ (Exists(o) /\ "completed" \in Held(o))
  PROVE  Told(o)'
BY DEF Told, Exists, Held

\* What another request carries stays grounded.
LEMMA OthersGrounded ==
  ASSUME RequestsOK, Advances, NEW x \in Requests, Grounded(req[x]), req'[x] = req[x]
  PROVE  Grounded(req[x])'
<1>1. CASE req[x].pc = "idle"
  BY <1>1 DEF Grounded
<1>2. CASE req[x].pc # "idle"
  <2>1. req[x].order \in Orders /\ status[req[x].order] # "absent"
    BY <1>2, CarriedFacts DEF Grounded
  <2>2. PICK o \in Orders : o = req[x].order
    BY <2>1
  <2>3. /\ status'[o] # "absent"
        /\ Exists(o)' => Exists(o) /\ Held(o) \subseteq Held(o)'
    BY <2>1, <2>2 DEF Advances
  <2>4. /\ req[x].pc = "patching" /\ Exists(o) => req[x].seen \in Held(o)
        /\ req[x].pc = "printing" /\ req[x].target = "delivery" /\ Exists(o) =>
              "completed" \in Held(o)
    BY <2>2 DEF Grounded
  <2>5. req'[x].order = o
    BY <2>2
  <2>6. Held(req[x].order)' = Held(o)' /\ Exists(req[x].order)' = Exists(o)'
    BY <2>5, Zenon DEF Held, Exists
  <2> QED BY <2>3, <2>4, <2>5, <2>6 DEF Grounded
<1> QED BY <1>1, <1>2

\* A request that has ended carries nothing.
LEMMA EndedGrounded ==
  ASSUME LegalInv, LegalInv', Advances, \A x \in Requests : Grounded(req[x]),
         NEW r \in Requests,
         \A x \in Requests : req'[x] = IF x = r THEN IdleRequest ELSE req[x]
  PROVE  \A x \in Requests : Grounded(req[x])'
<1> SUFFICES ASSUME NEW x \in Requests PROVE Grounded(req[x])'
  OBVIOUS
<1>1. CASE x = r
  BY <1>1, IdleFacts DEF Grounded
<1>2. CASE x # r
  BY <1>2, OthersGrounded DEF LegalInv
<1> QED BY <1>1, <1>2

LEMMA ReadsApi ==
  ASSUME ApiInv, NEW r \in Requests, NEW o \in Orders,
         \/ \E new \in OrderStatus : LoadForPatch(r, o, new)
         \/ LoadForPortalCancel(r, o)
         \/ \E kind \in SlipKind : LoadForDocument(r, o, kind)
         \/ LoadForDelete(r, o)
  PROVE  ApiInv'
<1>1. LegalInv'
  BY ReadsLegal DEF ApiInv
<1>2. UNCHANGED <<status, timeline, slips>>
  BY DEF LoadForPatch, LoadForPortalCancel, LoadForDocument, LoadForDelete
<1>3. Advances /\ \A x \in Orders : Told(x)'
  BY <1>2, RowsStill, ToldStill DEF ApiInv
<1>4. PICK pc \in PC, seen \in RowState, target \in RowState \cup SlipKind, entries \in 0..MaxEntries :
         /\ Start(r, o, pc, seen, target, entries) /\ Exists(o)
         /\ pc = "patching" => seen = status[o]
         /\ pc = "printing" /\ target = "delivery" => status[o] \in {"completed", "delivered"}
  <2>0. /\ status[o] \in RowState /\ Len(timeline[o]) \in 0..MaxEntries /\ 0 \in 0..MaxEntries
        /\ {"patching", "cancelling", "printing", "deleting"} \subseteq PC
    BY RowFacts DEF ApiInv, LegalInv, PC
  <2>1. ASSUME NEW new \in OrderStatus, LoadForPatch(r, o, new)
        PROVE  Start(r, o, "patching", status[o], new, 0) /\ Exists(o)
    BY <2>1 DEF LoadForPatch
  <2>2. ASSUME LoadForPortalCancel(r, o)
        PROVE  Start(r, o, "cancelling", "absent", "cancelled", 0) /\ Exists(o)
    BY <2>2 DEF LoadForPortalCancel
  <2>3. ASSUME NEW kind \in SlipKind, LoadForDocument(r, o, kind)
        PROVE  /\ Start(r, o, "printing", "absent", kind, 0) /\ Exists(o)
               /\ kind = "delivery" => status[o] \in {"completed", "delivered"}
    BY <2>3 DEF LoadForDocument
  <2>4. ASSUME LoadForDelete(r, o)
        PROVE  Start(r, o, "deleting", "absent", "deleted", Len(timeline[o])) /\ Exists(o)
    BY <2>4 DEF LoadForDelete
  <2> QED BY <2>0, <2>1, <2>2, <2>3, <2>4, StatusFacts
<1>5. req' = [req EXCEPT ![r] = [pc |-> pc, order |-> o, seen |-> seen,
                                 target |-> target, entries |-> entries]]
  BY <1>4 DEF Start
<1>6. /\ req'[r].pc = pc /\ req'[r].order = o /\ req'[r].seen = seen /\ req'[r].target = target
      /\ \A x \in Requests : x # r => req'[x] = req[x]
  BY <1>5 DEF ApiInv, LegalInv, RequestsOK
<1>7. status[o] \in Held(o) /\ status[o] # "absent"
  BY <1>4, StatusHeld, StatusFacts DEF ApiInv, LegalInv, Exists
<1>8. pc = "printing" /\ target = "delivery" => "completed" \in Held(o)
  BY <1>4, <1>7, DeliveredCompleted DEF ApiInv, LegalInv
<1>9. Grounded(req[r])'
  BY <1>2, <1>4, <1>6, <1>7, <1>8 DEF Grounded, Exists, Held
<1>10. \A x \in Requests : x # r => Grounded(req[x])'
  BY <1>3, <1>6, OthersGrounded DEF ApiInv, LegalInv
<1> QED BY <1>1, <1>3, <1>9, <1>10 DEF ApiInv

LEMMA CreateApi ==
  ASSUME ApiInv, NEW r \in Requests, NEW o \in Orders, NEW workshop \in BOOLEAN,
         CommitCreate(r, o, workshop)
  PROVE  ApiInv'
<1>1. /\ LegalInv' /\ status[o] = "absent" /\ status'[o] = "received" /\ slips' = slips
      /\ timeline'[o] = <<[old |-> "absent", new |-> "received"]>>
      /\ \A x \in Orders : x # o => status'[x] = status[x] /\ timeline'[x] = timeline[x]
      /\ \A x \in Requests : x # r => req'[x] = req[x]
      /\ req' # req => req'[r].pc = "slips" /\ req'[r].order = o
  BY CommitCreateStep DEF ApiInv
<1>2. Advances
  BY <1>1, StatusFacts DEF Advances, Exists, Held
<1>3. Told(o)'
  <2>1. "delivery" \notin slips[o]
    BY <1>1, StatusFacts DEF ApiInv, Told, Exists
  <2>2. "received" \in OrderStatus
    BY StatusFacts
  <2>3. /\ timeline'[o] # <<>> /\ Len(timeline'[o]) = 1 /\ DOMAIN timeline'[o] = {1}
        /\ timeline'[o][1] = [old |-> "absent", new |-> "received"]
    BY <1>1
  <2>4. \A n \in DOMAIN timeline'[o] :
           n > 1 => \E k \in 1..(n - 1) : timeline'[o][k].new = timeline'[o][n].old
    BY <2>3
  <2>5. /\ timeline'[o][1].old = "absent"
        /\ status'[o] = timeline'[o][Len(timeline'[o])].new
    BY <1>1, <2>3
  <2>6. Exists(o)' /\ "delivery" \notin slips'[o]
    BY <1>1, <2>1, <2>2 DEF Exists
  <2> HIDE <1>1
  <2> QED BY <2>3, <2>4, <2>5, <2>6, Zenon DEF Told
<1>4. \A x \in Orders : Told(x)'
  BY <1>1, <1>3, ToldStill DEF ApiInv
<1>5. Grounded(req[r])'
  <2>1. CASE req' # req
    BY <1>1, <2>1 DEF Grounded
  <2>2. CASE req' = req
    BY <1>2, <2>2, OthersGrounded DEF ApiInv, LegalInv
  <2> QED BY <2>1, <2>2
<1>6. \A x \in Requests : x # r => Grounded(req[x])'
  BY <1>1, <1>2, OthersGrounded DEF ApiInv, LegalInv
<1> QED BY <1>1, <1>4, <1>5, <1>6 DEF ApiInv

LEMMA PatchApi ==
  ASSUME ApiInv, NEW r \in Requests, CommitPatch(r)
  PROVE  ApiInv'
<1>1. PICK o \in Orders, seen \in OrderStatus, target \in OrderStatus :
         /\ seen = req[r].seen /\ o = req[r].order /\ req[r].pc = "patching"
         /\ target \in AllowedTransitions(seen) /\ Exists(o) /\ LegalInv'
         /\ status'[o] = target
         /\ timeline'[o] = Append(timeline[o], [old |-> seen, new |-> target])
         /\ slips'[o] = slips[o] \/ (target = "delivered" /\ slips'[o] = slips[o] \cup {"delivery"})
         /\ \A x \in Orders : x # o => /\ status'[x] = status[x] /\ timeline'[x] = timeline[x]
                                       /\ slips'[x] = slips[x]
         /\ \A x \in Requests : req'[x] = IF x = r THEN IdleRequest ELSE req[x]
  BY CommitPatchStep DEF ApiInv
<1> DEFINE e == [old |-> seen, new |-> target]
           t == Append(timeline[o], e)
<1>2. seen \in Held(o)
  BY <1>1 DEF ApiInv, Grounded
<1>3. e \in Entry /\ timeline[o] \in Seq(Entry) /\ timeline[o] # <<>>
      /\ e.old = seen /\ e.new = target
  BY <1>1 DEF Entry, ApiInv, LegalInv, RowsOK, Told
<1>4. timeline'[o] = t
  BY <1>1
<1> HIDE DEF e
<1>5. /\ t \in Seq(Entry) /\ Len(t) = Len(timeline[o]) + 1 /\ t[Len(t)] = e
      /\ DOMAIN t = 1..(Len(timeline[o]) + 1) /\ DOMAIN timeline[o] = 1..Len(timeline[o])
      /\ \A n \in DOMAIN timeline[o] : n \in DOMAIN t /\ t[n] = timeline[o][n]
      /\ t # <<>> /\ Len(timeline[o]) \in Nat /\ 1 \in DOMAIN timeline[o]
  BY <1>3, AppendFacts
<1> HIDE DEF t
<1>6. Held(o) \subseteq Held(o)' /\ target \in Held(o)'
  BY <1>3, <1>4, <1>5 DEF Held
<1>7. Advances
  BY <1>1, <1>6, StatusFacts DEF Advances, Exists, Held
<1>8. \A n \in DOMAIN t : n > 1 => \E k \in 1..(n - 1) : t[k].new = t[n].old
  <2> SUFFICES ASSUME NEW n \in DOMAIN t, n > 1
               PROVE  \E k \in 1..(n - 1) : t[k].new = t[n].old
    OBVIOUS
  <2>1. CASE n \in DOMAIN timeline[o]
    <3>1. PICK k \in 1..(n - 1) : timeline[o][k].new = timeline[o][n].old
      BY <2>1 DEF ApiInv, Told
    <3>2. k \in DOMAIN timeline[o]
      BY <2>1, <1>5
    <3> QED BY <2>1, <3>1, <3>2, <1>5
  <2>2. CASE n = Len(timeline[o]) + 1
    <3>1. PICK k \in DOMAIN timeline[o] : timeline[o][k].new = seen
      BY <1>2 DEF Held
    <3> QED BY <2>2, <3>1, <1>3, <1>5
  <2> QED BY <2>1, <2>2, <1>5
<1>9. "delivery" \in slips'[o] => "completed" \in Held(o)'
  <2>1. CASE "delivery" \in slips[o]
    BY <2>1, <1>6 DEF ApiInv, Told
  <2>2. CASE target = "delivered"
    <3>1. seen = "completed"
      BY <2>2, <1>1 DEF AllowedTransitions, OrderStatus
    <3> QED BY <3>1, <1>2, <1>6
  <2> QED BY <2>1, <2>2, <1>1
<1>10. t[1].old = "absent"
  BY <1>3, <1>5 DEF ApiInv, Told
<1>11. Told(o)'
  BY <1>1, <1>3, <1>4, <1>5, <1>8, <1>9, <1>10 DEF Told, Exists
<1>12. \A x \in Orders : Told(x)'
  BY <1>1, <1>11, ToldStill DEF ApiInv
<1>13. \A x \in Requests : Grounded(req[x])'
  BY <1>1, <1>7, EndedGrounded DEF ApiInv
<1> QED BY <1>1, <1>12, <1>13 DEF ApiInv

LEMMA SlipApi ==
  ASSUME ApiInv, NEW r \in Requests, CommitIntakeSlips(r) \/ CommitDocument(r)
  PROVE  ApiInv'
<1>1. /\ LegalInv' /\ UNCHANGED <<status, timeline>>
      /\ \A x \in Requests : req'[x] = IF x = r THEN IdleRequest ELSE req[x]
      /\ \A x \in Orders : "delivery" \in slips'[x] =>
           \/ "delivery" \in slips[x]
           \/ /\ req[r].pc = "printing" /\ req[r].target = "delivery"
              /\ x = req[r].order /\ Exists(x)
  BY CommitSlipStep DEF ApiInv
<1>2. Advances
  BY <1>1, RowsStill
<1>3. \A x \in Orders : "delivery" \in slips'[x] =>
        "delivery" \in slips[x] \/ (Exists(x) /\ "completed" \in Held(x))
  BY <1>1 DEF ApiInv, Grounded
<1>4. \A x \in Orders : Told(x)'
  BY <1>1, <1>3, ToldStill DEF ApiInv
<1> QED BY <1>1, <1>2, <1>4, EndedGrounded DEF ApiInv

LEMMA DeleteApi ==
  ASSUME ApiInv, NEW r \in Requests, CommitDelete(r)
  PROVE  ApiInv'
<1>1. PICK o \in Orders :
         /\ LegalInv' /\ Exists(o)
         /\ status'[o] = "deleted" /\ timeline'[o] = <<>> /\ slips' = slips /\ slips[o] = {}
         /\ \A x \in Orders : x # o => status'[x] = status[x] /\ timeline'[x] = timeline[x]
         /\ \A x \in Requests : req'[x] = IF x = r THEN IdleRequest ELSE req[x]
  BY CommitDeleteStep DEF ApiInv
<1>2. Advances
  BY <1>1, StatusFacts DEF Advances, Exists, Held
<1>3. Told(o)'
  BY <1>1, StatusFacts DEF Told, Exists
<1>4. \A x \in Orders : Told(x)'
  BY <1>1, <1>3, ToldStill DEF ApiInv
<1> QED BY <1>1, <1>2, <1>4, EndedGrounded DEF ApiInv

LEMMA FailApi ==
  ASSUME ApiInv, NEW r \in Requests, Fail(r)
  PROVE  ApiInv'
<1>1. LegalInv' /\ UNCHANGED <<status, timeline, slips>>
  BY FailStep DEF ApiInv
<1>2. \A x \in Requests : req'[x] = IF x = r THEN IdleRequest ELSE req[x]
  BY FinishStep DEF ApiInv, LegalInv, Fail
<1>3. Advances /\ \A x \in Orders : Told(x)'
  BY <1>1, RowsStill, ToldStill DEF ApiInv
<1> QED BY <1>1, <1>2, <1>3, EndedGrounded DEF ApiInv

LEMMA ApiInit == Init => ApiInv
<1> SUFFICES ASSUME Init PROVE ApiInv
  OBVIOUS
<1>1. \A o \in Orders : status[o] = "absent" /\ timeline[o] = <<>> /\ slips[o] = {}
  BY DEF Init
<1>2. \A o \in Orders : Told(o)
  BY <1>1, StatusFacts DEF Told, Exists
<1>3. \A r \in Requests : Grounded(req[r])
  BY IdleFacts DEF Init, Grounded
<1> QED BY <1>2, <1>3, LegalInit DEF ApiInv

LEMMA ApiRest ==
  ASSUME ApiInv, NEW r \in Requests, Rest(r)
  PROVE  ApiInv'
<1>1. ASSUME NEW o \in Orders, NEW workshop \in BOOLEAN, CommitCreate(r, o, workshop)
      PROVE  ApiInv'
  BY <1>1, CreateApi
<1>2. ASSUME NEW o \in Orders,
             \/ \E new \in OrderStatus : LoadForPatch(r, o, new)
             \/ LoadForPortalCancel(r, o)
             \/ \E kind \in SlipKind : LoadForDocument(r, o, kind)
             \/ LoadForDelete(r, o)
      PROVE  ApiInv'
  BY <1>2, ReadsApi
<1>3. CASE CommitIntakeSlips(r) \/ CommitDocument(r)
  BY <1>3, SlipApi
<1>4. CASE CommitPatch(r)
  BY <1>4, PatchApi
<1>5. CASE CommitDelete(r)
  BY <1>5, DeleteApi
<1>6. CASE PortalCancelFails(r) \/ Rollback(r)
  BY <1>6, FailApi DEF PortalCancelFails, Rollback
<1> QED BY <1>1, <1>2, <1>3, <1>4, <1>5, <1>6 DEF Rest

LEMMA ApiNext ==
  ASSUME ~SyncEnabled, ApiInv, [Next]_vars
  PROVE  ApiInv'
<1>1. ASSUME NEW r \in Requests, Rest(r) PROVE ApiInv'
  BY <1>1, ApiRest
<1>2. CASE UNCHANGED vars
  <2>1. LegalInv'
    BY LegalNext DEF ApiInv
  <2> QED BY <2>1, <1>2 DEF vars, ApiInv, Told, Grounded, Exists, Held
<1> QED BY <1>1, <1>2 DEF Next

LEMMA ApiGives == ApiInv => HistoryInv
<1> SUFFICES ASSUME ApiInv PROVE HistoryInv
  OBVIOUS
<1>1. TypeOK /\ EntriesLegal
  BY LegalGives DEF ApiInv
<1>2. \A o \in Orders : Told(o)
  BY DEF ApiInv
<1>3. StatusMatchesTimeline
  BY <1>2 DEF Told, StatusMatchesTimeline
<1>4. MovesGrounded
  BY <1>2 DEF Told, MovesGrounded
<1>5. ReadsGrounded
  BY <1>2 DEF ApiInv, Told, Grounded, ReadsGrounded
<1>6. SlipsGrounded
  BY <1>2 DEF Told, SlipsGrounded
<1> QED BY <1>1, <1>3, <1>4, <1>5, <1>6 DEF HistoryInv

LEMMA ApiAlways ==
  ASSUME ~SyncEnabled
  PROVE  Spec => []ApiInv
<1>1. ApiInv /\ [Next]_vars => ApiInv'
  BY ApiNext
<1> QED BY <1>1, ApiInit, PTL DEF Spec

\* Without synchronisation, whatever requests overlap: the timeline of an order
\* is a legal history of moves from statuses it has held, it ends in the
\* order's status, and a delivery slip exists only for an order that was
\* recorded as completed.
THEOREM HistoryAlwaysSound ==
  ASSUME ~SyncEnabled
  PROVE  Spec => []HistoryInv
<1> QED BY ApiAlways, ApiGives, PTL

-----------------------------------------------------------------------------
(* What steps do to a settled order, and to the history *)

LEMMA StatusSteps ==
  ASSUME ApiInv, NEW r \in Requests, Rest(r)
  PROVE  \/ UNCHANGED <<status, timeline>>
         \/ \E o \in Orders :
              \/ /\ status[o] = "absent"
                 /\ status' = [status EXCEPT ![o] = "received"]
                 /\ timeline' = [timeline EXCEPT ![o] = <<[old |-> "absent", new |-> "received"]>>]
              \/ /\ status[o] \in OrderStatus
                 /\ status' = [status EXCEPT ![o] = "deleted"]
                 /\ timeline' = [timeline EXCEPT ![o] = <<>>]
              \/ \E old, new \in OrderStatus :
                   /\ req[r].pc = "patching" /\ req[r].order = o /\ req[r].seen = old
                   /\ old \in Held(o) /\ new \in AllowedTransitions(old)
                   /\ status' = [status EXCEPT ![o] = new]
                   /\ timeline' = [timeline EXCEPT ![o] = Append(@, [old |-> old, new |-> new])]
<1>1. ASSUME NEW o \in Orders, NEW workshop \in BOOLEAN, CommitCreate(r, o, workshop)
      PROVE  /\ status[o] = "absent"
             /\ status' = [status EXCEPT ![o] = "received"]
             /\ timeline' = [timeline EXCEPT ![o] = <<[old |-> "absent", new |-> "received"]>>]
  BY <1>1 DEF CommitCreate
<1>2. ASSUME NEW o \in Orders,
             \/ \E new \in OrderStatus : LoadForPatch(r, o, new)
             \/ LoadForPortalCancel(r, o)
             \/ \E kind \in SlipKind : LoadForDocument(r, o, kind)
             \/ LoadForDelete(r, o)
      PROVE  UNCHANGED <<status, timeline>>
  BY <1>2 DEF LoadForPatch, LoadForPortalCancel, LoadForDocument, LoadForDelete
<1>3. CASE \/ CommitIntakeSlips(r) \/ CommitDocument(r)
           \/ PortalCancelFails(r) \/ Rollback(r)
  BY <1>3 DEF CommitIntakeSlips, CommitDocument, PortalCancelFails, Rollback, Fail
<1>4. CASE CommitPatch(r)
  <2>0. LegalInv
    BY DEF ApiInv
  <2>1. PICK o \in Orders, old \in OrderStatus, new \in OrderStatus :
           /\ o = req[r].order /\ old = req[r].seen
           /\ new = req[r].target /\ new \in AllowedTransitions(old) /\ Exists(o)
    BY <2>0, <1>4, CommitPatchStep
  <2>3. /\ req[r].pc = "patching"
        /\ status' = [status EXCEPT ![o] = new]
        /\ timeline' = [timeline EXCEPT ![o] = Append(@, [old |-> old, new |-> new])]
    BY <1>4, <2>1 DEF CommitPatch
  <2>2. old \in Held(o)
    BY <2>1, <2>3 DEF ApiInv, Grounded
  <2> QED BY <2>1, <2>2, <2>3
<1>5. CASE CommitDelete(r)
  <2>1. PICK o \in Orders : /\ Exists(o)
                            /\ status' = [status EXCEPT ![o] = "deleted"]
                            /\ timeline' = [timeline EXCEPT ![o] = <<>>]
    BY <1>5, CommitDeleteStep DEF ApiInv
  <2> QED BY <2>1 DEF Exists
<1> QED BY <1>1, <1>2, <1>3, <1>4, <1>5 DEF Rest

\* A delivered or cancelled order stays so, but for its deletion, once every
\* PATCH that read an earlier status has ended.
THEOREM TerminalAlwaysSettles ==
  ASSUME ~SyncEnabled
  PROVE  Spec => TerminalSettles
<1>1. ApiInv /\ [Next]_vars =>
        [\A o \in Orders : Settled(o) => status'[o] \in {status[o], "deleted"}]_vars
  <2> SUFFICES ASSUME ApiInv, Next, NEW x \in Orders, Settled(x)
               PROVE  status'[x] \in {status[x], "deleted"}
    BY DEF vars
  <2>1. PICK r \in Requests : Rest(r)
    BY DEF Next
  <2>2. status \in [Orders -> RowState] /\ status[x] \in Terminal
    BY DEF ApiInv, LegalInv, RowsOK, Settled
  <2>3. CASE UNCHANGED <<status, timeline>>
    BY <2>3
  <2>4. ASSUME NEW o \in Orders, status[o] = "absent",
               status' = [status EXCEPT ![o] = "received"]
        PROVE  status'[x] = status[x]
    BY <2>2, <2>4, StatusFacts
  <2>5. ASSUME NEW o \in Orders, status' = [status EXCEPT ![o] = "deleted"]
        PROVE  status'[x] \in {status[x], "deleted"}
    BY <2>2, <2>5
  <2>6. ASSUME NEW o \in Orders, NEW old \in OrderStatus, NEW new \in AllowedTransitions(old),
               req[r].pc = "patching", req[r].order = o, req[r].seen = old,
               status' = [status EXCEPT ![o] = new]
        PROVE  status'[x] = status[x]
    <3>1. o # x
      BY <2>6, MovesFacts, StatusFacts DEF Settled
    <3> QED BY <2>2, <2>6, <3>1
  <2> QED BY <2>1, <2>3, <2>4, <2>5, <2>6, StatusSteps
<1> QED BY <1>1, ApiAlways, PTL DEF Spec, TerminalSettles

\* The orders of the API implement OrderHistory: their history opens, moves by
\* legal steps from a status held before, and is removed with its order.
THEOREM HistoryRefinement ==
  ASSUME ~SyncEnabled
  PROVE  Spec => HistorySpec
<1>1. Init => History!Init
  BY DEF Init, History!Init
<1>2. ApiInv /\ [Next]_vars => [History!Next]_(History!vars)
  <2> SUFFICES ASSUME ApiInv, [Next]_vars
               PROVE  History!Next \/ UNCHANGED <<status, timeline>>
    BY DEF History!vars
  <2>1. CASE UNCHANGED vars
    BY <2>1 DEF vars
  <2>2. ASSUME NEW r \in Requests, Rest(r)
        PROVE  History!Next \/ UNCHANGED <<status, timeline>>
    <3>1. ASSUME NEW o \in Orders, status[o] = "absent",
                 status' = [status EXCEPT ![o] = "received"],
                 timeline' = [timeline EXCEPT ![o] = <<[old |-> "absent", new |-> "received"]>>]
          PROVE  History!Next
      BY <3>1 DEF History!Next, History!Open
    <3>2. ASSUME NEW o \in Orders, status[o] \in OrderStatus,
                 status' = [status EXCEPT ![o] = "deleted"],
                 timeline' = [timeline EXCEPT ![o] = <<>>]
          PROVE  History!Next
      BY <3>2 DEF History!Next, History!Remove, History!OrderStatus, OrderStatus
    <3>3. ASSUME NEW o \in Orders, NEW old \in OrderStatus, NEW new \in OrderStatus,
                 old \in Held(o), new \in AllowedTransitions(old),
                 status' = [status EXCEPT ![o] = new],
                 timeline' = [timeline EXCEPT ![o] = Append(@, [old |-> old, new |-> new])]
          PROVE  History!Next
      <4>1. History!Move(o, old, new)
        BY <3>3 DEF History!Move, History!Held, Held, History!AllowedTransitions, AllowedTransitions
      <4> QED BY <4>1 DEF History!Next, History!OrderStatus, OrderStatus
    <3> QED BY <2>2, <3>1, <3>2, <3>3, StatusSteps
  <2> QED BY <2>1, <2>2 DEF Next
<1> QED BY <1>1, <1>2, ApiAlways, PTL DEF Spec, HistorySpec, History!Spec
=============================================================================
