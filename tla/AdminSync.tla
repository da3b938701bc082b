----------------------------- MODULE AdminSync -----------------------------
(***************************************************************************)
(* The desktop synchronisation: sync_admin/push.py, service.py, context.py *)
(* and snapshot.py.  A push applies a batch of mutations, each dated by    *)
(* the clock of the desktop that made it, in one transaction; then bumps   *)
(* the company's configuration revision in a second one and registers the *)
(* installation in a third.  A pull reads the tables one after another and *)
(* returns the rows dated after the client's cursor.                       *)
(*                                                                         *)
(* A behaviour is about the company row and one record of one kind.  A     *)
(* column is abstracted to one value: val for what a handler may set, pol  *)
(* for session_policies inside settings_json.  Left out: the other columns *)
(* and tables, the children a taken-back deletion loses (OrderLifecycle    *)
(* and Inventory have them), and the registration itself (Seats).          *)
(***************************************************************************)
EXTENDS Naturals, Sequences

CONSTANTS Requests,  \* the pushes of a behaviour; one sent again is another one
          Clients,   \* desktops that pull
          Kinds,     \* the kinds of record considered
          Batches,   \* the batches of mutations that may be pushed
          Vals,      \* contents of a row
          MaxTime,   \* bound on the server's clock
          Absent     \* no such row

Times == 1..MaxTime

Rows == [at : Times, val : Vals, active : BOOLEAN]

Companies == [at : Times, val : Vals, pol : Vals]

AllKinds == {"site", "user", "user_site_role", "customer", "equipment", "service_order",
             "inventory_item", "service_contract"}

Ops == {"create", "update", "delete", "deactivate", "reset_password", "status_change",
        "stock_change"}

\* A mutation: of the record, of the company, of its session policies, or of an
\* entity the push does not accept; bad: its payload cannot be used.
Mutations == [entity : {"record", "company", "session_policy", "refused"}, op : Ops,
              at : Times, val : Vals, bad : BOOLEAN]

ASSUME KindsAssumption   == Kinds \subseteq AllKinds
ASSUME BatchesAssumption == Batches \subseteq Seq(Mutations)
ASSUME AbsentAssumption  == Absent \notin Rows /\ Absent \notin Companies
ASSUME TimeAssumption    == MaxTime \in Nat \ {0}
ASSUME ValsAssumption    == Vals # {}

VARIABLES
  now,      \* the server's clock
  kind,     \* the kind of the record the behaviour is about
  rec,      \* its committed row, or Absent
  company,  \* the committed company row
  req,      \* req[p]: progress and session of push p
  client,   \* client[c]: replica, cursor and running pull of desktop c
  orderly   \* history: see InOrder

vars == <<now, kind, rec, company, req, client, orderly>>

\* base, mine: the record as loaded and as changed in the session; made: how many
\* creations are pending, fresh the first of them; cbase, cmine: the same for the
\* company.  stored, announced: the batch is committed, the revision published.
NoPush == [pc |-> "ended", batch |-> <<>>, i |-> 1, base |-> Absent, mine |-> Absent,
           made |-> 0, fresh |-> Absent, cbase |-> Absent, cmine |-> Absent,
           applied |-> FALSE, stored |-> FALSE, announced |-> FALSE, answer |-> "none"]

\* What remains of push q once it is over.
Ended(q, a) == [NoPush EXCEPT !.answer = a, !.stored = q.stored, !.announced = q.announced]

\* img: the company row the running pull has read.
NewClient == [pc |-> "idle", cursor |-> 0, rec |-> Absent, company |-> Absent, img |-> Absent]

MaybeRow == Rows \cup {Absent}

MaybeCompany == Companies \cup {Absent}

Pushes == [pc : {"ended", "apply", "bump", "bumping", "register"},
           batch : Batches \cup {<<>>}, i : Nat, base : MaybeRow, mine : MaybeRow,
           made : Nat, fresh : MaybeRow, cbase : MaybeCompany, cmine : MaybeCompany,
           applied : BOOLEAN, stored : BOOLEAN, announced : BOOLEAN,
           answer : {"none", "ok", "forbidden", "error", "lost"}]

SyncTypeOK ==
  /\ now \in Times
  /\ kind \in Kinds
  /\ rec \in MaybeRow
  /\ company \in Companies
  /\ req \in [Requests -> Pushes]
  /\ client \in [Clients -> [pc : {"idle", "record"}, cursor : 0..MaxTime, rec : MaybeRow,
                             company : MaybeCompany, img : MaybeCompany]]
  /\ orderly \in BOOLEAN

Init ==
  /\ now = 1
  /\ kind \in Kinds
  /\ rec = Absent
  /\ company = [at |-> 1, val |-> CHOOSE v \in Vals : TRUE, pol |-> CHOOSE v \in Vals : TRUE]
  /\ req = [p \in Requests |-> NoPush]
  /\ client = [c \in Clients |-> NewClient]
  /\ orderly = TRUE

-----------------------------------------------------------------------------
(* The handlers.  A definition named ..._Faulty is the definition that     *)
(* follows it with a plausible mistake; no formula uses it.                *)

\* change: the operations that set columns; retire: those that clear is_active;
\* undone: those that call db.delete and then db.add, which takes the deletion
\* back and leaves the new date.  badCreate, badChange: what an unusable payload
\* comes to ("raised" ends the whole push).
ApplySite          == [change |-> {"update"}, retire |-> {"delete"}, undone |-> {},
                       badCreate |-> {"raised"}, badChange |-> {"applied"}]

ApplyUser          == [change |-> {"update", "reset_password"}, retire |-> {"deactivate"},
                       undone |-> {}, badCreate |-> {"rejected", "raised"},
                       badChange |-> {"applied", "rejected"}]

ApplyUserSiteRole  == [change |-> {"update"}, retire |-> {"delete"}, undone |-> {},
                       badCreate |-> {"raised"}, badChange |-> {"raised"}]

ApplyCustomer      == [change |-> {"update"}, retire |-> {}, undone |-> {"delete"},
                       badCreate |-> {"raised"}, badChange |-> {"applied"}]

ApplyEquipment     == [change |-> {"update", "status_change"}, retire |-> {},
                       undone |-> {"delete"}, badCreate |-> {"raised"},
                       badChange |-> {"applied"}]

ApplyServiceOrder  == [change |-> {"update", "status_change"}, retire |-> {},
                       undone |-> {"delete"}, badCreate |-> {"rejected"},
                       badChange |-> {"raised"}]

ApplyInventoryItem == [change |-> {"update", "stock_change"}, retire |-> {},
                       undone |-> {"delete"}, badCreate |-> {"applied"},
                       badChange |-> {"applied"}]

ApplyServiceContract == [change |-> {"update"}, retire |-> {"delete"}, undone |-> {},
                         badCreate |-> {"raised"}, badChange |-> {"applied"}]

EntityHandlers == [site |-> ApplySite, user |-> ApplyUser, user_site_role |-> ApplyUserSiteRole,
                   customer |-> ApplyCustomer, equipment |-> ApplyEquipment,
                   service_order |-> ApplyServiceOrder, inventory_item |-> ApplyInventoryItem,
                   service_contract |-> ApplyServiceContract]

Handler == EntityHandlers[kind]

Stale_Faulty(row, m) == row.at = m.at

\* reject_if_stale
Stale(row, m) == row.at > m.at

\* What a mutation of the record is answered with, when the query finds row.
RecordAnswers(row, m) ==
  IF m.op = "create"
  THEN IF row # Absent \/ ~m.bad THEN {"applied"} ELSE Handler.badCreate
  ELSE IF row = Absent THEN {"rejected"}
  ELSE IF Stale(row, m) THEN {"conflict"}
  ELSE IF m.op \notin Handler.change \cup Handler.retire \cup Handler.undone THEN {"rejected"}
  ELSE IF m.bad /\ m.op \in Handler.change THEN Handler.badChange
  ELSE {"applied"}

\* The row after a mutation that was applied to it.
ChangedRow(row, m) ==
  [at     |-> m.at,
   val    |-> IF m.op \in Handler.change /\ ~m.bad THEN m.val ELSE row.val,
   active |-> row.active /\ m.op \notin Handler.retire]

CreatedRow(m) == [at |-> m.at, val |-> m.val, active |-> TRUE]

\* apply_company: a payload with subscription columns is refused.
CompanyAnswer(row, m) ==
  IF Stale(row, m) THEN "conflict"
  ELSE IF m.entity = "company" /\ (m.op # "update" \/ m.bad) THEN "rejected"
  ELSE "applied"

\* apply_company sets the date and columns, apply_session_policy the policies.
ChangedCompany(row, m) ==
  IF m.entity = "company" THEN [row EXCEPT !.at = m.at, !.val = m.val]
                          ELSE [row EXCEPT !.at = m.at, !.pol = m.val]

-----------------------------------------------------------------------------
(* History.                                                                *)

Clocks == {company.at} \cup (IF rec = Absent THEN {} ELSE {rec.at})

\* Rows dated ats are committed in the order of their clocks: each is later than
\* every date committed before and every cursor handed out, and no pull is half
\* way through its tables.
InOrder(ats) ==
  /\ \A a \in ats : \A b \in Clocks \cup {client[c].cursor : c \in Clients} : a > b
  /\ ats # {} => \A c \in Clients : client[c].pc = "idle"

Committed(ats) == orderly' = (orderly /\ InOrder(ats))

-----------------------------------------------------------------------------
(* A push.                                                                 *)

StartPush(p, b) ==
  /\ req[p] = NoPush
  /\ req' = [req EXCEPT ![p] = [NoPush EXCEPT !.pc = "apply", !.batch = b]]
  /\ UNCHANGED <<now, kind, rec, company, client, orderly>>

\* get_sync_context and ensure_subscription_allows_push turn the push away: no valid
\* token, no such right, or a subscription that is not usable.
RefusePush(p) ==
  /\ req[p] = NoPush
  /\ req' = [req EXCEPT ![p] = Ended(NoPush, "forbidden")]
  /\ UNCHANGED <<now, kind, rec, company, client, orderly>>

\* A row the session has changed is kept by it; any other is read again.  What
\* is only pending is not found, since sessions do not flush by themselves.
RecordSeen(q)  == IF q.mine # Absent THEN q.mine ELSE rec

CompanySeen(q) == IF q.cmine # Absent THEN q.cmine ELSE company

\* The session after answer a to mutation m of the record.
RecordApplied(q, m, a) ==
  IF a # "applied" THEN q
  ELSE IF m.op = "create"
  THEN IF RecordSeen(q) # Absent THEN [q EXCEPT !.applied = TRUE]
       ELSE [q EXCEPT !.applied = TRUE, !.made = @ + 1,
                      !.fresh = IF q.made = 0 THEN CreatedRow(m) ELSE @]
  ELSE [q EXCEPT !.applied = TRUE,
                 !.base = IF q.mine # Absent THEN @ ELSE rec,
                 !.mine = ChangedRow(RecordSeen(q), m)]

CompanyApplied(q, m) ==
  IF CompanyAnswer(CompanySeen(q), m) # "applied" THEN q
  ELSE [q EXCEPT !.applied = TRUE,
                 !.cbase = IF q.cmine # Absent THEN @ ELSE company,
                 !.cmine = ChangedCompany(CompanySeen(q), m)]

\* apply_mutation, once for each mutation of the batch.
ApplyMutation(p) ==
  LET q == req[p]
      m == q.batch[q.i]
  IN  /\ q.pc = "apply"
      /\ q.i <= Len(q.batch)
      /\ \/ /\ m.entity = "record"
            /\ \E a \in RecordAnswers(RecordSeen(q), m) :
                 req' = [req EXCEPT ![p] =
                   IF a = "raised" THEN Ended(q, "error")
                   ELSE [RecordApplied(q, m, a) EXCEPT !.i = q.i + 1]]
         \/ /\ m.entity \in {"company", "session_policy"}
            /\ req' = [req EXCEPT ![p] = [CompanyApplied(q, m) EXCEPT !.i = q.i + 1]]
         \/ /\ m.entity = "refused"
            /\ req' = [req EXCEPT ![p] = [q EXCEPT !.i = q.i + 1]]
      /\ UNCHANGED <<now, kind, rec, company, client, orderly>>

\* The commit of a changed row writes the columns that differ from the loaded ones.
MergedRow(q) ==
  [at     |-> IF q.mine.at # q.base.at THEN q.mine.at ELSE rec.at,
   val    |-> IF q.mine.val # q.base.val THEN q.mine.val ELSE rec.val,
   active |-> IF q.mine.active # q.base.active THEN q.mine.active ELSE rec.active]

\* settings_json always differs, by the bumped revision, and is written whole.
MergedCompany(q) ==
  [at  |-> IF q.cmine.at # q.cbase.at THEN q.cmine.at ELSE company.at,
   val |-> IF q.cmine.val # q.cbase.val THEN q.cmine.val ELSE company.val,
   pol |-> q.cmine.pol]

\* A second row with the same key, or the update of a row that has gone, is an
\* error that rolls the batch back.
CannotStore(q) ==
  \/ q.made > 1
  \/ q.made = 1 /\ rec # Absent
  \/ q.mine # q.base /\ rec = Absent

StoreFails(p) ==
  LET q == req[p]
  IN  /\ q.pc = "apply"
      /\ q.i > Len(q.batch)
      /\ CannotStore(q)
      /\ req' = [req EXCEPT ![p] = Ended(q, "error")]
      /\ UNCHANGED <<now, kind, rec, company, client, orderly>>

AfterStore_Faulty(q) ==
  IF q.applied THEN [NoPush EXCEPT !.pc = "register", !.stored = TRUE] ELSE Ended(q, "ok")

\* Whatever was applied has to be announced; a batch without effect is answered.
AfterStore(q) ==
  IF q.applied THEN [NoPush EXCEPT !.pc = "bump", !.stored = TRUE] ELSE Ended(q, "ok")

StoreBatch(p) ==
  LET q == req[p]
      newRec == IF q.made = 1 THEN q.fresh ELSE IF q.mine # q.base THEN MergedRow(q) ELSE rec
      newCompany == IF q.cmine # Absent THEN MergedCompany(q) ELSE company
  IN  /\ q.pc = "apply"
      /\ q.i > Len(q.batch)
      /\ ~CannotStore(q)
      /\ rec' = newRec
      /\ company' = newCompany
      /\ Committed({r.at : r \in {newRec, newCompany} \ {rec, company}})
      /\ req' = [req EXCEPT ![p] = AfterStore(q)]
      /\ UNCHANGED <<now, kind, client>>

\* The second transaction of a push that applied something.
ReadForBump(p) ==
  /\ req[p].pc = "bump"
  /\ req' = [req EXCEPT ![p] = [@ EXCEPT !.pc = "bumping", !.cbase = company]]
  /\ UNCHANGED <<now, kind, rec, company, client, orderly>>

\* settings_json is written as it was read, but for the revision; the row is dated
\* by the server, and the revision is published.
CommitBump(p) ==
  /\ req[p].pc = "bumping"
  /\ company' = [company EXCEPT !.at = now, !.pol = req[p].cbase.pol]
  /\ Committed({now})
  /\ req' = [req EXCEPT ![p] = [@ EXCEPT !.pc = "register", !.announced = TRUE]]
  /\ UNCHANGED <<now, kind, rec, client>>

\* record_installation_sync in the catalogue: the seat pool may refuse with 403.
Register(p) ==
  /\ req[p].pc = "register"
  /\ \E a \in {"ok", "forbidden"} :
       req' = [req EXCEPT ![p] = Ended(@, a)]
  /\ UNCHANGED <<now, kind, rec, company, client, orderly>>

\* The worker or a connection dies; what is committed stays.
LosePush(p) ==
  /\ req[p].pc # "ended"
  /\ req' = [req EXCEPT ![p] = Ended(@, "lost")]
  /\ UNCHANGED <<now, kind, rec, company, client, orderly>>

-----------------------------------------------------------------------------
(* The endpoints of the console, which date what they change by the        *)
(* server's clock.                                                         *)

RestWrite(v, a) ==
  /\ rec # Absent => rec.val # v \/ rec.active # a
  /\ rec' = [at |-> now, val |-> v, active |-> a]
  /\ Committed({now})
  /\ UNCHANGED <<now, kind, company, req, client>>

\* Only rows whose pushed deletion is taken back can be removed by an endpoint.
RestRemove ==
  /\ rec # Absent
  /\ Handler.undone # {}
  /\ rec' = Absent
  /\ UNCHANGED <<now, kind, company, req, client, orderly>>

Tick ==
  /\ now < MaxTime
  /\ now' = now + 1
  /\ UNCHANGED <<kind, rec, company, req, client, orderly>>

-----------------------------------------------------------------------------
(* A pull: the company row is read first, the tables after it.             *)

\* bootstrap starts without a cursor, pull from the client's.
StartPull(c, since) ==
  /\ client[c].pc = "idle"
  /\ client' = [client EXCEPT ![c] = [@ EXCEPT !.pc = "record", !.cursor = since, !.img = company]]
  /\ UNCHANGED <<now, kind, rec, company, req, orderly>>

Newer(row, since) == row.at > since

\* max_cursor: the latest date among the rows returned, or the server's time.
MaxCursor(rows) ==
  IF rows = {} THEN now
  ELSE CHOOSE a \in {r.at : r \in rows} : \A r \in rows : r.at <= a

FilterSince_Faulty(c, rows) ==
  IF Newer(client[c].img, client[c].cursor) THEN {r \in rows : Newer(r, client[c].cursor)} ELSE {}

\* filter_snapshot_since; a bootstrap (cursor 0) keeps everything.
FilterSince(c, rows) == {r \in rows : Newer(r, client[c].cursor)}

\* The rest of the tables, the filter and the answer.  What the answer does not
\* contain the client keeps, whether or not the server still has it.
FinishPull(c) ==
  LET old  == client[c]
      read == {old.img} \cup (IF rec = Absent THEN {} ELSE {rec})
      sent == FilterSince(c, read)
  IN  /\ old.pc = "record"
      /\ client' = [client EXCEPT ![c] =
           [old EXCEPT !.pc = "idle",
                       !.cursor = MaxCursor(sent),
                       !.rec = IF rec \in sent \/ old.cursor = 0 THEN rec ELSE old.rec,
                       !.img = Absent,
                       !.company = IF old.img \in sent THEN old.img ELSE old.company]]
      /\ UNCHANGED <<now, kind, rec, company, req, orderly>>

-----------------------------------------------------------------------------
PushNext(p) ==
  \/ \E b \in Batches : StartPush(p, b)
  \/ RefusePush(p)
  \/ ApplyMutation(p)
  \/ StoreFails(p)
  \/ StoreBatch(p)
  \/ ReadForBump(p)
  \/ CommitBump(p)
  \/ Register(p)
  \/ LosePush(p)

PullNext(c) ==
  \/ \E since \in {0, client[c].cursor} : StartPull(c, since)
  \/ FinishPull(c)

RestNext ==
  \/ \E v \in Vals, a \in BOOLEAN : RestWrite(v, a)
  \/ RestRemove

Next ==
  \/ Tick
  \/ RestNext
  \/ \E p \in Requests : PushNext(p)
  \/ \E c \in Clients : PullNext(c)

Spec == Init /\ [][Next]_vars

-----------------------------------------------------------------------------
(* Properties                                                              *)

Stores(p) == req[p].pc = "apply" /\ req'[p].pc = "bump"

\* Last writer wins, as far as the code keeps it: a push never replaces a row by an
\* older version of it, unless somebody else committed that row since the push read
\* it.  (reject_if_stale compares with the row as read; nothing is compared again
\* at the commit, and within a batch each mutation meets the one before it.)
AcceptedNotOlder ==
  [][\A p \in Requests : Stores(p) =>
       /\ rec = req[p].base /\ rec # Absent => rec'.at >= rec.at
       /\ company = req[p].cbase => company'.at >= company.at]_vars

\* When incremental pulls are enough: if rows were committed in the order of their
\* dates, later than every cursor handed out and never between the reads of a pull
\* (orderly), then whatever a pull leaves out the client has already, and afterwards
\* it holds the rows of the server, except those deleted there.  Offline edits dated
\* before a cursor, clocks that run ahead and pulls that overlap commits are exactly
\* what breaks it.
OrderlyPullsComplete ==
  [][\A c \in Clients : (client[c].pc = "record" /\ client'[c].pc = "idle" /\ orderly) =>
       /\ rec # Absent => client'[c].rec = rec
       /\ client'[c].company = company]_vars

\* A push that has stored its batch and was not cut off has also announced the new
\* revision, even when it is answered 403 for its installation: the other desktops
\* hear of changes whose author was told of a failure.
StoredIsAnnounced ==
  \A p \in Requests :
    req[p].pc = "ended" /\ req[p].stored /\ req[p].answer # "lost" => req[p].announced
=============================================================================
