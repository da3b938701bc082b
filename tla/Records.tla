------------------------------ MODULE Records ------------------------------
(* The workshop's master data: customers, equipment and its attributes,      *)
(* inventory items and categories, service contracts. Each endpoint looks    *)
(* whether a name is free, then inserts or updates and commits; another      *)
(* request may commit in between. Only the tables with a unique constraint   *)
(* refuse the second writer.                                                 *)
EXTENDS TLC

CONSTANTS Ids,         \* primary keys
          Names,       \* e-mails, serials, SKUs, numbers, keys, category names
          NoName,      \* a column left NULL: constraints and checks skip it
          Nothing,     \* no row, no parent, no value for a column
          Keep,        \* a column the payload of an update does not carry
          Clerks,      \* the requests that run at the same time
          RecordWork,  \* what they may be asked: a set of functions
          RecordPushes,\* mutations a desktop may push
          Kept         \* the rows the database starts with

VARIABLES row,    \* id -> row
          used,   \* the customers and the equipment that orders refer to
          clerk,  \* request -> what it is asked, where it is, what it loaded
          crossed \* history: kinds two writers of which checked before either committed

recordVars == <<row, used, clerk, crossed>>

Kinds == {"customer", "equipment", "attribute", "category", "contract", "item"}

Filed(kind, name, parent) ==
  [kind |-> kind, name |-> name, parent |-> parent, active |-> TRUE]

\* UniqueConstraint in the models; the names of attributes and of categories have none.
Unique == {"customer", "equipment", "contract", "item"}

\* The kind of row a kind's parent column refers to.
ParentKind ==
  ("equipment" :> "customer") @@ ("contract" :> "customer") @@ ("attribute" :> "equipment")

Live(i) == i # Nothing /\ row[i] # Nothing

\* Two rows that compete for one name: an attribute's key is its equipment's own.
Collide(x, y) ==
  /\ x.kind = y.kind /\ x.name = y.name /\ x.name # NoName
  /\ x.kind = "attribute" => x.parent = y.parent

Taken(new, i) == \E j \in Ids \ {i} : Live(j) /\ Collide(row[j], new)

ParentMissing(new) ==
  /\ new.parent # Nothing
  /\ ~ (Live(new.parent) /\ row[new.parent].kind = ParentKind[new.kind])

\* What PostgreSQL refuses at the commit.
Violates(new, i) == (new.kind \in Unique /\ Taken(new, i)) \/ ParentMissing(new)

----------------------------------------------------------------------------

Record == [kind : Kinds, name : Names \union {NoName}, parent : Ids \union {Nothing}, active : BOOLEAN]

Creation == [op : {"create"}, id : Ids, kind : Kinds, name : Names \union {NoName},
             parent : Ids \union {Nothing}]
Change   == [op : {"change"}, id : Ids, name : Names \union {NoName, Keep},
             parent : Ids \union {Nothing, Keep}]
Removal  == [op : {"remove"}, id : Ids]

\* The tables that rows of these keys are filed in, when this work is asked.
Filings(work) ==
  {<<i, Kept[i].kind>> : i \in DOMAIN Kept}
    \union {<<j.id, j.kind>> : j \in {x \in {work[c] : c \in Clerks} \union RecordPushes : x.op = "create"}}

\* A key is of one table, and nothing that is kept has a name that is taken.
ASSUME KeptAssumption ==
  /\ Nothing \notin Ids \union Record
  /\ DOMAIN Kept \subseteq Ids
  /\ \A i \in DOMAIN Kept : Kept[i] \in Record
  /\ \A i, j \in DOMAIN Kept : i # j => ~ Collide(Kept[i], Kept[j])
ASSUME RecordWorkAssumption ==
  \A work \in RecordWork :
    /\ work = [c \in Clerks |-> work[c]]
    /\ \A c \in Clerks :
         \/ work[c] \in Creation \union Change \union Removal
         \/ work[c].op \notin {"create", "change", "remove"}
    /\ \A x, y \in Filings(work) : x[1] = y[1] => x[2] = y[2]
ASSUME RecordPushesAssumption ==
  \A p \in RecordPushes :
    \/ p \in Creation
    \/ p.op = "update" /\ p.id \in Ids /\ p.name \in Names \union {NoName}
    \/ p.op = "delete" /\ p.id \in Ids

----------------------------------------------------------------------------

Job(c) == clerk[c].work
At(c, place) == clerk[c].at = place
Answer(c, place) == clerk' = [clerk EXCEPT ![c].at = place]

\* Another request for rows of this kind has checked and not committed.
Rival(c, kind) == \E d \in Clerks \ {c} : At(d, "checked") /\ clerk[d].kind = kind

\* The check passed: from here to the commit the answer may grow old.
Pass(c, kind, seen) ==
  /\ clerk' = [clerk EXCEPT ![c] = [@ EXCEPT !.at = "checked", !.kind = kind, !.seen = seen]]
  /\ crossed' = IF Rival(c, kind) THEN crossed \union {kind} ELSE crossed

RecordInit ==
  /\ row = [i \in Ids |-> IF i \in DOMAIN Kept THEN Kept[i] ELSE Nothing]
  /\ used = {} /\ crossed = {}
  /\ \E w \in RecordWork :
       clerk = [c \in Clerks |-> [work |-> w[c], at |-> "start", kind |-> Nothing, seen |-> Nothing]]

\* POST: the name must be free, an owner, an equipment or a customer must exist.
Drafted(c) == Filed(Job(c).kind, Job(c).name, Job(c).parent)

CheckCreate(c) ==
  /\ At(c, "start") /\ Job(c).op = "create"
  /\ IF Taken(Drafted(c), Job(c).id) \/ ParentMissing(Drafted(c))
     THEN Answer(c, "refused") /\ UNCHANGED crossed
     ELSE Pass(c, Job(c).kind, Nothing)
  /\ UNCHANGED <<row, used>>

CommitCreate(c) ==
  /\ At(c, "checked") /\ Job(c).op = "create"
  /\ IF Violates(Drafted(c), Job(c).id)
     THEN Answer(c, "failed") /\ UNCHANGED row
     ELSE Answer(c, "done") /\ row' = [row EXCEPT ![Job(c).id] = Drafted(c)]
  /\ UNCHANGED <<used, crossed>>

\* PUT: a customer's e-mail is looked up whenever it is given, the others when it
\* changes; a contract's number is not looked up. The key of an attribute and the
\* customer of a contract are no columns of their updates.
Renames(c, seen) == Job(c).name \notin {Keep, seen.name} /\ seen.kind # "attribute"

\* Without the lookup of a category's new name.
LooksUp_Faulty(c, seen) ==
  Job(c).name \notin {Keep, NoName} /\
    CASE seen.kind = "customer" -> TRUE
      [] seen.kind \in {"equipment", "item"} -> Renames(c, seen)
      [] OTHER -> FALSE

LooksUp(c, seen) ==
  Job(c).name \notin {Keep, NoName} /\
    CASE seen.kind = "customer" -> TRUE
      [] seen.kind \in {"equipment", "item", "category"} -> Renames(c, seen)
      [] OTHER -> FALSE
Moves(c, seen) == Job(c).parent # Keep /\ seen.kind = "equipment"

Revised(c, old, seen) ==
  [old EXCEPT !.name = IF Renames(c, seen) THEN Job(c).name ELSE @,
              !.parent = IF Moves(c, seen) THEN Job(c).parent ELSE @]

CheckChange(c) ==
  /\ At(c, "start") /\ Job(c).op = "change"
  /\ LET i == Job(c).id
         seen == row[i]
     IN IF \/ ~ Live(i)
           \/ LooksUp(c, seen) /\ Taken(Revised(c, seen, seen), i)
           \/ /\ Job(c).parent \notin {Keep, Nothing}
              /\ seen.kind \in {"equipment", "contract"}
              /\ ParentMissing([seen EXCEPT !.parent = Job(c).parent])
        THEN Answer(c, "refused") /\ UNCHANGED crossed
        ELSE Pass(c, seen.kind, seen)
  /\ UNCHANGED <<row, used>>

\* An UPDATE carries the columns that differ from what was loaded; it fails on a
\* row that is gone.
CommitChange(c) ==
  /\ At(c, "checked") /\ Job(c).op = "change"
  /\ LET i == Job(c).id
     IN IF ~ Live(i) \/ Violates(Revised(c, row[i], clerk[c].seen), i)
        THEN Answer(c, "failed") /\ UNCHANGED row
        ELSE /\ Answer(c, "done")
             /\ row' = [row EXCEPT ![i] = Revised(c, @, clerk[c].seen)]
  /\ UNCHANGED <<used, crossed>>

FindRow(c) ==
  /\ At(c, "start") /\ Job(c).op = "remove"
  /\ IF Live(Job(c).id)
     THEN clerk' = [clerk EXCEPT ![c] = [@ EXCEPT !.at = "found", !.kind = row[Job(c).id].kind]]
     ELSE Answer(c, "refused")
  /\ UNCHANGED <<row, used, crossed>>

\* Rows that keep a row from being deleted; attributes go with their equipment.
Attributes(i) == {j \in Ids : Live(j) /\ row[j].kind = "attribute" /\ row[j].parent = i}
Referenced(i) == i \in used \/ \E j \in Ids \ Attributes(i) : Live(j) /\ row[j].parent = i

\* DELETE: a contract is only switched off.
CommitDelete(c) ==
  /\ At(c, "found")
  /\ LET i == Job(c).id
     IN \/ /\ clerk[c].kind = "contract"
           /\ Answer(c, "done") /\ row' = [row EXCEPT ![i].active = FALSE]
        \/ /\ clerk[c].kind # "contract" /\ Live(i) /\ Referenced(i)
           /\ Answer(c, "failed") /\ UNCHANGED row
        \/ /\ clerk[c].kind # "contract" /\ ~ (Live(i) /\ Referenced(i))
           /\ Answer(c, "done")
           /\ row' = [j \in Ids |-> IF j \in {i} \union Attributes(i) THEN Nothing ELSE row[j]]
  /\ UNCHANGED <<used, crossed>>

----------------------------------------------------------------------------

\* A desktop pushes: no lookup, only the constraints. A create of a row that exists
\* answers "applied"; a delete adds the row it deleted back to the session, so only
\* a contract is switched off; a contract cannot be created, its site is missing.
PushRecord ==
  \E p \in RecordPushes :
    LET i == p.id
        new == IF p.op = "create" THEN Filed(p.kind, p.name, p.parent)
                                  ELSE [row[i] EXCEPT !.name = p.name]
    IN /\ \/ p.op = "create" /\ ~ Live(i) /\ p.kind \in {"customer", "equipment", "item"}
          \/ p.op = "update" /\ Live(i) /\ row[i].kind = "customer"
       /\ ~ Violates(new, i)
       /\ row' = [row EXCEPT ![i] = new]
       /\ UNCHANGED <<used, clerk, crossed>>

PushDelete ==
  \E p \in RecordPushes :
    /\ p.op = "delete" /\ Live(p.id) /\ row[p.id].kind = "contract"
    /\ row' = [row EXCEPT ![p.id].active = FALSE]
    /\ UNCHANGED <<used, clerk, crossed>>

\* An order is received for a customer and a piece of equipment.
Receive ==
  \E i \in Ids :
    /\ Live(i) /\ row[i].kind \in {"customer", "equipment"} /\ i \notin used
    /\ used' = used \union {i}
    /\ UNCHANGED <<row, clerk, crossed>>

RecordNext ==
  \/ \E c \in Clerks : CheckCreate(c) \/ CommitCreate(c) \/ CheckChange(c) \/ CommitChange(c)
                       \/ FindRow(c) \/ CommitDelete(c)
  \/ PushRecord \/ PushDelete \/ Receive

RecordSpec == RecordInit /\ [][RecordNext]_recordVars

----------------------------------------------------------------------------

(* Two live rows share a name only where the table has no constraint and two  *)
(* requests really looked before either wrote: the lookups of the endpoints,  *)
(* the constraints and the writers that skip the lookup (a contract's new     *)
(* number, a pushed e-mail) leave no other way to a duplicate.                *)
DuplicatesExplained ==
  \A i, j \in Ids :
    i # j /\ Live(i) /\ Live(j) /\ Collide(row[i], row[j])
      => row[i].kind \notin Unique /\ row[i].kind \in crossed
=============================================================================
