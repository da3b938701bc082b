----------------------------- MODULE OrderCosts -----------------------------
(***************************************************************************)
(* The cost columns of a service order and its cost lines:                 *)
(* recompute_total_cost and the cost-line, PUT and PATCH endpoints that    *)
(* call it, and the cost fields a pushed mutation may set.  A request      *)
(* loads the order, recomputes the totals from the lines it can see, and   *)
(* commits; only the columns whose value differs from the loaded one are   *)
(* written, and no row of the order is locked before that.                 *)
(***************************************************************************)
EXTENDS Integers, FiniteSetsExt

CONSTANTS Lines,       \* cost line identifiers
          Amounts,     \* amounts a line, or a cost field of a PUT, may carry
          Categories,  \* bound on the categories of new lines
          PushedCosts, \* bound on the cost columns a pushed mutation sets
          Requests,    \* concurrently running requests
          NoLine       \* the line of a request that has none

ASSUME AmountsAssumption == Amounts \subseteq Nat
ASSUME CategoriesAssumption == Categories \subseteq {"parts", "labor", "other"}
ASSUME PushedAssumption  == PushedCosts \subseteq [parts : Nat, labor : Nat, total : Nat]
ASSUME NoLineAssumption  == NoLine \notin Lines

VARIABLES
  lines,   \* committed cost lines: a function from line ids to [category, amount]
  costs,   \* committed columns: [parts, labor, total]
  req      \* req[r]: progress and local reads of request r

vars == <<lines, costs, req>>

Category == {"parts", "labor", "other"}
Line     == [category : Categories, amount : Amounts]
Costs    == [parts : Nat, labor : Nat, total : Nat]
Zero     == [parts |-> 0, labor |-> 0, total |-> 0]

\* add_cost_line, update_cost_line, delete_cost_line, a PUT of cost fields, any
\* other PUT or a status PATCH, and a pushed mutation with cost fields.
Op == {"add", "update", "delete", "put", "touch", "push"}

NewLine == [category |-> "other", amount |-> 0]

\* seen: the line as read; value: the line as the request wants it; loaded: the
\* columns as read; next: what the request will make of them; overlapped:
\* whether another request has committed since the order was read.
IdleRequest == [pc |-> "idle", op |-> "touch", line |-> NoLine, seen |-> NewLine,
                value |-> NewLine, loaded |-> Zero, next |-> Zero, overlapped |-> FALSE]

TypeOK ==
  /\ DOMAIN lines \subseteq Lines
  /\ \A l \in DOMAIN lines : lines[l] \in Line
  /\ costs \in Costs
  /\ req \in [Requests -> [pc : {"idle", "loaded", "computed"}, op : Op,
                           line : Lines \cup {NoLine}, seen : Line \cup {NewLine},
                           value : Line \cup {NewLine}, loaded : Costs, next : Costs,
                           overlapped : BOOLEAN]]

Init ==
  /\ lines = [l \in {} |-> NewLine]
  /\ costs = Zero
  /\ req = [r \in Requests |-> IdleRequest]

-----------------------------------------------------------------------------
(* recompute_total_cost.                                                   *)

SumOf(view, cats) ==
  MapThenSumSet(LAMBDA l : view[l].amount, {l \in DOMAIN view : view[l].category \in cats})

\* From the lines when there are any, from the loose fields otherwise.
Recomputed(view, base) ==
  IF DOMAIN view = {}
    THEN [parts |-> base.parts, labor |-> base.labor, total |-> base.parts + base.labor]
    ELSE [parts |-> SumOf(view, {"parts"}), labor |-> SumOf(view, {"labor"}),
          total |-> SumOf(view, Category)]

Put(view, l, value) == [m \in DOMAIN view \cup {l} |-> IF m = l THEN value ELSE view[m]]

Without(view, l) == [m \in DOMAIN view \ {l} |-> view[m]]

\* The lines the request sees: the committed ones with its own change to them.
View(r) ==
  LET l == req[r].line
  IN  CASE req[r].op = "add"                           -> Put(lines, l, req[r].value)
        [] req[r].op = "delete"                        -> Without(lines, l)
        [] req[r].op = "update" /\ l \in DOMAIN lines  -> Put(lines, l, req[r].value)
        [] OTHER                                       -> lines

\* Only the columns that differ from their loaded value are in an UPDATE, of a
\* line as of the order.
WrittenLines(r) ==
  LET l == req[r].line
      merged == [f \in {"category", "amount"} |->
                   IF req[r].value[f] = req[r].seen[f] THEN lines[l][f] ELSE req[r].value[f]]
  IN  IF req[r].op = "update" /\ l \in DOMAIN lines THEN Put(lines, l, merged) ELSE View(r)

Written(r) ==
  [f \in {"parts", "labor", "total"} |->
     IF req[r].next[f] = req[r].loaded[f] THEN costs[f] ELSE req[r].next[f]]

-----------------------------------------------------------------------------
(* A definition named ..._Faulty is the definition that follows it with a   *)
(* plausible mistake; no formula uses it.                                  *)

\* The request reads the order and what its endpoint checks: the line exists,
\* or, for a PUT of cost fields, the order has no lines.  A new line gets an
\* identifier no other request knows.
Load(r, op, l, value, fields) ==
  /\ req[r].pc = "idle"
  /\ CASE op = "add"                  -> /\ l \in Lines \ DOMAIN lines
                                         /\ \A q \in Requests : req[q].line # l
       [] op \in {"update", "delete"} -> l \in DOMAIN lines
       [] op = "put"                  -> l = NoLine /\ DOMAIN lines = {}
       [] OTHER                       -> l = NoLine
  /\ req' = [req EXCEPT ![r] = [pc |-> "loaded", op |-> op, line |-> l, value |-> value,
                                seen |-> IF op = "update" THEN lines[l] ELSE NewLine,
                                loaded |-> costs, next |-> fields, overlapped |-> FALSE]]
  /\ UNCHANGED <<lines, costs>>

\* Another transaction has deleted the line but not yet committed: a write of
\* the line waits for it.
LineLocked(r) ==
  \E q \in Requests \ {r} : /\ req[q].pc = "computed" /\ req[q].op = "delete"
                            /\ req[q].line = req[r].line

\* The totals are recomputed before the change to the lines is flushed.
Recompute_Faulty(r) ==
  /\ req[r].pc = "loaded"
  /\ req[r].op = "delete" => ~LineLocked(r)
  /\ req' = [req EXCEPT ![r].pc = "computed",
                        ![r].next = CASE req[r].op = "push" -> @
                                      [] req[r].op = "put"  -> Recomputed(lines, @)
                                      [] OTHER              -> Recomputed(lines, req[r].loaded)]
  /\ UNCHANGED <<lines, costs>>

\* The change of the line is flushed and the totals are recomputed from what
\* this transaction sees; a pushed mutation sets the columns as it likes.
Recompute(r) ==
  /\ req[r].pc = "loaded"
  /\ req[r].op = "delete" => ~LineLocked(r)
  /\ req' = [req EXCEPT ![r].pc = "computed",
                        ![r].next = CASE req[r].op = "push" -> @
                                      [] req[r].op = "put"  -> Recomputed(View(r), @)
                                      [] OTHER              -> Recomputed(View(r), req[r].loaded)]
  /\ UNCHANGED <<lines, costs>>

\* The end of a request; the others that are running have been overlapped.
Finish(r, committed) ==
  req' = [q \in Requests |->
            IF q = r THEN IdleRequest
            ELSE [req[q] EXCEPT !.overlapped = @ \/ (committed /\ req[q].pc # "idle")]]

\* The UPDATE of a line that is gone fails (Rollback); the DELETE of one does not.
Commit(r) ==
  /\ req[r].pc = "computed"
  /\ req[r].op = "update" /\ req[r].value # req[r].seen =>
        req[r].line \in DOMAIN lines /\ ~LineLocked(r)
  /\ lines' = WrittenLines(r)
  /\ costs' = Written(r)
  /\ Finish(r, TRUE)

Rollback(r) ==
  /\ req[r].pc # "idle"
  /\ Finish(r, FALSE)
  /\ UNCHANGED <<lines, costs>>

-----------------------------------------------------------------------------
\* The cost-line endpoints, the PUT and the PATCH.
Edit(r) ==
  \/ \E op \in {"add", "update"}, l \in Lines, value \in Line : Load(r, op, l, value, Zero)
  \/ \E l \in Lines : Load(r, "delete", l, NewLine, Zero)
  \/ Load(r, "touch", NoLine, NewLine, Zero)
  \/ \E p, b \in Amounts \cup {0} :
        Load(r, "put", NoLine, NewLine, [parts |-> p, labor |-> b, total |-> 0])

\* apply_service_order with cost_parts, cost_labor and total_cost.
Push(r) ==
  \E c \in PushedCosts : Load(r, "push", NoLine, NewLine, c)

Step(r) == Recompute(r) \/ Commit(r) \/ Rollback(r)

Next == \E r \in Requests : Edit(r) \/ Step(r)

Spec         == Init /\ [][Next]_vars
SpecWithPush == Init /\ [][Next \/ \E r \in Requests : Push(r)]_vars

-----------------------------------------------------------------------------
(* Properties                                                              *)

\* The columns agree with the lines when there are any ("Líneas de costo por
\* orden: fuente de verdad cuando existen filas"), and with each other when
\* there are none.
Agree(view, c) == IF DOMAIN view = {}
                    THEN c.total = c.parts + c.labor
                    ELSE /\ c.parts = SumOf(view, {"parts"})
                         /\ c.labor = SumOf(view, {"labor"})
                         /\ c.total = SumOf(view, Category)

\* A request that no other commit overlaps leaves the columns in agreement with
\* the lines, however wrong earlier overlapping requests have left them.
UndisturbedRestores ==
  [][\A r \in Requests :
        Commit(r) /\ req[r].op # "push" /\ ~req[r].overlapped => Agree(lines', costs')]_vars
=============================================================================
