------------------------------ MODULE MCRecords ------------------------------
EXTENDS Records, OrderIntake, OrderDocuments, Inventory

CONSTANTS r1, r2, r3, r4, r5, r6, n1, n2, a, b, c, k1, k2, ana, luis, o1, o2, v1, v2, v3,
          q1, q2

Nobody == [op |-> "none", by |-> "none", task |-> "none", order |-> o1, type |-> "none", formats |-> <<>>]

Pair(x, y) == (a :> x) @@ (b :> y)
Idle == {Pair(Nobody, Nobody)}

(* Master data: a customer r1, its equipment r2 *)

MCKept == (r1 :> Filed("customer", n1, Nothing)) @@ (r2 :> Filed("equipment", n1, r1))

Add(i, kind, name, parent) == [op |-> "create", id |-> i, kind |-> kind, name |-> name, parent |-> parent]
Set(i, name, parent) == [op |-> "change", id |-> i, name |-> name, parent |-> parent]
Drop(i) == [op |-> "remove", id |-> i]

MCRecordWork == Idle \union
  {Pair(Add(r3, k, n1, Nothing), Add(r4, k, n1, Nothing)) : k \in {"customer", "category", "item"}} \union
  {Pair(Add(r3, "customer", NoName, Nothing), Set(r1, n2, Keep)),
   Pair(Add(r3, "customer", n2, Nothing), Set(r1, n2, Keep)),
   Pair(Add(r3, "equipment", n2, r1), Drop(r1)),
   Pair(Add(r3, "equipment", n2, r1), Set(r2, n2, Nothing)),
   Pair(Add(r3, "attribute", n1, r2), Add(r4, "attribute", n1, r2)),
   Pair(Add(r3, "attribute", n1, r2), Drop(r2)),
   Pair(Add(r3, "contract", n1, r1), Add(r4, "contract", n1, r1)),
   Pair(Add(r3, "contract", n1, r1), Drop(r1)),
   Pair(Set(r2, n2, Nothing), Drop(r2)),
   Pair(Set(r2, Keep, Nothing), Drop(r1)),
   Pair(Drop(r2), Drop(r1))}
MCThree == {[x \in {a, b, c} |-> IF x \in DOMAIN w THEN w[x] ELSE Nobody] : w \in MCRecordWork} \union
  {(a :> Add(r3, k, n1, Nothing)) @@ (b :> Add(r4, k, n2, Nothing)) @@ (c :> y) :
     k \in {"category", "item"}, y \in {Set(r3, n2, Keep), Drop(r4)}} \union
  {(a :> Add(r3, "contract", n1, r1)) @@ (b :> Add(r4, "contract", n2, r1)) @@ (c :> y) :
     y \in {Set(r4, n1, r1), Drop(r3)}} \union
  {(a :> Add(r3, "attribute", n1, r2)) @@ (b :> Set(r3, n2, Keep)) @@ (c :> Drop(r3))}

MCRecordPushes ==
  {Add(r5, "customer", n2, Nothing), Add(r6, "equipment", n1, r1),
   [op |-> "update", id |-> r1, name |-> n2], [op |-> "delete", id |-> r3]}

(* Orders, contracts and policies *)

MCForms == {[kind |-> k, priority |-> p, span |-> s, active |-> s = 1] :
              k \in {Unset, "workshop_intake_contract"}, p \in {Unset, "high"}, s \in {0, 1}}
           \union {[kind |-> Unset, priority |-> Unset, span |-> 0, active |-> TRUE]}
Covers(max, from, to) ==
  [customer |-> ana, kinds |-> ContractKinds, max |-> max, from |-> from, to |-> to, active |-> TRUE]
MCContracts == (k1 :> Covers(1, Never, Never)) @@
               (k2 :> [Covers(0, 1, 2) EXCEPT !.kinds = {"field_service_contract"}])

Ask(by, kind, k, who) ==
  [by |-> by, kind |-> kind, priority |-> "high", contract |-> k, customer |-> who,
   came |-> Never, promised |-> Never]
Portal(kind, k) == Ask("portal", kind, k, ana)
Shop == "workshop_intake_contract"
Field == "field_service_contract"
Manager(forms) == [by |-> "manager", forms |-> forms]
ForContracts == [kind |-> Shop, priority |-> Unset, span |-> 1, active |-> TRUE]
Update(k, data) == [by |-> "office", contract |-> k, data |-> data]

Trio(x, y, z) == (a :> x) @@ (b :> y) @@ (c :> z)
MCIntakeWork ==
  {Trio(Portal(Shop, k1), Portal(Field, k1), Portal(Shop, k1)),
   Trio(Portal(Shop, k1), Ask("desk", Shop, k1, ana), Portal(Field, k2)),
   Trio(Ask("desk", "workshop_intake", NoTerms, luis), Ask("desk", Shop, k2, luis),
        [Ask("desk", "field_service", NoTerms, luis) EXCEPT !.promised = 0, !.came = 1]),
   Trio(Update(k2, [from |-> 2] @@ [max |-> 1]), Update(k2, [to |-> 1]), Portal(Field, k2)),
   Trio(Update(k2, [to |-> 0]), Update(k1, [active |-> FALSE]), Portal(Shop, k1)),
   Trio(Portal(Shop, k1), Portal(Field, k1), Manager({ForContracts})),
   Trio(Manager(MCForms), Nobody, Nobody), Trio(Nobody, Nobody, Nobody)}

(* Documents *)

MCFresh == (o1 :> [status |-> "completed", code |-> NoCode]) @@
           (o2 :> [status |-> "received", code |-> v1])
Paper(task, o, type, formats) ==
  [task |-> task, order |-> o, type |-> type, formats |-> formats]
Deliver  == Paper("deliver", o1, "delivery_receipt", <<"a4", "thermal">>)
Intake   == Paper("intake", o2, "workshop_intake", <<"a4", "thermal">>)
Again(o) == Paper("generate", o, "workshop_intake", <<"a4">>)
Receipt(o) == Paper("generate", o, "delivery_receipt", <<"thermal">>)
Summary(o) == Paper("summary", o, "workshop_intake", <<>>)

MCPrintWork ==
  {Pair(Deliver, Receipt(o1)), Pair(Intake, Again(o2)), Pair(Again(o1), Again(o1)),
   Pair(Receipt(o2), Summary(o2)), Pair(Again(o1), Summary(o1)), Pair(Deliver, Deliver),
   Pair(Nobody, Nobody)}

(* Stock: any two requests on one item; a cfg file has no negative numbers. *)

MCDeltas == {-2, 0, 1}

(* A run looks at one of the four. *)

Filing    == \E x \in Clerks : Job(x) # Nobody
Receiving == \E t \in Takers : Task(t) # Nobody
Printing  == \E p \in Printers : Asks(p) # Nobody

Stocking  == ~Filing /\ ~Receiving /\ ~Printing

MCInit ==
  /\ RecordInit /\ IntakeInit /\ DocumentInit /\ Init
  /\ Cardinality({x \in {1, 2, 3} : <<Filing, Receiving, Printing>>[x]}) <= 1

MCNext ==
  \/ Filing /\ RecordNext /\ UNCHANGED <<intakeVars, documentVars, vars>>
  \/ Receiving /\ IntakeNext /\ UNCHANGED <<recordVars, documentVars, vars>>
  \/ Printing /\ DocumentNext /\ UNCHANGED <<recordVars, intakeVars, vars>>
  \/ Stocking /\ (Next \/ Push) /\ UNCHANGED <<recordVars, intakeVars, documentVars>>

MCSpec == MCInit /\ [][MCNext]_<<recordVars, intakeVars, documentVars, vars>>

StockSymmetry == Permutations(Requests)
=============================================================================
