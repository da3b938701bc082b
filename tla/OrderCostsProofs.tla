--------------------------- MODULE OrderCostsProofs ---------------------------
(***************************************************************************)
(* For any requests, lines, amounts and pushed columns: the commit of an   *)
(* edit that nothing has overlapped leaves the columns of the order in     *)
(* agreement with its lines.                                               *)
(*                                                                         *)
(* What is computed agrees with the lines it was computed from, always     *)
(* (RecomputedAgrees); the commit then writes only what differs from what  *)
(* was loaded.  So the proof is about what a request carries from its      *)
(* reading to its commit (Carries): as long as nothing overlaps it, what   *)
(* it loaded is what there is, and the lines it sees are those its commit  *)
(* leaves.  A commit overlaps every request that is under way, which       *)
(* is why it disturbs no other.                                            *)
(***************************************************************************)
EXTENDS OrderCosts, TLAPS

\* The three columns of an order, and the two of a line.
AreCosts(c) == c = [f \in {"parts", "labor", "total"} |-> c[f]]
IsLine(v)   == v = [f \in {"category", "amount"} |-> v[f]]

\* The fields of a request.
IsRequest(q) ==
  /\ q = [pc |-> q.pc, op |-> q.op, line |-> q.line, seen |-> q.seen, value |-> q.value,
          loaded |-> q.loaded, next |-> q.next, overlapped |-> q.overlapped]
  /\ AreCosts(q.next) /\ IsLine(q.value) /\ q.overlapped \in BOOLEAN

\* What request q sees of the lines of the order.
Sees(q, rows) ==
  CASE q.op = "add"                             -> Put(rows, q.line, q.value)
    [] q.op = "delete"                          -> Without(rows, q.line)
    [] q.op = "update" /\ q.line \in DOMAIN rows -> Put(rows, q.line, q.value)
    [] OTHER                                    -> rows

\* What a request carries that nothing has overlapped: the columns and the line are as it
\* has read them, and the columns it has computed agree with the lines it sees.
Carries(q, rows, c) ==
  q.pc # "idle" /\ ~q.overlapped =>
    /\ q.loaded = c
    /\ q.op = "update" /\ q.line \in DOMAIN rows => q.seen = rows[q.line]
    /\ q.pc = "computed" /\ q.op # "push" => Agree(Sees(q, rows), q.next)

CostsInv ==
  /\ AreCosts(costs)
  /\ req = [r \in Requests |-> req[r]]
  /\ \A r \in Requests : IsRequest(req[r]) /\ Carries(req[r], lines, costs)

\* What a view of the request is, in the words of the model.
LEMMA SeesView == \A r \in Requests : View(r) = Sees(req[r], lines)
BY DEF View, Sees

\* Whatever there was before, what is computed agrees with the lines it is computed from.
LEMMA RecomputedAgrees ==
  ASSUME NEW view, NEW base
  PROVE  AreCosts(Recomputed(view, base)) /\ Agree(view, Recomputed(view, base))
<1>1. CASE DOMAIN view = {}
  <2> DEFINE c == [parts |-> base.parts, labor |-> base.labor, total |-> base.parts + base.labor]
  <2>1. Recomputed(view, base) = c BY <1>1 DEF Recomputed
  <2>2. AreCosts(c) BY DEF AreCosts
  <2>3. c.total = c.parts + c.labor OBVIOUS
  <2> QED BY <1>1, <2>1, <2>2, <2>3 DEF Agree
<1>2. CASE DOMAIN view # {}
  <2> DEFINE c == [parts |-> SumOf(view, {"parts"}), labor |-> SumOf(view, {"labor"}),
                   total |-> SumOf(view, Category)]
  <2>1. Recomputed(view, base) = c BY <1>2 DEF Recomputed
  <2>2. AreCosts(c) BY DEF AreCosts
  <2>3. c.parts = SumOf(view, {"parts"}) /\ c.labor = SumOf(view, {"labor"}) /\ c.total = SumOf(view, Category)
    OBVIOUS
  <2> QED BY <1>2, <2>1, <2>2, <2>3 DEF Agree
<1> QED BY <1>1, <1>2

\* A step that moves one request keeps the invariant when that request is well.
LEMMA OneMoves ==
  ASSUME CostsInv, NEW r \in Requests, NEW q, req' = [req EXCEPT ![r] = q],
         UNCHANGED <<lines, costs>>, IsRequest(q), Carries(q, lines, costs)
  PROVE  CostsInv'
<1>1. DOMAIN req = Requests BY DEF CostsInv
<1>2. req' = [s \in Requests |-> req'[s]] BY <1>1
<1>3. \A s \in Requests : IsRequest(req'[s]) /\ Carries(req'[s], lines, costs)
  BY <1>1 DEF CostsInv
<1>4. \A s \in Requests : Carries(req'[s], lines', costs') BY <1>3
<1> QED BY <1>2, <1>3, <1>4 DEF CostsInv

\* A request that begins carries the columns and the line it has just read.
LEMMA LoadKeeps ==
  ASSUME CostsInv, NEW r \in Requests, NEW op \in Op, NEW l, NEW value, NEW fields,
         Load(r, op, l, value, fields), IsLine(value), AreCosts(fields)
  PROVE  CostsInv'
<1> DEFINE q == [pc |-> "loaded", op |-> op, line |-> l, value |-> value,
                 seen |-> IF op = "update" THEN lines[l] ELSE NewLine,
                 loaded |-> costs, next |-> fields, overlapped |-> FALSE]
<1>1. req' = [req EXCEPT ![r] = q] /\ UNCHANGED <<lines, costs>> BY DEF Load
<1>2. IsRequest(q) BY DEF IsRequest
<1>3. Carries(q, lines, costs) BY DEF Carries
<1> QED BY <1>1, <1>2, <1>3, OneMoves

\* What is computed agrees with what the request sees (or is what was pushed).
LEMMA RecomputeKeeps ==
  ASSUME CostsInv, NEW r \in Requests, Recompute(r)
  PROVE  CostsInv'
<1> DEFINE o == req[r]
           n == CASE o.op = "push" -> o.next
                  [] o.op = "put"  -> Recomputed(View(r), o.next)
                  [] OTHER         -> Recomputed(View(r), o.loaded)
           q == [o EXCEPT !.pc = "computed", !.next = n]
<1>1. o.pc = "loaded" /\ UNCHANGED <<lines, costs>>
      /\ req' = [req EXCEPT ![r].pc = "computed",
                            ![r].next = CASE o.op = "push" -> @
                                          [] o.op = "put"  -> Recomputed(View(r), @)
                                          [] OTHER         -> Recomputed(View(r), o.loaded)]
  BY DEF Recompute
<1>2. IsRequest(o) /\ Carries(o, lines, costs) /\ DOMAIN req = Requests BY DEF CostsInv
<1>3. req' = [req EXCEPT ![r] = q] BY <1>1, <1>2 DEF IsRequest
<1>4. AreCosts(n) /\ (o.op # "push" => Agree(Sees(o, lines), n))
  BY <1>2, RecomputedAgrees, SeesView DEF IsRequest
<1> HIDE DEF n
<1>5. q = [pc |-> "computed", op |-> o.op, line |-> o.line, seen |-> o.seen, value |-> o.value,
           loaded |-> o.loaded, next |-> n, overlapped |-> o.overlapped]
  <2> DEFINE h == [o EXCEPT !.pc = "computed"]
  <2>1. h = [pc |-> "computed", op |-> o.op, line |-> o.line, seen |-> o.seen, value |-> o.value,
             loaded |-> o.loaded, next |-> o.next, overlapped |-> o.overlapped]
    BY <1>2 DEF IsRequest
  <2>2. q = [h EXCEPT !.next = n] OBVIOUS
  <2> HIDE DEF h
  <2> QED BY <2>1, <2>2
<1> HIDE DEF q
<1>6. q.op = o.op /\ q.line = o.line /\ q.seen = o.seen /\ q.value = o.value
      /\ q.loaded = o.loaded /\ q.next = n /\ q.overlapped = o.overlapped /\ q.pc = "computed"
  BY <1>5
<1>7. IsRequest(q) BY <1>2, <1>4, <1>5, <1>6 DEF IsRequest
<1>8. Sees(q, lines) = Sees(o, lines) BY <1>6 DEF Sees
<1>9. Carries(q, lines, costs) BY <1>1, <1>2, <1>4, <1>6, <1>8 DEF Carries
<1> QED BY <1>1, <1>3, <1>7, <1>9, OneMoves

\* The end of a request: it is idle, and a commit has overlapped the others.
LEMMA FinishEffect ==
  ASSUME CostsInv, NEW r \in Requests, NEW committed \in BOOLEAN, Finish(r, committed)
  PROVE  /\ req' = [s \in Requests |-> req'[s]]
         /\ req'[r] = IdleRequest
         /\ \A s \in Requests \ {r} :
              /\ IsRequest(req'[s])
              /\ req[s].pc = "idle" => req'[s].pc = "idle"
              /\ ~committed => req'[s] = req[s]
              /\ committed /\ req[s].pc # "idle" => req'[s].overlapped
<1>1. req' = [s \in Requests |-> IF s = r THEN IdleRequest
               ELSE [req[s] EXCEPT !.overlapped = @ \/ (committed /\ req[s].pc # "idle")]]
  BY DEF Finish
<1>2. ASSUME NEW s \in Requests \ {r}
      PROVE  /\ IsRequest(req'[s])
             /\ req[s].pc = "idle" => req'[s].pc = "idle"
             /\ ~committed => req'[s] = req[s]
             /\ committed /\ req[s].pc # "idle" => req'[s].overlapped
  <2> DEFINE o == req[s]
             v == o.overlapped \/ (committed /\ o.pc # "idle")
             q == [o EXCEPT !.overlapped = v]
  <2>1. IsRequest(o) BY DEF CostsInv
  <2>2. req'[s] = q BY <1>1
  <2> HIDE DEF v
  <2>3. q = [pc |-> o.pc, op |-> o.op, line |-> o.line, seen |-> o.seen, value |-> o.value,
             loaded |-> o.loaded, next |-> o.next, overlapped |-> v]
    BY <2>1 DEF IsRequest
  <2> HIDE DEF q
  <2>4. q.pc = o.pc /\ q.next = o.next /\ q.value = o.value /\ q.overlapped = v BY <2>3
  <2>5. IsRequest(q)
    <3>1. v \in BOOLEAN BY <2>1 DEF v, IsRequest
    <3> QED BY <2>1, <2>3, <2>4, <3>1 DEF IsRequest
  <2>6. committed /\ o.pc # "idle" => v BY DEF v
  <2>7. v \in BOOLEAN /\ (~committed => v = o.overlapped) BY <2>1 DEF v, IsRequest
  <2>8. ~committed => q = o BY <2>1, <2>3, <2>7 DEF IsRequest
  <2> QED BY <2>2, <2>4, <2>5, <2>6, <2>8
<1> QED BY <1>1, <1>2

\* A request that is over carries nothing.
LEMMA IdleIs == IsRequest(IdleRequest) /\ IdleRequest.pc = "idle"
BY DEF IsRequest, IdleRequest, AreCosts, IsLine, Zero, NewLine

\* A commit overlaps the requests under way, so none of them carries anything.
LEMMA CommitKeeps ==
  ASSUME CostsInv, NEW r \in Requests, Commit(r)
  PROVE  CostsInv'
<1>1. Finish(r, TRUE) /\ costs' = Written(r) BY DEF Commit
<1>2. AreCosts(costs') BY <1>1 DEF Written, AreCosts
<1>3. \A s \in Requests : IsRequest(req'[s]) /\ (req'[s].pc = "idle" \/ req'[s].overlapped)
  BY <1>1, FinishEffect, IdleIs
<1>4. \A s \in Requests : Carries(req'[s], lines', costs') BY <1>3 DEF Carries
<1>5. req' = [s \in Requests |-> req'[s]] BY <1>1, FinishEffect
<1> QED BY <1>2, <1>3, <1>4, <1>5 DEF CostsInv

\* A rollback changes nothing for the others.
LEMMA RollbackKeeps ==
  ASSUME CostsInv, NEW r \in Requests, Rollback(r)
  PROVE  CostsInv'
<1>1. Finish(r, FALSE) /\ UNCHANGED <<lines, costs>> BY DEF Rollback
<1>2. \A s \in Requests \ {r} : req'[s] = req[s] BY <1>1, FinishEffect
<1>3. req'[r] = IdleRequest /\ req' = [s \in Requests |-> req'[s]] BY <1>1, FinishEffect
<1>4. Carries(IdleRequest, lines, costs) BY IdleIs DEF Carries
<1>5. \A s \in Requests : IsRequest(req'[s]) /\ Carries(req'[s], lines, costs)
  BY <1>2, <1>3, <1>4, IdleIs DEF CostsInv
<1>6. \A s \in Requests : Carries(req'[s], lines', costs') BY <1>1, <1>5
<1> QED BY <1>1, <1>3, <1>5, <1>6 DEF CostsInv

\* Every operation begins by reading.
LEMMA EditKeeps ==
  ASSUME CostsInv, NEW r \in Requests, Edit(r) \/ Push(r)
  PROVE  CostsInv'
<1>1. AreCosts(Zero) /\ IsLine(NewLine) BY DEF AreCosts, IsLine, Zero, NewLine
<1>2. \A v \in Line : IsLine(v) BY DEF Line, IsLine
<1>3. \A c \in PushedCosts : AreCosts(c) BY PushedAssumption DEF AreCosts
<1>4. \A p, b \in Amounts \cup {0} : AreCosts([parts |-> p, labor |-> b, total |-> 0]) BY DEF AreCosts
<1>5. \A op \in {"add", "update", "delete", "touch", "put", "push"} : op \in Op BY DEF Op
<1>6. CASE \E op \in {"add", "update"}, l \in Lines, value \in Line : Load(r, op, l, value, Zero)
  BY <1>1, <1>2, <1>5, <1>6, LoadKeeps
<1>7. CASE \E l \in Lines : Load(r, "delete", l, NewLine, Zero) BY <1>1, <1>5, <1>7, LoadKeeps
<1>8. CASE Load(r, "touch", NoLine, NewLine, Zero) BY <1>1, <1>5, <1>8, LoadKeeps
<1>9. CASE \E p, b \in Amounts \cup {0} :
             Load(r, "put", NoLine, NewLine, [parts |-> p, labor |-> b, total |-> 0])
  BY <1>1, <1>4, <1>5, <1>9, LoadKeeps
<1>10. CASE Push(r) BY <1>1, <1>3, <1>5, <1>10, LoadKeeps DEF Push
<1> QED BY <1>6, <1>7, <1>8, <1>9, <1>10 DEF Edit

\* Nothing is under way at the start.
LEMMA CostsStart == ASSUME Init PROVE CostsInv
<1>1. lines = [l \in {} |-> NewLine] /\ costs = Zero /\ req = [r \in Requests |-> IdleRequest] BY DEF Init
<1>2. AreCosts(costs) BY <1>1 DEF AreCosts, Zero
<1>3. \A r \in Requests : IsRequest(req[r]) /\ Carries(req[r], lines, costs) BY <1>1, IdleIs DEF Carries
<1> QED BY <1>1, <1>2, <1>3 DEF CostsInv

\* Every step of the requests and of the pushes keeps the invariant.
LEMMA CostsKeep == CostsInv /\ [Next \/ \E r \in Requests : Push(r)]_vars => CostsInv'
<1> SUFFICES ASSUME CostsInv, [Next \/ \E r \in Requests : Push(r)]_vars PROVE CostsInv' OBVIOUS
<1>1. CASE UNCHANGED vars BY <1>1 DEF vars, CostsInv
<1>2. CASE \E r \in Requests : Edit(r) \/ Push(r) BY <1>2, EditKeeps
<1>3. CASE \E r \in Requests : Step(r) BY <1>3, RecomputeKeeps, CommitKeeps, RollbackKeeps DEF Step
<1> QED BY <1>1, <1>2, <1>3 DEF Next

\* The commit of a request that nothing has overlapped writes what it has computed.
LEMMA CommitRestores ==
  ASSUME CostsInv, NEW r \in Requests, Commit(r), req[r].op # "push", ~req[r].overlapped
  PROVE  Agree(lines', costs')
<1> DEFINE q == req[r]
<1>1. q.pc = "computed" /\ lines' = WrittenLines(r) /\ costs' = Written(r) BY DEF Commit
<1>2. IsRequest(q) /\ Carries(q, lines, costs) BY DEF CostsInv
<1>3. /\ q.loaded = costs /\ Agree(Sees(q, lines), q.next)
      /\ q.op = "update" /\ q.line \in DOMAIN lines => q.seen = lines[q.line]
  BY <1>1, <1>2 DEF Carries
<1>4. costs' = q.next
  <2>1. costs' = [f \in {"parts", "labor", "total"} |-> IF q.next[f] = q.loaded[f] THEN costs[f] ELSE q.next[f]]
    BY <1>1 DEF Written
  <2>2. costs' = [f \in {"parts", "labor", "total"} |-> q.next[f]] BY <1>3, <2>1
  <2> QED BY <1>2, <2>2 DEF IsRequest, AreCosts
<1>5. lines' = Sees(q, lines)
  <2>1. CASE q.op = "update" /\ q.line \in DOMAIN lines
    <3> DEFINE merged == [f \in {"category", "amount"} |->
                            IF q.value[f] = q.seen[f] THEN lines[q.line][f] ELSE q.value[f]]
    <3>1. lines' = Put(lines, q.line, merged) BY <1>1, <2>1 DEF WrittenLines
    <3>2. merged = q.value BY <1>2, <1>3, <2>1 DEF IsRequest, IsLine
    <3>3. Sees(q, lines) = Put(lines, q.line, q.value) BY <2>1 DEF Sees
    <3> HIDE DEF merged
    <3> QED BY <3>1, <3>2, <3>3
  <2>2. CASE ~ (q.op = "update" /\ q.line \in DOMAIN lines)
    BY <1>1, <2>2, SeesView DEF WrittenLines
  <2> QED BY <2>1, <2>2
<1> QED BY <1>3, <1>4, <1>5

\* Add, change or delete a line, touch an order or put its columns: the commit of a request
\* that no other commit has overlapped leaves the columns in agreement with the lines.
THEOREM UndisturbedAgree == SpecWithPush => UndisturbedRestores
<1>1. Init => CostsInv BY CostsStart
<1>2. CostsInv /\ [Next \/ \E r \in Requests : Push(r)]_vars =>
        [\A r \in Requests : Commit(r) /\ req[r].op # "push" /\ ~req[r].overlapped => Agree(lines', costs')]_vars
  BY CommitRestores
<1> QED BY <1>1, <1>2, CostsKeep, PTL DEF SpecWithPush, UndisturbedRestores
=============================================================================
