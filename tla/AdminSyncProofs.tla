--------------------------- MODULE AdminSyncProofs ---------------------------
(***************************************************************************)
(* For any number of pushes and desktops, any batches and any clocks: what *)
(* a push stores replaces nothing that is later, if nobody else was there  *)
(* since it read, and what it stores it announces unless it is cut off.    *)
(*                                                                         *)
(* Both are about the end of a push and need what it carries until then:   *)
(* the row and the company it has changed are as they were loaded or later *)
(* (Forward), and it has stored nothing while it applies its batch and has *)
(* announced what it stored by the time it registers (Progress).           *)
(*                                                                         *)
(* The third is about the pulls: as long as commits come in the order of   *)
(* their dates, what a desktop lacks is dated after its cursor (Holds), so *)
(* that the filter of an incremental pull lets through all it needs.       *)
(***************************************************************************)
EXTENDS AdminSync, TLAPS

Forward(q) ==
  /\ q.mine # Absent => q.base # Absent /\ q.mine.at >= q.base.at
  /\ q.mine = Absent => q.base = Absent
  /\ q.cmine # Absent => q.cbase # Absent /\ q.cmine.at >= q.cbase.at

Progress(q) ==
  /\ q.pc = "apply" => ~q.stored /\ Forward(q)
  /\ q.pc = "register" => q.announced
  /\ q.pc = "bumping" => q.cbase # Absent
  /\ q.pc = "ended" /\ q.stored /\ q.answer # "lost" => q.announced

PushType ==
  [pc : {"ended", "apply", "bump", "bumping", "register"},
   batch : Seq(Mutations), i : Nat \ {0}, base : MaybeRow, mine : MaybeRow,
   made : Nat, fresh : MaybeRow, cbase : MaybeCompany, cmine : MaybeCompany,
   applied : BOOLEAN, stored : BOOLEAN, announced : BOOLEAN,
   answer : {"none", "ok", "forbidden", "error", "lost"}]

PushInv ==
  /\ now \in Times
  /\ kind \in Kinds
  /\ rec \in MaybeRow
  /\ company \in Companies
  /\ req \in [Requests -> PushType]
  /\ \A p \in Requests : Progress(req[p])
  /\ \A p \in Requests : req[p].made = 1 => req[p].fresh # Absent

USE KindsAssumption, BatchesAssumption, AbsentAssumption, TimeAssumption, ValsAssumption

----------------------------------------------------------------------------
(* Rows *)

LEMMA TimesAreNumbers == Times \subseteq Nat
BY DEF Times

LEMMA RowAt ==
  /\ \A r \in Rows : r.at \in Nat /\ r # Absent
  /\ \A r \in Companies : r.at \in Nat /\ r # Absent
<1>1. \A r \in Rows : r.at \in Times
  BY DEF Rows
<1>2. \A r \in Companies : r.at \in Times
  BY DEF Companies
<1> QED BY <1>1, <1>2, TimesAreNumbers

\* A mutation leaves a well-formed row, dated by itself.
LEMMA ChangedRowFacts ==
  ASSUME NEW row \in Rows, NEW m \in Mutations
  PROVE  ChangedRow(row, m) \in Rows /\ ChangedRow(row, m).at = m.at
<1>1. m.at \in Times /\ m.val \in Vals
  BY DEF Mutations
<1>2. row.val \in Vals /\ row.active \in BOOLEAN
  BY DEF Rows
<1>3. (IF m.op \in Handler.change /\ ~m.bad THEN m.val ELSE row.val) \in Vals
  BY <1>1, <1>2
<1>4. (row.active /\ m.op \notin Handler.retire) \in BOOLEAN
  OBVIOUS
<1> QED BY <1>1, <1>3, <1>4 DEF ChangedRow, Rows

LEMMA CreatedRowFacts ==
  ASSUME NEW m \in Mutations
  PROVE  CreatedRow(m) \in Rows
BY DEF CreatedRow, Rows, Mutations

LEMMA ChangedCompanyFacts ==
  ASSUME NEW row \in Companies, NEW m \in Mutations
  PROVE  ChangedCompany(row, m) \in Companies /\ ChangedCompany(row, m).at = m.at
BY DEF ChangedCompany, Companies, Mutations

----------------------------------------------------------------------------
(* A push *)

\* A push that changes only its own entry keeps the invariant if the entry is good.
LEMMA EntryStep ==
  ASSUME PushInv, NEW p \in Requests, NEW q \in PushType, Progress(q),
         q.made = 1 => q.fresh # Absent,
         req' = [req EXCEPT ![p] = q],
         now' \in Times, kind' = kind, rec' \in MaybeRow, company' \in Companies
  PROVE  PushInv'
<1>1. req' \in [Requests -> PushType]
  BY DEF PushInv
<1>2. \A o \in Requests : req'[o] = IF o = p THEN q ELSE req[o]
  BY DEF PushInv
<1>3. \A o \in Requests : Progress(req'[o])
  BY <1>2 DEF PushInv
<1>4. \A o \in Requests : req'[o].made = 1 => req'[o].fresh # Absent
  BY <1>2 DEF PushInv
<1>5. \A o \in Requests : Progress(req[o])'
  BY <1>3 DEF Progress, Forward
<1> QED BY <1>1, <1>4, <1>5 DEF PushInv

LEMMA NoPushFacts == NoPush \in PushType /\ Progress(NoPush) /\ NoPush.made = 0
<1>1. <<>> \in Seq(Mutations)
  OBVIOUS
<1> QED BY <1>1 DEF NoPush, PushType, Progress, MaybeRow, MaybeCompany

\* What remains of a push that is over is good if it announced what it stored.
LEMMA EndedFacts ==
  ASSUME NEW q \in PushType, NEW a \in {"ok", "forbidden", "error", "lost"},
         q.stored /\ a # "lost" => q.announced
  PROVE  /\ Ended(q, a) \in PushType /\ Progress(Ended(q, a))
         /\ Ended(q, a).made # 1
<1>2. PICK s \in BOOLEAN, n \in BOOLEAN : s = q.stored /\ n = q.announced
  BY DEF PushType
<1>3. Ended(q, a) = [NoPush EXCEPT !.answer = a, !.stored = s, !.announced = n]
  BY <1>2 DEF Ended
<1>4. Ended(q, a) \in PushType /\ Ended(q, a).stored = s /\ Ended(q, a).announced = n
  BY <1>3, NoPushFacts DEF PushType
<1>5. Ended(q, a).pc = "ended" /\ Ended(q, a).made = 0 /\ Ended(q, a).answer = a
  BY <1>3 DEF NoPush
<1>6. s /\ a # "lost" => n
  BY <1>2
<1> QED BY <1>4, <1>5, <1>6 DEF Progress

LEMMA EndStep ==
  ASSUME PushInv, NEW p \in Requests, NEW a \in {"ok", "forbidden", "error", "lost"},
         req' = [req EXCEPT ![p] = Ended(req[p], a)],
         req[p].stored /\ a # "lost" => req[p].announced,
         UNCHANGED <<now, kind, rec, company>>
  PROVE  PushInv'
<1>1. PICK q \in PushType : q = req[p]
  BY DEF PushInv
<1>2. Ended(q, a) \in PushType /\ Progress(Ended(q, a)) /\ Ended(q, a).made # 1
  BY <1>1, EndedFacts
<1>3. PICK e \in PushType : e = Ended(q, a) /\ Progress(e) /\ e.made # 1
  BY <1>2
<1>4. req' = [req EXCEPT ![p] = e]
  BY <1>1, <1>3
<1> QED BY <1>3, <1>4, EntryStep DEF PushInv

LEMMA StartStep ==
  ASSUME PushInv, NEW p \in Requests, NEW b \in Batches, StartPush(p, b)
  PROVE  PushInv'
<1> DEFINE q == [NoPush EXCEPT !.pc = "apply", !.batch = b]
<1>1. b \in Seq(Mutations)
  OBVIOUS
<1>2. /\ q \in PushType /\ q.pc = "apply" /\ ~q.stored /\ q.made = 0
      /\ q.mine = Absent /\ q.base = Absent /\ q.cmine = Absent
  BY <1>1, NoPushFacts DEF NoPush, PushType, MaybeRow, MaybeCompany
<1>3. Progress(q)
  BY <1>2 DEF Progress, Forward
<1>4. req' = [req EXCEPT ![p] = q] /\ UNCHANGED <<now, kind, rec, company>>
  BY DEF StartPush
<1> HIDE DEF q
<1> QED BY <1>2, <1>3, <1>4, EntryStep DEF PushInv

LEMMA RefuseStep ==
  ASSUME PushInv, NEW p \in Requests, RefusePush(p)
  PROVE  PushInv'
<1>1. req[p] = NoPush /\ req' = [req EXCEPT ![p] = Ended(req[p], "forbidden")]
  BY DEF RefusePush
<1>2. ~req[p].stored
  BY <1>1 DEF NoPush
<1> QED BY <1>1, <1>2, EndStep DEF RefusePush

\* What a push sees of the record is later than, or is, what it has loaded.
LEMMA RecordAppliedFacts ==
  ASSUME PushInv, NEW q \in PushType, q.pc = "apply", Progress(q),
         q.made = 1 => q.fresh # Absent,
         NEW m \in Mutations, NEW a \in RecordAnswers(RecordSeen(q), m), a # "raised"
  PROVE  /\ RecordApplied(q, m, a) \in PushType
         /\ Progress(RecordApplied(q, m, a))
         /\ RecordApplied(q, m, a).pc = "apply"
         /\ RecordApplied(q, m, a).made = 1 => RecordApplied(q, m, a).fresh # Absent
<1> DEFINE x == RecordApplied(q, m, a)
<1>1. q.mine \in MaybeRow /\ q.base \in MaybeRow /\ rec \in MaybeRow /\ q.made \in Nat
  BY DEF PushInv, PushType
<1>2. ~q.stored /\ Forward(q)
  BY DEF Progress
<1>3. CASE a # "applied"
  BY <1>3 DEF RecordApplied
<1>4. CASE a = "applied" /\ m.op = "create" /\ RecordSeen(q) # Absent
  <2>1. x = [q EXCEPT !.applied = TRUE]
    BY <1>4 DEF RecordApplied
  <2>2. /\ x \in PushType /\ x.pc = "apply" /\ ~x.stored /\ x.made = q.made /\ x.fresh = q.fresh
        /\ x.mine = q.mine /\ x.base = q.base /\ x.cmine = q.cmine /\ x.cbase = q.cbase
    BY <1>2, <2>1 DEF PushType
  <2> QED BY <1>2, <2>2 DEF Progress, Forward
<1>5. CASE a = "applied" /\ m.op = "create" /\ RecordSeen(q) = Absent
  <2>1. PICK r \in Rows : r = CreatedRow(m)
    BY CreatedRowFacts
  <2>2. r \in MaybeRow /\ r # Absent
    BY RowAt DEF MaybeRow
  <2>3. PICK n \in Nat, f \in MaybeRow :
           n = q.made + 1 /\ f = IF q.made = 0 THEN r ELSE q.fresh
    BY <1>1, <2>2 DEF PushType
  <2>4. x = [q EXCEPT !.applied = TRUE, !.made = n, !.fresh = f]
    BY <1>5, <2>1, <2>3 DEF RecordApplied
  <2>5. /\ x \in PushType /\ x.pc = "apply" /\ ~x.stored /\ x.made = n /\ x.fresh = f
        /\ x.mine = q.mine /\ x.base = q.base /\ x.cmine = q.cmine /\ x.cbase = q.cbase
    BY <1>2, <2>4 DEF PushType
  <2>6. n = 1 => f # Absent
    BY <1>1, <2>2, <2>3
  <2> QED BY <1>2, <2>5, <2>6 DEF Progress, Forward
<1>6. CASE a = "applied" /\ m.op # "create"
  <2>1. RecordSeen(q) # Absent /\ ~Stale(RecordSeen(q), m)
    BY <1>6 DEF RecordAnswers
  <2>2. RecordSeen(q) \in Rows
    BY <1>1, <2>1 DEF RecordSeen, MaybeRow
  <2>3. PICK s \in Rows : s = RecordSeen(q)
    BY <2>2
  <2>4. PICK r \in Rows : r = ChangedRow(s, m) /\ r.at = m.at
    BY ChangedRowFacts
  <2>5. PICK b \in MaybeRow : b = IF q.mine # Absent THEN q.base ELSE rec
    BY <1>1
  <2>6. x = [q EXCEPT !.applied = TRUE, !.base = b, !.mine = r]
    BY <1>6, <2>3, <2>4, <2>5 DEF RecordApplied
  <2>7. r \in MaybeRow /\ r # Absent
    BY RowAt DEF MaybeRow
  <2>8. /\ x \in PushType /\ x.pc = "apply" /\ ~x.stored /\ x.made = q.made /\ x.fresh = q.fresh
        /\ x.mine = r /\ x.base = b /\ x.cmine = q.cmine /\ x.cbase = q.cbase
    BY <1>2, <2>6, <2>7 DEF PushType
  <2>9. b # Absent /\ r.at >= b.at
    <3>1. m.at \in Nat
      BY TimesAreNumbers DEF Mutations
    <3>2. m.at >= s.at /\ s.at \in Nat
      BY <2>1, <2>3, <3>1, RowAt DEF Stale
    <3>3. CASE q.mine # Absent
      <4>1. s = q.mine /\ b = q.base
        BY <2>3, <2>5, <3>3 DEF RecordSeen
      <4>2. b # Absent /\ s.at >= b.at
        BY <1>2, <3>3, <4>1 DEF Forward
      <4>3. b.at \in Nat
        BY <4>2, RowAt DEF MaybeRow
      <4> QED BY <2>4, <3>1, <3>2, <4>2, <4>3
    <3>4. CASE q.mine = Absent
      <4>1. s = rec /\ b = rec
        BY <2>3, <2>5, <3>4 DEF RecordSeen
      <4> QED BY <2>4, <3>2, <4>1, RowAt
    <3> QED BY <3>3, <3>4
  <2> QED BY <1>2, <2>7, <2>8, <2>9 DEF Progress, Forward
<1> QED BY <1>3, <1>4, <1>5, <1>6

LEMMA CompanyAppliedFacts ==
  ASSUME PushInv, NEW q \in PushType, q.pc = "apply", Progress(q),
         q.made = 1 => q.fresh # Absent, NEW m \in Mutations
  PROVE  /\ CompanyApplied(q, m) \in PushType
         /\ Progress(CompanyApplied(q, m))
         /\ CompanyApplied(q, m).pc = "apply"
         /\ CompanyApplied(q, m).made = 1 => CompanyApplied(q, m).fresh # Absent
<1> DEFINE x == CompanyApplied(q, m)
<1>1. q.cmine \in MaybeCompany /\ q.cbase \in MaybeCompany /\ company \in Companies
  BY DEF PushInv, PushType
<1>2. ~q.stored /\ Forward(q)
  BY DEF Progress
<1>3. CASE CompanyAnswer(CompanySeen(q), m) # "applied"
  BY <1>3 DEF CompanyApplied
<1>4. CASE CompanyAnswer(CompanySeen(q), m) = "applied"
  <2>1. PICK s \in Companies : s = CompanySeen(q)
    BY <1>1 DEF CompanySeen, MaybeCompany
  <2>2. ~Stale(s, m)
    BY <1>4, <2>1 DEF CompanyAnswer
  <2>3. PICK r \in Companies : r = ChangedCompany(s, m) /\ r.at = m.at
    BY ChangedCompanyFacts
  <2>4. PICK b \in MaybeCompany : b = IF q.cmine # Absent THEN q.cbase ELSE company
    BY <1>1 DEF MaybeCompany
  <2>5. x = [q EXCEPT !.applied = TRUE, !.cbase = b, !.cmine = r]
    BY <1>4, <2>1, <2>3, <2>4 DEF CompanyApplied
  <2>6. r \in MaybeCompany /\ r # Absent
    BY RowAt DEF MaybeCompany
  <2>7. /\ x \in PushType /\ x.pc = "apply" /\ ~x.stored /\ x.made = q.made /\ x.fresh = q.fresh
        /\ x.mine = q.mine /\ x.base = q.base /\ x.cmine = r /\ x.cbase = b
    BY <1>2, <2>5, <2>6 DEF PushType
  <2>8. b # Absent /\ r.at >= b.at
    <3>1. m.at \in Nat
      BY TimesAreNumbers DEF Mutations
    <3>2. m.at >= s.at /\ s.at \in Nat
      BY <2>2, <3>1, RowAt DEF Stale
    <3>3. CASE q.cmine # Absent
      <4>1. s = q.cmine /\ b = q.cbase
        BY <2>1, <2>4, <3>3 DEF CompanySeen
      <4>2. b # Absent /\ s.at >= b.at
        BY <1>2, <3>3, <4>1 DEF Forward
      <4>3. b.at \in Nat
        BY <4>2, RowAt DEF MaybeCompany
      <4> QED BY <2>3, <3>1, <3>2, <4>2, <4>3
    <3>4. CASE q.cmine = Absent
      <4>1. s = company /\ b = company
        BY <2>1, <2>4, <3>4 DEF CompanySeen
      <4> QED BY <2>3, <3>2, <4>1, RowAt
    <3> QED BY <3>3, <3>4
  <2> QED BY <1>2, <2>6, <2>7, <2>8 DEF Progress, Forward
<1> QED BY <1>3, <1>4

\* The next mutation of the batch.
Advanced(q, j) == [q EXCEPT !.i = j]

LEMMA AdvanceFacts ==
  ASSUME NEW q \in PushType, Progress(q), q.pc = "apply", q.made = 1 => q.fresh # Absent,
         NEW j \in Nat \ {0}
  PROVE  /\ Advanced(q, j) \in PushType /\ Progress(Advanced(q, j))
         /\ Advanced(q, j).pc = "apply"
         /\ Advanced(q, j).made = 1 => Advanced(q, j).fresh # Absent
<1> DEFINE x == Advanced(q, j)
<1>1. /\ x \in PushType /\ x.pc = q.pc /\ x.stored = q.stored /\ x.made = q.made
      /\ x.fresh = q.fresh /\ x.mine = q.mine /\ x.base = q.base
      /\ x.cmine = q.cmine /\ x.cbase = q.cbase
  BY DEF PushType, Advanced
<1> HIDE DEF x
<1>2. Progress(x) /\ (x.made = 1 => x.fresh # Absent)
  BY <1>1 DEF Progress, Forward
<1> QED BY <1>1, <1>2 DEF x

\* A batch that is being applied is not stored by that.
LEMMA ApplyStep ==
  ASSUME PushInv, NEW p \in Requests, ApplyMutation(p)
  PROVE  PushInv' /\ req'[p].pc # "bump"
<1>1. PICK q \in PushType : q = req[p] /\ Progress(q) /\ (q.made = 1 => q.fresh # Absent)
  BY DEF PushInv
<1>2. /\ q.pc = "apply" /\ q.i <= Len(q.batch)
      /\ UNCHANGED <<now, kind, rec, company>>
  BY <1>1 DEF ApplyMutation
<1>3. q.i \in Nat \ {0} /\ q.batch \in Seq(Mutations)
  BY DEF PushType
<1>4. PICK m \in Mutations, j \in Nat \ {0} : m = q.batch[q.i] /\ j = q.i + 1
  BY <1>2, <1>3
<1>5. ~q.stored /\ req \in [Requests -> PushType]
  BY <1>1, <1>2 DEF Progress, PushInv
<1>6. \/ \E a \in RecordAnswers(RecordSeen(q), m) :
             req' = [req EXCEPT ![p] = IF a = "raised" THEN Ended(q, "error")
                                       ELSE Advanced(RecordApplied(q, m, a), j)]
      \/ req' = [req EXCEPT ![p] = Advanced(CompanyApplied(q, m), j)]
      \/ req' = [req EXCEPT ![p] = Advanced(q, j)]
  BY <1>1, <1>4 DEF ApplyMutation, Advanced
<1>7. ASSUME NEW x \in PushType, Progress(x), x.pc = "apply", x.made = 1 => x.fresh # Absent,
             req' = [req EXCEPT ![p] = Advanced(x, j)]
      PROVE  PushInv' /\ req'[p].pc # "bump"
  <2>1. PICK y \in PushType : /\ y = Advanced(x, j) /\ Progress(y) /\ y.pc = "apply"
                              /\ y.made = 1 => y.fresh # Absent
    BY <1>7, AdvanceFacts
  <2>2. req' = [req EXCEPT ![p] = y]
    BY <1>7, <2>1, Zenon
  <2>3. req'[p] = y
    BY <1>5, <2>2
  <2>4. PushInv'
    BY <1>2, <2>1, <2>2, EntryStep DEF PushInv
  <2>5. req'[p].pc = "apply"
    BY <2>1, <2>3, Zenon
  <2> QED BY <2>4, <2>5
<1>8. ASSUME NEW a \in RecordAnswers(RecordSeen(q), m),
             req' = [req EXCEPT ![p] = IF a = "raised" THEN Ended(q, "error")
                                       ELSE Advanced(RecordApplied(q, m, a), j)]
      PROVE  PushInv' /\ req'[p].pc # "bump"
  <2>1. CASE a = "raised"
    <3>1. req' = [req EXCEPT ![p] = Ended(req[p], "error")]
      BY <1>1, <1>8, <2>1
    <3>2. req'[p].pc = "ended"
      BY <1>5, <3>1 DEF Ended, NoPush
    <3> QED BY <1>1, <1>2, <1>5, <3>1, <3>2, EndStep
  <2>2. CASE a # "raised"
    <3>1. PICK x \in PushType : /\ x = RecordApplied(q, m, a) /\ Progress(x) /\ x.pc = "apply"
                                /\ x.made = 1 => x.fresh # Absent
      BY <1>1, <1>2, <2>2, RecordAppliedFacts
    <3>2. req' = [req EXCEPT ![p] = Advanced(x, j)]
      <4>1. req' = [req EXCEPT ![p] = Advanced(RecordApplied(q, m, a), j)]
        BY <1>8, <2>2
      <4> QED BY <3>1, <4>1, Zenon
    <3> QED BY <1>7, <3>1, <3>2, Zenon
  <2> QED BY <2>1, <2>2
<1>9. CASE req' = [req EXCEPT ![p] = Advanced(CompanyApplied(q, m), j)]
  <2>1. PICK x \in PushType : /\ x = CompanyApplied(q, m) /\ Progress(x) /\ x.pc = "apply"
                              /\ x.made = 1 => x.fresh # Absent
    BY <1>1, <1>2, CompanyAppliedFacts
  <2>2. req' = [req EXCEPT ![p] = Advanced(x, j)]
    BY <1>9, <2>1, Zenon
  <2> QED BY <1>7, <2>1, <2>2, Zenon
<1>10. CASE req' = [req EXCEPT ![p] = Advanced(q, j)]
  BY <1>1, <1>2, <1>7, <1>10
<1> QED BY <1>6, <1>8, <1>9, <1>10

----------------------------------------------------------------------------
(* The commits of a push *)

\* What a push stores: well-formed rows, not older than those it replaces when they are
\* the ones it has loaded.
LEMMA StoredRows ==
  ASSUME PushInv, NEW p \in Requests, StoreBatch(p)
  PROVE  /\ rec' \in MaybeRow /\ company' \in Companies
         /\ rec = req[p].base /\ rec # Absent => rec'.at >= rec.at
         /\ company = req[p].cbase => company'.at >= company.at
<1>1. PICK q \in PushType : q = req[p] /\ Progress(q) /\ (q.made = 1 => q.fresh # Absent)
  BY DEF PushInv
<1>2. /\ q.mine \in MaybeRow /\ q.base \in MaybeRow /\ q.fresh \in MaybeRow
      /\ q.cmine \in MaybeCompany /\ q.cbase \in MaybeCompany
      /\ rec \in MaybeRow /\ company \in Companies
  BY DEF PushInv, PushType
<1>3. /\ q.pc = "apply" /\ ~CannotStore(q)
      /\ rec' = (IF q.made = 1 THEN q.fresh ELSE IF q.mine # q.base THEN MergedRow(q) ELSE rec)
      /\ company' = (IF q.cmine # Absent THEN MergedCompany(q) ELSE company)
  BY <1>1 DEF StoreBatch
<1>4. Forward(q)
  BY <1>1, <1>3 DEF Progress
<1>5. rec' \in MaybeRow /\ (rec = q.base /\ rec # Absent => rec'.at >= rec.at)
  <2>1. CASE q.made = 1
    <3>1. rec = Absent
      BY <1>3, <2>1 DEF CannotStore
    <3> QED BY <1>2, <1>3, <2>1, <3>1
  <2>2. CASE q.made # 1 /\ q.mine = q.base
    <3>1. rec' = rec
      BY <1>3, <2>2
    <3>2. rec # Absent => rec.at >= rec.at
      BY <1>2, RowAt DEF MaybeRow
    <3> QED BY <1>2, <3>1, <3>2
  <2>3. CASE q.made # 1 /\ q.mine # q.base /\ q.mine # Absent
    <3>1. rec # Absent
      BY <1>3, <2>3 DEF CannotStore
    <3>2. q.mine \in Rows /\ q.base \in Rows /\ rec \in Rows /\ q.mine.at >= q.base.at
      BY <1>2, <1>4, <2>3, <3>1 DEF Forward, MaybeRow
    <3>3. rec' = MergedRow(q)
      BY <1>3, <2>3
    <3>4. rec' \in Rows /\ rec'.at = IF q.mine.at # q.base.at THEN q.mine.at ELSE rec.at
      BY <3>2, <3>3 DEF MergedRow, Rows
    <3>5. rec = q.base => rec'.at >= rec.at
      BY <3>2, <3>4, RowAt
    <3> QED BY <3>4, <3>5 DEF MaybeRow
  <2>4. CASE q.mine # q.base /\ q.mine = Absent
    BY <1>4, <2>4 DEF Forward
  <2> QED BY <2>1, <2>2, <2>3, <2>4
<1>6. company' \in Companies /\ (company = q.cbase => company'.at >= company.at)
  <2>1. CASE q.cmine = Absent
    <3>1. company' = company /\ company.at \in Nat
      BY <1>2, <1>3, <2>1, RowAt
    <3> QED BY <1>2, <3>1
  <2>2. CASE q.cmine # Absent
    <3>1. q.cmine \in Companies /\ q.cbase \in Companies /\ q.cmine.at >= q.cbase.at
      BY <1>2, <1>4, <2>2 DEF Forward, MaybeCompany
    <3>2. company' = MergedCompany(q)
      BY <1>3, <2>2
    <3>3. /\ company' \in Companies
          /\ company'.at = IF q.cmine.at # q.cbase.at THEN q.cmine.at ELSE company.at
      BY <1>2, <3>1, <3>2 DEF MergedCompany, Companies
    <3> QED BY <1>2, <3>1, <3>3, RowAt
  <2> QED BY <2>1, <2>2
<1> QED BY <1>1, <1>5, <1>6

LEMMA StoreStep ==
  ASSUME PushInv, NEW p \in Requests, StoreBatch(p)
  PROVE  PushInv'
<1>1. PICK q \in PushType : q = req[p] /\ Progress(q)
  BY DEF PushInv
<1>2. ~q.stored /\ req' = [req EXCEPT ![p] = AfterStore(q)] /\ UNCHANGED <<now, kind>>
  BY <1>1 DEF StoreBatch, Progress
<1>3. rec' \in MaybeRow /\ company' \in Companies
  BY StoredRows
<1>4. AfterStore(q) \in PushType /\ Progress(AfterStore(q)) /\ AfterStore(q).made # 1
  <2>1. CASE q.applied
    <3> DEFINE x == [NoPush EXCEPT !.pc = "bump", !.stored = TRUE]
    <3>1. x \in PushType /\ x.pc = "bump" /\ x.made = 0
      BY NoPushFacts DEF NoPush, PushType
    <3> HIDE DEF x
    <3>2. Progress(x) /\ x.made # 1
      BY <3>1 DEF Progress
    <3>3. AfterStore(q) = x
      BY <2>1 DEF AfterStore, x
    <3> QED BY <3>1, <3>2, <3>3
  <2>2. CASE ~q.applied
    BY <1>2, <2>2, EndedFacts DEF AfterStore
  <2> QED BY <2>1, <2>2
<1>5. PICK x \in PushType : x = AfterStore(q) /\ Progress(x) /\ x.made # 1
  BY <1>4
<1>6. req' = [req EXCEPT ![p] = x]
  BY <1>2, <1>5
<1> QED BY <1>2, <1>3, <1>5, <1>6, EntryStep DEF PushInv

LEMMA FailStep ==
  ASSUME PushInv, NEW p \in Requests, StoreFails(p)
  PROVE  PushInv'
<1>1. req[p].pc = "apply" /\ req' = [req EXCEPT ![p] = Ended(req[p], "error")]
  BY DEF StoreFails
<1>2. ~req[p].stored
  BY <1>1 DEF PushInv, Progress
<1> QED BY <1>1, <1>2, EndStep DEF StoreFails

LEMMA BumpStep ==
  ASSUME PushInv, NEW p \in Requests, ReadForBump(p) \/ CommitBump(p)
  PROVE  PushInv'
<1>1. PICK q \in PushType : q = req[p] /\ Progress(q) /\ (q.made = 1 => q.fresh # Absent)
  BY DEF PushInv
<1>2. company \in Companies /\ company \in MaybeCompany /\ company # Absent
  BY RowAt DEF PushInv, MaybeCompany
<1>3. CASE ReadForBump(p)
  <2> DEFINE x == [q EXCEPT !.pc = "bumping", !.cbase = company]
  <2>1. /\ x \in PushType /\ x.pc = "bumping" /\ x.cbase = company
        /\ x.made = q.made /\ x.fresh = q.fresh
    BY <1>2 DEF PushType
  <2>2. req' = [req EXCEPT ![p] = x] /\ UNCHANGED <<now, kind, rec, company>>
    BY <1>1, <1>3 DEF ReadForBump
  <2> HIDE DEF x
  <2>3. Progress(x) /\ (x.made = 1 => x.fresh # Absent)
    BY <1>1, <1>2, <2>1 DEF Progress
  <2> QED BY <2>1, <2>2, <2>3, EntryStep DEF PushInv
<1>4. CASE CommitBump(p)
  <2> DEFINE x == [q EXCEPT !.pc = "register", !.announced = TRUE]
  <2>1. /\ x \in PushType /\ x.pc = "register" /\ x.announced
        /\ x.made = q.made /\ x.fresh = q.fresh
    BY DEF PushType
  <2>2. /\ req' = [req EXCEPT ![p] = x] /\ UNCHANGED <<now, kind, rec>>
        /\ company' = [company EXCEPT !.at = now, !.pol = q.cbase.pol]
    BY <1>1, <1>4 DEF CommitBump
  <2>3. q.cbase # Absent /\ q.cbase \in MaybeCompany
    BY <1>1, <1>4 DEF CommitBump, Progress, PushType
  <2>4. q.cbase.pol \in Vals
    BY <2>3 DEF MaybeCompany, Companies
  <2>5. company' \in Companies
    BY <1>2, <2>2, <2>4 DEF PushInv, Companies
  <2> HIDE DEF x
  <2>6. Progress(x) /\ (x.made = 1 => x.fresh # Absent)
    BY <1>1, <2>1 DEF Progress
  <2> QED BY <2>1, <2>2, <2>5, <2>6, EntryStep DEF PushInv
<1> QED BY <1>3, <1>4

LEMMA RegisterStep ==
  ASSUME PushInv, NEW p \in Requests, Register(p) \/ LosePush(p)
  PROVE  PushInv'
<1>1. UNCHANGED <<now, kind, rec, company>> /\ req \in [Requests -> PushType]
  BY DEF Register, LosePush, PushInv
<1>2. CASE Register(p)
  <2>1. PICK a \in {"ok", "forbidden"} : req' = [req EXCEPT ![p] = Ended(req[p], a)]
    BY <1>1, <1>2 DEF Register
  <2>2. req[p].announced
    BY <1>2 DEF Register, PushInv, Progress
  <2> QED BY <1>1, <2>1, <2>2, EndStep
<1>3. CASE LosePush(p)
  <2>1. req' = [req EXCEPT ![p] = Ended(req[p], "lost")]
    BY <1>1, <1>3 DEF LosePush
  <2> QED BY <1>1, <2>1, EndStep
<1> QED BY <1>2, <1>3

----------------------------------------------------------------------------
(* The other steps, which touch no push *)

LEMMA OtherStep ==
  ASSUME PushInv, req' = req, now' \in Times, kind' = kind, rec' \in MaybeRow,
         company' \in Companies
  PROVE  PushInv'
BY DEF PushInv, Progress, Forward

LEMMA InitPush == Init => PushInv
<1> SUFFICES ASSUME Init PROVE PushInv
  OBVIOUS
<1>1. (CHOOSE v \in Vals : TRUE) \in Vals
  OBVIOUS
<1>2. now \in Times /\ company \in Companies /\ rec \in MaybeRow /\ kind \in Kinds
  BY <1>1 DEF Init, Times, Companies, MaybeRow
<1>3. \A p \in Requests : req[p] = NoPush
  BY DEF Init
<1>4. req \in [Requests -> PushType]
  BY NoPushFacts DEF Init
<1> QED BY <1>2, <1>3, <1>4, NoPushFacts DEF PushInv

LEMMA NextPush == PushInv /\ [Next]_vars => PushInv'
<1> SUFFICES ASSUME PushInv, [Next]_vars PROVE PushInv'
  OBVIOUS
<1>1. now \in Times /\ rec \in MaybeRow /\ company \in Companies
  BY DEF PushInv
<1>2. CASE UNCHANGED vars
  BY <1>1, <1>2, OtherStep DEF vars
<1>3. CASE Tick
  <2>1. now' \in Times
    BY <1>1, <1>3 DEF Tick, Times
  <2> QED BY <1>1, <1>3, <2>1, OtherStep DEF Tick
<1>4. CASE RestNext
  <2>1. rec' \in MaybeRow
    BY <1>1, <1>4 DEF RestNext, RestWrite, RestRemove, MaybeRow, Rows
  <2> QED BY <1>1, <1>4, <2>1, OtherStep DEF RestNext, RestWrite, RestRemove
<1>5. ASSUME NEW p \in Requests, PushNext(p) PROVE PushInv'
  BY <1>5, StartStep, RefuseStep, ApplyStep, FailStep, StoreStep, BumpStep, RegisterStep
     DEF PushNext
<1>6. ASSUME NEW c \in Clients, PullNext(c) PROVE PushInv'
  BY <1>1, <1>6, OtherStep DEF PullNext, StartPull, FinishPull
<1> QED BY <1>2, <1>3, <1>4, <1>5, <1>6 DEF Next

----------------------------------------------------------------------------
(* Pulls *)

\* The fields of a client.
IsClient(v) == DOMAIN v = {"pc", "cursor", "rec", "company", "img"}

\* With respect to the rows r and co of the server, what client v lacks is dated after its
\* cursor, and a running pull has read the company row that is still there.
Holds(v, r, co) ==
  /\ r # Absent => r.at > v.cursor \/ v.rec = r
  /\ co.at > v.cursor \/ v.company = co
  /\ v.pc = "record" => v.img = co

PullsInv ==
  /\ PushInv
  /\ client = [c \in Clients |-> client[c]]
  /\ \A c \in Clients : IsClient(client[c])
  /\ orderly => \A c \in Clients : Holds(client[c], rec, company)

\* No row is both a record's and a company's, so a changed row is among those dated.
LEMMA RowsApart == \A r \in Rows, s \in Companies : r # s
<1> SUFFICES ASSUME NEW r \in Rows, NEW s \in Companies, r = s PROVE FALSE
  OBVIOUS
<1>1. DOMAIN r = {"at", "val", "active"}
  BY DEF Rows
<1>2. DOMAIN s = {"at", "val", "pol"}
  BY DEF Companies
<1> QED BY <1>1, <1>2

\* A commit that is in order leaves every client lacking only what is dated after its cursor.
LEMMA OrderlyCommit ==
  ASSUME PullsInv, orderly, NEW ats, InOrder(ats), NEW r, NEW co,
         r = rec \/ r = Absent \/ r.at \in ats, co = company \/ co.at \in ats
  PROVE  \A c \in Clients : Holds(client[c], r, co)
<1> SUFFICES ASSUME NEW c \in Clients PROVE Holds(client[c], r, co)
  OBVIOUS
<1>1. Holds(client[c], rec, company)
  BY DEF PullsInv
<1>2. /\ \A a \in ats : a > client[c].cursor
      /\ ats # {} => client[c].pc = "idle"
  BY DEF InOrder
<1>3. r # Absent => r.at > client[c].cursor \/ client[c].rec = r
  BY <1>1, <1>2 DEF Holds
<1>4. co.at > client[c].cursor \/ client[c].company = co
  BY <1>1, <1>2 DEF Holds
<1>5. client[c].pc = "record" => client[c].img = co
  <2>1. CASE co = company
    BY <1>1, <2>1 DEF Holds
  <2>2. CASE co.at \in ats
    BY <1>2, <2>2
  <2> QED BY <2>1, <2>2
<1> QED BY <1>3, <1>4, <1>5 DEF Holds

\* So do the commits of the model, which leave the clients alone.
LEMMA CommitPulls ==
  ASSUME PullsInv, PushInv', NEW ats, Committed(ats), client' = client,
         rec' = rec \/ rec' = Absent \/ rec'.at \in ats,
         company' = company \/ company'.at \in ats
  PROVE  PullsInv'
<1>1. orderly' => orderly /\ InOrder(ats)
  BY DEF Committed
<1>2. orderly' => \A c \in Clients : Holds(client[c], rec', company')
  BY <1>1, OrderlyCommit
<1>3. orderly' => \A c \in Clients : Holds(client'[c], rec', company')
  BY <1>2
<1> QED BY <1>3 DEF PullsInv

\* A step that leaves the rows, the clients and the history alone.
LEMMA QuietPulls ==
  ASSUME PullsInv, PushInv', UNCHANGED <<rec, company, client, orderly>>
  PROVE  PullsInv'
BY DEF PullsInv

\* The rows a batch has changed are the ones its commit dates.
LEMMA StorePulls ==
  ASSUME PullsInv, PushInv', NEW p \in Requests, StoreBatch(p)
  PROVE  PullsInv'
<1> DEFINE ats == {r.at : r \in {rec', company'} \ {rec, company}}
<1>1. Committed(ats) /\ client' = client
  BY DEF StoreBatch
<1>2. rec \in MaybeRow /\ rec' \in MaybeRow /\ company \in Companies /\ company' \in Companies
  BY DEF PullsInv, PushInv
<1>3. rec' = rec \/ rec' = Absent \/ rec'.at \in ats
  <2>1. rec' # rec /\ rec' # Absent => rec' \in {rec', company'} \ {rec, company}
    BY <1>2, RowsApart DEF MaybeRow
  <2> QED BY <2>1
<1>4. company' = company \/ company'.at \in ats
  <2>1. company' # company => company' \in {rec', company'} \ {rec, company}
    BY <1>2, RowsApart, AbsentAssumption DEF MaybeRow
  <2> QED BY <2>1
<1> HIDE DEF ats
<1> QED BY <1>1, <1>3, <1>4, CommitPulls

\* The bump dates the company row by the server.
LEMMA BumpPulls ==
  ASSUME PullsInv, PushInv', NEW p \in Requests, CommitBump(p)
  PROVE  PullsInv'
<1>1. Committed({now}) /\ client' = client /\ rec' = rec
      /\ company' = [company EXCEPT !.at = now, !.pol = req[p].cbase.pol]
  BY DEF CommitBump
<1>2. company \in Companies
  BY DEF PullsInv, PushInv
<1>3. company'.at = now
  BY <1>1, <1>2 DEF Companies
<1> QED BY <1>1, <1>3, CommitPulls

\* So do the endpoints; a removal leaves no record to be lacked.
LEMMA RestPulls ==
  ASSUME PullsInv, PushInv', RestNext
  PROVE  PullsInv'
<1>1. CASE \E v \in Vals, a \in BOOLEAN : RestWrite(v, a)
  <2>1. Committed({now}) /\ client' = client /\ company' = company /\ rec'.at = now
    BY <1>1 DEF RestWrite
  <2> QED BY <2>1, CommitPulls
<1>2. CASE RestRemove
  <2>1. rec' = Absent /\ company' = company /\ client' = client /\ orderly' = orderly
    BY <1>2 DEF RestRemove
  <2>2. orderly' => \A c \in Clients : Holds(client'[c], rec', company')
    BY <2>1 DEF PullsInv, Holds
  <2> QED BY <2>1, <2>2 DEF PullsInv
<1> QED BY <1>1, <1>2 DEF RestNext

\* A client that moves is well if its new entry is.
LEMMA ClientMoves ==
  ASSUME PullsInv, PushInv', NEW c \in Clients, UNCHANGED <<rec, company, orderly>>,
         client' = [d \in Clients |-> client'[d]],
         \A d \in Clients \ {c} : client'[d] = client[d],
         IsClient(client'[c]), orderly => Holds(client'[c], rec, company)
  PROVE  PullsInv'
<1>1. \A d \in Clients : IsClient(client'[d])
  BY DEF PullsInv
<1>2. orderly' => \A d \in Clients : Holds(client'[d], rec', company')
  BY DEF PullsInv
<1> QED BY <1>1, <1>2 DEF PullsInv

\* A pull that begins has read the company row, and goes back at most to the beginning.
LEMMA StartPulls ==
  ASSUME PullsInv, PushInv', NEW c \in Clients, NEW since \in {0, client[c].cursor},
         StartPull(c, since)
  PROVE  PullsInv'
<1> DEFINE o == client[c]
<1>1. IsClient(o) /\ client = [d \in Clients |-> client[d]]
  BY DEF PullsInv
<1>2. client' = [client EXCEPT ![c] = [@ EXCEPT !.pc = "record", !.cursor = since, !.img = company]]
  BY DEF StartPull
<1>3. /\ client' = [d \in Clients |-> client'[d]]
      /\ \A d \in Clients \ {c} : client'[d] = client[d]
      /\ client'[c] = [o EXCEPT !.pc = "record", !.cursor = since, !.img = company]
  BY <1>1, <1>2
<1>4. /\ IsClient(client'[c])
      /\ client'[c].cursor = since /\ client'[c].img = company
      /\ client'[c].rec = o.rec /\ client'[c].company = o.company
  BY <1>1, <1>3 DEF IsClient
<1>5. orderly => Holds(client'[c], rec, company)
  <2>1. orderly => Holds(o, rec, company)
    BY DEF PullsInv
  <2>2. rec # Absent => rec.at > 0
    BY DEF PullsInv, PushInv, MaybeRow, Rows, Times
  <2>3. company.at > 0
    BY DEF PullsInv, PushInv, Companies, Times
  <2> QED BY <1>4, <2>1, <2>2, <2>3 DEF Holds
<1>6. UNCHANGED <<rec, company, orderly>>
  BY DEF StartPull
<1> QED BY <1>3, <1>4, <1>5, <1>6, ClientMoves

\* What an answer leaves out the client has already: it holds the rows of the server now.
LEMMA FinishEffect ==
  ASSUME PullsInv, NEW c \in Clients, FinishPull(c)
  PROVE  /\ client' = [d \in Clients |-> client'[d]]
         /\ \A d \in Clients \ {c} : client'[d] = client[d]
         /\ IsClient(client'[c]) /\ client'[c].pc = "idle"
         /\ orderly => /\ rec # Absent => client'[c].rec = rec
                       /\ client'[c].company = company
<1> DEFINE o == client[c]
           read == {o.img} \cup (IF rec = Absent THEN {} ELSE {rec})
           sent == FilterSince(c, read)
           cur == MaxCursor(sent)
           row == IF rec \in sent \/ o.cursor = 0 THEN rec ELSE o.rec
           com == IF o.img \in sent THEN o.img ELSE o.company
           v == [o EXCEPT !.pc = "idle", !.cursor = cur, !.rec = row, !.img = Absent,
                          !.company = com]
<1>1. IsClient(o) /\ client = [d \in Clients |-> client[d]]
  BY DEF PullsInv
<1>2. client' = [client EXCEPT ![c] = v]
  BY DEF FinishPull
<1>3. ASSUME orderly
      PROVE  (rec # Absent => row = rec) /\ com = company
  <2>1. Holds(o, rec, company) /\ o.pc = "record"
    BY <1>3 DEF PullsInv, FinishPull
  <2>2. \A r \in read : r \in sent <=> r.at > o.cursor
    BY DEF FilterSince, Newer
  <2>3. o.img = company /\ o.img \in read
    BY <2>1 DEF Holds
  <2>4. com = company
    BY <2>1, <2>2, <2>3 DEF Holds
  <2>5. rec # Absent => row = rec
    BY <2>1, <2>2 DEF Holds
  <2> QED BY <2>4, <2>5
<1> HIDE DEF cur, sent, read
<1>4. /\ IsClient(v) /\ v.pc = "idle"
      /\ v.rec = row /\ v.company = com
  BY <1>1 DEF IsClient
<1> HIDE DEF v
<1>5. /\ client' = [d \in Clients |-> client'[d]]
      /\ \A d \in Clients \ {c} : client'[d] = client[d]
      /\ client'[c] = v
  BY <1>1, <1>2
<1> QED BY <1>3, <1>4, <1>5

\* So it lacks nothing, and its pull is over.
LEMMA FinishPulls ==
  ASSUME PullsInv, PushInv', NEW c \in Clients, FinishPull(c)
  PROVE  PullsInv'
<1>1. orderly => Holds(client'[c], rec, company)
  BY FinishEffect DEF Holds
<1>2. UNCHANGED <<rec, company, orderly>>
  BY DEF FinishPull
<1> QED BY <1>1, <1>2, FinishEffect, ClientMoves

\* At the start there is no record, and nobody has pulled.
LEMMA StartedPulls == Init => PullsInv
<1> SUFFICES ASSUME Init PROVE PullsInv
  OBVIOUS
<1>1. client = [c \in Clients |-> NewClient] /\ rec = Absent /\ company.at = 1
  BY DEF Init
<1>2. IsClient(NewClient) /\ Holds(NewClient, rec, company)
  BY <1>1 DEF IsClient, NewClient, Holds
<1> QED BY <1>1, <1>2, InitPush DEF PullsInv

\* Every step keeps what the desktops lack behind their cursors.
LEMMA NextPulls == PullsInv /\ [Next]_vars => PullsInv'
<1> SUFFICES ASSUME PullsInv, [Next]_vars PROVE PullsInv'
  OBVIOUS
<1>1. PushInv'
  BY NextPush DEF PullsInv
<1>2. CASE UNCHANGED vars
  BY <1>1, <1>2, QuietPulls DEF vars
<1>3. CASE Tick
  BY <1>1, <1>3, QuietPulls DEF Tick
<1>4. CASE RestNext
  BY <1>1, <1>4, RestPulls
<1>5. ASSUME NEW p \in Requests, PushNext(p) PROVE PullsInv'
  <2>1. CASE StoreBatch(p)
    BY <1>1, <2>1, StorePulls
  <2>2. CASE CommitBump(p)
    BY <1>1, <2>2, BumpPulls
  <2>3. CASE ~(StoreBatch(p) \/ CommitBump(p))
    <3>1. UNCHANGED <<rec, company, client, orderly>>
      BY <1>5, <2>3 DEF PushNext, StartPush, RefusePush, ApplyMutation, StoreFails, ReadForBump,
         Register, LosePush
    <3> QED BY <1>1, <3>1, QuietPulls
  <2> QED BY <2>1, <2>2, <2>3
<1>6. ASSUME NEW c \in Clients, PullNext(c) PROVE PullsInv'
  BY <1>1, <1>6, StartPulls, FinishPulls DEF PullNext
<1> QED BY <1>2, <1>3, <1>4, <1>5, <1>6 DEF Next

----------------------------------------------------------------------------
(* The theorems *)

\* The strengthened invariant of the pushes.
THEOREM PushInvariant == Spec => []PushInv
<1>1. Init => PushInv
  BY InitPush
<1>2. PushInv /\ [Next]_vars => PushInv'
  BY NextPush
<1> QED BY <1>1, <1>2, PTL DEF Spec

\* A push that stored something and was not cut off has announced it, whatever it is
\* answered (sync_admin/service.py:66).
THEOREM StoredAnnounced == Spec => []StoredIsAnnounced
<1>1. PushInv => StoredIsAnnounced
  BY DEF PushInv, Progress, StoredIsAnnounced
<1> QED BY <1>1, PushInvariant, PTL

\* No push replaces a row by an older version of it, if it is still the row it loaded
\* (sync_admin/push.py:49).
THEOREM AcceptedForward == Spec => AcceptedNotOlder
<1> DEFINE Kept == \A p \in Requests : Stores(p) =>
                     /\ rec = req[p].base /\ rec # Absent => rec'.at >= rec.at
                     /\ company = req[p].cbase => company'.at >= company.at
<1>1. PushInv /\ [Next]_vars => [Kept]_vars
  <2> SUFFICES ASSUME PushInv, Next, NEW p \in Requests, Stores(p)
               PROVE  /\ rec = req[p].base /\ rec # Absent => rec'.at >= rec.at
                      /\ company = req[p].cbase => company'.at >= company.at
    OBVIOUS
  <2>1. req[p].pc = "apply" /\ req'[p].pc = "bump" /\ req' # req /\ req[p] # req'[p]
    BY DEF Stores
  <2>2. PICK o \in Requests : PushNext(o)
    BY <2>1 DEF Next, Tick, RestNext, RestWrite, RestRemove, PullNext, StartPull, FinishPull
  <2>3. o = p
    BY <2>1, <2>2 DEF PushInv, PushNext, StartPush, RefusePush, ApplyMutation, StoreFails, StoreBatch,
       ReadForBump, CommitBump, Register, LosePush
  <2>4. ~ApplyMutation(p)
    BY <2>1, ApplyStep
  <2>5. ~(StoreFails(p) \/ LosePush(p))
    <3>1. \A a \in {"error", "lost"} : Ended(req[p], a).pc = "ended"
      BY DEF Ended, NoPush
    <3>2. req \in [Requests -> PushType]
      BY DEF PushInv
    <3>3. PICK f : f = Ended(req[p], "error") /\ f.pc = "ended"
      BY <3>1
    <3>4. PICK g : g = Ended(req[p], "lost") /\ g.pc = "ended"
      BY <3>1
    <3>5. CASE StoreFails(p)
      <4>1. req' = [req EXCEPT ![p] = f]
        BY <3>3, <3>5 DEF StoreFails
      <4> QED BY <2>1, <3>2, <3>3, <4>1
    <3>6. CASE LosePush(p)
      <4>1. req' = [req EXCEPT ![p] = g]
        BY <3>4, <3>6 DEF LosePush
      <4> QED BY <2>1, <3>2, <3>4, <4>1
    <3> QED BY <3>5, <3>6
  <2>6. StoreBatch(p)
    <3>1. \A b \in Batches : ~StartPush(p, b)
      BY <2>1 DEF StartPush, NoPush
    <3>2. ~RefusePush(p)
      BY <2>1 DEF RefusePush, NoPush
    <3>3. ~(ReadForBump(p) \/ CommitBump(p) \/ Register(p))
      BY <2>1 DEF ReadForBump, CommitBump, Register
    <3> QED BY <2>2, <2>3, <2>4, <2>5, <3>1, <3>2, <3>3 DEF PushNext
  <2> QED BY <2>6, StoredRows
<1> QED BY <1>1, PushInvariant, PTL DEF Spec, AcceptedNotOlder
\* If rows are committed in the order of their dates, after every cursor and between pulls,
\* a pull leaves the client with the rows of the server (sync_admin/snapshot.py).
THEOREM PullsComplete == Spec => OrderlyPullsComplete
<1> DEFINE Complete == \A c \in Clients :
             (client[c].pc = "record" /\ client'[c].pc = "idle" /\ orderly) =>
               /\ rec # Absent => client'[c].rec = rec
               /\ client'[c].company = company
<1>1. PullsInv /\ [Next]_vars => [Complete]_vars
  <2> SUFFICES ASSUME PullsInv, Next, NEW c \in Clients,
                      client[c].pc = "record", client'[c].pc = "idle", orderly
               PROVE  /\ rec # Absent => client'[c].rec = rec
                      /\ client'[c].company = company
    OBVIOUS
  <2>1. client'[c] # client[c]
    OBVIOUS
  <2>2. PICK d \in Clients : PullNext(d)
    BY <2>1 DEF Next, Tick, RestNext, RestWrite, RestRemove, PushNext, StartPush, RefusePush,
       ApplyMutation, StoreFails, StoreBatch, ReadForBump, CommitBump, Register, LosePush
  <2>3. d = c
    <3>1. CASE FinishPull(d)
      BY <2>1, <3>1, FinishEffect
    <3>2. CASE \E since \in {0, client[d].cursor} : StartPull(d, since)
      <4>1. client = [e \in Clients |-> client[e]]
        BY DEF PullsInv
      <4>2. \E v : client' = [client EXCEPT ![d] = v]
        BY <3>2 DEF StartPull
      <4> QED BY <2>1, <4>1, <4>2
    <3> QED BY <2>2, <3>1, <3>2 DEF PullNext
  <2>4. FinishPull(c)
    BY <2>2, <2>3 DEF PullNext, StartPull
  <2> QED BY <2>4, FinishEffect
<1>2. Spec => []PullsInv
  BY StartedPulls, NextPulls, PTL DEF Spec
<1> QED BY <1>1, <1>2, PTL DEF Spec, OrderlyPullsComplete
=============================================================================
