------------------------ MODULE OrderNumberingProofs ------------------------
(***************************************************************************)
(* Proofs about OrderNumbering, for any sites, kinds, codes and requests.  *)
(* A request that has its number holds the row of its sequence, and the    *)
(* number is the one the row still shows (SequenceHeld): from this follow  *)
(* the absence of gaps, with or without changes of site codes, and, while  *)
(* codes are fixed, that the unique constraint is never met and that the   *)
(* sequences implement NumberRegister.                                     *)
(***************************************************************************)
EXTENDS OrderNumbering, TLAPS

Request == [pc : PC, site : Sites \cup {None}, kind : Kinds \cup {None},
            code : Codes \cup {None}, year : FirstYear..LastYear, n : Nat]

HasNumber == {"numbered", "inserting_tracking", "tracked"}

\* Every step of the system, changes of site codes included.
AnyNext == Next \/ \E s \in Sites, c \in Codes : RenameSite(s, c)

\* The end of a transaction leaves the other requests and their locks alone.
LEMMA FinishEffect ==
  ASSUME TypeOK, NEW r \in Requests, Finish(r)
  PROVE  /\ req' \in [Requests -> Request]
         /\ req'[r].pc = "idle"
         /\ \A q \in Requests \ {r} : req'[q] = req[q]
         /\ seqHolder' \in [Sites -> [Kinds -> Requests \cup {None}]]
         /\ \A s \in Sites, k \in Kinds :
               seqHolder[s][k] # r => seqHolder'[s][k] = seqHolder[s][k]
         /\ trackHolder' \in Requests \cup {None}
<1>1. IdleRequest \in Request /\ IdleRequest.pc = "idle"
  BY YearAssumption DEF IdleRequest, Request, PC
<1>2. req \in [Requests -> Request] /\ req' = [req EXCEPT ![r] = IdleRequest]
  BY DEF TypeOK, Finish, Request
<1>3. QED
  BY <1>1, <1>2 DEF Finish, TypeOK

\* A request in progress that moves to another step keeps its type and what it
\* works on.
LEMMA MoveEffect ==
  ASSUME TypeOK, NEW r \in Requests, NEW step \in PC \ {"idle"},
         req' = [req EXCEPT ![r].pc = step]
  PROVE  /\ req' \in [Requests -> Request]
         /\ \A q \in Requests \ {r} : req'[q] = req[q]
         /\ req'[r].pc = step
         /\ req'[r].site = req[r].site
         /\ req'[r].kind = req[r].kind
         /\ req'[r].code = req[r].code
         /\ req'[r].n = req[r].n
<1>1. req \in [Requests -> Request]
  BY DEF TypeOK, Request
<1>2. QED
  BY <1>1 DEF Request

\* A request that takes a number keeps its type and what it works on.
LEMMA TakeEffect ==
  ASSUME TypeOK, NEW r \in Requests, NEW n \in Nat, TakeNumber(r, n)
  PROVE  /\ req' \in [Requests -> Request]
         /\ \A q \in Requests \ {r} : req'[q] = req[q]
         /\ req'[r].pc = "numbered"
         /\ req'[r].site = req[r].site
         /\ req'[r].kind = req[r].kind
         /\ req'[r].code = req[r].code
         /\ req'[r].n = n
<1> DEFINE moved == [req[r] EXCEPT !.pc = "numbered", !.n = n, !.year = year]
<1>1. req \in [Requests -> Request] /\ year \in FirstYear..LastYear
  BY DEF TypeOK, Request
<1>2. /\ moved \in Request /\ moved.pc = "numbered" /\ moved.n = n
      /\ moved.site = req[r].site /\ moved.kind = req[r].kind
      /\ moved.code = req[r].code
  BY <1>1 DEF Request, PC
<1>3. req' = [req EXCEPT ![r] = moved]
  BY DEF TakeNumber
<1> HIDE DEF moved
<1>4. QED
  BY <1>1, <1>2, <1>3

-----------------------------------------------------------------------------
\* A company starts without sites, sequences and orders.
LEMMA TypeInit ==
  ASSUME Init
  PROVE  TypeOK
<1>1. IdleRequest \in Request /\ FirstYear \in FirstYear..LastYear
  BY YearAssumption DEF IdleRequest, Request, PC
<1>2. req \in [Requests -> Request] /\ \A r \in Requests : req[r].pc = "idle"
  BY <1>1 DEF Init, IdleRequest
<1>3. QED
  BY <1>1, <1>2 DEF Init, TypeOK, Request

\* Every step of every handler keeps the state well typed.
LEMMA TypeStep ==
  ASSUME TypeOK, [AnyNext]_vars
  PROVE  TypeOK'
<1>0. req \in [Requests -> Request]
  BY DEF TypeOK, Request
<1>1. ASSUME NEW r \in Requests, NEW s \in Sites, NEW k \in Kinds, ReadSite(r, s, k)
      PROVE  TypeOK'
  <2>1. code[s] \in Codes
    BY <1>1 DEF ReadSite, TypeOK
  <2>2. [pc |-> "numbering", site |-> s, kind |-> k, code |-> code[s],
         year |-> FirstYear, n |-> 0]
           \in [pc : PC \ {"idle"}, site : Sites, kind : Kinds, code : Codes,
                year : FirstYear..LastYear, n : Nat]
    BY <2>1, YearAssumption DEF PC
  <2> DEFINE begun == [pc |-> "numbering", site |-> s, kind |-> k, code |-> code[s],
                       year |-> FirstYear, n |-> 0]
  <2>5. req' = [req EXCEPT ![r] = begun]
    BY <1>1 DEF ReadSite
  <2>6. begun \in Request /\ begun.site \in Sites /\ begun.kind \in Kinds /\ begun.code \in Codes
    BY <2>2 DEF Request
  <2> HIDE DEF begun
  <2>7. req' \in [Requests -> Request]
    BY <1>0, <2>5, <2>6
  <2>8. \A q \in Requests : req'[q] = begun \/ req'[q] = req[q]
    BY <1>0, <2>5
  <2>3. /\ req' \in [Requests -> Request]
        /\ \A q \in Requests : req'[q].pc # "idle" =>
              req'[q].site \in Sites /\ req'[q].kind \in Kinds /\ req'[q].code \in Codes
    BY <2>6, <2>7, <2>8 DEF TypeOK
  <2>4. QED
    BY <1>1, <2>3 DEF ReadSite, TypeOK, Request
<1>2. ASSUME NEW r \in Requests, NEW step \in PC \ {"idle"}, req[r].pc # "idle",
             req' = [req EXCEPT ![r].pc = step],
             seqHolder' \in [Sites -> [Kinds -> Requests \cup {None}]],
             trackHolder' \in Requests \cup {None},
             UNCHANGED <<code, seq, tracking, issued, year>>
      PROVE  TypeOK'
  <2>1. /\ req' \in [Requests -> Request]
        /\ \A q \in Requests \ {r} : req'[q] = req[q]
        /\ req'[r].site = req[r].site /\ req'[r].kind = req[r].kind
        /\ req'[r].code = req[r].code
    BY <1>2, MoveEffect
  <2>2. \A q \in Requests : req'[q].pc # "idle" =>
           req'[q].site \in Sites /\ req'[q].kind \in Kinds /\ req'[q].code \in Codes
    BY <1>2, <2>1 DEF TypeOK
  <2>3. QED
    BY <1>2, <2>1, <2>2 DEF TypeOK, Request
<1>3. ASSUME NEW r \in Requests, NEW n \in Nat, TakeNumber(r, n), UNCHANGED trackHolder,
             UNCHANGED <<code, seq, tracking, issued, year>>, req[r].pc # "idle"
      PROVE  TypeOK'
  <2>1. req[r].site \in Sites /\ req[r].kind \in Kinds
    BY <1>3 DEF TypeOK
  <2>2. seqHolder' \in [Sites -> [Kinds -> Requests \cup {None}]]
    BY <1>3, <2>1 DEF TakeNumber, TypeOK
  <2>3. /\ req' \in [Requests -> Request]
        /\ \A q \in Requests \ {r} : req'[q] = req[q]
        /\ req'[r].site = req[r].site /\ req'[r].kind = req[r].kind
        /\ req'[r].code = req[r].code
    BY <1>3, TakeEffect
  <2>4. \A q \in Requests : req'[q].pc # "idle" =>
           req'[q].site \in Sites /\ req'[q].kind \in Kinds /\ req'[q].code \in Codes
    BY <1>3, <2>3 DEF TypeOK
  <2>5. QED
    BY <1>3, <2>2, <2>3, <2>4 DEF TypeOK, Request
<1>4. ASSUME NEW r \in Requests, Finish(r), UNCHANGED <<code, year>>,
             seq' \in [Sites -> [Kinds -> Nat]], tracking' \in BOOLEAN, issued' \subseteq Order
      PROVE  TypeOK'
  BY <1>4, FinishEffect DEF TypeOK, Request
<1>5. ASSUME NEW r \in Requests, SelectSequence(r) PROVE TypeOK'
  <2>1. /\ Seq(r) \in Nat /\ "inserting" \in PC \ {"idle"} /\ req[r].n \in Nat
        /\ req[r].pc # "idle"
    BY <1>5 DEF SelectSequence, Seq, TypeOK, PC
  <2>2. CASE req' = [req EXCEPT ![r].pc = "inserting"] /\ UNCHANGED seqHolder
    BY <1>2, <1>5, <2>1, <2>2 DEF SelectSequence, TypeOK
  <2>3. CASE TakeNumber(r, Seq(r))
    BY <1>3, <1>5, <2>1, <2>3 DEF SelectSequence
  <2>4. QED
    BY <1>5, <2>2, <2>3 DEF SelectSequence
<1>6. ASSUME NEW r \in Requests, InsertSequence(r) PROVE TypeOK'
  <2>1. CASE TakeNumber(r, 1) /\ UNCHANGED trackHolder
    BY <1>3, <1>6, <2>1 DEF InsertSequence
  <2>2. CASE Finish(r)
    BY <1>4, <1>6, <2>2 DEF InsertSequence, TypeOK
  <2>3. QED
    BY <1>6, <2>1, <2>2 DEF InsertSequence
<1>7. ASSUME NEW r \in Requests, SelectTracking(r) PROVE TypeOK'
  <2>1. /\ "inserting_tracking" \in PC \ {"idle"} /\ "tracked" \in PC \ {"idle"}
        /\ req[r].n \in Nat /\ req[r].pc # "idle"
    BY <1>7 DEF SelectTracking, TypeOK, PC
  <2>2. CASE req' = [req EXCEPT ![r].pc = "inserting_tracking"] /\ UNCHANGED trackHolder
    BY <1>2, <1>7, <2>1, <2>2 DEF SelectTracking, TypeOK
  <2>3. CASE req' = [req EXCEPT ![r].pc = "tracked"] /\ trackHolder' = r
    BY <1>2, <1>7, <2>1, <2>3 DEF SelectTracking, TypeOK
  <2>4. QED
    BY <1>7, <2>2, <2>3 DEF SelectTracking
<1>8. ASSUME NEW r \in Requests, InsertTracking(r) PROVE TypeOK'
  <2>1. "tracked" \in PC \ {"idle"} /\ req[r].n \in Nat /\ req[r].pc # "idle"
    BY <1>8 DEF InsertTracking, TypeOK, PC
  <2>2. CASE req' = [req EXCEPT ![r].pc = "tracked"] /\ trackHolder' = r /\ UNCHANGED seqHolder
    BY <1>2, <1>8, <2>1, <2>2 DEF InsertTracking, TypeOK
  <2>3. CASE Finish(r)
    BY <1>4, <1>8, <2>3 DEF InsertTracking, TypeOK
  <2>4. QED
    BY <1>8, <2>2, <2>3 DEF InsertTracking
<1>9. ASSUME NEW r \in Requests, CommitOrder(r) PROVE TypeOK'
  <2>1. /\ req[r].site \in Sites /\ req[r].kind \in Kinds /\ req[r].code \in Codes
        /\ req[r].year \in FirstYear..LastYear /\ req[r].n \in Nat /\ req[r].n + 1 \in Nat
    BY <1>9 DEF CommitOrder, TypeOK
  <2>2. OrderOf(r) \in Order
    BY <2>1 DEF OrderOf, Order
  <2>3. seq' \in [Sites -> [Kinds -> Nat]]
    BY <1>9, <2>1 DEF CommitOrder, TypeOK
  <2>4. QED
    BY <1>4, <1>9, <2>2, <2>3 DEF CommitOrder, TypeOK
<1>10. ASSUME NEW r \in Requests, Rollback(r) PROVE TypeOK'
  BY <1>4, <1>10 DEF Rollback, TypeOK
<1>11. ASSUME NEW s \in Sites, NEW c \in Codes, CreateSite(s, c) \/ RenameSite(s, c)
       PROVE  TypeOK'
  BY <1>11 DEF CreateSite, RenameSite, TypeOK
<1>12. CASE NewYear
  BY <1>12, YearAssumption DEF NewYear, TypeOK
<1>13. CASE UNCHANGED vars
  BY <1>13 DEF vars, TypeOK
<1>14. QED
  BY <1>1, <1>5, <1>6, <1>7, <1>8, <1>9, <1>10, <1>11, <1>12, <1>13 DEF AnyNext, Next, Advance

-----------------------------------------------------------------------------
(* The row of a sequence is held from the read of its number on.           *)

Held(q) == /\ seqHolder[req[q].site][req[q].kind] = q
           /\ req[q].n = NextNumber[req[q].site][req[q].kind]

\* A step of r that touches only sequence rows that are free or its own leaves
\* the numbers of the others held.
LEMMA OthersHeld ==
  ASSUME TypeOK, SequenceHeld, NEW r \in Requests,
         \A q \in Requests \ {r} : req'[q] = req[q],
         \A s \in Sites, k \in Kinds :
            seqHolder[s][k] \notin {r, None} =>
               seqHolder'[s][k] = seqHolder[s][k] /\ seq'[s][k] = seq[s][k],
         req'[r].pc \in HasNumber => Held(r)'
  PROVE  SequenceHeld'
<1>1. ASSUME NEW q \in Requests \ {r}, req'[q].pc \in HasNumber
      PROVE  Held(q)'
  <2>1. PICK s, k : s = req[q].site /\ k = req[q].kind
    OBVIOUS
  <2>2. req'[q] = req[q] /\ req[q].pc \in HasNumber
    BY <1>1
  <2>3. s \in Sites /\ k \in Kinds
    BY <2>1, <2>2 DEF HasNumber, TypeOK
  <2>4. seqHolder[s][k] = q /\ req[q].n = NextNumber[s][k]
    BY <2>1, <2>2 DEF SequenceHeld, HasNumber
  <2>5. seqHolder'[s][k] = q /\ seq'[s][k] = seq[s][k]
    BY <2>3, <2>4, NoneAssumption
  <2>6. NextNumber'[s][k] = NextNumber[s][k]
    BY <2>3, <2>5 DEF NextNumber
  <2>7. QED
    BY <2>1, <2>2, <2>4, <2>5, <2>6 DEF Held
<1>2. QED
  BY <1>1 DEF SequenceHeld, HasNumber, Held

\* A request that takes a free row of a sequence holds its number.
LEMMA TakeHolds ==
  ASSUME TypeOK, NEW r \in Requests, req[r].pc # "idle", NEW n \in Nat,
         TakeNumber(r, n), seq' = seq, n = IF Seq(r) = 0 THEN 1 ELSE Seq(r)
  PROVE  /\ Held(r)'
         /\ \A q \in Requests \ {r} : req'[q] = req[q]
         /\ \A s \in Sites, k \in Kinds :
               <<s, k>> # <<req[r].site, req[r].kind>> => seqHolder'[s][k] = seqHolder[s][k]
<1>1. PICK s0, k0 : s0 = req[r].site /\ k0 = req[r].kind /\ s0 \in Sites /\ k0 \in Kinds
  BY DEF TypeOK
<1>2. n \in Nat
  OBVIOUS
<1>3. /\ \A q \in Requests \ {r} : req'[q] = req[q]
      /\ req'[r].site = s0 /\ req'[r].kind = k0 /\ req'[r].n = n
  <2>1. /\ \A q \in Requests \ {r} : req'[q] = req[q]
        /\ req'[r].site = req[r].site /\ req'[r].kind = req[r].kind /\ req'[r].n = n
    BY <1>2, TakeEffect
  <2>2. QED
    BY <2>1, <1>1
<1>4. seqHolder' = [seqHolder EXCEPT ![s0][k0] = r]
  BY <1>1 DEF TakeNumber
<1>5. /\ seqHolder'[s0][k0] = r
      /\ \A s \in Sites, k \in Kinds : <<s, k>> # <<s0, k0>> => seqHolder'[s][k] = seqHolder[s][k]
  BY <1>1, <1>4 DEF TypeOK
<1>6. NextNumber'[s0][k0] = n
  BY <1>1 DEF NextNumber, Seq
<1>7. QED
  BY <1>1, <1>3, <1>5, <1>6 DEF Held

\* Every step, changes of site codes included, keeps the numbers held.
LEMMA HeldStep ==
  ASSUME TypeOK, SequenceHeld, [AnyNext]_vars
  PROVE  SequenceHeld'
<1>0. ASSUME UNCHANGED <<req, seq, seqHolder>> PROVE SequenceHeld'
  BY <1>0 DEF SequenceHeld, NextNumber
<1>1. ASSUME NEW r \in Requests, NEW s \in Sites, NEW k \in Kinds, ReadSite(r, s, k)
      PROVE  SequenceHeld'
  <2>1. /\ \A q \in Requests \ {r} : req'[q] = req[q]
        /\ req'[r].pc = "numbering"
        /\ seqHolder' = seqHolder /\ seq' = seq
    BY <1>1 DEF ReadSite, TypeOK
  <2>2. QED
    BY <2>1, OthersHeld DEF HasNumber
<1>2. ASSUME NEW r \in Requests, Finish(r),
             \A s \in Sites, k \in Kinds : seqHolder[s][k] \notin {r, None} => seq'[s][k] = seq[s][k]
      PROVE  SequenceHeld'
  <2>1. /\ \A q \in Requests \ {r} : req'[q] = req[q]
        /\ req'[r].pc = "idle"
        /\ \A s \in Sites, k \in Kinds :
              seqHolder[s][k] # r => seqHolder'[s][k] = seqHolder[s][k]
    BY <1>2, FinishEffect
  <2>2. QED
    BY <1>2, <2>1, OthersHeld DEF HasNumber
<1>3. ASSUME NEW r \in Requests, NEW n \in Nat, TakeNumber(r, n), seq' = seq,
             req[r].pc # "idle", SeqFree(r), n = IF Seq(r) = 0 THEN 1 ELSE Seq(r)
      PROVE  SequenceHeld'
  <2>1. /\ Held(r)'
        /\ \A q \in Requests \ {r} : req'[q] = req[q]
        /\ \A s \in Sites, k \in Kinds :
              <<s, k>> # <<req[r].site, req[r].kind>> => seqHolder'[s][k] = seqHolder[s][k]
    BY <1>3, TakeHolds
  <2>2. seqHolder[req[r].site][req[r].kind] = None
    BY <1>3 DEF SeqFree
  <2>3. \A s \in Sites, k \in Kinds :
          seqHolder[s][k] \notin {r, None} =>
             seqHolder'[s][k] = seqHolder[s][k] /\ seq'[s][k] = seq[s][k]
    BY <1>3, <2>1, <2>2
  <2>4. QED
    BY <2>1, <2>3, OthersHeld
<1>4. ASSUME NEW r \in Requests, NEW step \in PC \ {"idle"}, req' = [req EXCEPT ![r].pc = step],
             step \in HasNumber => req[r].pc \in HasNumber, UNCHANGED <<seq, seqHolder>>
      PROVE  SequenceHeld'
  <2>1. /\ \A q \in Requests \ {r} : req'[q] = req[q]
        /\ req'[r].pc = step /\ req'[r].site = req[r].site
        /\ req'[r].kind = req[r].kind /\ req'[r].n = req[r].n
    BY <1>4, MoveEffect
  <2>2. NextNumber' = NextNumber
    BY <1>4 DEF NextNumber
  <2>3. req'[r].pc \in HasNumber => Held(r)'
    BY <1>4, <2>1, <2>2 DEF SequenceHeld, Held, HasNumber
  <2>4. QED
    BY <1>4, <2>1, <2>3, OthersHeld
<1>5. ASSUME NEW r \in Requests, SelectSequence(r) PROVE SequenceHeld'
  <2>1. CASE req' = [req EXCEPT ![r].pc = "inserting"] /\ UNCHANGED seqHolder
    BY <1>4, <1>5, <2>1 DEF SelectSequence, PC, HasNumber
  <2>2. CASE Seq(r) > 0 /\ SeqFree(r) /\ TakeNumber(r, Seq(r))
    <3>1. Seq(r) \in Nat /\ req[r].pc # "idle"
      BY <1>5 DEF SelectSequence, Seq, TypeOK
    <3>2. Seq(r) = IF Seq(r) = 0 THEN 1 ELSE Seq(r)
      BY <2>2, <3>1
    <3>3. QED
      BY <1>3, <1>5, <2>2, <3>1, <3>2 DEF SelectSequence
  <2>3. QED
    BY <1>5, <2>1, <2>2 DEF SelectSequence
<1>6. ASSUME NEW r \in Requests, InsertSequence(r) PROVE SequenceHeld'
  <2>1. CASE Seq(r) = 0 /\ TakeNumber(r, 1)
    BY <1>3, <1>6, <2>1 DEF InsertSequence
  <2>2. CASE Finish(r)
    BY <1>2, <1>6, <2>2 DEF InsertSequence
  <2>3. QED
    BY <1>6, <2>1, <2>2 DEF InsertSequence
<1>7. ASSUME NEW r \in Requests, SelectTracking(r) PROVE SequenceHeld'
  BY <1>4, <1>7 DEF SelectTracking, PC, HasNumber
<1>8. ASSUME NEW r \in Requests, InsertTracking(r) PROVE SequenceHeld'
  <2>1. CASE req' = [req EXCEPT ![r].pc = "tracked"] /\ UNCHANGED seqHolder
    BY <1>4, <1>8, <2>1 DEF InsertTracking, PC, HasNumber
  <2>2. CASE Finish(r)
    BY <1>2, <1>8, <2>2 DEF InsertTracking
  <2>3. QED
    BY <1>8, <2>1, <2>2 DEF InsertTracking
<1>9. ASSUME NEW r \in Requests, CommitOrder(r) PROVE SequenceHeld'
  <2>1. seqHolder[req[r].site][req[r].kind] = r
    BY <1>9 DEF CommitOrder, SequenceHeld
  <2>2. \A s \in Sites, k \in Kinds : seqHolder[s][k] \notin {r, None} => seq'[s][k] = seq[s][k]
    BY <1>9, <2>1 DEF CommitOrder, TypeOK
  <2>3. QED
    BY <1>2, <1>9, <2>2 DEF CommitOrder
<1>10. ASSUME NEW r \in Requests, Rollback(r) PROVE SequenceHeld'
  BY <1>2, <1>10 DEF Rollback
<1>11. ASSUME NEW s \in Sites, NEW c \in Codes, CreateSite(s, c) \/ RenameSite(s, c)
       PROVE  SequenceHeld'
  BY <1>0, <1>11 DEF CreateSite, RenameSite
<1>12. CASE NewYear
  BY <1>0, <1>12 DEF NewYear
<1>13. CASE UNCHANGED vars
  BY <1>0, <1>13 DEF vars
<1>14. QED
  BY <1>1, <1>5, <1>6, <1>7, <1>8, <1>9, <1>10, <1>11, <1>12, <1>13 DEF AnyNext, Next, Advance

\* Only the commit of an order writes orders and sequences.
LEMMA OnlyCommits ==
  ASSUME [AnyNext]_vars
  PROVE  \/ UNCHANGED <<issued, seq>>
         \/ \E r \in Requests : CommitOrder(r)
BY DEF AnyNext, Next, Advance, ReadSite, SelectSequence, InsertSequence, SelectTracking,
       InsertTracking, Rollback, CreateSite, RenameSite, NewYear, vars

\* The commit of an order uses the next number of its sequence up.
LEMMA CommitTakesNext ==
  ASSUME TypeOK, SequenceHeld, NEW r \in Requests, CommitOrder(r)
  PROVE  /\ OrderOf(r).site \in Sites /\ OrderOf(r).kind \in Kinds
         /\ OrderOf(r).n = NextNumber[OrderOf(r).site][OrderOf(r).kind]
         /\ issued' = issued \cup {OrderOf(r)}
         /\ NextNumber' = [NextNumber EXCEPT ![OrderOf(r).site][OrderOf(r).kind] = @ + 1]
<1>1. PICK s, k : s = req[r].site /\ k = req[r].kind /\ s \in Sites /\ k \in Kinds
  BY DEF CommitOrder, TypeOK
<1>2. req[r].n = NextNumber[s][k] /\ req[r].n \in Nat
  BY <1>1 DEF CommitOrder, SequenceHeld, TypeOK
<1>3. OrderOf(r).site = s /\ OrderOf(r).kind = k /\ OrderOf(r).n = req[r].n
  BY <1>1 DEF OrderOf
<1>4. seq' = [seq EXCEPT ![s][k] = req[r].n + 1]
  BY <1>1 DEF CommitOrder
<1>5. NextNumber' = [NextNumber EXCEPT ![s][k] = @ + 1]
  <2>1. /\ seq \in [Sites -> [Kinds -> Nat]]
        /\ \A t \in Sites, l \in Kinds :
              seq'[t][l] = IF t = s /\ l = k THEN req[r].n + 1 ELSE seq[t][l]
    BY <1>1, <1>4 DEF TypeOK
  <2>2. \A t \in Sites, l \in Kinds :
           NextNumber'[t][l] = IF t = s /\ l = k THEN req[r].n + 1 ELSE NextNumber[t][l]
    BY <1>2, <2>1 DEF NextNumber
  <2>3. PICK old, new : old = NextNumber /\ new = NextNumber'
    OBVIOUS
  <2>4. old \in [Sites -> [Kinds -> Nat]]
    BY <2>1, <2>3 DEF NextNumber
  <2>5. new \in [Sites -> [Kinds -> Nat]]
    <3>1. seq' \in [Sites -> [Kinds -> Nat]]
      BY <1>1, <1>2, <1>4 DEF TypeOK
    <3>2. QED
      BY <2>3, <3>1 DEF NextNumber
  <2>6. \A t \in Sites, l \in Kinds :
           new[t][l] = IF t = s /\ l = k THEN old[s][k] + 1 ELSE old[t][l]
    BY <1>2, <2>2, <2>3
  <2>8. new = [old EXCEPT ![s] = [old[s] EXCEPT ![k] = old[s][k] + 1]]
    <3>1. /\ new[s] \in [Kinds -> Nat] /\ old[s] \in [Kinds -> Nat]
          /\ \A l \in Kinds : new[s][l] = IF l = k THEN old[s][k] + 1 ELSE old[s][l]
      BY <1>1, <2>4, <2>5, <2>6
    <3>2. new[s] = [old[s] EXCEPT ![k] = old[s][k] + 1]
      BY <1>1, <3>1
    <3>3. ASSUME NEW t \in Sites, t # s PROVE new[t] = old[t]
      <4>1. /\ new[t] \in [Kinds -> Nat] /\ old[t] \in [Kinds -> Nat]
            /\ \A l \in Kinds : new[t][l] = old[t][l]
        BY <2>4, <2>5, <2>6, <3>3
      <4>2. QED
        BY <4>1
    <3>4. QED
      BY <1>1, <2>4, <2>5, <3>2, <3>3
  <2>7. QED
    BY <1>1, <2>3, <2>4, <2>8
<1>6. QED
  BY <1>1, <1>2, <1>3, <1>5 DEF CommitOrder

-----------------------------------------------------------------------------
\* The numbers of a sequence stay 1 to next - 1 when an order is committed.
LEMMA NoGapsStep ==
  ASSUME TypeOK, SequenceHeld, NoGaps, [AnyNext]_vars
  PROVE  NoGaps'
<1>1. CASE UNCHANGED <<issued, seq>>
  BY <1>1 DEF NoGaps, NextNumber
<1>2. ASSUME NEW r \in Requests, CommitOrder(r) PROVE NoGaps'
  <2>1. PICK o, old, new : o = OrderOf(r) /\ old = NextNumber /\ new = NextNumber'
    OBVIOUS
  <2>2. /\ o.site \in Sites /\ o.kind \in Kinds /\ o.n = old[o.site][o.kind]
        /\ issued' = issued \cup {o}
        /\ new = [old EXCEPT ![o.site][o.kind] = @ + 1]
    BY <1>2, <2>1, CommitTakesNext
  <2>3. old \in [Sites -> [Kinds -> Nat \ {0}]]
    BY <2>1 DEF NextNumber, TypeOK
  <2>4. \A s \in Sites, k \in Kinds :
           {e.n : e \in {i \in issued : i.site = s /\ i.kind = k}} = 1..(old[s][k] - 1)
    BY <2>1 DEF NoGaps
  <2>5. ASSUME NEW s \in Sites, NEW k \in Kinds
        PROVE  {e.n : e \in {i \in issued' : i.site = s /\ i.kind = k}} = 1..(new[s][k] - 1)
    <3>1. CASE s = o.site /\ k = o.kind
      <4>1. {e.n : e \in {i \in issued' : i.site = s /\ i.kind = k}}
              = {e.n : e \in {i \in issued : i.site = s /\ i.kind = k}} \cup {o.n}
        BY <2>2, <3>1
      <4>2. new[s][k] = old[s][k] + 1 /\ old[s][k] \in Nat \ {0} /\ o.n = old[s][k]
        BY <2>2, <2>3, <3>1
      <4>3. 1..(old[s][k] - 1) \cup {old[s][k]} = 1..(new[s][k] - 1)
        BY <4>2
      <4>4. QED
        BY <2>4, <4>1, <4>2, <4>3
    <3>2. CASE ~(s = o.site /\ k = o.kind)
      <4>1. {i \in issued' : i.site = s /\ i.kind = k} = {i \in issued : i.site = s /\ i.kind = k}
        BY <2>2, <3>2
      <4>2. new[s][k] = old[s][k]
        BY <2>2, <2>3, <3>2
      <4>3. QED
        BY <2>4, <4>1, <4>2
    <3>3. QED
      BY <3>1, <3>2
  <2>6. QED
    BY <2>1, <2>5 DEF NoGaps
<1>3. QED
  BY <1>1, <1>2, OnlyCommits

\* Before the first order every sequence is empty and nobody has a number.
LEMMA SequenceInit ==
  ASSUME Init
  PROVE  SequenceHeld /\ NoGaps
<1>1. SequenceHeld
  BY DEF Init, IdleRequest, SequenceHeld
<1>2. NoGaps
  <2>1. ASSUME NEW s \in Sites, NEW k \in Kinds
        PROVE  {e.n : e \in {i \in issued : i.site = s /\ i.kind = k}} = 1..(NextNumber[s][k] - 1)
    <3>1. NextNumber[s][k] = 1 /\ 1..(1 - 1) = {}
      BY DEF Init, NextNumber
    <3>2. issued = {}
      BY DEF Init
    <3>3. QED
      BY <3>1, <3>2
  <2>2. QED
    BY <2>1 DEF NoGaps
<1>3. QED
  BY <1>1, <1>2

\* The part of the invariant that changes of site codes cannot disturb.
SequenceInv == TypeOK /\ SequenceHeld /\ NoGaps

LEMMA SequenceInvariant == SpecWithRenames => []SequenceInv
<1>1. Init => SequenceInv
  BY TypeInit, SequenceInit DEF SequenceInv
<1>2. SequenceInv /\ [AnyNext]_vars => SequenceInv'
  BY TypeStep, HeldStep, NoGapsStep DEF SequenceInv
<1>3. QED
  BY <1>1, <1>2, PTL DEF SpecWithRenames, AnyNext

\* The state is well typed whatever the requests do: a request in progress has
\* a site with a code (the early return of _assert_company_site).
THEOREM NumberingTypeCorrect == SpecWithRenames => []TypeOK
<1>1. SequenceInv => TypeOK
  BY DEF SequenceInv
<1>2. QED
  BY <1>1, SequenceInvariant, PTL

\* The orders of a site and kind are numbered 1, 2, 3, ... without a gap, for
\* any interleaving of creations and rollbacks and even if codes are changed.
THEOREM NoGapsAlways == SpecWithRenames => []NoGaps
<1>1. SequenceInv => NoGaps
  BY DEF SequenceInv
<1>2. QED
  BY <1>1, SequenceInvariant, PTL

-----------------------------------------------------------------------------
(* While codes never change.                                               *)

\* A request is idle, works on with what it read, or has just read its site.
LEMMA ReadsKept ==
  ASSUME TypeOK, [Next]_vars, NEW q \in Requests
  PROVE  \/ req'[q].pc = "idle"
         \/ /\ req[q].pc # "idle"
            /\ req'[q].site = req[q].site /\ req'[q].code = req[q].code
         \/ /\ req'[q].site \in Sites /\ req'[q].code = code[req'[q].site]
            /\ UNCHANGED code
<1> DEFINE Kept == \/ req'[q].pc = "idle"
                   \/ /\ req[q].pc # "idle"
                      /\ req'[q].site = req[q].site /\ req'[q].code = req[q].code
                   \/ /\ req'[q].site \in Sites /\ req'[q].code = code[req'[q].site]
                      /\ UNCHANGED code
<1>0. CASE req'[q] = req[q]
  <2>1. req[q].pc \in PC /\ (req[q].pc = "idle" \/ req[q].pc # "idle")
    BY DEF TypeOK
  <2>2. QED
    BY <1>0, <2>1
<1>1. ASSUME NEW r \in Requests, NEW s \in Sites, NEW k \in Kinds, ReadSite(r, s, k)
      PROVE  Kept
  <2>1. CASE q = r
    BY <1>1, <2>1 DEF ReadSite, TypeOK
  <2>2. CASE q # r
    BY <1>0, <1>1, <2>2 DEF ReadSite, TypeOK
  <2>3. QED
    BY <2>1, <2>2
<1>2. ASSUME NEW r \in Requests, Finish(r) PROVE Kept
  <2>1. req'[r].pc = "idle" /\ \A p \in Requests \ {r} : req'[p] = req[p]
    BY <1>2, FinishEffect
  <2>2. QED
    BY <1>0, <2>1
<1>3. ASSUME NEW r \in Requests, NEW n \in Nat, TakeNumber(r, n), req[r].pc # "idle" PROVE Kept
  <2>1. /\ \A p \in Requests \ {r} : req'[p] = req[p]
        /\ req'[r].site = req[r].site /\ req'[r].code = req[r].code
    BY <1>3, TakeEffect
  <2>2. QED
    BY <1>0, <1>3, <2>1
<1>4. ASSUME NEW r \in Requests, NEW step \in PC \ {"idle"}, req' = [req EXCEPT ![r].pc = step],
             req[r].pc # "idle"
      PROVE  Kept
  <2>1. /\ \A p \in Requests \ {r} : req'[p] = req[p]
        /\ req'[r].site = req[r].site /\ req'[r].code = req[r].code
    BY <1>4, MoveEffect
  <2>2. QED
    BY <1>0, <1>4, <2>1
<1> HIDE DEF Kept
<1>5. ASSUME NEW r \in Requests, SelectSequence(r) PROVE Kept
  <2>1. CASE req' = [req EXCEPT ![r].pc = "inserting"]
    BY <1>4, <1>5, <2>1 DEF SelectSequence, PC
  <2>2. CASE TakeNumber(r, Seq(r))
    <3>1. Seq(r) \in Nat /\ req[r].pc # "idle"
      BY <1>5 DEF SelectSequence, Seq, TypeOK
    <3>2. QED
      BY <1>3, <2>2, <3>1
  <2>3. QED
    BY <1>5, <2>1, <2>2 DEF SelectSequence
<1>6. ASSUME NEW r \in Requests, InsertSequence(r) PROVE Kept
  BY <1>2, <1>3, <1>6 DEF InsertSequence
<1>7. ASSUME NEW r \in Requests, SelectTracking(r) PROVE Kept
  BY <1>4, <1>7 DEF SelectTracking, PC
<1>8. ASSUME NEW r \in Requests, InsertTracking(r) PROVE Kept
  BY <1>2, <1>4, <1>8 DEF InsertTracking, PC
<1>9. ASSUME NEW r \in Requests, CommitOrder(r) \/ Rollback(r) PROVE Kept
  <2>1. Finish(r)
    BY <1>9 DEF CommitOrder, Rollback
  <2>2. QED
    BY <1>2, <2>1
<1>10. ASSUME UNCHANGED req PROVE Kept
  BY <1>0, <1>10 DEF Kept
<1>11. Kept
  <2>1. CASE \E s \in Sites, c \in Codes : CreateSite(s, c)
    BY <1>10, <2>1 DEF CreateSite
  <2>2. CASE NewYear \/ UNCHANGED vars
    BY <1>10, <2>2 DEF NewYear, vars
  <2>3. CASE \E r \in Requests : Advance(r) \/ Rollback(r)
    BY <1>5, <1>6, <1>7, <1>8, <1>9, <2>3 DEF Advance
  <2>4. CASE \E r \in Requests, s \in Sites, k \in Kinds : ReadSite(r, s, k)
    BY <1>1, <2>4
  <2>5. QED
    BY <2>1, <2>2, <2>3, <2>4 DEF Next
<1>12. QED
  BY <1>11 DEF Kept

\* Only the creation of a site writes a code, and it writes a new one.
LEMMA OnlyCreates ==
  ASSUME [Next]_vars
  PROVE  \/ UNCHANGED code
         \/ /\ \E s \in Sites, c \in Codes : CreateSite(s, c)
            /\ UNCHANGED <<issued, seq>>
BY DEF Next, Advance, ReadSite, SelectSequence, InsertSequence, SelectTracking,
       InsertTracking, CommitOrder, Rollback, CreateSite, NewYear, vars

LEMMA CodesFixedStep ==
  ASSUME TypeOK, SequenceHeld, CodesFixed, [Next]_vars
  PROVE  CodesFixed'
<1>1. \A s \in Sites : code[s] \in Codes => code'[s] = code[s]
  <2>1. ASSUME NEW s \in Sites, NEW c \in Codes, CreateSite(s, c)
        PROVE  \A t \in Sites : code[t] \in Codes => code'[t] = code[t]
    BY <2>1, NoneAssumption DEF CreateSite, TypeOK
  <2>2. QED
    BY <2>1, OnlyCreates
<1>2. \A s, t \in Sites : code'[s] = code'[t] /\ code'[s] # None => s = t
  <2>1. ASSUME NEW s \in Sites, NEW c \in Codes, CreateSite(s, c)
        PROVE  \A t, u \in Sites : code'[t] = code'[u] /\ code'[t] # None => t = u
    BY <2>1 DEF CreateSite, TypeOK, CodesFixed
  <2>2. QED
    BY <2>1, OnlyCreates DEF CodesFixed
<1>3. \A q \in Requests : req'[q].pc # "idle" => req'[q].code = code'[req'[q].site]
  <2>1. ASSUME NEW q \in Requests, req'[q].pc # "idle"
        PROVE  req'[q].code = code'[req'[q].site]
    <3>1. CASE /\ req[q].pc # "idle"
               /\ req'[q].site = req[q].site /\ req'[q].code = req[q].code
      <4>1. /\ req[q].site \in Sites /\ req[q].code \in Codes
            /\ req[q].code = code[req[q].site]
        BY <3>1 DEF TypeOK, CodesFixed
      <4>2. QED
        BY <1>1, <3>1, <4>1
    <3>2. CASE /\ req'[q].site \in Sites /\ req'[q].code = code[req'[q].site]
               /\ UNCHANGED code
      BY <3>2
    <3>3. QED
      BY <2>1, <3>1, <3>2, ReadsKept
  <2>2. QED
    BY <2>1
<1>4. \A e \in issued' : e.code = code'[e.site]
  <2>1. ASSUME NEW e \in issued PROVE e.code = code'[e.site]
    <3>1. e.site \in Sites /\ e.code \in Codes
      BY DEF TypeOK, Order
    <3>2. QED
      BY <1>1, <3>1 DEF CodesFixed
  <2>2. ASSUME NEW r \in Requests, CommitOrder(r)
        PROVE  issued' = issued \cup {OrderOf(r)} /\ OrderOf(r).code = code'[OrderOf(r).site]
    <3>1. req[r].pc # "idle" /\ code' = code /\ issued' = issued \cup {OrderOf(r)}
      BY <2>2 DEF CommitOrder
    <3>2. OrderOf(r).code = req[r].code /\ OrderOf(r).site = req[r].site
      BY DEF OrderOf
    <3>3. QED
      BY <3>1, <3>2 DEF CodesFixed
  <2>3. [AnyNext]_vars
    BY DEF AnyNext
  <2>4. QED
    BY <2>1, <2>2, <2>3, OnlyCommits
<1>5. QED
  BY <1>2, <1>3, <1>4 DEF CodesFixed

LEMMA IssuedBelowNextStep ==
  ASSUME TypeOK, SequenceHeld, IssuedBelowNext, [AnyNext]_vars
  PROVE  IssuedBelowNext'
<1>1. CASE UNCHANGED <<issued, seq>>
  BY <1>1 DEF IssuedBelowNext, NextNumber
<1>2. ASSUME NEW r \in Requests, CommitOrder(r) PROVE IssuedBelowNext'
  <2>1. PICK o, old, new : o = OrderOf(r) /\ old = NextNumber /\ new = NextNumber'
    OBVIOUS
  <2>2. /\ o.site \in Sites /\ o.kind \in Kinds /\ o.n = old[o.site][o.kind]
        /\ issued' = issued \cup {o}
        /\ new = [old EXCEPT ![o.site][o.kind] = @ + 1]
    BY <1>2, <2>1, CommitTakesNext
  <2>3. old \in [Sites -> [Kinds -> Nat]]
    BY <2>1 DEF NextNumber, TypeOK
  <2>4. /\ new[o.site][o.kind] = old[o.site][o.kind] + 1
        /\ \A s \in Sites, k \in Kinds : new[s][k] >= old[s][k]
    BY <2>2, <2>3
  <2>5. o.n < new[o.site][o.kind]
    BY <2>2, <2>3, <2>4
  <2>6. ASSUME NEW e \in issued PROVE e.n < new[e.site][e.kind]
    <3>1. e.site \in Sites /\ e.kind \in Kinds /\ e.n \in Nat
      BY DEF TypeOK, Order
    <3>2. PICK a, b : a = old[e.site][e.kind] /\ b = new[e.site][e.kind]
      OBVIOUS
    <3>3. a \in Nat /\ b \in Nat /\ b >= a
      BY <2>2, <2>3, <2>4, <3>1, <3>2
    <3>4. e.n < a
      BY <2>1, <3>2 DEF IssuedBelowNext
    <3>5. QED
      BY <3>1, <3>2, <3>3, <3>4
  <2>7. QED
    BY <2>1, <2>2, <2>5, <2>6 DEF IssuedBelowNext
<1>3. QED
  BY <1>1, <1>2, OnlyCommits

\* Distinct codes and numbers below next leave the next number of every
\* sequence free in the unique constraint.
LEMMA NextIsFree ==
  ASSUME TypeOK, SequenceHeld, CodesFixed, IssuedBelowNext
  PROVE  NumberReserved
<1>1. ASSUME NEW r \in Requests, req[r].pc \in {"numbered", "inserting_tracking", "tracked"},
             NEW e \in issued, Number(e) = Number(OrderOf(r))
      PROVE  FALSE
  <2>1. e.code = req[r].code /\ e.kind = req[r].kind /\ e.n = req[r].n
    BY <1>1 DEF Number, OrderOf
  <2>2. req[r].code \in Codes /\ req[r].site \in Sites /\ e.site \in Sites
    BY <1>1 DEF TypeOK, Order
  <2>3. code[e.site] = code[req[r].site] /\ code[e.site] # None
    BY <1>1, <2>1, <2>2, NoneAssumption DEF CodesFixed
  <2>4. e.site = req[r].site
    BY <2>2, <2>3 DEF CodesFixed
  <2>5. req[r].n = NextNumber[req[r].site][req[r].kind]
    BY <1>1 DEF SequenceHeld
  <2>6. req[r].n < NextNumber[req[r].site][req[r].kind]
    BY <2>1, <2>4 DEF IssuedBelowNext
  <2>7. req[r].n \in Nat
    BY DEF TypeOK
  <2>8. QED
    BY <2>5, <2>6, <2>7
<1>2. QED
  BY <1>1 DEF NumberReserved

\* The inductive part of NumberingInv.
CodesInv == TypeOK /\ SequenceHeld /\ CodesFixed /\ IssuedBelowNext

LEMMA CodesInvariant == Spec => []CodesInv
<1>1. ASSUME Init PROVE CodesInv
  <2>1. CodesFixed /\ IssuedBelowNext
    BY <1>1 DEF Init, IdleRequest, CodesFixed, IssuedBelowNext
  <2>2. QED
    BY <1>1, <2>1, TypeInit, SequenceInit DEF CodesInv
<1>2. ASSUME CodesInv, [Next]_vars PROVE CodesInv'
  <2>1. [AnyNext]_vars
    BY <1>2 DEF AnyNext
  <2>2. TypeOK /\ SequenceHeld /\ CodesFixed /\ IssuedBelowNext
    BY <1>2 DEF CodesInv
  <2>3. TypeOK' /\ SequenceHeld'
    BY <2>1, <2>2, TypeStep, HeldStep
  <2>4. CodesFixed' /\ IssuedBelowNext'
    BY <1>2, <2>1, <2>2, CodesFixedStep, IssuedBelowNextStep
  <2>5. QED
    BY <2>3, <2>4 DEF CodesInv
<1>3. QED
  BY <1>1, <1>2, PTL DEF Spec

\* While site codes never change, an order about to be committed has a number
\* that no order of the company carries, in any year, and the row it came from.
THEOREM NumberingSafe == Spec => []NumberingInv
<1>1. CodesInv => NumberingInv
  BY NextIsFree DEF CodesInv, NumberingInv
<1>2. QED
  BY <1>1, CodesInvariant, PTL

-----------------------------------------------------------------------------
\* The sequences of a company implement NumberRegister: a commit takes the next
\* number of its site and kind, and nothing else takes or skips one.
THEOREM NumberingRefinesRegister == Spec => RegisterSpec
<1>1. ASSUME Init PROVE Register!Init
  BY <1>1 DEF Init, Register!Init, NextNumber, Taken
<1>2. ASSUME CodesInv, [Next]_vars
      PROVE  [\E s \in Sites, k \in Kinds : Register!Take(s, k)]_(Register!vars)
  <2>1. [AnyNext]_vars
    BY <1>2 DEF AnyNext
  <2>2. CASE UNCHANGED <<issued, seq>>
    BY <2>2 DEF Register!vars, NextNumber, Taken
  <2>3. ASSUME NEW r \in Requests, CommitOrder(r)
        PROVE  \E s \in Sites, k \in Kinds : Register!Take(s, k)
    <3>1. PICK o : o = OrderOf(r)
      OBVIOUS
    <3>2. /\ o.site \in Sites /\ o.kind \in Kinds
          /\ o.n = NextNumber[o.site][o.kind]
          /\ issued' = issued \cup {o}
          /\ NextNumber' = [NextNumber EXCEPT ![o.site][o.kind] = @ + 1]
      BY <1>2, <2>3, <3>1, CommitTakesNext DEF CodesInv
    <3>3. Taken' = Taken \cup {<<o.site, o.kind, o.n>>}
      BY <3>2 DEF Taken
    <3>4. Register!Take(o.site, o.kind)
      BY <3>2, <3>3 DEF Register!Take
    <3>5. QED
      BY <3>2, <3>4
  <2>4. QED
    BY <2>1, <2>2, <2>3, OnlyCommits
<1>3. QED
  BY <1>1, <1>2, CodesInvariant, PTL DEF Spec, RegisterSpec, Register!Spec
=============================================================================
