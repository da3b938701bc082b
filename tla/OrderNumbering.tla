--------------------------- MODULE OrderNumbering ---------------------------
(***************************************************************************)
(* The numbers of a company's service orders: allocate_order_number and    *)
(* allocate_tracking_code inside the transaction of create_service_order,  *)
(* and the site codes that become part of the number.  A row of a sequence *)
(* is locked FOR UPDATE until the transaction ends; the insert of a row    *)
(* waits for a concurrent insert of the same key and fails if it commits.  *)
(* Orders are never deleted here, and the random tracking code is left     *)
(* out: only the company-wide row it locks matters.                        *)
(***************************************************************************)
EXTENDS Integers, FiniteSets

CONSTANTS Sites,      \* sites of the company
          Kinds,      \* kinds of order, each with its own prefix
          Codes,      \* site codes
          Requests,   \* concurrently running requests
          FirstYear,
          LastYear,   \* bound on the calendar
          MaxNext,    \* bound: no order is begun at this next_value
          None        \* no site code, no lock holder, no site, no kind

ASSUME YearAssumption == FirstYear \in Nat /\ LastYear \in Nat /\ FirstYear <= LastYear
ASSUME NextAssumption == MaxNext \in Nat
ASSUME NoneAssumption == /\ None \notin Sites /\ None \notin Kinds
                         /\ None \notin Codes /\ None \notin Requests

VARIABLES
  code,         \* code[s]: committed site code, None before the site exists
  seq,          \* seq[s][k]: committed next_value, 0 while there is no row
  seqHolder,    \* seqHolder[s][k]: transaction that holds the sequence row
  tracking,     \* whether the company has its order_tracking_sequences row
  trackHolder,  \* transaction that holds the tracking row
  issued,       \* orders committed: [site, kind, code, year, n]
  year,         \* the calendar year
  req           \* req[r]: progress and local reads of request r

vars == <<code, seq, seqHolder, tracking, trackHolder, issued, year, req>>

PC == {"idle", "numbering", "inserting", "numbered", "inserting_tracking", "tracked"}

IdleRequest == [pc |-> "idle", site |-> None, kind |-> None, code |-> None,
                year |-> FirstYear, n |-> 0]

Order == [site : Sites, kind : Kinds, code : Codes, year : FirstYear..LastYear, n : Nat]

\* format_order_number.
Number(e) == <<e.code, e.kind, e.year, e.n>>

\* The order a request in progress is about to insert.
OrderOf(r) == [site |-> req[r].site, kind |-> req[r].kind, code |-> req[r].code,
               year |-> req[r].year, n |-> req[r].n]

TypeOK ==
  /\ code \in [Sites -> Codes \cup {None}]
  /\ seq \in [Sites -> [Kinds -> Nat]]
  /\ seqHolder \in [Sites -> [Kinds -> Requests \cup {None}]]
  /\ tracking \in BOOLEAN
  /\ trackHolder \in Requests \cup {None}
  /\ issued \subseteq Order
  /\ year \in FirstYear..LastYear
  /\ req \in [Requests -> [pc : PC, site : Sites \cup {None}, kind : Kinds \cup {None},
                           code : Codes \cup {None}, year : FirstYear..LastYear, n : Nat]]
  /\ \A r \in Requests : req[r].pc # "idle" =>
        req[r].site \in Sites /\ req[r].kind \in Kinds /\ req[r].code \in Codes

Init ==
  /\ code = [s \in Sites |-> None]
  /\ seq = [s \in Sites |-> [k \in Kinds |-> 0]]
  /\ seqHolder = [s \in Sites |-> [k \in Kinds |-> None]]
  /\ tracking = FALSE
  /\ trackHolder = None
  /\ issued = {}
  /\ year = FirstYear
  /\ req = [r \in Requests |-> IdleRequest]

-----------------------------------------------------------------------------
(* create_service_order.  A definition named ..._Faulty is the definition   *)
(* that follows it with a plausible mistake; no formula uses it.           *)

Seq(r)     == seq[req[r].site][req[r].kind]
SeqFree(r) == seqHolder[req[r].site][req[r].kind] = None

\* The request takes the sequence row and the number in it.
TakeNumber(r, n) ==
  /\ seqHolder' = [seqHolder EXCEPT ![req[r].site][req[r].kind] = r]
  /\ req' = [req EXCEPT ![r] = [@ EXCEPT !.pc = "numbered", !.n = n, !.year = year]]

\* The lock of the tracking row outlives the transaction.
Finish_Faulty(r) ==
  /\ req' = [req EXCEPT ![r] = IdleRequest]
  /\ seqHolder' = [s \in Sites |-> [k \in Kinds |->
                     IF seqHolder[s][k] = r THEN None ELSE seqHolder[s][k]]]
  /\ UNCHANGED trackHolder

\* The end of a transaction releases its row locks.
Finish(r) ==
  /\ req' = [req EXCEPT ![r] = IdleRequest]
  /\ seqHolder' = [s \in Sites |-> [k \in Kinds |->
                     IF seqHolder[s][k] = r THEN None ELSE seqHolder[s][k]]]
  /\ trackHolder' = IF trackHolder = r THEN None ELSE trackHolder

\* _assert_company_site: the site's code is read here and used later.
ReadSite(r, s, k) ==
  /\ req[r].pc = "idle"
  /\ code[s] # None
  /\ seq[s][k] < MaxNext
  /\ req' = [req EXCEPT ![r] = [pc |-> "numbering", site |-> s, kind |-> k,
                                 code |-> code[s], year |-> FirstYear, n |-> 0]]
  /\ UNCHANGED <<code, seq, seqHolder, tracking, trackHolder, issued, year>>

\* The sequence row is read without with_for_update.
SelectSequence_Faulty(r) ==
  /\ req[r].pc = "numbering"
  /\ \/ /\ Seq(r) = 0
        /\ req' = [req EXCEPT ![r].pc = "inserting"]
        /\ UNCHANGED seqHolder
     \/ /\ Seq(r) > 0
        /\ TakeNumber(r, Seq(r))
  /\ UNCHANGED <<code, seq, tracking, trackHolder, issued, year>>

\* SELECT ... FOR UPDATE of the sequence: waits for the holder of an existing
\* row and then reads its latest value; sees no row while none is committed.
SelectSequence(r) ==
  /\ req[r].pc = "numbering"
  /\ \/ /\ Seq(r) = 0
        /\ req' = [req EXCEPT ![r].pc = "inserting"]
        /\ UNCHANGED seqHolder
     \/ /\ Seq(r) > 0
        /\ SeqFree(r)
        /\ TakeNumber(r, Seq(r))
  /\ UNCHANGED <<code, seq, tracking, trackHolder, issued, year>>

\* INSERT of the sequence's first row: waits for a concurrent insert of the
\* same key; if that one committed, this transaction fails.
InsertSequence(r) ==
  /\ req[r].pc = "inserting"
  /\ SeqFree(r)
  /\ \/ /\ Seq(r) = 0
        /\ TakeNumber(r, 1)
        /\ UNCHANGED trackHolder
     \/ /\ Seq(r) > 0
        /\ Finish(r)
  /\ UNCHANGED <<code, seq, tracking, issued, year>>

\* The same for the company's row of order_tracking_sequences.
SelectTracking(r) ==
  /\ req[r].pc = "numbered"
  /\ \/ /\ ~tracking
        /\ req' = [req EXCEPT ![r].pc = "inserting_tracking"]
        /\ UNCHANGED trackHolder
     \/ /\ tracking
        /\ trackHolder = None
        /\ trackHolder' = r
        /\ req' = [req EXCEPT ![r].pc = "tracked"]
  /\ UNCHANGED <<code, seq, seqHolder, tracking, issued, year>>

InsertTracking(r) ==
  /\ req[r].pc = "inserting_tracking"
  /\ trackHolder = None
  /\ \/ /\ ~tracking
        /\ trackHolder' = r
        /\ req' = [req EXCEPT ![r].pc = "tracked"]
        /\ UNCHANGED seqHolder
     \/ /\ tracking
        /\ Finish(r)
  /\ UNCHANGED <<code, seq, tracking, issued, year>>

\* The incremented next_value is not written back for a first order.
CommitOrder_Faulty(r) ==
  /\ req[r].pc = "tracked"
  /\ \A e \in issued : Number(e) # Number(OrderOf(r))
  /\ issued' = issued \cup {OrderOf(r)}
  /\ seq' = [seq EXCEPT ![req[r].site][req[r].kind] = IF @ = 0 THEN 1 ELSE req[r].n + 1]
  /\ tracking' = TRUE
  /\ Finish(r)
  /\ UNCHANGED <<code, year>>

\* The order, its number's successor and the tracking row become visible
\* together, unless the unique constraint on order numbers refuses the order:
\* then everything is rolled back (Rollback).
CommitOrder(r) ==
  /\ req[r].pc = "tracked"
  /\ \A e \in issued : Number(e) # Number(OrderOf(r))
  /\ issued' = issued \cup {OrderOf(r)}
  /\ seq' = [seq EXCEPT ![req[r].site][req[r].kind] = req[r].n + 1]
  /\ tracking' = TRUE
  /\ Finish(r)
  /\ UNCHANGED <<code, year>>

\* A rollback that has already stored the incremented counter.
Rollback_Faulty(r) ==
  /\ req[r].pc # "idle"
  /\ Finish(r)
  /\ seq' = IF req[r].pc = "tracked"
              THEN [seq EXCEPT ![req[r].site][req[r].kind] = req[r].n + 1] ELSE seq
  /\ UNCHANGED <<code, tracking, issued, year>>

\* A request that fails, at the unique constraint or elsewhere, writes nothing.
Rollback(r) ==
  /\ req[r].pc # "idle"
  /\ Finish(r)
  /\ UNCHANGED <<code, seq, tracking, issued, year>>

-----------------------------------------------------------------------------
(* Sites: create_site and update_site, whose check is backed by the unique  *)
(* constraint on the company's codes, and the calendar.                    *)

CreateSite(s, c) ==
  /\ code[s] = None
  /\ \A t \in Sites : code[t] # c
  /\ code' = [code EXCEPT ![s] = c]
  /\ UNCHANGED <<seq, seqHolder, tracking, trackHolder, issued, year, req>>

\* The code may be one that another site has given up; the sequences of the
\* renamed site go on where they were.
RenameSite(s, c) ==
  /\ code[s] # None
  /\ \A t \in Sites \ {s} : code[t] # c
  /\ code' = [code EXCEPT ![s] = c]
  /\ UNCHANGED <<seq, seqHolder, tracking, trackHolder, issued, year, req>>

\* The sequences are not reset.
NewYear ==
  /\ year < LastYear
  /\ year' = year + 1
  /\ UNCHANGED <<code, seq, seqHolder, tracking, trackHolder, issued, req>>

-----------------------------------------------------------------------------
Advance(r) == \/ SelectSequence(r) \/ InsertSequence(r) \/ SelectTracking(r)
              \/ InsertTracking(r) \/ CommitOrder(r)

Next ==
  \/ \E r \in Requests : Advance(r) \/ Rollback(r)
  \/ \E r \in Requests, s \in Sites, k \in Kinds : ReadSite(r, s, k)
  \/ \E s \in Sites, c \in Codes : CreateSite(s, c)
  \/ NewYear

Spec == Init /\ [][Next]_vars

\* With site codes that may be changed (update_site).
SpecWithRenames == Init /\ [][Next \/ \E s \in Sites, c \in Codes : RenameSite(s, c)]_vars

\* A started request is run by its thread until it ends, and PostgreSQL serves
\* those who wait for a row in order of arrival.  While codes never change no
\* insert of an order is refused, so nothing is assumed of Rollback.
Fairness ==
  \A r \in Requests : /\ SF_vars(SelectSequence(r)) /\ SF_vars(InsertSequence(r))
                      /\ SF_vars(SelectTracking(r)) /\ SF_vars(InsertTracking(r))
                      /\ WF_vars(CommitOrder(r))

FairSpec == Spec /\ Fairness

-----------------------------------------------------------------------------
(* Properties                                                              *)

\* The value an allocation finds: 1 while the sequence has no row.
NextNumber == [s \in Sites |-> [k \in Kinds |-> IF seq[s][k] = 0 THEN 1 ELSE seq[s][k]]]

\* The orders of a site and kind carry the numbers 1 to next - 1, none missing,
\* whatever was rolled back and whichever requests overlapped.
NoGaps ==
  \A s \in Sites, k \in Kinds :
     {e.n : e \in {i \in issued : i.site = s /\ i.kind = k}} = 1..(NextNumber[s][k] - 1)

\* An order about to be committed never meets the unique constraint: the number
\* it holds is not taken, in any year, by any site ("Reserva el siguiente
\* número para sede + tipo").
NumberReserved ==
  \A r \in Requests : req[r].pc \in {"numbered", "inserting_tracking", "tracked"} =>
     \A e \in issued : Number(e) # Number(OrderOf(r))

\* A request that has its number holds the sequence row, and the number is the
\* one the row still shows.
SequenceHeld ==
  \A r \in Requests : req[r].pc \in {"numbered", "inserting_tracking", "tracked"} =>
     /\ seqHolder[req[r].site][req[r].kind] = r
     /\ req[r].n = NextNumber[req[r].site][req[r].kind]

\* Site codes are distinct, and orders carry the code of their site.
CodesFixed ==
  /\ \A s, t \in Sites : code[s] = code[t] /\ code[s] # None => s = t
  /\ \A e \in issued : e.code = code[e.site]
  /\ \A r \in Requests : req[r].pc # "idle" => req[r].code = code[req[r].site]

\* Every order was issued below the next number of its sequence.
IssuedBelowNext == \A e \in issued : e.n < NextNumber[e.site][e.kind]

\* The inductive invariant, for site codes that are never changed.
NumberingInv ==
  /\ TypeOK
  /\ SequenceHeld
  /\ CodesFixed
  /\ IssuedBelowNext
  /\ NumberReserved

\* Creations of orders never block one another for ever: every creation that
\* has read its site is answered.
CreationsEnd == \A r \in Requests : (req[r].pc # "idle") ~> (req[r].pc = "idle")

Taken == {<<e.site, e.kind, e.n>> : e \in issued}

\* The numbering implements NumberRegister: each commit of an order takes the
\* next number of its site and kind, every other step takes none.
Register == INSTANCE NumberRegister WITH next <- NextNumber, taken <- Taken
RegisterSpec == Register!Spec
=============================================================================
