--------------------------- MODULE OrderDocuments ---------------------------
(* The printed documents of an order: each one has a revision, counted from  *)
(* the rows there are, a tracking code, given to an order that has none, and *)
(* a file named after the second it was written in. The file is written      *)
(* first, the row is committed later.                                        *)
EXTENDS Integers, SequencesExt

CONSTANTS Printed,      \* the orders
          Fresh,        \* order -> [status, code] at the start
          Codes,        \* tracking codes that may be drawn
          NoCode,       \* an order of before the codes, or pushed by a desktop
          Printers,     \* the requests that run at the same time
          PrintWork,    \* what they may be asked: a set of functions
          LastSecond

VARIABLES sheet,      \* order -> its committed status and tracking code
          documents,  \* the committed rows, in the order of their commits
          file,       \* path -> what the file says, or Blank
          second,
          printer,    \* request -> what it does and what it has read and drawn
          shown,      \* the codes the work order summaries have shown
          overlapped, \* history: <<order, type, format>> two requests counted at once
          recoded,    \* history: orders two requests found without a code at once
          crowded     \* history: paths written twice

documentVars == <<sheet, documents, file, second, printer, shown, overlapped, recoded, crowded>>

Formats == {"a4", "thermal"}
Types   == {"workshop_intake", "delivery_receipt", "service_invoice"}
Tasks   == {"generate", "intake", "deliver", "summary"}
Blank   == [revision |-> 0, code |-> NoCode]

\* {type}_{format}_{second}.pdf in the directory of the order.
Path(o, type, format) == <<o, type, format, second>>
Paths == Printed \X Types \X Formats \X (0..LastSecond)

\* A request prints an order in formats of which none comes twice; a summary has none.
Once(formats) == \A i, j \in DOMAIN formats : formats[i] = formats[j] => i = j
Papers == [task : Tasks, order : Printed, type : Types, formats : {l \in BoundedSeq(Formats, 2) : Once(l)}]

ASSUME CodesAssumption == NoCode \notin Codes /\ LastSecond \in Nat
ASSUME FreshAssumption ==
  /\ Fresh = [o \in Printed |-> [status |-> Fresh[o].status, code |-> Fresh[o].code]]
  /\ \A o, u \in Printed : Fresh[o].code = Fresh[u].code => o = u \/ Fresh[o].code = NoCode
ASSUME PrintWorkAssumption ==
  \A work \in PrintWork : \A p \in Printers :
    work[p].task \in Tasks =>
      work[p] \in Papers /\ (work[p].task = "summary" <=> work[p].formats = <<>>)

Asks(p) == printer[p].work
Where(p, place) == printer[p].at = place
Format(p) == Head(printer[p].formats)
Topic(p)  == <<Asks(p).order, Asks(p).type, Format(p)>>

\* Where the rows of an order, a type and a format are.
Rows(topic) ==
  {i \in DOMAIN documents : <<documents[i].order, documents[i].type, documents[i].format>> = topic}

DocumentInit ==
  /\ sheet = Fresh /\ documents = <<>> /\ second = 0
  /\ file = [f \in Paths |-> Blank]
  /\ shown = {}
  /\ overlapped = {} /\ recoded = {} /\ crowded = {}
  /\ \E w \in PrintWork :
       printer = [p \in Printers |->
                    [work |-> w[p], at |-> "start", formats |-> w[p].formats, status |-> "none",
                     code |-> NoCode, drew |-> FALSE, revision |-> 0, rows |-> <<>>]]

Running(p) == printer[p].at \in {"counting", "coding", "committing"}

\* Requests that have read that the order has no code and may give it one.
Coding(o) == {p \in Printers : Asks(p).order = o /\ Running(p)
                               /\ (printer[p].code = NoCode \/ printer[p].drew)}

\* The order is read once: its status and code stay as they were in this request. A
\* change to DELIVERED needs a completed order and is written with its receipts.
LoadOrder(p) ==
  /\ Where(p, "start") /\ Asks(p).task \in Tasks
  /\ LET o == Asks(p).order
         seen == sheet[o]
     IN IF Asks(p).task = "deliver" /\ seen.status # "completed"
        THEN /\ printer' = [printer EXCEPT ![p].at = "ended"]
             /\ UNCHANGED recoded
        ELSE /\ printer' = [printer EXCEPT
                  ![p].at = IF Asks(p).task = "summary" THEN "printing" ELSE "counting",
                  ![p].status = IF Asks(p).task = "deliver" THEN "delivered" ELSE seen.status,
                  ![p].code = seen.code]
             /\ recoded' = IF /\ seen.code = NoCode /\ Asks(p).task # "summary"
                              /\ Coding(o) # {} THEN recoded \union {o} ELSE recoded
  /\ UNCHANGED <<sheet, documents, file, second, shown, overlapped, crowded>>

\* The next format, or the commit; the request of one document ends at its first failure.
Onward(p) == IF Len(printer[p].formats) > 1 THEN "counting" ELSE "committing"
Skipped(p) == IF Asks(p).task = "generate" THEN "ended" ELSE Onward(p)

\* What a running request has counted: the document it makes and the ones it made.
Counted(p) == {<<d.order, d.type, d.format>> : d \in ToSet(printer[p].rows)}
              \union (IF Where(p, "coding") THEN {Topic(p)} ELSE {})

\* A delivery receipt needs a completed or delivered order; the revision is one more
\* than the rows this transaction sees.
CountDocuments(p) ==
  /\ Where(p, "counting")
  /\ IF Asks(p).type = "delivery_receipt" /\ printer[p].status \notin {"completed", "delivered"}
     THEN /\ printer' = [printer EXCEPT ![p].at = Skipped(p), ![p].formats = Tail(@)]
          /\ UNCHANGED overlapped
     ELSE /\ printer' = [printer EXCEPT ![p].at = "coding", ![p].revision = Cardinality(Rows(Topic(p))) + 1]
          /\ overlapped' =
               IF \E q \in Printers \ {p} : Running(q) /\ Topic(p) \in Counted(q)
               THEN overlapped \union {Topic(p)}
               ELSE overlapped
  /\ UNCHANGED <<sheet, documents, file, second, shown, recoded, crowded>>

\* Drawing a code locks the company's sequence row until the transaction ends; the
\* codes are random, one that is taken is drawn again.
Drawn == {sheet[o].code : o \in Printed} \union {printer[p].code : p \in Printers}
         \union {s.code : s \in shown}

ensure_order_tracking_code(p) ==
  /\ printer[p].at \in {"coding", "printing"} /\ printer[p].code = NoCode
  /\ \A q \in Printers : printer[q].drew => printer[q].at = "ended"
  /\ \E c \in Codes \ Drawn : printer' = [printer EXCEPT ![p].code = c, ![p].drew = TRUE]
  /\ UNCHANGED <<sheet, documents, file, second, shown, overlapped, recoded, crowded>>

\* The document is rendered with the revision and the code, its file is written over
\* whatever has that name, its row waits for the commit.
SaveDocument(p) ==
  /\ Where(p, "coding") /\ printer[p].code # NoCode
  /\ LET o == Asks(p).order
         path == Path(o, Asks(p).type, Format(p))
         rev == printer[p].revision
     IN /\ file' = [file EXCEPT ![path] = [revision |-> rev, code |-> printer[p].code]]
        /\ crowded' = IF file[path] # Blank THEN crowded \union {path} ELSE crowded
        /\ printer' = [printer EXCEPT ![p].at = Onward(p), ![p].formats = Tail(@),
             ![p].rows = Append(@, [order |-> o, type |-> Asks(p).type, format |-> Format(p),
                                    path |-> path, revision |-> rev, copy |-> rev > 1])]
  /\ UNCHANGED <<sheet, documents, second, shown, overlapped, recoded>>

\* The row is added before the document is rendered.
RenderFails_Faulty(p) ==
  /\ Where(p, "coding") /\ printer[p].code # NoCode
  /\ printer' = [printer EXCEPT ![p].at = Skipped(p), ![p].formats = Tail(@),
       ![p].rows = Append(@, [order |-> Asks(p).order, type |-> Asks(p).type, format |-> Format(p),
                              path |-> Path(Asks(p).order, Asks(p).type, Format(p)),
                              revision |-> printer[p].revision, copy |-> printer[p].revision > 1])]
  /\ UNCHANGED <<sheet, documents, file, second, shown, overlapped, recoded, crowded>>

\* The rendering or the writing fails: the slips of an intake or of a delivery go on
\* with the next format, without the row, and their caller commits.
RenderFails(p) ==
  /\ Where(p, "coding") /\ printer[p].code # NoCode
  /\ printer' = [printer EXCEPT ![p].at = Skipped(p), ![p].formats = Tail(@)]
  /\ UNCHANGED <<sheet, documents, file, second, shown, overlapped, recoded, crowded>>

\* One transaction: the rows, the code, the status of a delivery.
CommitDocuments(p) ==
  /\ Where(p, "committing")
  /\ documents' = documents \o printer[p].rows
  /\ sheet' = [sheet EXCEPT ![Asks(p).order] =
                 [status |-> IF Asks(p).task = "deliver" THEN "delivered" ELSE @.status,
                  code |-> IF printer[p].drew THEN printer[p].code ELSE @.code]]
  /\ printer' = [printer EXCEPT ![p].at = "ended"]
  /\ UNCHANGED <<file, second, shown, overlapped, recoded, crowded>>

\* The request dies with its transaction; the files stay.
LoseDocuments(p) ==
  /\ Where(p, "committing")
  /\ printer' = [printer EXCEPT ![p].at = "ended"]
  /\ UNCHANGED <<sheet, documents, file, second, shown, overlapped, recoded, crowded>>

\* The summary of the order is answered and never saved; nor is the code it drew.
print_order(p) ==
  /\ Where(p, "printing") /\ printer[p].code # NoCode
  /\ shown' = shown \union {[order |-> Asks(p).order, code |-> printer[p].code, drawn |-> printer[p].drew]}
  /\ printer' = [printer EXCEPT ![p].at = "ended"]
  /\ UNCHANGED <<sheet, documents, file, second, overlapped, recoded, crowded>>

NextSecond ==
  /\ second < LastSecond
  /\ second' = second + 1
  /\ UNCHANGED <<sheet, documents, file, printer, shown, overlapped, recoded, crowded>>

DocumentNext ==
  \/ \E p \in Printers :
       \/ LoadOrder(p) \/ CountDocuments(p) \/ ensure_order_tracking_code(p) \/ SaveDocument(p)
       \/ RenderFails(p) \/ CommitDocuments(p) \/ LoseDocuments(p) \/ print_order(p)
  \/ NextSecond

DocumentSpec == DocumentInit /\ [][DocumentNext]_documentVars

----------------------------------------------------------------------------

\* What a download or an e-mail sends, and the orders a public code leads to.
Bytes(d) == file[d.path]
Tracked(code) == {o \in Printed : sheet[o].code = code /\ code # NoCode}

\* The number a row has among those of its order, type and format.
Number(i) ==
  Cardinality({j \in Rows(<<documents[i].order, documents[i].type, documents[i].format>>) : j <= i})

RevisionsCount ==
  \A i \in DOMAIN documents :
    LET d == documents[i]
    IN <<d.order, d.type, d.format>> \notin overlapped => d.revision = Number(i) /\ d.copy = (Number(i) > 1)

FilesSayTheirRows ==
  \A d \in ToSet(documents) :
    /\ Bytes(d) # Blank
    /\ d.path \notin crowded => Bytes(d).revision = d.revision
    /\ d.order \notin recoded => Tracked(Bytes(d).code) = {d.order}

(* The committed documents of an order, a type and a format are revisions 1,  *)
(* 2, 3..., all but the first marked as copies, unless two requests counted   *)
(* at once; each one's file is there, is its own unless two were written in   *)
(* one second, and shows the code that leads to its order unless two requests *)
(* coded the order at once. A summary shows that code too, but one it had to  *)
(* draw itself leads nowhere.                                                 *)
DocumentsExplained ==
  /\ RevisionsCount /\ FilesSayTheirRows
  /\ \A s \in shown : IF s.drawn THEN Tracked(s.code) = {}
                      ELSE s.order \in recoded \/ Tracked(s.code) = {s.order}
=============================================================================
