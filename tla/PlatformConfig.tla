--------------------------- MODULE PlatformConfig ---------------------------
(***************************************************************************)
(* The platform's configuration: one JSON file, which every change loads,  *)
(* changes and saves without a lock (platform_config_service.py), and the  *)
(* catalogue of plans, whose editing also changes the file                 *)
(* (plan_catalog_service.py, catalog_plans.py, config.py).                 *)
(*                                                                         *)
(* save_config opens the file for writing, which empties it, and writes it *)
(* when it closes it.  Every change ends with a new global revision, which *)
(* is a second load and save, and with an event.                           *)
(***************************************************************************)
EXTENDS Entitlements, FiniteSets

CONSTANTS Savers,    \* requests of the platform's console that change the file
          FileWork,  \* which operation each of them asks for
          PlanRows,  \* the plans with a row in the catalogue
          Sections,  \* contents of a section of the file
          Broken     \* the file while it is empty or not JSON

VARIABLES
  file,       \* the file
  catalogue,  \* catalogue[p]: the committed definition of plan p
  saver,      \* saver[s]: progress of request s
  serial      \* history: saves have not overlapped so far, and none was cut off

platformVars == <<file, catalogue, saver, serial>>

Files == [plans : Sections, session : Sections, rev : Nat] \cup {Broken}

FileOps ==
  [kind : {"plans", "session"}, value : Sections]
    \cup [kind : {"edit"}, plan : Plans, value : Sections, defn : Definitions]
    \cup {[kind |-> "none"]}

ASSUME SaversAssumption   == IsFiniteSet(Savers)
ASSUME FileWorkAssumption == FileWork \subseteq [Savers -> FileOps]
ASSUME BrokenAssumption   == Broken \notin [plans : Sections, session : Sections, rev : Nat]

\* doomed: the rows of the plan it deletes were replaced by another edit meanwhile;
\* over: another request has written the file since this one opened it.
NewSaver(op, f) ==
  [op |-> op, step |-> IF op.kind = "none" THEN "end" ELSE "start", seen |-> f,
   doomed |-> FALSE, over |-> FALSE]

PlatformInit(f, plans) ==
  /\ file = f
  /\ catalogue = plans
  /\ \E work \in FileWork : saver = [s \in Savers |-> NewSaver(work[s], f)]
  /\ serial = TRUE

Idle(s) == saver[s].step \in {"start", "end", "failed", "cut"}

OpenFor(s) == saver[s].step \in {"open", "reopen"}

Begins(s) == serial' = (serial /\ \A q \in Savers \ {s} : Idle(q))

Advance(s, step) == saver' = [saver EXCEPT ![s].step = step]

----------------------------------------------------------------------------
(* The editing of a plan deletes its rows in the catalogue and inserts others, in one
   transaction that also loads and saves the file. *)

Holds(s, plan) ==
  saver[s].op.kind = "edit" /\ saver[s].op.plan = plan
    /\ saver[s].step \in {"load", "loaded", "open", "saved"}

\* A plan without a row is refused; the delete waits for the rows another edit holds.
StartEdit(s) ==
  /\ saver[s].op.kind = "edit" /\ saver[s].step = "start"
  /\ LET plan == saver[s].op.plan
     IN Advance(s, CASE plan \notin PlanRows                  -> "failed"
                     [] \E q \in Savers : Holds(q, plan)      -> "waiting"
                     [] OTHER                                 -> "load")
  /\ Begins(s)
  /\ UNCHANGED <<file, catalogue>>

StopWaiting(s) ==
  /\ saver[s].step = "waiting"
  /\ \A q \in Savers : ~Holds(q, saver[s].op.plan)
  /\ Advance(s, "load")
  /\ UNCHANGED <<file, catalogue, serial>>

\* The rows are inserted and committed after the file is saved.  Rows that another edit
\* inserted while this one waited to delete are in their way.
CommitPlan(s) ==
  /\ saver[s].op.kind = "edit" /\ saver[s].step = "saved"
  /\ IF saver[s].doomed \/ file = Broken
     THEN Advance(s, "failed") /\ UNCHANGED catalogue
     ELSE /\ catalogue' = [catalogue EXCEPT ![saver[s].op.plan] = saver[s].op.defn]
          /\ saver' = [q \in Savers |->
                         CASE q = s -> [saver[q] EXCEPT !.step = "bump"]
                           [] saver[q].step = "waiting" /\ saver[q].op.plan = saver[s].op.plan
                                -> [saver[q] EXCEPT !.doomed = TRUE]
                           [] OTHER -> saver[q]]
  /\ UNCHANGED <<file, serial>>

----------------------------------------------------------------------------
(* The file. *)

\* A file that is not JSON fails the request.
LoadConfig(s) ==
  LET first == saver[s].step \in {"start", "load"}
  IN /\ \/ saver[s].step = "start" /\ saver[s].op.kind \in {"plans", "session"} /\ Begins(s)
        \/ saver[s].step \in {"load", "bump"} /\ UNCHANGED serial
     /\ IF file = Broken THEN Advance(s, "failed")
        ELSE saver' = [saver EXCEPT ![s].step = IF first THEN "loaded" ELSE "bumping",
                                    ![s].seen = file]
     /\ UNCHANGED <<file, catalogue>>

OpenFile(s) ==
  /\ saver[s].step \in {"loaded", "bumping"}
  /\ file' = Broken
  /\ saver' = [saver EXCEPT ![s].step = IF @ = "loaded" THEN "open" ELSE "reopen",
                            ![s].over = FALSE]
  /\ UNCHANGED <<catalogue, serial>>

\* A plausible mistake: the sections are written without the meta data they came with.
Changed_Faulty(seen, op) ==
  [plans   |-> IF op.kind = "session" THEN seen.plans ELSE op.value,
   session |-> IF op.kind = "session" THEN op.value ELSE seen.session,
   rev     |-> 0]

Changed(seen, op) ==
  IF op.kind = "session" THEN [seen EXCEPT !.session = op.value]
  ELSE [seen EXCEPT !.plans = op.value]

bump_global_config_revision(seen) == [seen EXCEPT !.rev = @ + 1]

\* What is written over the longer text of another request is not JSON.
WriteFile(s) ==
  /\ OpenFor(s)
  /\ LET seen == saver[s].seen
         text == IF saver[s].step = "open" THEN Changed(seen, saver[s].op)
                 ELSE bump_global_config_revision(seen)
     IN file' \in {text} \cup (IF saver[s].over THEN {Broken} ELSE {})
  /\ saver' = [q \in Savers |->
                 IF q = s THEN [saver[q] EXCEPT !.step = IF @ = "open" THEN "saved" ELSE "publish"]
                 ELSE [saver[q] EXCEPT !.over = @ \/ OpenFor(q)]]
  /\ UNCHANGED <<catalogue, serial>>

\* The session's endpoint reads its own change back before it goes on; the plans' does not.
GoOn(s) ==
  /\ saver[s].step = "saved" /\ saver[s].op.kind # "edit"
  /\ Advance(s, IF saver[s].op.kind = "session" /\ file = Broken THEN "failed" ELSE "bump")
  /\ UNCHANGED <<file, catalogue, serial>>

PublishGlobal(s) ==
  /\ saver[s].step = "publish"
  /\ Advance(s, "end")
  /\ UNCHANGED <<file, catalogue, serial>>

\* The process ends.
CutSave(s) ==
  /\ ~Idle(s)
  /\ Advance(s, "cut")
  /\ serial' = FALSE
  /\ UNCHANGED <<file, catalogue>>

SaverStep(s) ==
  \/ StartEdit(s) \/ StopWaiting(s) \/ CommitPlan(s)
  \/ LoadConfig(s) \/ OpenFile(s) \/ WriteFile(s) \/ GoOn(s) \/ CutSave(s)

----------------------------------------------------------------------------
(* Properties. *)

Asked(kinds) == {s \in Savers : saver[s].op.kind \in kinds}

\* As long as saves neither overlap nor are cut off, the file can be read whenever none is
\* being made, and then it has each section as one of its finished changes left it and
\* has counted every one of them (platform_config_service.py, without any lock).
SavesSurvive ==
  serial /\ (\A s \in Savers : Idle(s)) =>
    /\ file # Broken
    /\ file.rev = Cardinality({s \in Savers : saver[s].step = "end" /\ saver[s].op.kind # "none"})
    /\ \A kinds \in {{"session"}, {"plans", "edit"}} :
         LET done == {s \in Asked(kinds) : saver[s].step = "end"}
         IN done # {} => (IF kinds = {"session"} THEN file.session ELSE file.plans)
                           \in {saver[s].op.value : s \in done}
=============================================================================
