--------------------------- MODULE PlatformProofs ---------------------------
(***************************************************************************)
(* Proofs about the company, its subscription and the platform's file, for *)
(* any sets of requests, clients, plans and policies: the types, what the  *)
(* file holds after serial saves (FileInv), what the two revisions tell    *)
(* clients and desktops (RevInv, LicenceInv), whom a policy concerns, and  *)
(* that the two databases of a company agree (AgreeInv).                   *)
(***************************************************************************)
EXTENDS Subscriptions, FiniteSetTheorems, TLAPS

----------------------------------------------------------------------------
(* The platform's file *)

SaverSteps ==
  {"start", "waiting", "load", "loaded", "open", "saved", "bump", "bumping", "reopen",
   "publish", "end", "failed", "cut"}

Writing == {"loaded", "bumping", "open", "reopen"}

Texts == [plans : Sections, session : Sections, rev : Nat]

Entry == [op : FileOps, step : SaverSteps, seen : Files, doomed : BOOLEAN, over : BOOLEAN]

\* Whoever is about to write the file has read one.
FileTypeOK ==
  /\ file \in Files
  /\ catalogue \in [Plans -> Definitions]
  /\ saver \in [Savers -> Entry]
  /\ serial \in BOOLEAN
  /\ \A s \in Savers : /\ saver[s].step \in Writing => saver[s].seen # Broken
                       /\ saver[s].op.kind = "none" => saver[s].step = "end"

\* The table of the requests as a value sv.  The changes whose section is in the file, those
\* whose revision is, and a text of the file that holds what has landed.
LandedSteps == {"saved", "bump", "bumping", "reopen", "publish", "end"}
LandedIn(sv, kinds) == {s \in Savers : sv[s].op.kind \in kinds /\ sv[s].step \in LandedSteps}
CountedIn(sv) ==
  {s \in Savers : sv[s].op.kind # "none" /\ sv[s].step \in {"publish", "end"}}
ValuesIn(sv, kinds) == {sv[s].op.value : s \in LandedIn(sv, kinds)}
Reflects(text, sv) ==
  /\ text.rev = Cardinality(CountedIn(sv))
  /\ ValuesIn(sv, {"session"}) # {} => text.session \in ValuesIn(sv, {"session"})
  /\ ValuesIn(sv, {"plans", "edit"}) # {} => text.plans \in ValuesIn(sv, {"plans", "edit"})

\* While saves are serial, one request at most is under way, it is not hindered by what
\* others did, and the text it has read, or the file, holds what has landed.
SerialInv ==
  serial =>
    /\ \A s, q \in Savers : ~Idle(s) /\ ~Idle(q) => s = q
    /\ \A s \in Savers : /\ ~saver[s].doomed /\ saver[s].step # "waiting"
                         /\ OpenFor(s) => ~saver[s].over /\ Reflects(saver[s].seen, saver)
                         /\ saver[s].step \in {"loaded", "bumping"} => saver[s].seen = file
    /\ (\A s \in Savers : ~OpenFor(s)) => file # Broken /\ Reflects(file, saver)

FileInv == FileTypeOK /\ SerialInv

PlatformStep(s) == SaverStep(s) \/ PublishGlobal(s)

\* What s's step to the given one leaves of entry q.
Goes(q, s, step) ==
  /\ saver'[q].step = IF q = s THEN step ELSE saver[q].step
  /\ saver'[q].op = saver[q].op /\ saver'[q].seen = saver[q].seen

\* A request that goes on without a text to write keeps the types.
LEMMA AdvanceTypes ==
  ASSUME FileTypeOK, NEW s \in Savers, NEW step \in SaverSteps \ Writing, Advance(s, step),
         saver[s].step # "end",
         UNCHANGED <<file, catalogue>>, serial' \in BOOLEAN
  PROVE  FileTypeOK'
<1>1. saver' \in [Savers -> Entry]
  BY DEF FileTypeOK, Entry, Advance
<1>2. /\ saver'[s].step = step /\ saver'[s].op = saver[s].op
      /\ \A q \in Savers \ {s} : saver'[q] = saver[q]
  BY DEF FileTypeOK, Entry, Advance
<1> QED BY <1>1, <1>2 DEF FileTypeOK

\* Every step of a request keeps the types.
LEMMA FileTypes ==
  ASSUME FileTypeOK, NEW s \in Savers, PlatformStep(s)
  PROVE  FileTypeOK'
<1>1. CASE StartEdit(s)
  <2>1. serial' \in BOOLEAN /\ saver[s].step # "end"
    BY <1>1 DEF StartEdit, Begins, FileTypeOK
  <2>2. \E step \in {"failed", "waiting", "load"} : Advance(s, step)
    BY <1>1 DEF StartEdit
  <2> QED BY <1>1, <2>1, <2>2, AdvanceTypes DEF StartEdit, SaverSteps, Writing
<1>2. CASE StopWaiting(s) \/ GoOn(s) \/ PublishGlobal(s) \/ CutSave(s)
  <2>1. \E step \in {"load", "failed", "bump", "end", "cut"} : Advance(s, step)
    BY <1>2 DEF StopWaiting, GoOn, PublishGlobal, CutSave
  <2>2. UNCHANGED <<file, catalogue>> /\ serial' \in BOOLEAN /\ saver[s].step # "end"
    BY <1>2 DEF StopWaiting, GoOn, PublishGlobal, CutSave, FileTypeOK, Idle
  <2> QED BY <2>1, <2>2, AdvanceTypes DEF SaverSteps, Writing
<1>3. CASE CommitPlan(s)
  <2>1. CASE Advance(s, "failed") /\ UNCHANGED catalogue
    <3>1. UNCHANGED <<file, catalogue, serial>> /\ saver[s].step # "end"
      BY <1>3, <2>1 DEF CommitPlan
    <3> QED BY <3>1, <2>1, AdvanceTypes DEF SaverSteps, Writing, FileTypeOK
  <2>2. CASE ~(saver[s].doomed \/ file = Broken)
    <3>1. saver' \in [Savers -> Entry] /\ \A q \in Savers : Goes(q, s, "bump")
      <4>1. ASSUME NEW q \in Savers PROVE saver'[q] \in Entry /\ Goes(q, s, "bump")
        <5>1. CASE q = s
          <6>1. saver'[q] = [saver[q] EXCEPT !.step = "bump"]
            BY <1>3, <2>2, <5>1 DEF CommitPlan
          <6> QED BY <6>1, <5>1 DEF FileTypeOK, Entry, SaverSteps, Goes
        <5>2. CASE q # s /\ saver[q].step = "waiting" /\ saver[q].op.plan = saver[s].op.plan
          <6>1. saver'[q] = [saver[q] EXCEPT !.doomed = TRUE]
            BY <1>3, <2>2, <5>2 DEF CommitPlan
          <6> QED BY <6>1, <5>2 DEF FileTypeOK, Entry, SaverSteps, Goes
        <5>3. CASE q # s /\ ~(saver[q].step = "waiting" /\ saver[q].op.plan = saver[s].op.plan)
          BY <1>3, <2>2, <5>3 DEF CommitPlan, FileTypeOK, Goes
        <5> QED BY <5>1, <5>2, <5>3
      <4>2. saver' = [q \in Savers |-> saver'[q]]
        BY <1>3, <2>2 DEF CommitPlan
      <4> QED BY <4>1, <4>2
    <3>2. saver[s].op.kind = "edit" /\ saver[s].op \in FileOps
      BY <1>3 DEF CommitPlan, FileTypeOK, Entry
    <3>3. saver[s].op.plan \in Plans /\ saver[s].op.defn \in Definitions
      BY <3>2 DEF FileOps
    <3>4. catalogue' \in [Plans -> Definitions]
      BY <1>3, <2>2, <3>3 DEF CommitPlan, FileTypeOK
    <3> QED BY <1>3, <3>1, <3>2, <3>4 DEF CommitPlan, FileTypeOK, Writing, Goes
  <2> QED BY <1>3, <2>1, <2>2 DEF CommitPlan
<1>4. CASE LoadConfig(s)
  <2>1. UNCHANGED <<file, catalogue>> /\ serial' \in BOOLEAN /\ saver[s].step # "end"
    BY <1>4 DEF LoadConfig, Begins, FileTypeOK
  <2>2. CASE Advance(s, "failed")
    BY <2>1, <2>2, AdvanceTypes DEF SaverSteps, Writing
  <2>3. CASE file # Broken
    <3>1. PICK step \in {"loaded", "bumping"} :
            saver' = [saver EXCEPT ![s].step = step, ![s].seen = file]
      BY <1>4, <2>3 DEF LoadConfig
    <3>2. /\ saver' \in [Savers -> Entry] /\ saver'[s].seen = file
          /\ saver'[s].op = saver[s].op
          /\ \A q \in Savers \ {s} : saver'[q] = saver[q]
      BY <3>1 DEF FileTypeOK, Entry, SaverSteps
    <3> QED BY <2>1, <2>3, <3>2 DEF FileTypeOK
  <2> QED BY <1>4, <2>2, <2>3 DEF LoadConfig
<1>5. CASE OpenFile(s)
  <2> DEFINE step == IF saver[s].step = "loaded" THEN "open" ELSE "reopen"
  <2>1. saver' \in [Savers -> Entry] /\ \A q \in Savers : Goes(q, s, step)
    <3>1. saver' = [saver EXCEPT ![s] = [saver[s] EXCEPT !.step = step, !.over = FALSE]]
      BY <1>5 DEF OpenFile, FileTypeOK
    <3>2. [saver[s] EXCEPT !.step = step, !.over = FALSE] \in Entry
      BY DEF FileTypeOK, Entry, SaverSteps
    <3> QED BY <3>1, <3>2 DEF FileTypeOK, Entry, Goes
  <2>2. file' \in Files
    BY <1>5 DEF OpenFile, Files
  <2>3. UNCHANGED <<catalogue, serial>> /\ saver[s].step \in Writing
    BY <1>5 DEF OpenFile, Writing
  <2>4. ASSUME NEW q \in Savers
        PROVE  /\ saver'[q].step \in Writing => saver'[q].seen # Broken
               /\ saver'[q].op.kind = "none" => saver'[q].step = "end"
    <3>1. /\ saver'[q].step = IF q = s THEN step ELSE saver[q].step
          /\ saver'[q].op = saver[q].op /\ saver'[q].seen = saver[q].seen
      BY <2>1 DEF Goes
    <3>2. saver[s].seen # Broken /\ saver[s].op.kind # "none"
      BY <2>3 DEF FileTypeOK, Writing
    <3> QED BY <3>1, <3>2 DEF FileTypeOK
  <2> QED BY <2>1, <2>2, <2>3, <2>4 DEF FileTypeOK
<1>6. CASE WriteFile(s)
  <2> DEFINE step == IF saver[s].step = "open" THEN "saved" ELSE "publish"
  <2>1. saver' \in [Savers -> Entry] /\ \A q \in Savers : Goes(q, s, step)
    <3>1. ASSUME NEW q \in Savers PROVE saver'[q] \in Entry /\ Goes(q, s, step)
      <4>1. CASE q = s
        BY <1>6, <4>1 DEF WriteFile, FileTypeOK, Entry, SaverSteps, Goes
      <4>2. CASE q # s
        BY <1>6, <4>2 DEF WriteFile, FileTypeOK, Entry, OpenFor, Goes
      <4> QED BY <4>1, <4>2
    <3>2. saver' = [q \in Savers |-> saver'[q]]
      BY <1>6 DEF WriteFile
    <3> QED BY <3>1, <3>2
  <2>2. file' \in Files
    <3>1. saver[s].seen \in Texts /\ saver[s].op \in FileOps /\ saver[s].op.kind # "none"
      BY <1>6 DEF WriteFile, OpenFor, FileTypeOK, Entry, Writing, Texts, Files
    <3>2. saver[s].op.value \in Sections
      BY <3>1 DEF FileOps
    <3>3. Changed(saver[s].seen, saver[s].op) \in Files
      BY <3>1, <3>2 DEF Changed, Texts, Files
    <3>4. bump_global_config_revision(saver[s].seen) \in Files
      BY <3>1 DEF bump_global_config_revision, Texts, Files
    <3>5. Broken \in Files
      BY DEF Files
    <3> QED BY <1>6, <3>3, <3>4, <3>5 DEF WriteFile
  <2>3. saver[s].step # "end" /\ step \notin Writing /\ UNCHANGED <<catalogue, serial>>
    BY <1>6 DEF WriteFile, OpenFor, Writing
  <2> HIDE DEF step
  <2> QED BY <2>1, <2>2, <2>3 DEF FileTypeOK, Goes
<1> QED BY <1>1, <1>2, <1>3, <1>4, <1>5, <1>6 DEF PlatformStep, SaverStep

\* The values that have landed depend on who has landed.
LEMMA ValuesKept ==
  ASSUME NEW sv, NEW sw, NEW kinds, LandedIn(sw, kinds) = LandedIn(sv, kinds),
         \A q \in Savers : sw[q].op = sv[q].op
  PROVE  ValuesIn(sw, kinds) = ValuesIn(sv, kinds)
<1>1. \A q \in LandedIn(sv, kinds) : sw[q].op.value = sv[q].op.value
  BY DEF LandedIn
<1> QED BY <1>1 DEF ValuesIn

\* What a text reflects depends on who has landed and who has been counted.
LEMMA ReflectsKept ==
  ASSUME NEW sv, NEW sw, NEW text, Reflects(text, sv),
         \A s \in Savers : /\ sw[s].op = sv[s].op
                           /\ sw[s].step \in LandedSteps <=> sv[s].step \in LandedSteps
                           /\ sw[s].step \in {"publish", "end"} <=> sv[s].step \in {"publish", "end"}
  PROVE  Reflects(text, sw)
<1>1. CountedIn(sw) = CountedIn(sv)
  BY DEF CountedIn
<1>2. ASSUME NEW kinds PROVE ValuesIn(sw, kinds) = ValuesIn(sv, kinds)
  <2>1. LandedIn(sw, kinds) = LandedIn(sv, kinds)
    BY DEF LandedIn
  <2> QED BY <2>1, ValuesKept
<1> QED BY <1>1, <1>2 DEF Reflects

\* A section that is written is one that has landed, and takes no other's place.
LEMMA SectionLands ==
  ASSUME NEW sv, NEW sw, NEW text \in Texts, Reflects(text, sv), NEW s \in Savers,
         sv[s].op \in FileOps, sv[s].op.kind # "none",
         sv[s].step = "open", sw[s].step = "saved",
         \A q \in Savers : sw[q].op = sv[q].op /\ (q # s => sw[q].step = sv[q].step)
  PROVE  Reflects(Changed(text, sv[s].op), sw)
<1> DEFINE new == Changed(text, sv[s].op)
           session == {"session"}
           plans == {"plans", "edit"}
<1>1. CountedIn(sw) = CountedIn(sv)
  BY DEF CountedIn
<1>2. ASSUME NEW kinds, sv[s].op.kind \notin kinds PROVE ValuesIn(sw, kinds) = ValuesIn(sv, kinds)
  <2>1. LandedIn(sw, kinds) = LandedIn(sv, kinds)
    BY <1>2 DEF LandedIn, LandedSteps
  <2> QED BY <2>1, ValuesKept
<1>3. ASSUME NEW kinds, sv[s].op.kind \in kinds PROVE sv[s].op.value \in ValuesIn(sw, kinds)
  <2>1. s \in LandedIn(sw, kinds) /\ sw[s].op = sv[s].op
    BY <1>3 DEF LandedIn, LandedSteps
  <2> QED BY <2>1 DEF ValuesIn
<1>4. new.rev = text.rev
  BY DEF Changed, Texts
<1>5. CASE sv[s].op.kind = "session"
  <2>1. new.session = sv[s].op.value /\ new.plans = text.plans
    BY <1>5 DEF Changed, Texts
  <2>2. sv[s].op.value \in ValuesIn(sw, session) /\ ValuesIn(sw, plans) = ValuesIn(sv, plans)
    BY <1>2, <1>3, <1>5
  <2> SUFFICES Reflects(new, sw)
    OBVIOUS
  <2> HIDE DEF new
  <2> QED BY <1>1, <1>4, <2>1, <2>2 DEF Reflects
<1>6. CASE sv[s].op.kind \in plans
  <2>1. new.plans = sv[s].op.value /\ new.session = text.session
    BY <1>6 DEF Changed, Texts
  <2>2. sv[s].op.value \in ValuesIn(sw, plans) /\ ValuesIn(sw, session) = ValuesIn(sv, session)
    BY <1>2, <1>3, <1>6
  <2> SUFFICES Reflects(new, sw)
    OBVIOUS
  <2> HIDE DEF new
  <2> QED BY <1>1, <1>4, <2>1, <2>2 DEF Reflects
<1>7. sv[s].op.kind \in session \cup plans
  BY DEF FileOps
<1> QED BY <1>5, <1>6, <1>7

\* A revision that is written counts its change, once.
LEMMA RevisionCounts ==
  ASSUME NEW sv, NEW sw, NEW text \in Texts, Reflects(text, sv), NEW s \in Savers,
         sv[s].op \in FileOps, sv[s].op.kind # "none",
         sv[s].step = "reopen", sw[s].step = "publish",
         \A q \in Savers : sw[q].op = sv[q].op /\ (q # s => sw[q].step = sv[q].step)
  PROVE  Reflects(bump_global_config_revision(text), sw)
<1> DEFINE new == bump_global_config_revision(text)
<1>1. new.rev = text.rev + 1 /\ new.plans = text.plans /\ new.session = text.session
  BY DEF bump_global_config_revision, Texts
<1>2. CountedIn(sw) = CountedIn(sv) \cup {s} /\ s \notin CountedIn(sv)
  BY DEF CountedIn
<1>3. Cardinality(CountedIn(sw)) = Cardinality(CountedIn(sv)) + 1
  <2>1. IsFiniteSet(CountedIn(sv))
    BY FS_Subset, SaversAssumption DEF CountedIn
  <2> QED BY <1>2, <2>1, FS_AddElement
<1>4. ASSUME NEW kinds PROVE ValuesIn(sw, kinds) = ValuesIn(sv, kinds)
  <2>1. LandedIn(sw, kinds) = LandedIn(sv, kinds)
    BY DEF LandedIn, LandedSteps
  <2> QED BY <2>1, ValuesKept
<1> SUFFICES Reflects(new, sw)
  OBVIOUS
<1> HIDE DEF new
<1> QED BY <1>1, <1>3, <1>4 DEF Reflects

\* A step of a request while no other is under way, which leaves the file as it is.
Moves(s, step) ==
  \A q \in Savers : /\ saver'[q].step = IF q = s THEN step ELSE saver[q].step
                    /\ saver'[q].op = saver[q].op
                    /\ saver'[q].doomed = saver[q].doomed

\* A text goes on holding what has landed when nobody lands and nobody is counted.
LEMMA MoveReflects ==
  ASSUME NEW s \in Savers, NEW step, Moves(s, step), NEW text, Reflects(text, saver),
         step \in LandedSteps <=> saver[s].step \in LandedSteps,
         step \in {"publish", "end"} <=> saver[s].step \in {"publish", "end"}
  PROVE  Reflects(text, saver')
<1>1. \A q \in Savers :
        /\ saver'[q].op = saver[q].op
        /\ saver'[q].step \in LandedSteps <=> saver[q].step \in LandedSteps
        /\ saver'[q].step \in {"publish", "end"} <=> saver[q].step \in {"publish", "end"}
  BY DEF Moves
<1> QED BY <1>1, ReflectsKept

\* A step of the only request under way that leaves the file keeps what serial saves promise.
LEMMA SerialMove ==
  ASSUME FileInv, serial, NEW s \in Savers, \A q \in Savers \ {s} : Idle(q), ~OpenFor(s),
         NEW step \in SaverSteps \ {"open", "reopen", "waiting"}, Moves(s, step),
         step \in {"loaded", "bumping"} => saver'[s].seen = file, file' = file,
         step \in LandedSteps <=> saver[s].step \in LandedSteps,
         step \in {"publish", "end"} <=> saver[s].step \in {"publish", "end"}
  PROVE  SerialInv'
<1>1. \A q \in Savers : ~OpenFor(q) /\ ~OpenFor(q)'
  BY DEF Idle, OpenFor, Moves
<1>2. file' # Broken /\ Reflects(file', saver)
  BY <1>1 DEF FileInv, SerialInv
<1>3. Reflects(file', saver')
  BY <1>2, MoveReflects
<1>4. \A q \in Savers : q # s => Idle(q)'
  BY DEF Moves, Idle
<1>5. \A q \in Savers : ~saver'[q].doomed /\ saver'[q].step # "waiting"
  BY DEF Moves, FileInv, SerialInv
<1>6. \A q \in Savers : saver'[q].step \in {"loaded", "bumping"} => saver'[q].seen = file'
  BY <1>4 DEF Moves, Idle
<1> QED BY <1>1, <1>2, <1>3, <1>4, <1>5, <1>6 DEF SerialInv

\* A step to the next stage changes nothing but the stage.
LEMMA AdvanceMoves ==
  ASSUME FileTypeOK, NEW s \in Savers, NEW step, Advance(s, step)
  PROVE  Moves(s, step) /\ saver'[s].seen = saver[s].seen
BY DEF FileTypeOK, Entry, Advance, Moves

\* Saves that do not overlap: whoever makes a step is the only one under way (Begins).
LEMMA Alone ==
  ASSUME FileInv, NEW s \in Savers, PlatformStep(s), serial'
  PROVE  serial /\ \A q \in Savers \ {s} : Idle(q)
<1> USE DEF FileInv
<1>1. serial
  BY DEF PlatformStep, SaverStep, StartEdit, StopWaiting, CommitPlan, LoadConfig, OpenFile,
         WriteFile, GoOn, PublishGlobal, CutSave, Begins, FileTypeOK
<1>2. CASE ~Idle(s)
  BY <1>1, <1>2 DEF SerialInv
<1>3. CASE Begins(s)
  BY <1>1, <1>3 DEF Begins, FileTypeOK
<1> QED BY <1>1, <1>2, <1>3
   DEF PlatformStep, SaverStep, StartEdit, StopWaiting, CommitPlan, LoadConfig, OpenFile,
       WriteFile, GoOn, PublishGlobal, CutSave, Idle, OpenFor

\* While saves are serial, every step leaves in the file what has landed.
LEMMA SerialStep ==
  ASSUME FileInv, NEW s \in Savers, PlatformStep(s)
  PROVE  SerialInv'
<1> SUFFICES ASSUME serial' PROVE SerialInv'
  BY DEF SerialInv
<1> USE DEF FileInv
<1>1. serial
  BY Alone
<1>2. \A q \in Savers \ {s} : Idle(q)
  BY Alone
<1>3. \A q \in Savers : /\ saver[q].step # "waiting" /\ ~saver[q].doomed
                        /\ OpenFor(q) => ~saver[q].over /\ Reflects(saver[q].seen, saver)
                        /\ saver[q].step \in {"loaded", "bumping"} => saver[q].seen = file
  BY <1>1 DEF SerialInv
<1>4. ~OpenFor(s) => file # Broken /\ Reflects(file, saver)
  BY <1>1, <1>2 DEF SerialInv, OpenFor, Idle
<1>5. CASE StartEdit(s)
  <2>1. \A q \in Savers : ~Holds(q, saver[s].op.plan)
    BY <1>2, <1>5 DEF StartEdit, Holds, Idle
  <2>2. PICK step \in {"failed", "load"} : Advance(s, step)
    BY <1>5, <2>1 DEF StartEdit
  <2>3. Moves(s, step)
    BY <2>2, AdvanceMoves
  <2> QED BY <1>1, <1>2, <1>5, <2>3, SerialMove DEF StartEdit, OpenFor, LandedSteps, SaverSteps
<1>6. CASE StopWaiting(s)
  BY <1>3, <1>6 DEF StopWaiting
<1>7. CASE CommitPlan(s)
  <2>1. ~OpenFor(s) /\ saver[s].step = "saved" /\ file' = file
    BY <1>7 DEF CommitPlan, OpenFor
  <2>2. saver' = [q \in Savers |-> IF q = s THEN [saver[q] EXCEPT !.step = "bump"] ELSE saver[q]]
    BY <1>3, <1>4, <1>7, <2>1 DEF CommitPlan
  <2>3. Moves(s, "bump")
    BY <2>2 DEF FileTypeOK, Entry, Moves
  <2> QED BY <1>1, <1>2, <2>1, <2>3, SerialMove DEF LandedSteps, SaverSteps
<1>8. CASE LoadConfig(s)
  <2>1. ~OpenFor(s) /\ saver[s].step \in {"start", "load", "bump"} /\ file' = file
    BY <1>8 DEF LoadConfig, OpenFor
  <2> DEFINE step == IF saver[s].step \in {"start", "load"} THEN "loaded" ELSE "bumping"
  <2>2. saver' = [saver EXCEPT ![s] = [saver[s] EXCEPT !.step = step, !.seen = file]]
    BY <1>4, <1>8, <2>1 DEF LoadConfig, FileTypeOK, Entry
  <2>3. Moves(s, step) /\ saver'[s].seen = file
    BY <2>2 DEF FileTypeOK, Entry, Moves
  <2>4. /\ step \in SaverSteps \ {"open", "reopen", "waiting"}
        /\ step \in LandedSteps <=> saver[s].step \in LandedSteps
        /\ step \in {"publish", "end"} <=> saver[s].step \in {"publish", "end"}
    BY <2>1 DEF LandedSteps, SaverSteps
  <2> HIDE DEF step
  <2> QED BY <1>1, <1>2, <2>1, <2>3, <2>4, SerialMove
<1>9. CASE OpenFile(s)
  <2> DEFINE step == IF saver[s].step = "loaded" THEN "open" ELSE "reopen"
  <2>1. ~OpenFor(s) /\ saver[s].step \in {"loaded", "bumping"} /\ file' = Broken
    BY <1>9 DEF OpenFile, OpenFor
  <2>2. saver' = [saver EXCEPT ![s] = [saver[s] EXCEPT !.step = step, !.over = FALSE]]
    BY <1>9 DEF OpenFile, FileTypeOK, Entry
  <2>3. Moves(s, step) /\ saver'[s].seen = saver[s].seen /\ ~saver'[s].over
    BY <2>2 DEF FileTypeOK, Entry, Moves
  <2>4. /\ step \in {"open", "reopen"}
        /\ step \in LandedSteps <=> saver[s].step \in LandedSteps
        /\ step \in {"publish", "end"} <=> saver[s].step \in {"publish", "end"}
    BY <2>1 DEF LandedSteps, SaverSteps
  <2> HIDE DEF step
  <2>5. Reflects(saver'[s].seen, saver')
    BY <1>3, <1>4, <2>1, <2>3, <2>4, MoveReflects
  <2> QED BY <1>2, <1>3, <2>3, <2>4, <2>5 DEF SerialInv, Moves, Idle, OpenFor
<1>10. CASE WriteFile(s)
  <2> DEFINE step == IF saver[s].step = "open" THEN "saved" ELSE "publish"
             text == IF saver[s].step = "open" THEN Changed(saver[s].seen, saver[s].op)
                     ELSE bump_global_config_revision(saver[s].seen)
  <2>1. OpenFor(s) /\ saver[s].step \in {"open", "reopen"} /\ ~saver[s].over
    BY <1>3, <1>10 DEF WriteFile, OpenFor
  <2>2. file' = text
    BY <1>10, <2>1 DEF WriteFile
  <2>3. Moves(s, step)
    <3>1. saver' = [q \in Savers |->
                      IF q = s THEN [saver[q] EXCEPT !.step = step]
                      ELSE [saver[q] EXCEPT !.over = @ \/ OpenFor(q)]]
      BY <1>10 DEF WriteFile, FileTypeOK, Entry
    <3> HIDE DEF step
    <3>2. ASSUME NEW q \in Savers
          PROVE  /\ saver'[q].step = IF q = s THEN step ELSE saver[q].step
                 /\ saver'[q].op = saver[q].op /\ saver'[q].doomed = saver[q].doomed
      BY <3>1 DEF FileTypeOK, Entry
    <3> QED BY <3>2 DEF Moves
  <2>4. saver[s].seen \in Texts /\ saver[s].op \in FileOps /\ saver[s].op.kind # "none"
    BY <2>1 DEF FileTypeOK, Entry, Writing, Texts, Files
  <2>5. Reflects(text, saver')
    <3>1. \A q \in Savers : /\ saver'[q].op = saver[q].op
                            /\ q # s => saver'[q].step = saver[q].step
      BY <2>3 DEF Moves
    <3>2. saver'[s].step = step /\ Reflects(saver[s].seen, saver)
      BY <1>3, <2>1, <2>3 DEF Moves
    <3>3. CASE saver[s].step = "open"
      <4>1. Reflects(Changed(saver[s].seen, saver[s].op), saver')
        BY <2>4, <3>1, <3>2, <3>3, SectionLands
      <4> QED BY <3>3, <4>1
    <3>4. CASE saver[s].step = "reopen"
      <4>1. saver'[s].step = "publish"
        BY <3>2, <3>4
      <4>2. /\ saver[s].seen \in Texts /\ saver[s].op \in FileOps /\ saver[s].op.kind # "none"
            /\ Reflects(saver[s].seen, saver)
        BY <2>4, <3>2
      <4> HIDE DEF step, text
      <4>3. Reflects(bump_global_config_revision(saver[s].seen), saver')
        BY <3>1, <3>4, <4>1, <4>2, RevisionCounts
      <4>4. text = bump_global_config_revision(saver[s].seen)
        BY <3>4 DEF text
      <4> QED BY <4>3, <4>4
    <3> QED BY <2>1, <3>3, <3>4
  <2>6. text \in Texts
    <3>1. saver[s].op.value \in Sections
      BY <2>4 DEF FileOps
    <3> QED BY <2>4, <3>1 DEF Changed, bump_global_config_revision, Texts
  <2>7. file' # Broken
    BY <2>2, <2>6, BrokenAssumption DEF Texts
  <2>8. step \in {"saved", "publish"}
    OBVIOUS
  <2> HIDE DEF step, text
  <2> QED BY <1>2, <1>3, <2>2, <2>3, <2>5, <2>7, <2>8 DEF SerialInv, Moves, Idle, OpenFor
<1>11. CASE GoOn(s)
  <2>1. Advance(s, "bump") /\ ~OpenFor(s) /\ saver[s].step = "saved" /\ file' = file
    BY <1>4, <1>11 DEF GoOn, OpenFor
  <2> QED BY <1>1, <1>2, <2>1, AdvanceMoves, SerialMove DEF LandedSteps, SaverSteps
<1>12. CASE PublishGlobal(s)
  <2>1. Advance(s, "end") /\ ~OpenFor(s) /\ saver[s].step = "publish" /\ file' = file
    BY <1>12 DEF PublishGlobal, OpenFor
  <2> QED BY <1>1, <1>2, <2>1, AdvanceMoves, SerialMove DEF LandedSteps, SaverSteps
<1>13. CASE CutSave(s)
  BY <1>13 DEF CutSave
<1> QED BY <1>5, <1>6, <1>7, <1>8, <1>9, <1>10, <1>11, <1>12, <1>13 DEF PlatformStep, SaverStep

\* Nothing but the requests of the platform's console changes the platform's state.
LEMMA PlatformPart ==
  ASSUME [Next]_vars
  PROVE  (\E s \in Savers : PlatformStep(s)) \/ UNCHANGED platformVars
<1>1. CASE UNCHANGED vars
  BY <1>1 DEF vars, platformVars
<1>2. CASE \E s \in Savers : SaverStep(s) \/ GlobalEvent(s)
  BY <1>2 DEF PlatformStep, GlobalEvent
<1>3. CASE \E r \in Requests : SubscriptionNext(r)
  BY <1>3 DEF SubscriptionNext, LoadForAssign, CommitAssign, LoadSub, CommitSub, CommitRenewal,
              LoadForPatch, CommitPatch, RefreshPatched, CommitRouting
<1>4. CASE (\E c \in Clients : LicenceNext(c)) \/ Tick
  BY <1>4 DEF LicenceNext, StartManifest, ReadEntitlements, FinishManifest, Tick
<1> QED BY <1>1, <1>2, <1>3, <1>4 DEF Next

\* The file at the start holds nothing that has landed: nobody has.
LEMMA FileInit == Init => FileInv
<1> SUFFICES ASSUME Init PROVE FileInv
  OBVIOUS
<1> DEFINE text == [plans |-> StartSections, session |-> StartSections, rev |-> 0]
<1>1. text \in Texts /\ text \in Files /\ text # Broken /\ text.rev = 0
  BY PlansAssumption, BrokenAssumption DEF Texts, Files
<1> HIDE DEF text
<1>2. PICK work \in FileWork : saver = [s \in Savers |-> NewSaver(work[s], text)]
  BY DEF Init, PlatformInit, text
<1>3. file = text /\ catalogue = InitialPlans /\ serial = TRUE
  BY DEF Init, PlatformInit, text
<1>4. ASSUME NEW s \in Savers
      PROVE  /\ saver[s] \in Entry /\ saver[s].step \in {"start", "end"} /\ ~saver[s].doomed
             /\ saver[s].step = "end" <=> saver[s].op.kind = "none"
  <2>1. saver[s] = NewSaver(work[s], text) /\ work[s] \in FileOps
    BY <1>2, FileWorkAssumption
  <2> QED BY <1>1, <2>1 DEF NewSaver, Entry, SaverSteps
<1>5. FileTypeOK
  <2>1. saver \in [Savers -> Entry]
    BY <1>2, <1>4
  <2> QED BY <1>1, <1>3, <1>4, <2>1, PlansAssumption DEF FileTypeOK, Writing
<1>6. Reflects(file, saver)
  <2>1. CountedIn(saver) = {}
    BY <1>4 DEF CountedIn
  <2>2. \A kinds : "none" \notin kinds => LandedIn(saver, kinds) = {}
    BY <1>4 DEF LandedIn, LandedSteps
  <2>3. ValuesIn(saver, {"session"}) = {} /\ ValuesIn(saver, {"plans", "edit"}) = {}
    BY <2>2 DEF ValuesIn
  <2>4. Cardinality(CountedIn(saver)) = 0
    BY <2>1, FS_EmptySet
  <2> QED BY <1>1, <1>3, <2>3, <2>4 DEF Reflects
<1>7. SerialInv
  BY <1>1, <1>3, <1>4, <1>6 DEF SerialInv, Idle, OpenFor
<1> QED BY <1>5, <1>7 DEF FileInv

\* With nobody under way, what has landed is what has finished.
LEMMA FileSaved == FileInv => SavesSurvive
<1> SUFFICES ASSUME FileInv, serial, \A s \in Savers : Idle(s)
             PROVE  /\ file # Broken
                    /\ file.rev = Cardinality({s \in Savers : saver[s].step = "end"
                                                               /\ saver[s].op.kind # "none"})
                    /\ \A kinds \in {{"session"}, {"plans", "edit"}} :
                         LET done == {s \in Asked(kinds) : saver[s].step = "end"}
                         IN done # {} =>
                              (IF kinds = {"session"} THEN file.session ELSE file.plans)
                                \in {saver[s].op.value : s \in done}
  BY DEF SavesSurvive
<1>1. file # Broken /\ Reflects(file, saver)
  BY DEF FileInv, SerialInv, Idle, OpenFor
<1>2. CountedIn(saver) = {s \in Savers : saver[s].step = "end" /\ saver[s].op.kind # "none"}
  BY DEF CountedIn, Idle
<1>3. ASSUME NEW kinds \in {{"session"}, {"plans", "edit"}},
             {s \in Asked(kinds) : saver[s].step = "end"} # {}
      PROVE  (IF kinds = {"session"} THEN file.session ELSE file.plans)
               \in {saver[s].op.value : s \in {s \in Asked(kinds) : saver[s].step = "end"}}
  <2> DEFINE done == {s \in Asked(kinds) : saver[s].step = "end"}
  <2>1. done = LandedIn(saver, kinds)
    BY DEF Asked, LandedIn, LandedSteps, Idle
  <2>2. PICK q : q \in done
    BY <1>3
  <2> HIDE DEF done
  <2>3. {saver[s].op.value : s \in done} = ValuesIn(saver, kinds)
    BY <2>1 DEF ValuesIn
  <2>4. ValuesIn(saver, kinds) # {}
    BY <2>1, <2>2 DEF ValuesIn
  <2>5. CASE kinds = {"session"}
    BY <1>1, <2>3, <2>4, <2>5 DEF Reflects, done
  <2>6. CASE kinds = {"plans", "edit"}
    <3>1. kinds # {"session"}
      BY <2>6
    <3> QED BY <1>1, <2>3, <2>4, <2>6, <3>1 DEF Reflects, done
  <2> QED BY <2>5, <2>6
<1> QED BY <1>1, <1>2, <1>3 DEF Reflects

\* Every step of the system keeps it.
LEMMA FileStep == FileInv /\ [Next]_vars => FileInv'
<1> SUFFICES ASSUME FileInv, [Next]_vars PROVE FileInv'
  OBVIOUS
<1>1. CASE UNCHANGED platformVars
  <2>1. file' = file /\ catalogue' = catalogue /\ saver' = saver /\ serial' = serial
    BY <1>1 DEF platformVars
  <2>2. FileTypeOK'
    BY <2>1 DEF FileInv, FileTypeOK
  <2>3. SerialInv'
    BY <2>1 DEF FileInv, SerialInv, Idle, OpenFor
  <2> QED BY <2>2, <2>3 DEF FileInv
<1>2. CASE \E s \in Savers : PlatformStep(s)
  BY <1>2, FileTypes, SerialStep DEF FileInv
<1> QED BY <1>1, <1>2, PlatformPart

\* The requests of the console leave the file readable, with the value a finished change gave
\* each section and with every change counted, as long as their saves do not overlap and none
\* is cut off, for any number of requests and any plans (platform_config_service.py,
\* plan_catalog_service.py).
THEOREM SavesAreKept == Spec => []SavesSurvive
BY FileInit, FileStep, FileSaved, PTL DEF Spec

----------------------------------------------------------------------------
(* The company: what its row, its settings and its policies are *)

Settings ==
  [rev : Nat, policies : Documents(RawEntries), email : {"none", "host", "password"},
   ent : Overrides \cup {NoEnt}]

Contents ==
  [active : BOOLEAN, profile : Profiles, plan : Plans, status : Statuses,
   policies : Documents(RawEntries), ent : Overrides \cup {NoEnt}]

\* A row consists of its settings and of its columns, and storing the ones leaves the others
\* (tenant_config_events.py).
LEMMA RowParts ==
  ASSUME NEW row \in Companies
  PROVE  /\ SettingsOf(row) \in Settings /\ Content(row) \in Contents
         /\ SettingsOf(row).rev = row.rev /\ SettingsOf(row).policies = row.policies
         /\ SettingsOf(row).ent = row.ent /\ row.rev \in Nat
BY DEF SettingsOf, Settings, Content, Contents, Companies

\* Storing settings leaves the columns, and reading them back gives what was stored.
LEMMA RowWritten ==
  ASSUME NEW row \in Companies, NEW settings \in Settings
  PROVE  /\ WithSettings(row, settings) \in Companies
         /\ SettingsOf(WithSettings(row, settings)) = settings
         /\ WithSettings(row, settings).active = row.active
         /\ WithSettings(row, settings).profile = row.profile
         /\ WithSettings(row, settings).plan = row.plan
         /\ WithSettings(row, settings).status = row.status
         /\ WithSettings(row, settings).column = row.column
<1>1. WithSettings(row, settings) \in Companies
  BY DEF WithSettings, Settings, Companies
<1>2. SettingsOf(WithSettings(row, settings)) = settings
  BY DEF WithSettings, SettingsOf, Settings, Companies
<1> QED BY <1>1, <1>2 DEF WithSettings, Companies

\* A new revision leaves the rest of the settings (bump_company_config_revision).
LEMMA RevisionBumped ==
  ASSUME NEW settings \in Settings
  PROVE  LET new == bump_company_config_revision(settings)
         IN /\ new \in Settings /\ new.rev = settings.rev + 1
            /\ new.policies = settings.policies /\ new.email = settings.email
            /\ new.ent = settings.ent
<1>1. /\ settings.rev \in Nat /\ settings.policies \in Documents(RawEntries)
      /\ settings.email \in {"none", "host", "password"}
      /\ settings.ent \in Overrides \cup {NoEnt}
      /\ DOMAIN settings = {"rev", "policies", "email", "ent"}
  BY DEF Settings
<1> DEFINE new == bump_company_config_revision(settings)
<1>2. new = [rev |-> settings.rev + 1, policies |-> settings.policies, email |-> settings.email,
             ent |-> settings.ent]
  BY <1>1 DEF bump_company_config_revision
<1> HIDE DEF new
<1>3. /\ new.rev = settings.rev + 1 /\ new.policies = settings.policies
      /\ new.email = settings.email /\ new.ent = settings.ent
  BY <1>2
<1>4. new \in Settings
  <2>1. settings.rev + 1 \in Nat
    BY <1>1
  <2> QED BY <1>1, <1>2, <2>1 DEF Settings
<1> QED BY <1>3, <1>4 DEF new

\* Normalising gives an entry, and an entry that is normalised again stays what it is
\* (normalize_entry).
LEMMA Normalised ==
  ASSUME NEW e \in RawEntries
  PROVE  normalize_entry(e) \in Entries /\ normalize_entry(e) \in RawEntries
           /\ normalize_entry(normalize_entry(e)) = normalize_entry(e)
BY TtlAssumption DEF normalize_entry, Clamp, Entries, RawEntries, Inherit, Missing

\* The same for all the policies of a company (get_policies).
LEMMA PoliciesNormalised ==
  ASSUME NEW doc \in Documents(RawEntries)
  PROVE  /\ get_policies(doc) \in Documents(Entries)
         /\ get_policies(doc) \in Documents(RawEntries)
         /\ get_policies(get_policies(doc)) = get_policies(doc)
<1>1. /\ doc.company \in RawEntries /\ \A s \in Sites : doc.sites[s] \in RawEntries
      /\ \A u \in Users : doc.users[u] \in RawEntries
  BY DEF Documents
<1>2. get_policies(doc) \in Documents(Entries) /\ get_policies(doc) \in Documents(RawEntries)
  BY <1>1, Normalised DEF get_policies, Documents
<1>3. get_policies(get_policies(doc)) = get_policies(doc)
  BY <1>1, Normalised DEF get_policies
<1> QED BY <1>2, <1>3

\* The session that is resolved is the normalised entry of the most specific scope that has
\* one (resolve_tenant_session).
LEMMA Resolved ==
  ASSUME NEW doc \in Documents(RawEntries), NEW u \in Users, NEW s \in Sites \cup {NoSite}
  PROVE  LET norm == get_policies(doc)
             ofSite == IF s = NoSite THEN Inherit ELSE norm.sites[s]
         IN /\ resolve_tenant_session(doc, u, s)
                 = IF norm.users[u] # Inherit THEN norm.users[u]
                   ELSE IF ofSite # Inherit THEN ofSite
                   ELSE IF norm.company # Inherit THEN norm.company ELSE GlobalTtl
            /\ Source(doc, u, s)
                 = IF norm.users[u] # Inherit THEN 1
                   ELSE IF ofSite # Inherit THEN 2
                   ELSE IF norm.company # Inherit THEN 3 ELSE 4
<1> DEFINE norm == get_policies(doc)
           ofSite == IF s = NoSite THEN Inherit ELSE norm.sites[s]
           scopes == Cascade(doc, u, s)
<1>1. scopes = <<norm.users[u], ofSite, norm.company, GlobalTtl>>
  BY DEF Cascade
<1>2. GlobalTtl # Inherit
  BY TtlAssumption DEF Inherit
<1> HIDE DEF norm, ofSite, scopes
<1> DEFINE Decides(i) == scopes[i] # Inherit /\ \A j \in 1..(i - 1) : scopes[j] = Inherit
           source == IF norm.users[u] # Inherit THEN 1
                     ELSE IF ofSite # Inherit THEN 2
                     ELSE IF norm.company # Inherit THEN 3 ELSE 4
<1>3. scopes[1] = norm.users[u] /\ scopes[2] = ofSite /\ scopes[3] = norm.company
        /\ scopes[4] = GlobalTtl
  BY <1>1
<1>4. source \in 1..4 /\ Decides(source)
  BY <1>2, <1>3
<1>5. \A i \in 1..4 : Decides(i) => i = source
  <2> SUFFICES ASSUME NEW i \in 1..4, Decides(i) PROVE i = source
    OBVIOUS
  <2>1. i < source => FALSE
    BY <1>4
  <2>2. source < i => FALSE
    BY <1>4
  <2> QED BY <2>1, <2>2, <1>4
<1>6. Source(doc, u, s) = CHOOSE i \in 1..4 : Decides(i)
  BY DEF Source, scopes
<1> HIDE DEF source, Decides
<1>7. Source(doc, u, s) = source
  BY <1>4, <1>5, <1>6
<1>8. resolve_tenant_session(doc, u, s) = scopes[source]
  BY <1>7 DEF resolve_tenant_session, scopes
<1> QED BY <1>3, <1>7, <1>8 DEF source, norm, ofSite

\* Whatever policies are stored, a session lasts as long as the bounds allow.
LEMMA SessionInBounds ==
  ASSUME NEW doc \in Documents(RawEntries), NEW u \in Users, NEW s \in Sites \cup {NoSite}
  PROVE  resolve_tenant_session(doc, u, s) \in TtlMin..TtlMax
<1>1. /\ get_policies(doc).users[u] \in Entries /\ get_policies(doc).company \in Entries
      /\ s # NoSite => get_policies(doc).sites[s] \in Entries
  BY PoliciesNormalised DEF Documents
<1> QED BY <1>1, Resolved, TtlAssumption DEF Entries

\* The policies that are stored after a change are policies (set_company_policy,
\* set_site_policy, set_user_policy).
LEMMA PoliciesChanged ==
  ASSUME NEW doc \in Documents(RawEntries), NEW op \in PolicyOps
  PROVE  ChangedPolicies(op, doc) \in Documents(RawEntries) /\ op.kind \in PolicyKinds
<1>1. get_policies(doc) \in Documents(RawEntries)
  BY PoliciesNormalised
<1>2. CASE op \in [kind : {"company_policy"}, entry : RawEntries, all : BOOLEAN]
  <2>1. normalize_entry(op.entry) \in RawEntries
    BY <1>2, Normalised
  <2>2. NoPolicies.sites \in [Sites -> RawEntries]
    BY DEF NoPolicies, RawEntries
  <2>3. set_company_policy(doc, op.entry, op.all) \in Documents(RawEntries)
    BY <1>1, <2>1, <2>2 DEF set_company_policy, Documents
  <2> QED BY <1>2, <2>3 DEF ChangedPolicies, PolicyKinds
<1>3. CASE op \in [kind : {"site_policy"}, site : Sites, entry : RawEntries]
  <2>1. normalize_entry(op.entry) \in RawEntries
    BY <1>3, Normalised
  <2>2. set_site_policy(doc, op.site, op.entry) \in Documents(RawEntries)
    BY <1>1, <1>3, <2>1 DEF set_site_policy, Documents
  <2> QED BY <1>3, <2>2 DEF ChangedPolicies, PolicyKinds
<1>4. CASE op \in [kind : {"user_policy"}, user : Users, entry : RawEntries]
  <2>1. normalize_entry(op.entry) \in RawEntries
    BY <1>4, Normalised
  <2>2. set_user_policy(doc, op.user, op.entry) \in Documents(RawEntries)
    BY <1>1, <1>4, <2>1 DEF set_user_policy, Documents
  <2> QED BY <1>4, <2>2 DEF ChangedPolicies, PolicyKinds
<1>5. CASE op \in [kind : {"push_policies"}, doc : Documents(RawEntries)]
  BY <1>5 DEF ChangedPolicies, PolicyKinds
<1> QED BY <1>2, <1>3, <1>4, <1>5 DEF PolicyOps

----------------------------------------------------------------------------
(* The types of the company's side *)

Ops == ConfigOps \cup SubOps

ReqSteps ==
  {"start", "loaded", "patched", "catalogue", "persist", "routing", "bump", "bumping", "publish",
   "end", "cut"}

ReqEntry ==
  [op : Ops, step : ReqSteps, seen : Companies, stale : BOOLEAN, rev : Nat]

ClientEntry ==
  [step : {"out", "login", "in"}, rev : Nat, conf : Contents, torn : BOOLEAN, stream : BOOLEAN,
   queue : Seq(Nat), missed : BOOLEAN]

ReadEntry ==
  [defn : Definitions, sub : Subs \cup {NoSub}, routed : BOOLEAN, at : Nat]

\* Where a request may be, of what it was asked to do.
Fits(op, step) ==
  /\ op.kind = "none" => step = "end"
  /\ step \in {"patched", "routing"} => op.kind = "patch"
  /\ step = "catalogue" => op.kind = "assign"
  /\ step = "persist" => op.kind \in {"assign", "renew"}

ReqTypeOK ==
  req \in [Requests -> ReqEntry] /\ \A r \in Requests : Fits(req[r].op, req[r].step)

ConfigTypeOK == company \in Companies /\ ReqTypeOK /\ lapse \in BOOLEAN

ClientTypeOK == client \in [Clients -> ClientEntry]

\* A subscription that was read stays: there is none that is deleted.
SubTypeOK ==
  /\ sub \in Subs \cup {NoSub} /\ routed \in BOOLEAN /\ now \in Nat
  /\ read \in [Requests -> ReadEntry]
  /\ \A r \in Requests : read[r].sub # NoSub => sub # NoSub
  /\ \A r \in Requests : req[r].op.kind = "renew" /\ req[r].step = "persist" => read[r].sub # NoSub

\* What an action leaves of the table of requests: request r goes to a step, and the others
\* stay; it has loaded the row; or it has stored one.
OthersStay(r) == \A q \in Requests \ {r} : req'[q] = req[q]

WentTo(r, step) ==
  /\ req'[r].step = step /\ req'[r].op = req[r].op /\ req'[r].seen = req[r].seen
  /\ req'[r].stale = req[r].stale /\ req'[r].rev = req[r].rev

Loaded(r, step) ==
  /\ req'[r].step = step /\ req'[r].op = req[r].op /\ req'[r].seen = company
  /\ req'[r].stale = FALSE /\ req'[r].rev = req[r].rev

Stored(r, row) ==
  /\ company' = row /\ lapse' = (lapse \/ (req[r].stale /\ row # company))
  /\ \A q \in Requests \ {r} :
       /\ req'[q].step = req[q].step /\ req'[q].op = req[q].op
       /\ req'[q].seen = req[q].seen /\ req'[q].rev = req[q].rev
       /\ req'[q].stale = (req[q].stale \/ SettingsOf(row) # SettingsOf(company))

\* The three ways an action changes the table of requests keep its types: it moves a
\* request on, loads the row for it, or stores a row.
LEMMA GotoTypes ==
  ASSUME ReqTypeOK, NEW r \in Requests, NEW step \in ReqSteps, Goto(r, step),
         Fits(req[r].op, step)
  PROVE  ReqTypeOK' /\ OthersStay(r) /\ WentTo(r, step)
<1>1. req' \in [Requests -> ReqEntry]
  BY DEF ReqTypeOK, ReqEntry, Goto
<1>2. OthersStay(r) /\ WentTo(r, step)
  BY DEF ReqTypeOK, ReqEntry, Goto, OthersStay, WentTo
<1>3. ASSUME NEW q \in Requests PROVE Fits(req'[q].op, req'[q].step)
  BY <1>2 DEF ReqTypeOK, Fits, OthersStay, WentTo
<1> QED BY <1>1, <1>2, <1>3 DEF ReqTypeOK

\* It loads the row.
LEMMA LoadTypes ==
  ASSUME ConfigTypeOK, NEW r \in Requests, NEW from, NEW step \in ReqSteps, Load(r, from, step),
         Fits(req[r].op, step)
  PROVE  ConfigTypeOK' /\ OthersStay(r) /\ Loaded(r, step)
<1>1. req' \in [Requests -> ReqEntry]
  BY DEF ConfigTypeOK, ReqTypeOK, ReqEntry, Load
<1>2. OthersStay(r) /\ Loaded(r, step)
  BY DEF ConfigTypeOK, ReqTypeOK, ReqEntry, Load, OthersStay, Loaded
<1>3. ASSUME NEW q \in Requests PROVE Fits(req'[q].op, req'[q].step)
  BY <1>2 DEF ConfigTypeOK, ReqTypeOK, Fits, OthersStay, Loaded
<1> QED BY <1>1, <1>2, <1>3 DEF ConfigTypeOK, ReqTypeOK, Load

\* It stores a row, and the other requests hold an old copy.
LEMMA StoreTypes ==
  ASSUME ConfigTypeOK, NEW r \in Requests, NEW row \in Companies, NEW going \in ReqEntry,
         Store(r, row, going), Fits(going.op, going.step)
  PROVE  ConfigTypeOK' /\ Stored(r, row) /\ req'[r] = going
<1>1. ASSUME NEW q \in Requests
      PROVE  /\ req'[q] \in ReqEntry
             /\ q = r => req'[q] = going
             /\ q # r => /\ req'[q].step = req[q].step /\ req'[q].op = req[q].op
                         /\ req'[q].seen = req[q].seen /\ req'[q].rev = req[q].rev
                         /\ req'[q].stale = (req[q].stale \/ SettingsOf(row) # SettingsOf(company))
  <2> DEFINE stale == (req[q].stale \/ SettingsOf(row) # SettingsOf(company))
  <2>1. req'[q] = IF q = r THEN going ELSE [req[q] EXCEPT !.stale = stale]
    BY DEF Store, ConfigTypeOK, ReqTypeOK, ReqEntry
  <2>2. req[q] \in ReqEntry /\ stale \in BOOLEAN
    BY DEF ConfigTypeOK, ReqTypeOK, ReqEntry
  <2> HIDE DEF stale
  <2> QED BY <2>1, <2>2 DEF ReqEntry, stale
<1>2. req' = [q \in Requests |-> req'[q]]
  BY DEF Store
<1>3. req' \in [Requests -> ReqEntry]
  BY <1>1, <1>2
<1>4. Stored(r, row) /\ req'[r] = going
  BY <1>1 DEF Store, Stored
<1>5. ASSUME NEW q \in Requests PROVE Fits(req'[q].op, req'[q].step)
  BY <1>1 DEF ConfigTypeOK, ReqTypeOK, Fits
<1>6. company' \in Companies /\ lapse' \in BOOLEAN
  BY DEF Store, ConfigTypeOK
<1> QED BY <1>3, <1>4, <1>5, <1>6 DEF ConfigTypeOK, ReqTypeOK

\* What an operation carries.
LEMMA OpFields ==
  ASSUME NEW op \in Ops
  PROVE  /\ op.kind \in PolicyKinds => op \in PolicyOps
         /\ op.kind \in {"profile", "push_profile"} => op.profile \in Profiles
         /\ op.kind = "assign" =>
              /\ op.plan \in Plans /\ op.status \in Statuses
              /\ op.end \in Nat \cup {None} /\ op.override \in Overrides
         /\ op.kind = "renew" => op.days \in Nat \cup {None}
         /\ op.kind = "patch" => op.active \in BOOLEAN
         /\ op.kind \in PolicyKinds \cup {"profile", "push_profile", "email", "none", "assign",
                                         "renew", "patch"}
<1>1. CASE op \in PolicyOps
  BY <1>1 DEF PolicyOps, PolicyKinds
<1>2. CASE op \in SubOps
  BY <1>2 DEF SubOps, PolicyKinds
<1>3. CASE op \notin PolicyOps /\ op \notin SubOps
  BY <1>3 DEF Ops, ConfigOps, PolicyKinds
<1> QED BY <1>1, <1>2, <1>3

ReqFields(r) ==
  /\ req[r].op \in Ops /\ req[r].step \in ReqSteps /\ req[r].seen \in Companies
  /\ req[r].stale \in BOOLEAN /\ req[r].rev \in Nat

\* What is known of a request and of the settings it has read.
LEMMA Request ==
  ASSUME ConfigTypeOK, NEW r \in Requests
  PROVE  ReqFields(r) /\ Fits(req[r].op, req[r].step) /\ req[r] \in ReqEntry
           /\ SettingsOf(req[r].seen) \in Settings /\ SettingsOf(company) \in Settings
           /\ req[r].seen.rev \in Nat /\ company.rev \in Nat
<1>1. ReqFields(r) /\ Fits(req[r].op, req[r].step) /\ req[r] \in ReqEntry
  BY DEF ConfigTypeOK, ReqTypeOK, ReqEntry, ReqFields
<1>2. company \in Companies
  BY DEF ConfigTypeOK
<1>3. req[r].seen.rev \in Nat /\ company.rev \in Nat
  BY <1>1, <1>2 DEF ReqFields, Companies
<1> QED BY <1>1, <1>2, <1>3, RowParts DEF ReqFields

SameColumns == 
  /\ company'.active = company.active /\ company'.plan = company.plan
  /\ company'.status = company.status /\ company'.column = company.column

\* A change that is counted with the revision after the one it has read.
Counts(r) == company'.rev = req[r].seen.rev + 1 /\ SameColumns

\* The change of a policy, of the profile, or of nothing but the revision.
LEMMA PoliciesCommitted ==
  ASSUME ConfigTypeOK, NEW r \in Requests, CommitPolicies(r)
  PROVE  /\ ConfigTypeOK' /\ Stored(r, company') /\ Counts(r)
         /\ req'[r].step \in {"bump", "publish"} /\ req'[r].op = req[r].op
         /\ company'.policies = ChangedPolicies(req[r].op, req[r].seen.policies)
<1>1. /\ ReqFields(r) /\ req[r] \in ReqEntry /\ company \in Companies
      /\ SettingsOf(req[r].seen) \in Settings
  BY Request DEF ConfigTypeOK
<1>2. req[r].op \in PolicyOps /\ req[r].op.kind \in PolicyKinds
  BY <1>1, OpFields DEF CommitPolicies, ReqFields
<1> DEFINE doc == ChangedPolicies(req[r].op, req[r].seen.policies)
           changed == [SettingsOf(req[r].seen) EXCEPT !.policies = doc]
           settings == bump_company_config_revision(changed)
           row == WithSettings(company, settings)
           going == AfterChange(r, settings)
<1>3. doc \in Documents(RawEntries)
  <2>1. req[r].seen.policies \in Documents(RawEntries)
    BY <1>1 DEF ReqFields, Companies
  <2> QED BY <1>2, <2>1, PoliciesChanged
<1>4. /\ changed = [SettingsOf(req[r].seen) EXCEPT !.policies = ChangedPolicies(req[r].op, @)]
      /\ changed \in Settings /\ changed.rev = req[r].seen.rev /\ changed.policies = doc
  <2> HIDE DEF doc
  <2>1. SettingsOf(req[r].seen).policies = req[r].seen.policies
          /\ SettingsOf(req[r].seen).rev = req[r].seen.rev
    BY DEF SettingsOf
  <2> QED BY <1>1, <1>3, <2>1 DEF Settings, doc
<1>5. Store(r, row, going) /\ req[r].step = "loaded"
  BY <1>4 DEF CommitPolicies
<1> HIDE DEF changed, doc
<1>6. settings \in Settings /\ settings.rev = req[r].seen.rev + 1 /\ settings.policies = doc
  BY <1>4, RevisionBumped
<1> HIDE DEF settings
<1>7. /\ row \in Companies /\ SettingsOf(row) = settings
      /\ row.active = company.active /\ row.plan = company.plan /\ row.status = company.status
      /\ row.column = company.column
  BY <1>1, <1>6, RowWritten
<1> HIDE DEF row
<1>8. /\ going \in ReqEntry /\ going.step \in {"bump", "publish"} /\ going.op = req[r].op
  <2>1. settings.rev \in Nat
    BY <1>6 DEF Settings
  <2> QED BY <1>1, <2>1 DEF AfterChange, ReqEntry, ReqSteps
<1> HIDE DEF going
<1>9. Fits(going.op, going.step)
  BY <1>2, <1>8 DEF Fits, PolicyKinds
<1>10. ConfigTypeOK' /\ Stored(r, row) /\ req'[r] = going
  BY <1>5, <1>7, <1>8, <1>9, StoreTypes
<1>11. company' = row
  BY <1>10 DEF Stored
<1>12. row.rev = settings.rev /\ row.policies = settings.policies
  BY <1>7, RowParts
<1> QED BY <1>6, <1>7, <1>8, <1>10, <1>11, <1>12 DEF Counts, SameColumns, doc

\* The profile: a column, and the settings as they were read.
LEMMA ProfileCommitted ==
  ASSUME ConfigTypeOK, NEW r \in Requests, CommitProfile(r)
  PROVE  /\ ConfigTypeOK' /\ Stored(r, company') /\ Counts(r)
         /\ req'[r].step \in {"bump", "publish"} /\ req'[r].op = req[r].op
         /\ company'.policies = req[r].seen.policies
<1>1. /\ ReqFields(r) /\ req[r] \in ReqEntry /\ company \in Companies
      /\ SettingsOf(req[r].seen) \in Settings
  BY Request DEF ConfigTypeOK
<1>2. req[r].op.profile \in Profiles /\ req[r].op.kind \in {"profile", "push_profile"}
  BY <1>1, OpFields DEF CommitProfile, ReqFields
<1> DEFINE settings == bump_company_config_revision(SettingsOf(req[r].seen))
           base == WithSettings(company, settings)
           row == [base EXCEPT !.profile = req[r].op.profile]
           going == AfterChange(r, settings)
<1>3. Store(r, row, going) /\ req[r].step = "loaded"
  BY DEF CommitProfile
<1>4. /\ settings \in Settings /\ settings.rev = req[r].seen.rev + 1
      /\ settings.policies = req[r].seen.policies
  BY <1>1, RevisionBumped, RowParts DEF ReqFields
<1> HIDE DEF settings
<1>5. /\ base \in Companies /\ SettingsOf(base) = settings
      /\ base.active = company.active /\ base.plan = company.plan /\ base.status = company.status
      /\ base.column = company.column
  BY <1>1, <1>4, RowWritten
<1>6. base.rev = settings.rev /\ base.policies = settings.policies
  BY <1>5, RowParts
<1> HIDE DEF base
<1>7. /\ row \in Companies /\ row.rev = base.rev /\ row.policies = base.policies
      /\ row.active = base.active /\ row.plan = base.plan /\ row.status = base.status
      /\ row.column = base.column
  BY <1>2, <1>5 DEF Companies
<1> HIDE DEF row
<1>8. /\ going \in ReqEntry /\ going.step \in {"bump", "publish"} /\ going.op = req[r].op
  <2>1. settings.rev \in Nat
    BY <1>4 DEF Settings
  <2> QED BY <1>1, <2>1 DEF AfterChange, ReqEntry, ReqSteps
<1> HIDE DEF going
<1>9. Fits(going.op, going.step)
  BY <1>2, <1>8 DEF Fits
<1>10. ConfigTypeOK' /\ Stored(r, row) /\ req'[r] = going
  BY <1>3, <1>7, <1>8, <1>9, StoreTypes
<1>11. company' = row
  BY <1>10 DEF Stored
<1> QED BY <1>4, <1>5, <1>6, <1>7, <1>8, <1>10, <1>11 DEF Counts, SameColumns

\* The settings as they were read, with a new revision.
LEMMA BumpCommitted ==
  ASSUME ConfigTypeOK, NEW r \in Requests, CommitBump(r)
  PROVE  /\ ConfigTypeOK' /\ Stored(r, company') /\ Counts(r)
         /\ req'[r].step = "publish" /\ req'[r].op = req[r].op
         /\ company'.policies = req[r].seen.policies
<1>1. /\ ReqFields(r) /\ req[r] \in ReqEntry /\ company \in Companies
      /\ SettingsOf(req[r].seen) \in Settings /\ Fits(req[r].op, req[r].step)
  BY Request DEF ConfigTypeOK
<1> DEFINE settings == bump_company_config_revision(SettingsOf(req[r].seen))
           row == WithSettings(company, settings)
           going == [req[r] EXCEPT !.step = "publish", !.rev = settings.rev]
<1>3. Store(r, row, going) /\ req[r].step = "bumping"
  BY DEF CommitBump
<1>4. /\ settings \in Settings /\ settings.rev = req[r].seen.rev + 1
      /\ settings.policies = req[r].seen.policies
  BY <1>1, RevisionBumped, RowParts DEF ReqFields
<1> HIDE DEF settings
<1>5. /\ row \in Companies /\ SettingsOf(row) = settings
      /\ row.active = company.active /\ row.plan = company.plan /\ row.status = company.status
      /\ row.column = company.column
  BY <1>1, <1>4, RowWritten
<1>6. row.rev = settings.rev /\ row.policies = settings.policies
  BY <1>5, RowParts
<1> HIDE DEF row
<1>8. /\ going \in ReqEntry /\ going.step = "publish" /\ going.op = req[r].op
  <2>1. settings.rev \in Nat
    BY <1>4 DEF Settings
  <2> QED BY <1>1, <2>1 DEF ReqEntry, ReqSteps
<1> HIDE DEF going
<1>9. Fits(going.op, going.step)
  BY <1>1, <1>3, <1>8 DEF Fits
<1>10. ConfigTypeOK' /\ Stored(r, row) /\ req'[r] = going
  BY <1>3, <1>5, <1>8, <1>9, StoreTypes
<1>11. company' = row
  BY <1>10 DEF Stored
<1> QED BY <1>4, <1>5, <1>6, <1>8, <1>10, <1>11 DEF Counts, SameColumns

\* The e-mail settings are stored without a revision, and nobody sees them.
LEMMA EmailCommitted ==
  ASSUME ConfigTypeOK, NEW r \in Requests, CommitEmail(r)
  PROVE  /\ ConfigTypeOK' /\ Stored(r, company') /\ SameColumns
         /\ company'.profile = company.profile /\ company'.policies = req[r].seen.policies
         /\ company'.rev = req[r].seen.rev /\ company'.ent = req[r].seen.ent
         /\ req'[r].step = "end" /\ req'[r].op = req[r].op
<1>1. /\ ReqFields(r) /\ req[r] \in ReqEntry /\ company \in Companies
      /\ SettingsOf(req[r].seen) \in Settings /\ Fits(req[r].op, req[r].step)
  BY Request DEF ConfigTypeOK
<1> DEFINE seen == SettingsOf(req[r].seen)
           host == IF req[r].op.password \/ seen.email = "password" THEN "password" ELSE "host"
           settings == [seen EXCEPT !.email = host]
           row == WithSettings(company, settings)
           going == [req[r] EXCEPT !.step = "end"]
<1>2. settings = [seen EXCEPT !.email = IF req[r].op.password \/ @ = "password"
                                        THEN "password" ELSE "host"]
  BY <1>1 DEF Settings
<1>3. Store(r, row, going) /\ req[r].step = "loaded"
  BY <1>2 DEF CommitEmail
<1>4. /\ settings \in Settings /\ settings.rev = req[r].seen.rev
      /\ settings.policies = req[r].seen.policies /\ settings.ent = req[r].seen.ent
  <2>1. host \in {"none", "host", "password"}
    OBVIOUS
  <2>2. seen.rev = req[r].seen.rev /\ seen.policies = req[r].seen.policies
          /\ seen.ent = req[r].seen.ent
    BY DEF SettingsOf
  <2> HIDE DEF host, seen
  <2>3. seen \in Settings
    BY <1>1 DEF seen
  <2> QED BY <2>1, <2>2, <2>3 DEF Settings
<1> HIDE DEF settings
<1>5. /\ row \in Companies /\ SettingsOf(row) = settings
      /\ row.active = company.active /\ row.plan = company.plan /\ row.status = company.status
      /\ row.column = company.column /\ row.profile = company.profile
  BY <1>1, <1>4, RowWritten
<1>6. row.rev = settings.rev /\ row.policies = settings.policies /\ row.ent = settings.ent
  BY <1>5, RowParts
<1> HIDE DEF row
<1>8. /\ going \in ReqEntry /\ going.step = "end" /\ going.op = req[r].op
  BY <1>1 DEF ReqEntry, ReqSteps
<1> HIDE DEF going
<1>9. Fits(going.op, going.step)
  BY <1>1, <1>3, <1>8 DEF Fits
<1>10. ConfigTypeOK' /\ Stored(r, row) /\ req'[r] = going
  BY <1>3, <1>5, <1>8, <1>9, StoreTypes
<1>11. company' = row
  BY <1>10 DEF Stored
<1> QED BY <1>4, <1>5, <1>6, <1>8, <1>10, <1>11 DEF SameColumns

\* The state of the company, in a column of its own.
LEMMA PatchCommitted ==
  ASSUME ConfigTypeOK, NEW r \in Requests, CommitPatch(r)
  PROVE  /\ ConfigTypeOK' /\ Stored(r, company')
         /\ SettingsOf(company') = SettingsOf(company)
         /\ company'.active = Written(req[r].op.active, req[r].seen.active, company.active)
         /\ company'.plan = company.plan /\ company'.status = company.status
         /\ company'.column = company.column
         /\ req'[r].step = "patched" /\ req'[r].op = req[r].op
<1>1. /\ ReqFields(r) /\ req[r] \in ReqEntry /\ company \in Companies
      /\ req[r].op.kind = "patch" /\ req[r].op.active \in BOOLEAN
  BY Request, OpFields DEF ConfigTypeOK, CommitPatch, ReqFields
<1> DEFINE active == Written(req[r].op.active, req[r].seen.active, company.active)
           row == [company EXCEPT !.active = active]
           going == [req[r] EXCEPT !.step = "patched"]
<1>2. active \in BOOLEAN
  BY <1>1 DEF Written, Companies
<1>3. Store(r, row, going) /\ req[r].step = "loaded"
  BY <1>1 DEF CommitPatch, Companies
<1> HIDE DEF active
<1>4. /\ row \in Companies /\ row.active = active /\ row.plan = company.plan
      /\ row.status = company.status /\ row.column = company.column
      /\ row.rev = company.rev /\ row.policies = company.policies
      /\ row.email = company.email /\ row.ent = company.ent
  BY <1>1, <1>2 DEF Companies
<1> HIDE DEF row
<1>5. /\ going \in ReqEntry /\ going.step = "patched" /\ going.op = req[r].op
  BY <1>1 DEF ReqEntry, ReqSteps
<1> HIDE DEF going
<1>6. Fits(going.op, going.step)
  BY <1>1, <1>5 DEF Fits
<1>7. ConfigTypeOK' /\ Stored(r, row) /\ req'[r] = going
  BY <1>3, <1>4, <1>5, <1>6, StoreTypes
<1>8. company' = row
  BY <1>7 DEF Stored
<1> QED BY <1>4, <1>5, <1>7, <1>8 DEF SettingsOf, active

\* What a plan gives, with an override (resolve_modules, resolve_limits).
LEMMA Applied ==
  ASSUME NEW defn \in Definitions, NEW override \in Overrides
  PROVE  /\ AppliedEnt(defn, override) \in Overrides
         /\ resolve_limits(defn, override).users \in Nat \cup {None}
<1>1. resolve_modules(defn.modules, override) \in SUBSET Modules
  BY DEF resolve_modules
<1>2. /\ resolve_limits(defn, override).users \in Nat \cup {None}
      /\ resolve_limits(defn, override).orders \in Nat \cup {None}
  BY DEF resolve_limits, Over, Definitions, Overrides
<1> QED BY <1>1, <1>2 DEF AppliedEnt, Overrides

\* The plan and the status go to columns, and the first assignment also to the settings.
LEMMA AssignCommitted ==
  ASSUME ConfigTypeOK, SubTypeOK, NEW r \in Requests, CommitAssign(r)
  PROVE  /\ ConfigTypeOK' /\ Stored(r, company')
         /\ company'.active = company.active
         /\ company'.plan = Written(req[r].op.plan, req[r].seen.plan, company.plan)
         /\ company'.status = Written(req[r].op.status, req[r].seen.status, company.status)
         /\ \/ company'.rev = company.rev /\ company'.policies = company.policies
            \/ company'.rev = req[r].seen.rev /\ company'.policies = req[r].seen.policies
         /\ req'[r].step = "catalogue" /\ req'[r].op = req[r].op
<1>1. /\ ReqFields(r) /\ req[r] \in ReqEntry /\ company \in Companies
      /\ req[r].op.kind = "assign" /\ req[r].step = "loaded"
      /\ req[r].op.plan \in Plans /\ req[r].op.status \in Statuses
      /\ req[r].op.override \in Overrides
      /\ SettingsOf(req[r].seen) \in Settings
  BY Request, OpFields DEF ConfigTypeOK, CommitAssign, ReqFields
<1>2. read[r].defn \in Definitions
  BY DEF SubTypeOK, ReadEntry
<1> DEFINE op == req[r].op
           seen == req[r].seen
           limit == resolve_limits(read[r].defn, op.override).users
           plan == Written(op.plan, seen.plan, company.plan)
           status == Written(op.status, seen.status, company.status)
           column == Written(limit, seen.column, company.column)
           columns == [company EXCEPT !.plan = plan, !.status = status, !.column = column]
           ent == AppliedEnt(read[r].defn, op.override)
           settings == [SettingsOf(seen) EXCEPT !.ent = ent]
           row == IF seen.ent # NoEnt THEN columns ELSE WithSettings(columns, settings)
           going == [req[r] EXCEPT !.step = "catalogue"]
<1>3. /\ plan \in Plans /\ status \in Statuses /\ column \in Nat \cup {None}
      /\ ent \in Overrides
  BY <1>1, <1>2, Applied DEF Written, Companies, ReqFields
<1>4. Store(r, row, going)
  BY <1>1 DEF CommitAssign, Companies
<1> HIDE DEF plan, status, column, ent
<1>5. /\ columns \in Companies /\ columns.active = company.active /\ columns.plan = plan
      /\ columns.status = status /\ columns.rev = company.rev
      /\ columns.policies = company.policies
  BY <1>1, <1>3 DEF Companies
<1> HIDE DEF columns
<1>6. /\ settings \in Settings /\ settings.rev = seen.rev /\ settings.policies = seen.policies
  <2>1. SettingsOf(seen).rev = seen.rev /\ SettingsOf(seen).policies = seen.policies
    BY DEF SettingsOf
  <2> QED BY <1>1, <1>3, <2>1 DEF Settings
<1> HIDE DEF settings
<1>7. /\ WithSettings(columns, settings) \in Companies
      /\ WithSettings(columns, settings).active = company.active
      /\ WithSettings(columns, settings).plan = plan
      /\ WithSettings(columns, settings).status = status
      /\ WithSettings(columns, settings).rev = seen.rev
      /\ WithSettings(columns, settings).policies = seen.policies
  BY <1>5, <1>6, RowWritten, RowParts
<1>8. /\ row \in Companies /\ row.active = company.active /\ row.plan = plan /\ row.status = status
      /\ \/ row.rev = company.rev /\ row.policies = company.policies
         \/ row.rev = seen.rev /\ row.policies = seen.policies
  <2>1. CASE seen.ent # NoEnt
    <3>1. row = columns
      BY <2>1
    <3> HIDE DEF row, seen, going
    <3> QED BY <1>5, <3>1
  <2>2. CASE ~(seen.ent # NoEnt)
    <3>1. row = WithSettings(columns, settings)
      BY <2>2
    <3> HIDE DEF row
    <3> QED BY <1>7, <3>1
  <2> QED BY <2>1, <2>2
<1> HIDE DEF row
<1>9. /\ going \in ReqEntry /\ going.step = "catalogue" /\ going.op = req[r].op
  BY <1>1 DEF ReqEntry, ReqSteps
<1> HIDE DEF going
<1>10. Fits(going.op, going.step)
  BY <1>1, <1>9 DEF Fits
<1>11. ConfigTypeOK' /\ Stored(r, row) /\ req'[r] = going
  BY <1>4, <1>8, <1>9, <1>10, StoreTypes
<1>12. company' = row
  BY <1>11 DEF Stored
<1> QED BY <1>8, <1>9, <1>11, <1>12 DEF plan, status

----------------------------------------------------------------------------
(* The actions of a request that do not store the row *)

RequestStep(r) ==
  \/ RequestNext(r) /\ UNCHANGED <<platformVars, subVars>>
  \/ SubscriptionNext(r)

Stores(r) ==
  /\ \/ CommitPolicies(r) \/ CommitProfile(r) \/ CommitEmail(r) \/ CommitBump(r)
     \/ CommitAssign(r) \/ CommitPatch(r)
  /\ UNCHANGED <<client, platformVars, subVars>>

Loads(r) ==
  \/ (LoadForChange(r) \/ LoadForBump(r)) /\ UNCHANGED <<platformVars, subVars>>
  \/ LoadForPatch(r) \/ RefreshPatched(r)
  \/ LoadForAssign(r) /\ Load(r, "start", "loaded")

\* What the actions that load the row do.
LEMMA LoadStep ==
  ASSUME ConfigTypeOK, NEW r \in Requests, Loads(r)
  PROVE  /\ ConfigTypeOK' /\ OthersStay(r) /\ company' = company /\ lapse' = lapse
         /\ \/ req[r].step = "start" /\ Loaded(r, "loaded")
            \/ req[r].step = "bump" /\ Loaded(r, "bumping")
            \/ req[r].step = "patched" /\ Loaded(r, "routing")
<1>1. Fits(req[r].op, req[r].step) /\ ReqFields(r)
  BY Request
<1>2. CASE Load(r, "start", "loaded")
  BY <1>1, <1>2, LoadTypes DEF Fits, ReqSteps, Load
<1>3. CASE Load(r, "bump", "bumping")
  BY <1>1, <1>3, LoadTypes DEF Fits, ReqSteps, Load
<1>4. CASE Load(r, "patched", "routing")
  BY <1>1, <1>4, LoadTypes DEF Fits, ReqSteps, Load
<1> QED BY <1>2, <1>3, <1>4
    DEF Loads, LoadForChange, LoadForBump, LoadForPatch, RefreshPatched

\* The other actions: they move the request on, and only one that is cut off, or whose
\* subscription is refused, leaves a lapse.
Moved(r) ==
  /\ ReqTypeOK' /\ OthersStay(r) /\ WentTo(r, req'[r].step) /\ company' = company

\* An action that only moves the request on.
LEMMA GotoStep ==
  ASSUME ConfigTypeOK, NEW r \in Requests, NEW step \in ReqSteps, Goto(r, step),
         Fits(req[r].op, step), company' = company
  PROVE  Moved(r) /\ req'[r].step = step
BY GotoTypes DEF ConfigTypeOK, Moved, WentTo

Refused(r) ==
  LET op == req[r].op IN op.status \in {"active", "trial"} /\ is_period_expired(op.end, now)

GoesOn(r) ==
  \/ (Publish(r) \/ CutOff(r)) /\ UNCHANGED <<platformVars, subVars>>
  \/ LoadSub(r) \/ CommitSub(r) \/ CommitRenewal(r) \/ CommitRouting(r)
  \/ LoadForAssign(r) /\ Refused(r)

\* What the actions that only move the request on do, one by one.
LEMMA MoveStep ==
  ASSUME ConfigTypeOK, NEW r \in Requests, GoesOn(r)
  PROVE  /\ Moved(r)
         /\ \/ req[r].step = "publish" /\ req'[r].step = "end" /\ lapse' = lapse /\ Publish(r)
            \/ CutOff(r) /\ req'[r].step = "cut"
            \/ LoadSub(r) /\ req[r].step \in {"start", "catalogue"}
                 /\ req'[r].step \in {"end", "bump", "persist"} /\ lapse' = lapse
            \/ CommitSub(r) /\ req[r].step = "persist" /\ req[r].op.kind = "assign"
                 /\ \/ req'[r].step = "cut" /\ lapse'
                    \/ req'[r].step = "bump" /\ lapse' = lapse
            \/ CommitRenewal(r) /\ req[r].step = "persist" /\ req[r].op.kind = "renew"
                 /\ req'[r].step \in {"end", "bump"} /\ lapse' = lapse
            \/ CommitRouting(r) /\ req[r].step = "routing" /\ req'[r].step = "bump" /\ lapse' = lapse
            \/ LoadForAssign(r) /\ req[r].step = "start" /\ req'[r].step = "end" /\ lapse' = lapse
<1>1. Fits(req[r].op, req[r].step) /\ ReqFields(r)
  BY Request
<1>2. CASE Publish(r)
  BY <1>1, <1>2, GotoStep DEF Publish, Fits, ReqSteps
<1>3. CASE CutOff(r)
  BY <1>1, <1>3, GotoStep DEF CutOff, Fits, ReqSteps
<1>4. CASE LoadSub(r)
  <2>1. PICK step \in {"end", "bump", "persist"} : Goto(r, step)
    BY <1>4 DEF LoadSub
  <2>2. Fits(req[r].op, step) /\ company' = company
    BY <1>1, <1>4, <2>1 DEF LoadSub, Fits
  <2> QED BY <1>4, <2>1, <2>2, GotoStep DEF LoadSub, ReqSteps
<1>5. CASE CommitSub(r)
  <2>1. Fits(req[r].op, "cut") /\ Fits(req[r].op, "bump") /\ company' = company
    BY <1>5 DEF CommitSub, Fits
  <2>2. CASE Goto(r, "cut") /\ lapse' = TRUE
    BY <1>5, <2>1, <2>2, GotoStep DEF CommitSub, ReqSteps
  <2>3. CASE Goto(r, "bump") /\ UNCHANGED lapse
    BY <1>5, <2>1, <2>3, GotoStep DEF CommitSub, ReqSteps
  <2> QED BY <1>5, <2>2, <2>3 DEF CommitSub
<1>6. CASE CommitRenewal(r)
  <2>1. PICK step \in {"end", "bump"} : Goto(r, step)
    BY <1>6 DEF CommitRenewal
  <2>2. Fits(req[r].op, step) /\ company' = company
    BY <1>6, <2>1 DEF CommitRenewal, Fits
  <2> QED BY <1>6, <2>1, <2>2, GotoStep DEF CommitRenewal, ReqSteps
<1>7. CASE CommitRouting(r)
  BY <1>1, <1>7, GotoStep DEF CommitRouting, Fits, ReqSteps
<1>8. CASE LoadForAssign(r) /\ Refused(r)
  <2>1. /\ Goto(r, "end") /\ company' = company /\ lapse' = lapse /\ req[r].step = "start"
        /\ Fits(req[r].op, "end")
    BY <1>8 DEF LoadForAssign, Refused, Fits
  <2> QED BY <1>8, <2>1, GotoStep DEF ReqSteps
<1> QED BY <1>2, <1>3, <1>4, <1>5, <1>6, <1>7, <1>8 DEF GoesOn

\* Every action of a request is one of these.
LEMMA RequestSteps ==
  ASSUME NEW r \in Requests, RequestStep(r)
  PROVE  Stores(r) \/ Loads(r) \/ GoesOn(r)
<1>1. CASE RequestNext(r) /\ UNCHANGED <<platformVars, subVars>>
  BY <1>1 DEF RequestNext, Stores, Loads, GoesOn, CommitPolicies, CommitProfile, CommitEmail,
              CommitBump
<1>2. CASE SubscriptionNext(r)
  BY <1>2 DEF SubscriptionNext, Stores, Loads, GoesOn, LoadForAssign, Refused, CommitAssign,
              CommitPatch
<1> QED BY <1>1, <1>2 DEF RequestStep

----------------------------------------------------------------------------
(* Type correctness *)

Says ==
  {ManifestOf(row, plan, s) : row \in Companies, plan \in Definitions, s \in Subs \cup {NoSub}}
    \cup {NoSub}

LicenceEntry ==
  [step : {"none", "row", "read", "held"}, row : Companies, rev : Nat, grev : Nat, says : Says,
   torn : BOOLEAN]

LicenceTypeOK == licence \in [Clients -> LicenceEntry]

ClientStep(c) == ClientNext(c) /\ UNCHANGED <<platformVars, subVars>>

ConsoleStep(s) ==
  /\ PlatformStep(s) /\ UNCHANGED <<company, req, lapse, subVars>>
  /\ client' = client \/ Announce(0)

\* Every action of the system is one of these.
LEMMA Actions ==
  ASSUME [Next]_vars
  PROVE  \/ \E r \in Requests : RequestStep(r)
         \/ \E c \in Clients : ClientStep(c)
         \/ \E s \in Savers : ConsoleStep(s)
         \/ \E c \in Clients : LicenceNext(c)
         \/ Tick
         \/ UNCHANGED vars
<1>1. CASE ConfigNext /\ UNCHANGED <<platformVars, subVars>>
  BY <1>1 DEF ConfigNext, RequestStep, ClientStep
<1>2. CASE \E s \in Savers : SaverStep(s) /\ UNCHANGED <<configVars, subVars>>
  BY <1>2 DEF PlatformStep, ConsoleStep, configVars
<1>3. CASE \E s \in Savers : GlobalEvent(s)
  BY <1>3 DEF PlatformStep, ConsoleStep, GlobalEvent
<1>4. CASE \E r \in Requests : SubscriptionNext(r)
  BY <1>4 DEF RequestStep
<1> QED BY <1>1, <1>2, <1>3, <1>4 DEF Next

\* Only a request changes the row, the requests and the history.
LEMMA ConfigKept ==
  ASSUME [Next]_vars, \A r \in Requests : ~RequestStep(r)
  PROVE  company' = company /\ req' = req /\ lapse' = lapse
<1>1. ASSUME NEW c \in Clients, ClientStep(c) PROVE company' = company /\ req' = req /\ lapse' = lapse
  BY <1>1 DEF ClientStep, ClientNext, Fetch, StartLogin, FinishLogin, Subscribe, Stream, Disconnect
<1>2. ASSUME NEW s \in Savers, ConsoleStep(s) PROVE company' = company /\ req' = req /\ lapse' = lapse
  BY <1>2 DEF ConsoleStep
<1>3. CASE (\E c \in Clients : LicenceNext(c)) \/ Tick \/ UNCHANGED vars
  BY <1>3 DEF LicenceNext, StartManifest, ReadEntitlements, FinishManifest, Tick, configVars, vars
<1> QED BY <1>1, <1>2, <1>3, Actions

\* The row, the requests and the history.
LEMMA StoreStep ==
  ASSUME ConfigTypeOK, SubTypeOK, NEW r \in Requests, Stores(r)
  PROVE  ConfigTypeOK' /\ Stored(r, company') /\ req'[r].op = req[r].op
           /\ req'[r].step \in {"bump", "publish", "end", "patched", "catalogue"}
BY PoliciesCommitted, ProfileCommitted, EmailCommitted, BumpCommitted, AssignCommitted,
   PatchCommitted DEF Stores

\* Every action of the system keeps the types of the row, the requests and the history.
LEMMA ConfigTypes ==
  ASSUME ConfigTypeOK, SubTypeOK, [Next]_vars
  PROVE  ConfigTypeOK'
<1>1. ASSUME NEW r \in Requests, RequestStep(r) PROVE ConfigTypeOK'
  <2>1. CASE GoesOn(r)
    <3>1. ReqTypeOK' /\ company' = company
      BY <2>1, MoveStep DEF Moved
    <3>2. lapse' \in BOOLEAN
      BY <2>1 DEF GoesOn, Publish, CutOff, LoadSub, CommitSub, CommitRenewal, CommitRouting,
                  LoadForAssign, Refused, ConfigTypeOK
    <3> QED BY <3>1, <3>2 DEF ConfigTypeOK
  <2> QED BY <1>1, <2>1, RequestSteps, StoreStep, LoadStep
<1>2. CASE company' = company /\ req' = req /\ lapse' = lapse
  BY <1>2 DEF ConfigTypeOK, ReqTypeOK
<1> QED BY <1>1, <1>2, ConfigKept

\* The subscription, its copies and the clock.
Unread == UNCHANGED <<sub, routed, now, read>>

\* An action that leaves the subscription keeps its types.
LEMMA SubKept ==
  ASSUME SubTypeOK, Unread,
         \A r \in Requests : req'[r].op.kind = "renew" /\ req'[r].step = "persist" =>
            req[r].op.kind = "renew" /\ req[r].step = "persist"
  PROVE  SubTypeOK'
BY DEF SubTypeOK, Unread

\* Every action of a request keeps the types of the subscription and of what was read of it.
LEMMA SubTypes ==
  ASSUME ConfigTypeOK, SubTypeOK, FileTypeOK, NEW r \in Requests, RequestStep(r)
  PROVE  SubTypeOK'
<1>1. ReqFields(r) /\ read[r] \in ReadEntry
  BY Request DEF SubTypeOK
<1>2. CASE Stores(r)
  <2>1. Stored(r, company') /\ req'[r].step # "persist"
    BY <1>2, StoreStep
  <2>2. Unread
    BY <1>2 DEF Stores, subVars, Unread
  <2> QED BY <2>1, <2>2, SubKept DEF Stored
<1>3. CASE Loads(r)
  <2>1. OthersStay(r) /\ req'[r].step # "persist"
    BY <1>3, LoadStep DEF Loaded
  <2>2. CASE Unread
    BY <2>1, <2>2, SubKept DEF OthersStay
  <2>3. CASE LoadForPatch(r)
    <3>1. read' = [read EXCEPT ![r].routed = routed] /\ UNCHANGED <<sub, routed, now>>
      BY <2>3 DEF LoadForPatch
    <3>2. read' \in [Requests -> ReadEntry] /\ \A q \in Requests : read'[q].sub = read[q].sub
      BY <3>1 DEF SubTypeOK, ReadEntry
    <3> QED BY <2>1, <3>1, <3>2 DEF SubTypeOK, OthersStay
  <2>4. CASE LoadForAssign(r) /\ Load(r, "start", "loaded")
    <3>1. \/ Unread
          \/ /\ read' = [read EXCEPT ![r].defn = catalogue[req[r].op.plan]]
             /\ UNCHANGED <<sub, routed, now>> /\ req[r].op.kind = "assign"
      BY <2>4 DEF LoadForAssign, Unread
    <3>2. req[r].op.kind = "assign" => catalogue[req[r].op.plan] \in Definitions
      BY <1>1, OpFields DEF ReqFields, FileTypeOK
    <3>3. CASE read' = [read EXCEPT ![r].defn = catalogue[req[r].op.plan]]
                 /\ UNCHANGED <<sub, routed, now>> /\ req[r].op.kind = "assign"
      <4>1. read' \in [Requests -> ReadEntry] /\ \A q \in Requests : read'[q].sub = read[q].sub
        BY <3>2, <3>3 DEF SubTypeOK, ReadEntry
      <4> QED BY <2>1, <3>3, <4>1 DEF SubTypeOK, OthersStay
    <3> QED BY <2>2, <3>1, <3>3
  <2> QED BY <1>3, <2>2, <2>3, <2>4 DEF Loads, RefreshPatched, subVars, Unread
<1>4. CASE GoesOn(r) /\ ~LoadSub(r)
  <2>1. Moved(r) /\ req'[r].op = req[r].op /\ req'[r].step # "persist"
    BY <1>4, MoveStep DEF Moved, WentTo, CutOff
  <2>2. CASE Unread
    BY <2>1, <2>2, SubKept DEF Moved, OthersStay
  <2>3. CASE CommitSub(r) /\ ~Unread
    <3> DEFINE op == req[r].op
               new == [plan |-> op.plan, status |-> op.status, end |-> op.end,
                       override |-> op.override]
               merged == [field \in DOMAIN sub |-> Written(new[field], read[r].sub[field], sub[field])]
    <3>1. op.kind = "assign" /\ UNCHANGED <<routed, now, read>>
      BY <2>3 DEF CommitSub
    <3>2. new \in Subs
      BY <1>1, <3>1, OpFields DEF ReqFields, Subs
    <3>3. sub # NoSub => sub \in Subs
      BY DEF SubTypeOK
    <3>4. sub # NoSub => merged \in Subs
      <4> SUFFICES ASSUME sub # NoSub PROVE merged \in Subs
        OBVIOUS
      <4> HIDE DEF new
      <4> QED BY <3>2, <3>3 DEF Subs, Written
    <3>5. sub' = new \/ (sub # NoSub /\ sub' = merged) \/ sub' = sub
      BY <2>3 DEF CommitSub, SubTypeOK
    <3> HIDE DEF new, merged
    <3>6. sub' \in Subs \cup {NoSub} /\ (sub # NoSub => sub' # NoSub)
      BY <3>2, <3>3, <3>4, <3>5, NoSubAssumption DEF SubTypeOK
    <3> QED BY <2>1, <3>1, <3>6 DEF SubTypeOK, Moved, OthersStay
  <2>4. CASE CommitRenewal(r) /\ ~Unread
    <3> DEFINE op == req[r].op
               days == IF op.days # None THEN op.days ELSE catalogue[read[r].sub.plan].period
    <3>1. /\ op.kind = "renew" /\ UNCHANGED <<routed, now, read>> /\ req[r].step = "persist"
          /\ sub' = sub \/ sub' = Renewed(read[r].sub, sub, read[r].at + days)
      BY <2>4 DEF CommitRenewal
    <3>2. read[r].sub # NoSub /\ sub \in Subs /\ read[r].sub \in Subs
      BY <1>1, <3>1 DEF SubTypeOK, ReadEntry
    <3>3. days \in Nat
      <4>1. catalogue[read[r].sub.plan].period \in Nat
        BY <3>2 DEF FileTypeOK, Subs, Definitions
      <4> QED BY <1>1, <3>1, <4>1, OpFields DEF ReqFields
    <3> HIDE DEF days
    <3>4. read[r].at + days \in Nat
      BY <1>1, <3>3 DEF ReadEntry
    <3>5. sub' \in Subs
      BY <3>1, <3>2, <3>4 DEF Renewed, Subs
    <3> QED BY <2>1, <3>1, <3>5, NoSubAssumption DEF SubTypeOK, Moved, OthersStay
  <2>5. CASE CommitRouting(r)
    <3>1. UNCHANGED <<sub, now, read>> /\ routed' \in BOOLEAN
      BY <1>1, <2>5 DEF CommitRouting, Written, SubTypeOK, ReqFields, Companies
    <3> QED BY <2>1, <3>1 DEF SubTypeOK, Moved, OthersStay
  <2> QED BY <1>4, <2>2, <2>3, <2>4, <2>5 DEF GoesOn, LoadForAssign, Refused, subVars, Unread
<1>5. CASE LoadSub(r)
  <2>1. Moved(r) /\ req'[r].op = req[r].op
    BY <1>5, MoveStep DEF GoesOn, Moved, WentTo
  <2>2. /\ read' = [read EXCEPT ![r].sub = sub, ![r].at = now] /\ UNCHANGED <<sub, routed, now>>
        /\ req[r].op.kind = "renew" /\ req'[r].step = "persist" => sub # NoSub
    BY <1>1, <1>5, <2>1 DEF LoadSub, Goto, ConfigTypeOK, ReqTypeOK, ReqEntry
  <2>3. /\ read' \in [Requests -> ReadEntry] /\ read'[r].sub = sub
        /\ \A q \in Requests \ {r} : read'[q].sub = read[q].sub
    BY <2>2 DEF SubTypeOK, ReadEntry
  <2> QED BY <2>1, <2>2, <2>3 DEF SubTypeOK, Moved, OthersStay
<1> QED BY <1>2, <1>3, <1>4, <1>5, RequestSteps

\* Whatever is not a request leaves them as they are, but for the clock.
LEMMA SubTypesKept ==
  ASSUME SubTypeOK, [Next]_vars, \A r \in Requests : ~RequestStep(r)
  PROVE  SubTypeOK'
<1>1. req' = req
  BY ConfigKept
<1>2. UNCHANGED <<sub, routed, read>> /\ now' \in Nat
  <2>1. CASE Tick
    BY <2>1 DEF Tick, SubTypeOK
  <2>2. ASSUME NEW c \in Clients, ClientStep(c) \/ LicenceNext(c)
        PROVE  UNCHANGED <<sub, routed, read, now>>
    BY <2>2 DEF ClientStep, subVars, LicenceNext, StartManifest, ReadEntitlements, FinishManifest
  <2>3. ASSUME NEW s \in Savers, ConsoleStep(s) PROVE UNCHANGED <<sub, routed, read, now>>
    BY <2>3 DEF ConsoleStep, subVars
  <2>4. CASE UNCHANGED vars
    BY <2>4 DEF vars, SubTypeOK
  <2> QED BY <2>1, <2>2, <2>3, <2>4, Actions DEF SubTypeOK
<1> QED BY <1>1, <1>2 DEF SubTypeOK

\* The clients and their streams.
LEMMA AnnounceTypes ==
  ASSUME ClientTypeOK, NEW rev \in Nat, Announce(rev)
  PROVE  /\ ClientTypeOK'
         /\ \A c \in Clients : /\ client'[c].step = client[c].step /\ client'[c].rev = client[c].rev
                               /\ client'[c].conf = client[c].conf /\ client'[c].torn = client[c].torn
<1>1. ASSUME NEW c \in Clients
      PROVE  /\ client'[c] \in ClientEntry
             /\ client'[c].step = client[c].step /\ client'[c].rev = client[c].rev
             /\ client'[c].conf = client[c].conf /\ client'[c].torn = client[c].torn
  <2>1. client[c] \in ClientEntry
    BY DEF ClientTypeOK
  <2>2. \/ client'[c] = client[c]
        \/ client'[c] = [client[c] EXCEPT !.queue = Delivered(client[c].queue, rev)]
        \/ client'[c] = [client[c] EXCEPT !.missed = client[c].missed \/ client[c].stream]
    BY <2>1 DEF Announce, ClientEntry
  <2>3. Delivered(client[c].queue, rev) \in Seq(Nat)
    BY <2>1 DEF Delivered, ClientEntry
  <2>4. (client[c].missed \/ client[c].stream) \in BOOLEAN
    OBVIOUS
  <2> QED BY <2>1, <2>2, <2>3, <2>4 DEF ClientEntry
<1>2. client' = [c \in Clients |-> client'[c]]
  BY DEF Announce
<1> QED BY <1>1, <1>2 DEF ClientTypeOK

\* What client c knows afterwards: what it reads now, what it read and reads now, or what it
\* knew.
LEMMA ClientTypes ==
  ASSUME ConfigTypeOK, ClientTypeOK, NEW c \in Clients, ClientNext(c)
  PROVE  /\ ClientTypeOK' /\ \A d \in Clients \ {c} : client'[d] = client[d]
         /\ \/ /\ client'[c].rev = company.rev /\ client'[c].conf = Content(company)
               /\ client'[c].torn = FALSE
            \/ client'[c].step = "login" /\ client'[c].rev = client[c].rev
            \/ /\ client'[c].rev = company.rev /\ client'[c].conf = client[c].conf
               /\ client'[c].torn = (client[c].conf # Content(company))
            \/ /\ client'[c].step = client[c].step /\ client'[c].rev = client[c].rev
               /\ client'[c].conf = client[c].conf /\ client'[c].torn = client[c].torn
<1>1. client[c] \in ClientEntry /\ company.rev \in Nat /\ Content(company) \in Contents
  BY RowParts DEF ConfigTypeOK, ClientTypeOK
<1>2. ASSUME NEW entry \in ClientEntry, client' = [client EXCEPT ![c] = entry]
      PROVE  /\ ClientTypeOK' /\ client'[c] = entry
             /\ \A d \in Clients \ {c} : client'[d] = client[d]
  BY <1>2 DEF ClientTypeOK
<1>3. CASE Fetch(c)
  <2> DEFINE entry == [client[c] EXCEPT !.step = "in", !.rev = company.rev, !.conf = Content(company),
                                        !.torn = FALSE]
  <2>1. client' = [client EXCEPT ![c] = entry]
    BY <1>1, <1>3 DEF Fetch, ClientEntry, ClientTypeOK
  <2>2. entry \in ClientEntry /\ entry.rev = company.rev /\ entry.conf = Content(company)
          /\ entry.torn = FALSE
    BY <1>1 DEF ClientEntry
  <2> HIDE DEF entry
  <2> QED BY <1>2, <2>1, <2>2
<1>4. CASE StartLogin(c)
  <2> DEFINE entry == [client[c] EXCEPT !.step = "login", !.conf = Content(company)]
  <2>1. client' = [client EXCEPT ![c] = entry]
    BY <1>1, <1>4 DEF StartLogin, ClientEntry, ClientTypeOK
  <2>2. entry \in ClientEntry /\ entry.step = "login" /\ entry.rev = client[c].rev
    BY <1>1 DEF ClientEntry
  <2> HIDE DEF entry
  <2> QED BY <1>2, <2>1, <2>2
<1>5. CASE FinishLogin(c)
  <2> DEFINE torn == client[c].conf # Content(company)
             entry == [client[c] EXCEPT !.step = "in", !.rev = company.rev, !.torn = torn]
  <2>1. client' = [client EXCEPT ![c] = entry]
    BY <1>1, <1>5 DEF FinishLogin, ClientEntry, ClientTypeOK
  <2>2. torn \in BOOLEAN
    OBVIOUS
  <2> HIDE DEF torn
  <2>3. entry \in ClientEntry /\ entry.rev = company.rev /\ entry.conf = client[c].conf
          /\ entry.torn = torn
    BY <1>1, <2>2 DEF ClientEntry
  <2> HIDE DEF entry
  <2> QED BY <1>2, <2>1, <2>3 DEF torn
<1>6. CASE Subscribe(c)
  <2> DEFINE missed == client[c].rev # company.rev \/ client[c].torn
             entry == [client[c] EXCEPT !.stream = TRUE, !.queue = <<>>, !.missed = missed]
  <2>1. client' = [client EXCEPT ![c] = entry]
    BY <1>1, <1>6 DEF Subscribe, ClientEntry, ClientTypeOK
  <2>2. missed \in BOOLEAN /\ <<>> \in Seq(Nat)
    OBVIOUS
  <2> HIDE DEF missed
  <2>3. entry \in ClientEntry /\ entry.step = client[c].step /\ entry.rev = client[c].rev
          /\ entry.conf = client[c].conf /\ entry.torn = client[c].torn
    BY <1>1, <2>2 DEF ClientEntry
  <2> HIDE DEF entry
  <2> QED BY <1>2, <2>1, <2>3
<1>7. CASE Stream(c)
  <2> DEFINE queue == Tail(client[c].queue)
             entry == [client[c] EXCEPT !.queue = queue, !.rev = company.rev,
                                        !.conf = Content(company), !.torn = FALSE]
  <2>1. client' = [client EXCEPT ![c] = entry]
    BY <1>1, <1>7 DEF Stream, ClientEntry, ClientTypeOK
  <2>2. queue \in Seq(Nat)
    BY <1>1, <1>7 DEF Stream, ClientEntry
  <2> HIDE DEF queue
  <2>3. entry \in ClientEntry /\ entry.rev = company.rev /\ entry.conf = Content(company)
          /\ entry.torn = FALSE
    BY <1>1, <2>2 DEF ClientEntry
  <2> HIDE DEF entry
  <2> QED BY <1>2, <2>1, <2>3
<1>8. CASE Disconnect(c)
  <2> DEFINE entry == [client[c] EXCEPT !.stream = FALSE, !.queue = <<>>]
  <2>1. client' = [client EXCEPT ![c] = entry]
    BY <1>1, <1>8 DEF Disconnect, ClientEntry, ClientTypeOK
  <2>2. <<>> \in Seq(Nat)
    OBVIOUS
  <2>3. entry \in ClientEntry /\ entry.step = client[c].step /\ entry.rev = client[c].rev
          /\ entry.conf = client[c].conf /\ entry.torn = client[c].torn
    BY <1>1, <2>2 DEF ClientEntry
  <2> HIDE DEF entry
  <2> QED BY <1>2, <2>1, <2>3
<1> QED BY <1>3, <1>4, <1>5, <1>6, <1>7, <1>8 DEF ClientNext

\* The licences.
LEMMA LicenceTypes ==
  ASSUME ConfigTypeOK, SubTypeOK, FileTypeOK, LicenceTypeOK, NEW c \in Clients, LicenceNext(c)
  PROVE  LicenceTypeOK'
<1>1. /\ licence \in [Clients -> LicenceEntry] /\ company \in Companies /\ company.rev \in Nat
      /\ sub \in Subs \cup {NoSub}
  BY RowParts DEF ConfigTypeOK, SubTypeOK, LicenceTypeOK
<1>2. CASE StartManifest(c)
  <2>1. NoSub \in Says
    BY DEF Says
  <2>2. [NoLicence EXCEPT !.step = "row", !.row = company, !.rev = company.rev] \in LicenceEntry
    BY <1>1, <2>1 DEF NoLicence, LicenceEntry
  <2> QED BY <1>1, <1>2, <2>2 DEF StartManifest, LicenceTypeOK
<1>3. CASE ReadEntitlements(c)
  <2> DEFINE row == licence[c].row
             says == ManifestOf(row, catalogue[row.plan], sub)
  <2>1. row \in Companies
    BY <1>1 DEF LicenceEntry
  <2>2. row.plan \in Plans
    BY <2>1 DEF Companies
  <2>3. catalogue[row.plan] \in Definitions
    BY <2>2 DEF FileTypeOK
  <2>4. says \in Says
    BY <1>1, <2>1, <2>3 DEF Says
  <2>5. licence' = [licence EXCEPT ![c] = [licence[c] EXCEPT !.step = "read", !.says = says]]
    BY <1>1, <1>3 DEF ReadEntitlements, LicenceEntry
  <2> HIDE DEF says
  <2>6. [licence[c] EXCEPT !.step = "read", !.says = says] \in LicenceEntry
    BY <1>1, <2>4 DEF LicenceEntry
  <2> QED BY <1>1, <2>5, <2>6 DEF LicenceTypeOK
<1>4. CASE FinishManifest(c)
  <2> DEFINE torn == licence[c].says # ManifestOf(company, catalogue[company.plan], sub)
  <2>1. file.rev \in Nat
    BY <1>4 DEF FinishManifest, FileTypeOK, Files
  <2>2. licence' = [licence EXCEPT ![c] = [licence[c] EXCEPT !.step = "held", !.grev = file.rev,
                                                             !.torn = torn]]
    BY <1>1, <1>4 DEF FinishManifest, LicenceEntry
  <2>3. torn \in BOOLEAN
    OBVIOUS
  <2> HIDE DEF torn
  <2>4. [licence[c] EXCEPT !.step = "held", !.grev = file.rev, !.torn = torn] \in LicenceEntry
    BY <1>1, <2>1, <2>3 DEF LicenceEntry
  <2> QED BY <1>1, <2>2, <2>4 DEF LicenceTypeOK
<1> QED BY <1>2, <1>3, <1>4 DEF LicenceNext

----------------------------------------------------------------------------
TypeInv == FileTypeOK /\ ConfigTypeOK /\ SubTypeOK /\ ClientTypeOK /\ LicenceTypeOK

\* What changes the table of clients.
LEMMA ClientsChange ==
  ASSUME [Next]_vars
  PROVE  \/ \E c \in Clients : ClientNext(c)
         \/ Announce(0) \/ \E r \in Requests : Announce(req[r].rev)
         \/ client' = client
<1>1. ASSUME NEW r \in Requests, RequestStep(r) PROVE client' = client \/ Announce(req[r].rev)
  BY <1>1, RequestSteps DEF Stores, Loads, GoesOn, LoadForChange, LoadForBump, LoadForPatch,
     RefreshPatched, LoadForAssign, Load, Publish, CutOff, LoadSub, CommitSub, CommitRenewal,
     CommitRouting, Refused
<1>2. CASE (\E c \in Clients : LicenceNext(c)) \/ Tick \/ UNCHANGED vars
  BY <1>2 DEF LicenceNext, StartManifest, ReadEntitlements, FinishManifest, Tick, configVars, vars
<1> QED BY <1>1, <1>2, Actions DEF ClientStep, ConsoleStep

\* Every other step leaves the licences.
LEMMA LicencesKept ==
  ASSUME [Next]_vars, \A c \in Clients : ~LicenceNext(c)
  PROVE  licence' = licence
<1>1. ASSUME NEW r \in Requests, RequestStep(r) PROVE licence' = licence
  BY <1>1, RequestSteps DEF Stores, Loads, GoesOn, LoadForPatch,
     RefreshPatched, LoadForAssign, LoadSub, CommitSub, CommitRenewal, CommitRouting, subVars
<1>2. ASSUME NEW c \in Clients, ClientStep(c) PROVE licence' = licence
  BY <1>2 DEF ClientStep, subVars
<1>3. ASSUME NEW s \in Savers, ConsoleStep(s) PROVE licence' = licence
  BY <1>3 DEF ConsoleStep, subVars
<1>4. CASE Tick \/ UNCHANGED vars
  BY <1>4 DEF Tick, vars
<1> QED BY <1>1, <1>2, <1>3, <1>4, Actions

\* The types hold at the start, from the assumptions on the constants.
LEMMA TypesInit == Init => TypeInv
<1> SUFFICES ASSUME Init PROVE TypeInv
  OBVIOUS
<1> DEFINE row == NewCompany(StartPlan)
<1>1. row \in Companies
  <2>1. (CHOOSE p \in Profiles : TRUE) \in Profiles
    BY ProfilesAssumption
  <2>2. NoPolicies \in Documents(RawEntries)
    BY DEF NoPolicies, Documents, RawEntries
  <2> QED BY <2>1, <2>2, PlansAssumption DEF NewCompany, Companies, Statuses
<1>2. /\ company = row /\ lapse = FALSE /\ client = [c \in Clients |-> NewClient(row)]
      /\ sub = InitialSub /\ routed = TRUE /\ now = 0
      /\ read = [r \in Requests |-> NothingRead] /\ licence = [c \in Clients |-> NoLicence]
  BY DEF Init, ConfigInit
<1>3. PICK work \in Workloads : req = [r \in Requests |-> NewRequest(work[r], row)]
  BY DEF Init, ConfigInit
<1>4. NoLicence \in LicenceEntry
  BY <1>1 DEF NoLicence, LicenceEntry, Says
<1> HIDE DEF row
<1>5. ASSUME NEW r \in Requests
      PROVE  /\ req[r] \in ReqEntry /\ Fits(req[r].op, req[r].step)
             /\ req[r].step \in {"start", "end"}
             /\ ~req[r].stale
  <2>1. req[r] = NewRequest(work[r], row) /\ work[r] \in Ops
    BY <1>3, WorkloadsAssumption DEF Ops
  <2> QED BY <1>1, <2>1 DEF NewRequest, ReqEntry, ReqSteps, Fits
<1>6. ConfigTypeOK
  <2>1. req \in [Requests -> ReqEntry]
    BY <1>3, <1>5
  <2> QED BY <1>1, <1>2, <1>5, <2>1 DEF ConfigTypeOK, ReqTypeOK
<1>7. SubTypeOK
  <2>1. NothingRead \in ReadEntry /\ NothingRead.sub = NoSub
    BY PlansAssumption DEF NothingRead, ReadEntry
  <2> QED BY <1>2, <1>5, <2>1, SubAssumption DEF SubTypeOK
<1>8. ClientTypeOK
  <2>1. NewClient(row) \in ClientEntry
    BY <1>1, RowParts DEF NewClient, ClientEntry
  <2> QED BY <1>2, <2>1 DEF ClientTypeOK
<1>9. LicenceTypeOK
  BY <1>2, <1>4 DEF LicenceTypeOK
<1> QED BY <1>6, <1>7, <1>8, <1>9, FileInit DEF TypeInv, FileInv

\* Every action keeps all of the types.
LEMMA TypesStep == TypeInv /\ [Next]_vars => TypeInv'
<1> SUFFICES ASSUME TypeInv, [Next]_vars PROVE TypeInv'
  OBVIOUS
<1> USE DEF TypeInv
<1>1. FileTypeOK'
  <2>1. CASE UNCHANGED platformVars
    BY <2>1 DEF platformVars, FileTypeOK
  <2> QED BY <2>1, PlatformPart, FileTypes
<1>2. ConfigTypeOK'
  BY ConfigTypes
<1>3. SubTypeOK'
  BY SubTypes, SubTypesKept
<1>4. ClientTypeOK'
  <2>1. CASE client' = client
    BY <2>1 DEF ClientTypeOK
  <2>2. CASE Announce(0) \/ \E r \in Requests : Announce(req[r].rev)
    BY <2>2, Request, AnnounceTypes DEF ReqFields
  <2> QED BY <2>1, <2>2, ClientTypes, ClientsChange
<1>5. LicenceTypeOK'
  <2>1. CASE licence' = licence
    BY <2>1 DEF LicenceTypeOK
  <2> QED BY <2>1, LicenceTypes, LicencesKept
<1> QED BY <1>1, <1>2, <1>3, <1>4, <1>5

\* Rows, requests, file and licences are what they are declared as, and the session of any
\* user on any site keeps the bounds under whatever policies are stored
\* (session_policy_service.py:48).
THEOREM PlatformTypeCorrect == Spec => []PlatformTypeOK
<1>1. TypeInv => PlatformTypeOK
  <2> SUFFICES ASSUME TypeInv PROVE PlatformTypeOK
    OBVIOUS
  <2>1. \A u \in Users, s \in Sites \cup {NoSite} :
          resolve_tenant_session(company.policies, u, s) \in TtlMin..TtlMax
    <3>1. company.policies \in Documents(RawEntries)
      BY DEF TypeInv, ConfigTypeOK, Companies
    <3> QED BY <3>1, SessionInBounds
  <2>2. \A r \in Requests : req[r].op \in ConfigOps \cup SubOps /\ req[r].seen \in Companies
    BY Request DEF TypeInv, ReqFields, Ops
  <2>3. \A c \in Clients : client[c].rev \in Nat /\ licence[c].grev \in Nat
    BY DEF TypeInv, ClientTypeOK, ClientEntry, LicenceTypeOK, LicenceEntry
  <2> QED BY <2>1, <2>2, <2>3 DEF PlatformTypeOK, TypeInv, ConfigTypeOK, FileTypeOK, SubTypeOK
<1> QED BY <1>1, TypesInit, TypesStep, PTL DEF Spec

----------------------------------------------------------------------------
(* The revision of a company *)

\* What a request has read, and is about to store, are the settings there are, unless the
\* history says that they have changed since.
FreshInv ==
  \A r \in Requests : req[r].step \in {"loaded", "bumping"} /\ ~req[r].stale =>
                      SettingsOf(req[r].seen) = SettingsOf(company)

\* Nobody has read the settings yet.
LEMMA FreshInit == Init => FreshInv
BY DEF Init, ConfigInit, NewRequest, FreshInv

\* A store makes the copies of the others stale, unless it leaves the settings.
LEMMA FreshStep ==
  ASSUME TypeInv, FreshInv, [Next]_vars
  PROVE  FreshInv'
<1> USE DEF TypeInv
<1>1. ASSUME NEW r \in Requests, Stores(r) PROVE FreshInv'
  <2>1. Stored(r, company') /\ req'[r].step \notin {"loaded", "bumping"}
    BY <1>1, StoreStep
  <2>2. \A q \in Requests \ {r} :
          /\ req'[q].step = req[q].step /\ req'[q].seen = req[q].seen
          /\ ~req'[q].stale => ~req[q].stale /\ SettingsOf(company') = SettingsOf(company)
    BY <2>1, Request DEF Stored, ReqFields
  <2> QED BY <2>1, <2>2 DEF FreshInv
<1>2. ASSUME NEW r \in Requests, Loads(r) PROVE FreshInv'
  BY <1>2, LoadStep DEF FreshInv, OthersStay, Loaded
<1>3. ASSUME NEW r \in Requests, GoesOn(r) PROVE FreshInv'
  <2>1. Moved(r) /\ req'[r].step \notin {"loaded", "bumping"}
    BY <1>3, MoveStep
  <2> QED BY <2>1 DEF FreshInv, Moved, OthersStay
<1>4. CASE company' = company /\ req' = req
  BY <1>4 DEF FreshInv
<1> QED BY <1>1, <1>2, <1>3, <1>4, ConfigKept, RequestSteps

\* A request that has changed what a client shows and has the revision still to count.
Owes(r) ==
  \/ req[r].step \in {"catalogue", "patched", "routing", "bump", "cut"}
  \/ req[r].step = "persist" /\ req[r].op.kind = "assign"
  \/ req[r].step = "bumping" /\ req[r].seen.rev = company.rev

\* What a client shows under the revision of the company is what there is, or a change of it
\* is still to be counted; and no revision is ahead of the company's.
RevInv ==
  ~lapse =>
    /\ \A r \in Requests : req[r].step \in {"loaded", "bumping"} => req[r].seen.rev <= company.rev
    /\ \A c \in Clients :
         /\ client[c].rev <= company.rev
         /\ client[c].step = "in" /\ ~client[c].torn /\ client[c].rev = company.rev =>
              client[c].conf = Content(company) \/ \E r \in Requests : Owes(r)

\* What a store does, unless it overwrites a change: nothing; a count; something nobody sees;
\* or a change that is owed.
LEMMA StoreOutcome ==
  ASSUME TypeInv, FreshInv, NEW r \in Requests, Stores(r), ~lapse'
  PROVE  /\ ~lapse
         /\ \/ company' = company /\ ~Owes(r)
            \/ company'.rev = company.rev + 1
            \/ /\ company'.rev = company.rev /\ Content(company') = Content(company)
               /\ company'.column = company.column /\ ~Owes(r)
            \/ company'.rev = company.rev /\ Owes(r)'
<1> USE DEF TypeInv
<1>1. Stored(r, company') /\ ReqFields(r) /\ company \in Companies
  BY StoreStep, Request DEF ConfigTypeOK
<1>2. /\ ~lapse
      /\ company' = company \/ ~req[r].stale
  BY <1>1 DEF Stored, ConfigTypeOK, ReqFields
<1>3. req[r].step \in {"loaded", "bumping"}
  BY DEF Stores, CommitPolicies, CommitProfile, CommitEmail, CommitBump, CommitAssign, CommitPatch
<1>4. ~req[r].stale => /\ req[r].seen.rev = company.rev /\ req[r].seen.policies = company.policies
                       /\ req[r].seen.ent = company.ent
  <2> SUFFICES ASSUME ~req[r].stale
               PROVE  /\ req[r].seen.rev = company.rev /\ req[r].seen.policies = company.policies
                      /\ req[r].seen.ent = company.ent
    OBVIOUS
  <2>1. SettingsOf(req[r].seen) = SettingsOf(company)
    BY <1>3 DEF FreshInv
  <2> QED BY <1>1, <2>1, RowParts DEF ReqFields
<1>5. CASE CommitPolicies(r) \/ CommitProfile(r) \/ CommitBump(r)
  <2>1. company'.rev = req[r].seen.rev + 1
    BY <1>5, PoliciesCommitted, ProfileCommitted, BumpCommitted DEF Counts
  <2>2. CASE company' = company
    <3>1. req[r].seen.rev # company.rev
      BY <2>1, <2>2, Request
    <3> QED BY <1>2, <1>3, <2>2, <3>1 DEF Owes
  <2> QED BY <1>2, <1>4, <2>1, <2>2
<1>6. CASE CommitEmail(r)
  <2>1. req[r].step = "loaded"
    BY <1>6 DEF CommitEmail
  <2>2. ~req[r].stale => /\ company'.rev = company.rev /\ Content(company') = Content(company)
                         /\ company'.column = company.column
    BY <1>4, <1>6, EmailCommitted DEF Content, SameColumns
  <2> QED BY <1>2, <2>1, <2>2 DEF Owes
<1>7. CASE CommitPatch(r)
  <2>1. company' \in Companies
    BY <1>7, PatchCommitted DEF ConfigTypeOK
  <2>2. company'.rev = company.rev /\ req'[r].step = "patched"
    BY <1>1, <1>7, <2>1, PatchCommitted, RowParts
  <2> QED BY <1>2, <2>2 DEF Owes
<1>8. CASE CommitAssign(r)
  <2>1. company'.rev = company.rev \/ company'.rev = req[r].seen.rev
    BY <1>8, AssignCommitted
  <2>2. req'[r].step = "catalogue"
    BY <1>8, AssignCommitted
  <2> QED BY <1>2, <1>4, <2>1, <2>2 DEF Owes
<1> QED BY <1>5, <1>6, <1>7, <1>8 DEF Stores

\* What is owed stays owed until it is counted.
LEMMA OwesKept ==
  ASSUME TypeInv, [Next]_vars, ~lapse', NEW r \in Requests, Owes(r), \A q \in Requests : ~Stores(q)
  PROVE  Owes(r)'
<1> USE DEF TypeInv
<1>1. ASSUME NEW q \in Requests, Loads(q) PROVE Owes(r)'
  BY <1>1, LoadStep DEF Owes, OthersStay, Loaded
<1>2. ASSUME NEW q \in Requests, GoesOn(q) PROVE Owes(r)'
  <2>1. Moved(q)
    BY <1>2, MoveStep
  <2>2. CASE q # r
    BY <2>1, <2>2 DEF Owes, Moved, OthersStay
  <2>3. CASE q = r
    <3>1. req'[r].op = req[r].op
      BY <2>1, <2>3 DEF Moved, WentTo
    <3>2. CASE LoadSub(r)
      <4>1. req[r].step = "catalogue" /\ req[r].op.kind = "assign"
        BY <3>2 DEF LoadSub, Owes
      <4>2. req'[r].step \in {"bump", "persist"}
        BY <3>2, <4>1 DEF LoadSub, Goto, ConfigTypeOK, ReqTypeOK, ReqEntry
      <4> QED BY <3>1, <4>1, <4>2 DEF Owes
    <3>3. CASE ~LoadSub(r)
      BY <1>2, <2>3, <3>3, MoveStep DEF Owes
    <3> QED BY <3>2, <3>3
  <2> QED BY <2>2, <2>3
<1>3. CASE company' = company /\ req' = req
  BY <1>3 DEF Owes
<1> QED BY <1>1, <1>2, <1>3, ConfigKept, RequestSteps

\* A store of another request leaves it, as long as the revision stays.
LEMMA OwesStays ==
  ASSUME TypeInv, NEW r \in Requests, Stores(r), NEW q \in Requests \ {r}, Owes(q),
         company'.rev = company.rev
  PROVE  Owes(q)'
BY StoreStep DEF TypeInv, Owes, Stored

\* No client has logged in yet.
LEMMA RevInit == Init => RevInv
<1> SUFFICES ASSUME Init PROVE RevInv
  OBVIOUS
<1> DEFINE row == NewCompany(StartPlan)
<1>1. /\ company = row /\ client = [c \in Clients |-> NewClient(row)]
      /\ \E work \in Workloads : req = [r \in Requests |-> NewRequest(work[r], row)]
  BY DEF Init, ConfigInit
<1>2. row.rev = 0
  BY DEF NewCompany
<1> HIDE DEF row
<1>3. \A r \in Requests : req[r].step \in {"start", "end"}
  BY <1>1 DEF NewRequest
<1>4. \A c \in Clients : client[c].rev = 0 /\ client[c].step = "out"
  BY <1>1 DEF NewClient
<1> QED BY <1>1, <1>2, <1>3, <1>4 DEF RevInv

\* Every action keeps what the revision tells.
LEMMA RevStep ==
  ASSUME TypeInv, FreshInv, RevInv, [Next]_vars
  PROVE  RevInv'
<1> USE DEF TypeInv
<1> SUFFICES ASSUME ~lapse' PROVE RevInv'
  BY DEF RevInv
<1>1. ASSUME NEW r \in Requests, Stores(r) PROVE RevInv'
  <2>1. /\ ~lapse /\ company.rev \in Nat /\ company'.rev \in Nat /\ client' = client
        /\ \A q \in Requests : req[q].seen.rev \in Nat
        /\ \A c \in Clients : client[c].rev \in Nat
    <3>1. ConfigTypeOK' /\ ~lapse /\ client' = client
      BY <1>1, StoreOutcome, StoreStep DEF Stores
    <3>2. company' \in Companies
      BY <3>1 DEF ConfigTypeOK
    <3> QED BY <3>1, <3>2, Request, RowParts DEF ConfigTypeOK, ClientTypeOK, ClientEntry
  <2>2. company.rev <= company'.rev
    BY <1>1, <2>1, StoreOutcome
  <2>3. \A q \in Requests : req'[q].step \in {"loaded", "bumping"} => req'[q].seen.rev <= company'.rev
    <3>1. Stored(r, company') /\ req'[r].step \notin {"loaded", "bumping"}
      BY <1>1, StoreStep
    <3>2. \A q \in Requests \ {r} : req'[q].step = req[q].step /\ req'[q].seen = req[q].seen
      BY <3>1 DEF Stored
    <3> QED BY <2>1, <2>2, <3>1, <3>2 DEF RevInv
  <2>4. ASSUME NEW c \in Clients
        PROVE  /\ client'[c].rev <= company'.rev
               /\ client'[c].step = "in" /\ ~client'[c].torn /\ client'[c].rev = company'.rev =>
                    client'[c].conf = Content(company') \/ \E q \in Requests : Owes(q)'
    <3>1. client'[c] = client[c] /\ client[c].rev <= company.rev
      BY <2>1 DEF RevInv
    <3>2. client'[c].rev <= company'.rev
      BY <2>1, <2>2, <3>1
    <3>3. CASE company'.rev = company.rev + 1
      BY <2>1, <3>1, <3>2, <3>3
    <3>4. CASE Owes(r)'
      BY <3>2, <3>4
    <3>5. CASE company'.rev = company.rev /\ Content(company') = Content(company) /\ ~Owes(r)
      <4>1. \A q \in Requests : Owes(q) => Owes(q)'
        BY <1>1, <3>5, OwesStays
      <4> QED BY <2>1, <3>1, <3>2, <3>5, <4>1 DEF RevInv
    <3> QED BY <1>1, <3>3, <3>4, <3>5, StoreOutcome
  <2> QED BY <2>3, <2>4 DEF RevInv
<1>2. CASE \A r \in Requests : ~Stores(r)
  <2>1. company' = company /\ ~lapse
    <3>1. ASSUME NEW r \in Requests, RequestStep(r) PROVE company' = company /\ (lapse => lapse')
      <4>1. CASE Loads(r)
        BY <4>1, LoadStep
      <4>2. CASE GoesOn(r)
        <5>1. company' = company
          BY <4>2, MoveStep DEF Moved
        <5>2. lapse => lapse'
          BY <4>2, MoveStep DEF CutOff
        <5> QED BY <5>1, <5>2
      <4> QED BY <1>2, <3>1, <4>1, <4>2, RequestSteps
    <3> QED BY <3>1, ConfigKept
  <2>2. \A q \in Requests : Owes(q) => Owes(q)'
    BY <1>2, OwesKept
  <2>3. company.rev \in Nat
    BY RowParts DEF ConfigTypeOK
  <2>4. \A q \in Requests : req'[q].step \in {"loaded", "bumping"} => req'[q].seen.rev <= company'.rev
    <3>1. ASSUME NEW r \in Requests, Loads(r), NEW q \in Requests,
                 req'[q].step \in {"loaded", "bumping"}
          PROVE  req'[q].seen.rev <= company.rev
      <4>1. CASE q = r
        <5>1. req'[q].seen = company
          BY <3>1, <4>1, LoadStep DEF Loaded
        <5> QED BY <2>3, <5>1
      <4>2. CASE q # r
        BY <2>1, <3>1, <4>2, LoadStep DEF RevInv, OthersStay
      <4> QED BY <4>1, <4>2
    <3>2. ASSUME NEW r \in Requests, GoesOn(r), NEW q \in Requests,
                 req'[q].step \in {"loaded", "bumping"}
          PROVE  req'[q].seen.rev <= company.rev
      BY <2>1, <3>2, MoveStep DEF RevInv, Moved, OthersStay
    <3>3. CASE req' = req
      BY <2>1, <3>3 DEF RevInv
    <3> QED BY <1>2, <2>1, <3>1, <3>2, <3>3, ConfigKept, RequestSteps
  <2>5. ASSUME NEW c \in Clients
        PROVE  /\ client'[c].rev <= company'.rev
               /\ client'[c].step = "in" /\ ~client'[c].torn /\ client'[c].rev = company'.rev =>
                    client'[c].conf = Content(company') \/ \E q \in Requests : Owes(q)'
    <3> DEFINE Same == /\ client'[c].step = client[c].step /\ client'[c].rev = client[c].rev
                       /\ client'[c].conf = client[c].conf /\ client'[c].torn = client[c].torn
    <3>1. CASE Same
      BY <2>1, <2>2, <3>1 DEF RevInv
    <3>2. ASSUME NEW d \in Clients, ClientNext(d), ~Same
          PROVE  \/ client'[c].step = "login" /\ client'[c].rev = client[c].rev
                 \/ /\ client'[c].rev = company.rev
                    /\ ~client'[c].torn => client'[c].conf = Content(company)
      BY <3>2, ClientTypes
    <3>3. ASSUME NEW d \in Clients, ClientNext(d), ~Same
          PROVE  /\ client'[c].rev <= company'.rev
                 /\ client'[c].step = "in" /\ ~client'[c].torn => client'[c].conf = Content(company')
      BY <2>1, <2>3, <3>2, <3>3 DEF RevInv
    <3>4. CASE Announce(0) \/ \E r \in Requests : Announce(req[r].rev)
      BY <3>1, <3>4, Request, AnnounceTypes DEF ReqFields
    <3>5. CASE client' = client
      BY <3>1, <3>5
    <3> QED BY <3>1, <3>3, <3>4, <3>5, ClientsChange
  <2> QED BY <2>4, <2>5 DEF RevInv
<1> QED BY <1>1, <1>2

CompanyInv == TypeInv /\ FreshInv /\ RevInv

\* The three of them are an inductive invariant.
LEMMA CompanyInvariant == Spec => []CompanyInv
<1>1. CompanyInv /\ [Next]_vars => CompanyInv'
  BY TypesStep, FreshStep, RevStep DEF CompanyInv
<1>2. Init => CompanyInv
  BY TypesInit, FreshInit, RevInit DEF CompanyInv
<1> QED BY <1>1, <1>2, PTL DEF Spec

\* Whatever requests change the company, in any order and with any number of clients, the
\* revision tells a client that what it shows is outdated, but for the changes that were
\* overwritten or never counted (tenant_config_events.py:180, auth.py:61, license.py:74).
THEOREM RevisionsTellAll == Spec => []RevisionTellsAll
<1>1. CompanyInv => RevisionTellsAll
  <2> SUFFICES ASSUME CompanyInv, ~lapse, NEW c \in Clients, client[c].step = "in",
                      client[c].rev = company.rev, ~client[c].torn
               PROVE  client[c].conf = Content(company) \/ Pending
    BY DEF RevisionTellsAll
  <2>1. client[c].conf = Content(company) \/ \E r \in Requests : Owes(r)
    BY DEF CompanyInv, RevInv
  <2> QED BY <2>1 DEF Owes, Pending
<1> QED BY <1>1, CompanyInvariant, PTL

----------------------------------------------------------------------------
(* The scope of a policy *)

\* What the new policies say, normalised, of the ones there were, normalised.
LEMMA PartsNormalised ==
  ASSUME NEW doc \in Documents(RawEntries)
  PROVE  /\ get_policies(doc).company = normalize_entry(doc.company)
         /\ \A s \in Sites : get_policies(doc).sites[s] = normalize_entry(doc.sites[s])
         /\ \A u \in Users : get_policies(doc).users[u] = normalize_entry(doc.users[u])
         /\ \A s \in Sites : normalize_entry(get_policies(doc).sites[s]) = get_policies(doc).sites[s]
         /\ \A u \in Users : normalize_entry(get_policies(doc).users[u]) = get_policies(doc).users[u]
         /\ normalize_entry(get_policies(doc).company) = get_policies(doc).company
<1>1. /\ doc.company \in RawEntries /\ \A s \in Sites : doc.sites[s] \in RawEntries
      /\ \A u \in Users : doc.users[u] \in RawEntries
  BY DEF Documents
<1> QED BY <1>1, Normalised DEF get_policies

\* A change of a policy leaves the sessions that it does not concern.
LEMMA ScopeKept ==
  ASSUME NEW doc \in Documents(RawEntries), NEW op \in PolicyOps, NEW u \in Users,
         NEW s \in Sites \cup {NoSite},
         op.kind = "company_policy" => Source(doc, u, s) < IF op.all THEN 2 ELSE 3,
         op.kind = "site_policy" => s # op.site \/ Source(doc, u, s) < 2,
         op.kind = "user_policy" => u # op.user,
         op.kind # "push_policies"
  PROVE  resolve_tenant_session(ChangedPolicies(op, doc), u, s) = resolve_tenant_session(doc, u, s)
<1> DEFINE norm == get_policies(doc)
           new == ChangedPolicies(op, doc)
           norm2 == get_policies(new)
<1>1. norm \in Documents(RawEntries) /\ new \in Documents(RawEntries)
  BY PoliciesNormalised, PoliciesChanged
<1>2. /\ norm2.company = normalize_entry(new.company)
      /\ \A x \in Sites : norm2.sites[x] = normalize_entry(new.sites[x])
      /\ norm2.users[u] = normalize_entry(new.users[u])
      /\ \A x \in Sites : normalize_entry(norm.sites[x]) = norm.sites[x]
      /\ normalize_entry(norm.users[u]) = norm.users[u]
      /\ normalize_entry(norm.company) = norm.company
  BY <1>1, PartsNormalised
<1> HIDE DEF norm, new, norm2
<1> DEFINE ofSite(n) == IF s = NoSite THEN Inherit ELSE n.sites[s]
<1>3. /\ resolve_tenant_session(new, u, s)
            = IF norm2.users[u] # Inherit THEN norm2.users[u]
              ELSE IF ofSite(norm2) # Inherit THEN ofSite(norm2)
              ELSE IF norm2.company # Inherit THEN norm2.company ELSE GlobalTtl
      /\ resolve_tenant_session(doc, u, s)
            = IF norm.users[u] # Inherit THEN norm.users[u]
              ELSE IF ofSite(norm) # Inherit THEN ofSite(norm)
              ELSE IF norm.company # Inherit THEN norm.company ELSE GlobalTtl
      /\ Source(doc, u, s)
            = IF norm.users[u] # Inherit THEN 1
              ELSE IF ofSite(norm) # Inherit THEN 2
              ELSE IF norm.company # Inherit THEN 3 ELSE 4
  BY <1>1, Resolved DEF norm, norm2
<1>4. CASE op \in [kind : {"company_policy"}, entry : RawEntries, all : BOOLEAN]
  <2>1. new = set_company_policy(doc, op.entry, op.all)
    BY <1>4 DEF ChangedPolicies, new
  <2>2. new.users = norm.users /\ (~op.all => new.sites = norm.sites)
    BY <1>1, <2>1 DEF set_company_policy, Documents, norm
  <2>3. norm2.users[u] = norm.users[u]
    BY <1>2, <2>2
  <2>4. ~op.all => ofSite(norm2) = ofSite(norm)
    BY <1>2, <2>2
  <2>5. norm.users[u] # Inherit \/ (~op.all /\ ofSite(norm) # Inherit)
    <3> HIDE DEF ofSite
    <3> QED BY <1>3, <1>4
  <2> HIDE DEF ofSite
  <2> QED BY <1>3, <2>3, <2>4, <2>5 DEF new
<1>5. CASE op \in [kind : {"site_policy"}, site : Sites, entry : RawEntries]
  <2>1. new = set_site_policy(doc, op.site, op.entry)
    BY <1>5 DEF ChangedPolicies, new
  <2>2. /\ new.users = norm.users /\ new.company = norm.company
        /\ \A x \in Sites : x # op.site => new.sites[x] = norm.sites[x]
    BY <1>1, <2>1 DEF set_site_policy, Documents, norm
  <2>3. norm2.users[u] = norm.users[u] /\ norm2.company = norm.company
    BY <1>2, <2>2
  <2>4. s # op.site => ofSite(norm2) = ofSite(norm)
    BY <1>2, <2>2
  <2>5. s # op.site \/ norm.users[u] # Inherit
    <3> HIDE DEF ofSite
    <3> QED BY <1>3, <1>5
  <2> HIDE DEF ofSite
  <2> QED BY <1>3, <2>3, <2>4, <2>5 DEF new
<1>6. CASE op \in [kind : {"user_policy"}, user : Users, entry : RawEntries]
  <2>1. new = set_user_policy(doc, op.user, op.entry) /\ u # op.user
    BY <1>6 DEF ChangedPolicies, new
  <2>2. new.sites = norm.sites /\ new.company = norm.company /\ new.users[u] = norm.users[u]
    BY <1>1, <2>1 DEF set_user_policy, Documents, norm
  <2>3. norm2.users[u] = norm.users[u] /\ norm2.company = norm.company
    BY <1>2, <2>2
  <2>4. ofSite(norm2) = ofSite(norm)
    BY <1>2, <2>2
  <2> HIDE DEF ofSite
  <2> QED BY <1>3, <2>3, <2>4 DEF new
<1>7. CASE op \in [kind : {"push_policies"}, doc : Documents(RawEntries)]
  BY <1>7
<1> QED BY <1>4, <1>5, <1>6, <1>7 DEF PolicyOps

\* A stored policy changes the sessions of those it is set for and of nobody else, whatever
\* other requests run (session_policy_service.py:174).
THEOREM PoliciesScoped == Spec => PolicyScope
<1> DEFINE Scoped(r) ==
      req[r].step = "loaded" /\ req'[r].step # "loaded" /\ ~req[r].stale =>
        \A u \in Users, s \in Sites \cup {NoSite} :
          \/ Concerned(req[r].op, u, s)
          \/ resolve_tenant_session(company'.policies, u, s)
               = resolve_tenant_session(company.policies, u, s)
<1>1. CompanyInv /\ [Next]_vars => [\A r \in Requests : Scoped(r)]_company
  <2> SUFFICES ASSUME CompanyInv, [Next]_vars, company' # company,
                      NEW r \in Requests, req[r].step = "loaded", req'[r].step # "loaded",
                      ~req[r].stale, NEW u \in Users, NEW s \in Sites \cup {NoSite},
                      ~Concerned(req[r].op, u, s)
               PROVE  resolve_tenant_session(company'.policies, u, s)
                        = resolve_tenant_session(company.policies, u, s)
    OBVIOUS
  <2> USE DEF CompanyInv, TypeInv
  <2>1. Stores(r)
    <3>1. PICK q \in Requests : Stores(q)
      BY ConfigKept, RequestSteps, LoadStep, MoveStep DEF Moved
    <3>2. q # r => req'[r].step = req[r].step
      BY <3>1, StoreStep DEF Stored
    <3> QED BY <3>1, <3>2
  <2>2. ReqFields(r) /\ company \in Companies /\ company.policies \in Documents(RawEntries)
    BY Request DEF ConfigTypeOK, Companies
  <2>3. req[r].seen.policies = company.policies
    <3>1. SettingsOf(req[r].seen) = SettingsOf(company)
      BY DEF FreshInv
    <3> QED BY <2>2, <3>1, RowParts DEF ReqFields
  <2>4. CASE CommitPolicies(r)
    <3>1. req[r].op \in PolicyOps
      BY <2>2, <2>4, OpFields DEF CommitPolicies, ReqFields
    <3>2. company'.policies = ChangedPolicies(req[r].op, company.policies)
      BY <2>3, <2>4, PoliciesCommitted
    <3>3. Source(company.policies, u, s) \in 1..4
      BY <2>2, Resolved
    <3> DEFINE op == req[r].op
    <3>4. /\ op.kind = "company_policy" => Source(company.policies, u, s) < IF op.all THEN 2 ELSE 3
          /\ op.kind = "site_policy" => s # op.site \/ Source(company.policies, u, s) < 2
          /\ op.kind = "user_policy" => u # op.user
          /\ op.kind # "push_policies"
      BY <3>3 DEF Concerned
    <3> QED BY <2>2, <3>1, <3>2, <3>4, ScopeKept
  <2>5. CASE ~CommitPolicies(r)
    <3>1. company'.policies = company.policies
      <4>1. CASE CommitPatch(r)
        <5>1. company' \in Companies /\ SettingsOf(company') = SettingsOf(company)
          BY <4>1, PatchCommitted DEF ConfigTypeOK
        <5> QED BY <2>2, <5>1, RowParts
      <4> QED BY <2>1, <2>3, <2>5, <4>1, ProfileCommitted, EmailCommitted, BumpCommitted,
              AssignCommitted DEF Stores
    <3> QED BY <3>1
  <2> QED BY <2>4, <2>5
<1>2. CompanyInv /\ [Next]_vars => [\A r \in Requests : Scoped(r)]_company
  BY <1>1
<1> QED BY <1>2, CompanyInvariant, PTL DEF Spec, PolicyScope

----------------------------------------------------------------------------
(* The licence of a desktop *)

\* A request of the console that has changed a plan and has the revision still to count.
PlanOwes(s) ==
  saver[s].op.kind = "edit" /\ saver[s].step \in {"bump", "bumping", "reopen"}

\* The revision of the file, while one of its writers has it open as well.
Current(n) ==
  \/ file # Broken /\ n = file.rev
  \/ \E s \in Savers : OpenFor(s) /\ n = saver[s].seen.rev

\* No licence is ahead of the platform; a file that is open cannot be read.
GlobalInv ==
  serial =>
    /\ \A s \in Savers : OpenFor(s) => file = Broken
    /\ \A c \in Clients, n \in Nat : Current(n) => licence[c].grev <= n

Manifest == ManifestOf(company, catalogue[company.plan], sub)

\* A licence under the revisions there are says what there is, or a change is still to be
\* counted; and no licence is ahead of the company.
LicenceInv ==
  ~lapse =>
    \A c \in Clients :
      /\ licence[c].rev <= company.rev
      /\ serial /\ licence[c].step = "held" /\ ~licence[c].torn
           /\ licence[c].rev = company.rev /\ Current(licence[c].grev) =>
           \/ licence[c].says = Manifest
           \/ \E r \in Requests : Owes(r)
           \/ \E s \in Savers : PlanOwes(s)

\* History is kept.
LEMMA LapseStays ==
  ASSUME TypeInv, FreshInv, [Next]_vars, ~lapse'
  PROVE  ~lapse
<1> USE DEF TypeInv
<1>1. ASSUME NEW r \in Requests, RequestStep(r) PROVE ~lapse
  <2>1. CASE GoesOn(r)
    BY <2>1, MoveStep DEF CutOff
  <2> QED BY <1>1, <2>1, RequestSteps, StoreOutcome, LoadStep
<1> QED BY <1>1, ConfigKept

\* What a step of the console leaves of the requests.
LEMMA ConsoleMoves ==
  ASSUME FileInv, NEW s \in Savers, PlatformStep(s), serial'
  PROVE  \A q \in Savers : /\ saver'[q].op = saver[q].op
                           /\ q # s => saver'[q].step = saver[q].step
<1>1. CASE CommitPlan(s) /\ ~(saver[s].doomed \/ file = Broken)
  <2>1. ASSUME NEW q \in Savers
        PROVE  saver'[q].op = saver[q].op /\ (q # s => saver'[q].step = saver[q].step)
    <3>1. CASE q = s
      BY <1>1, <3>1 DEF CommitPlan, FileInv, FileTypeOK, Entry
    <3>2. CASE q # s /\ saver[q].step = "waiting" /\ saver[q].op.plan = saver[s].op.plan
      BY <1>1, <3>2 DEF CommitPlan, FileInv, FileTypeOK, Entry
    <3>3. CASE q # s /\ ~(saver[q].step = "waiting" /\ saver[q].op.plan = saver[s].op.plan)
      BY <1>1, <3>3 DEF CommitPlan, FileInv, FileTypeOK, Entry
    <3> QED BY <3>1, <3>2, <3>3
  <2> QED BY <2>1
<1>2. CASE WriteFile(s)
  <2>1. ASSUME NEW q \in Savers
        PROVE  saver'[q].op = saver[q].op /\ (q # s => saver'[q].step = saver[q].step)
    <3>1. CASE q = s
      BY <1>2, <3>1 DEF WriteFile, FileInv, FileTypeOK, Entry
    <3>2. CASE q # s
      BY <1>2, <3>2 DEF WriteFile, FileInv, FileTypeOK, Entry
    <3> QED BY <3>1, <3>2
  <2> QED BY <2>1
<1>3. CASE \E step : Advance(s, step)
  BY <1>3, AdvanceMoves DEF FileInv, Moves
<1>4. CASE LoadConfig(s) /\ file # Broken
  BY <1>4 DEF LoadConfig, FileInv, FileTypeOK, Entry
<1>5. CASE OpenFile(s)
  <2> DEFINE step == IF saver[s].step = "loaded" THEN "open" ELSE "reopen"
  <2>1. saver' = [saver EXCEPT ![s] = [saver[s] EXCEPT !.step = step, !.over = FALSE]]
    BY <1>5 DEF OpenFile, FileInv, FileTypeOK, Entry
  <2> HIDE DEF step
  <2> QED BY <2>1 DEF FileInv, FileTypeOK, Entry
<1> QED BY <1>1, <1>2, <1>3, <1>4, <1>5
   DEF PlatformStep, SaverStep, StartEdit, StopWaiting, CommitPlan, LoadConfig, GoOn,
       PublishGlobal, CutSave

\* A step of the console leaves the revision there is, and leaves owed what it owes; or it
\* counts one more.
LEMMA ConsoleOutcome ==
  ASSUME FileInv, GlobalInv, NEW s \in Savers, PlatformStep(s), serial'
  PROVE  /\ \A q \in Savers : OpenFor(q)' => file' = Broken
         /\ \/ /\ \A n \in Nat : Current(n)' => Current(n)
               /\ catalogue' = catalogue \/ PlanOwes(s)'
               /\ PlanOwes(s) => PlanOwes(s)'
            \/ \E m \in Nat : Current(m) /\ \A n \in Nat : Current(n)' => n = m + 1
<1> USE DEF FileInv
<1>1. serial /\ \A q \in Savers \ {s} : Idle(q)
  BY Alone
<1>2. \A q \in Savers : saver'[q].op = saver[q].op /\ (q # s => saver'[q].step = saver[q].step)
  BY ConsoleMoves
<1>3. \A q \in Savers \ {s} : ~OpenFor(q) /\ ~OpenFor(q)'
  BY <1>1, <1>2 DEF Idle, OpenFor
<1>4. ~OpenFor(s) => file # Broken
  BY <1>1, <1>3 DEF SerialInv
<1>5. ASSUME file' = file, ~OpenFor(s), ~OpenFor(s)'
      PROVE  /\ \A q \in Savers : OpenFor(q)' => file' = Broken
             /\ \A n \in Nat : Current(n)' => Current(n)
  BY <1>3, <1>5 DEF Current
<1>6. CASE StartEdit(s) \/ StopWaiting(s) \/ GoOn(s) \/ PublishGlobal(s)
  <2>1. file' = file /\ catalogue' = catalogue /\ ~OpenFor(s) /\ ~PlanOwes(s)
    BY <1>6 DEF StartEdit, StopWaiting, GoOn, PublishGlobal, OpenFor, PlanOwes
  <2>2. PICK step \in {"failed", "waiting", "load", "bump", "end"} : Advance(s, step)
    BY <1>6 DEF StartEdit, StopWaiting, GoOn, PublishGlobal
  <2>3. ~OpenFor(s)'
    BY <2>2, AdvanceMoves DEF Moves, OpenFor
  <2> QED BY <1>5, <2>1, <2>3
<1>7. CASE CommitPlan(s)
  <2>1. file' = file /\ ~OpenFor(s) /\ saver[s].step = "saved" /\ saver[s].op.kind = "edit"
    BY <1>7 DEF CommitPlan, OpenFor
  <2>2. ~saver[s].doomed
    BY <1>1 DEF SerialInv
  <2>3. saver'[s].step = "bump"
    BY <1>4, <1>7, <2>1, <2>2 DEF CommitPlan, FileTypeOK, Entry
  <2> QED BY <1>2, <1>5, <2>1, <2>3 DEF PlanOwes, OpenFor
<1>8. CASE LoadConfig(s)
  <2>1. file' = file /\ catalogue' = catalogue /\ ~OpenFor(s)
    BY <1>8 DEF LoadConfig, OpenFor
  <2>2. saver'[s].step = IF saver[s].step \in {"start", "load"} THEN "loaded" ELSE "bumping"
    BY <1>4, <1>8, <2>1 DEF LoadConfig, FileTypeOK, Entry
  <2>3. PlanOwes(s) => PlanOwes(s)'
    BY <1>2, <2>2 DEF PlanOwes
  <2> QED BY <1>5, <2>1, <2>2, <2>3 DEF OpenFor
<1>9. CASE OpenFile(s)
  <2> DEFINE step == IF saver[s].step = "loaded" THEN "open" ELSE "reopen"
  <2>1. /\ file' = Broken /\ catalogue' = catalogue /\ ~OpenFor(s)
        /\ saver[s].step \in {"loaded", "bumping"} /\ saver[s].seen = file
    BY <1>1, <1>9 DEF OpenFile, OpenFor, SerialInv
  <2>2. saver' = [saver EXCEPT ![s] = [saver[s] EXCEPT !.step = step, !.over = FALSE]]
    BY <1>9 DEF OpenFile, FileTypeOK, Entry
  <2>3. saver'[s].step = step /\ saver'[s].seen = file
    BY <2>1, <2>2 DEF FileTypeOK, Entry
  <2>4. PlanOwes(s) => PlanOwes(s)'
    BY <1>2, <2>1, <2>3 DEF PlanOwes
  <2>5. \A n \in Nat : Current(n)' => Current(n)
    BY <1>3, <1>4, <2>1, <2>3 DEF Current
  <2> QED BY <2>1, <2>4, <2>5
<1>10. CASE WriteFile(s)
  <2>1. OpenFor(s) /\ ~saver[s].over /\ catalogue' = catalogue
    BY <1>1, <1>10 DEF WriteFile, SerialInv
  <2>2. saver[s].seen \in Texts /\ saver[s].op \in FileOps /\ saver[s].op.kind # "none"
    BY <2>1 DEF OpenFor, FileTypeOK, Entry, Writing, Texts, Files
  <2>3. saver'[s].step = IF saver[s].step = "open" THEN "saved" ELSE "publish"
    BY <1>10 DEF WriteFile, FileTypeOK, Entry
  <2>4. \A q \in Savers : ~OpenFor(q)'
    BY <1>3, <2>3 DEF OpenFor
  <2>5. Current(saver[s].seen.rev) /\ saver[s].seen.rev \in Nat
    BY <2>1, <2>2 DEF Current, Texts
  <2>6. CASE saver[s].step = "open"
    <3>1. file' = Changed(saver[s].seen, saver[s].op)
      BY <1>10, <2>1, <2>6 DEF WriteFile
    <3>2. file'.rev = saver[s].seen.rev
      BY <2>2, <3>1 DEF Changed, Texts
    <3>3. \A n \in Nat : Current(n)' => Current(n)
      BY <2>4, <2>5, <3>2 DEF Current
    <3> QED BY <2>1, <2>4, <2>6, <3>3 DEF PlanOwes
  <2>7. CASE saver[s].step = "reopen"
    <3>1. file' = bump_global_config_revision(saver[s].seen)
      BY <1>10, <2>1, <2>7 DEF WriteFile
    <3>2. file'.rev = saver[s].seen.rev + 1
      BY <2>2, <3>1 DEF bump_global_config_revision, Texts
    <3>3. \A n \in Nat : Current(n)' => n = saver[s].seen.rev + 1
      BY <2>4, <3>2 DEF Current
    <3> QED BY <2>4, <2>5, <3>3
  <2> QED BY <2>1, <2>6, <2>7 DEF OpenFor
<1>11. CASE CutSave(s)
  BY <1>11 DEF CutSave
<1> QED BY <1>6, <1>7, <1>8, <1>9, <1>10, <1>11 DEF PlatformStep, SaverStep

\* What a step of a desktop's makes of its licence.
LEMMA LicenceStep ==
  ASSUME TypeInv, NEW c \in Clients, LicenceNext(c)
  PROVE  /\ UNCHANGED <<configVars, platformVars, sub, routed, now, read>>
         /\ \A d \in Clients \ {c} : licence'[d] = licence[d]
         /\ \/ /\ licence'[c].step # "held" /\ licence'[c].grev = 0
               /\ licence'[c].rev = company.rev
            \/ /\ licence'[c].step # "held" /\ licence'[c].grev = licence[c].grev
               /\ licence'[c].rev = licence[c].rev
            \/ /\ file # Broken /\ licence'[c].grev = file.rev
               /\ licence'[c].rev = licence[c].rev
               /\ ~licence'[c].torn => licence'[c].says = Manifest
<1>1. licence \in [Clients -> LicenceEntry]
  BY DEF TypeInv, LicenceTypeOK
<1>2. CASE StartManifest(c)
  <2> DEFINE entry == [NoLicence EXCEPT !.step = "row", !.row = company, !.rev = company.rev]
  <2>1. entry.step = "row" /\ entry.grev = 0 /\ entry.rev = company.rev
    BY DEF NoLicence
  <2>2. licence' = [licence EXCEPT ![c] = entry]
    BY <1>2 DEF StartManifest
  <2> HIDE DEF entry
  <2>3. licence'[c] = entry /\ \A d \in Clients \ {c} : licence'[d] = licence[d]
    BY <1>1, <2>2
  <2> QED BY <1>2, <2>1, <2>3 DEF StartManifest
<1>3. CASE ReadEntitlements(c)
  <2> DEFINE says == ManifestOf(licence[c].row, catalogue[licence[c].row.plan], sub)
             entry == [licence[c] EXCEPT !.step = "read", !.says = says]
  <2>1. licence' = [licence EXCEPT ![c] = entry]
    BY <1>1, <1>3 DEF ReadEntitlements, LicenceEntry
  <2> HIDE DEF says
  <2>2. entry.step = "read" /\ entry.grev = licence[c].grev /\ entry.rev = licence[c].rev
    BY <1>1 DEF LicenceEntry
  <2> HIDE DEF entry
  <2>3. licence'[c] = entry /\ \A d \in Clients \ {c} : licence'[d] = licence[d]
    BY <1>1, <2>1
  <2> QED BY <1>3, <2>2, <2>3 DEF ReadEntitlements
<1>4. CASE FinishManifest(c)
  <2> DEFINE torn == licence[c].says # Manifest
             entry == [licence[c] EXCEPT !.step = "held", !.grev = file.rev, !.torn = torn]
  <2>1. licence' = [licence EXCEPT ![c] = entry]
    BY <1>1, <1>4 DEF FinishManifest, LicenceEntry, Manifest
  <2> HIDE DEF torn
  <2>2. /\ entry.grev = file.rev /\ entry.rev = licence[c].rev /\ entry.torn = torn
        /\ entry.says = licence[c].says
    BY <1>1 DEF LicenceEntry
  <2> HIDE DEF entry
  <2>3. licence'[c] = entry /\ \A d \in Clients \ {c} : licence'[d] = licence[d]
    BY <1>1, <2>1
  <2> QED BY <1>4, <2>2, <2>3 DEF FinishManifest, torn
<1> QED BY <1>2, <1>3, <1>4 DEF LicenceNext

\* The file and the plans are changed by the console alone, the subscription by a request
\* that owes it then.
LEMMA FileKept ==
  ASSUME [Next]_vars, \A s \in Savers : ~ConsoleStep(s)
  PROVE  UNCHANGED platformVars
<1>1. ASSUME NEW r \in Requests, RequestStep(r) PROVE UNCHANGED platformVars
  BY <1>1, RequestSteps DEF Stores, Loads, GoesOn, LoadForPatch,
     RefreshPatched, LoadForAssign, LoadSub, CommitSub, CommitRenewal, CommitRouting
<1>2. ASSUME NEW c \in Clients, ClientStep(c) \/ LicenceNext(c) PROVE UNCHANGED platformVars
  BY <1>2 DEF ClientStep, LicenceNext, StartManifest, ReadEntitlements, FinishManifest
<1>3. CASE Tick \/ UNCHANGED vars
  BY <1>3 DEF Tick, vars, platformVars
<1> QED BY <1>1, <1>2, <1>3, Actions

\* A change of the subscription is owed by the request that made it.
LEMMA SubOwed ==
  ASSUME TypeInv, [Next]_vars, ~lapse'
  PROVE  sub' = sub \/ \E r \in Requests : Owes(r)'
<1> USE DEF TypeInv
<1>1. ASSUME NEW r \in Requests, RequestStep(r) PROVE sub' = sub \/ Owes(r)'
  <2>1. CASE CommitSub(r)
    <3>1. GoesOn(r) /\ req[r].op.kind = "assign"
      BY <2>1 DEF GoesOn, CommitSub
    <3>2. req'[r].step = "bump"
      BY <2>1, <3>1, MoveStep DEF Publish, CutOff, LoadSub, CommitSub, CommitRenewal, CommitRouting,
         LoadForAssign
    <3> QED BY <3>2 DEF Owes
  <2>2. CASE CommitRenewal(r)
    <3>1. sub' = sub \/ Goto(r, "bump")
      BY <2>2 DEF CommitRenewal
    <3>2. Goto(r, "bump") => req'[r].step = "bump"
      BY DEF Goto, ConfigTypeOK, ReqTypeOK, ReqEntry
    <3> QED BY <3>1, <3>2 DEF Owes
  <2>3. CASE ~(CommitSub(r) \/ CommitRenewal(r))
    BY <1>1, <2>3, RequestSteps DEF Stores, Loads, GoesOn, LoadForPatch,
       RefreshPatched, LoadForAssign, LoadSub, CommitRouting, subVars
  <2> QED BY <2>1, <2>2, <2>3
<1>2. ASSUME NEW c \in Clients, ClientStep(c) \/ LicenceNext(c) PROVE sub' = sub
  BY <1>2 DEF ClientStep, LicenceNext, StartManifest, ReadEntitlements, FinishManifest, subVars
<1>3. ASSUME NEW s \in Savers, ConsoleStep(s) PROVE sub' = sub
  BY <1>3 DEF ConsoleStep, subVars
<1>4. CASE Tick \/ UNCHANGED vars
  BY <1>4 DEF Tick, vars
<1> QED BY <1>1, <1>2, <1>3, <1>4, Actions

\* A revision of the file is a number.
LEMMA GlobalStep ==
  ASSUME TypeInv, FileInv, GlobalInv, [Next]_vars
  PROVE  GlobalInv'
<1> SUFFICES ASSUME serial' PROVE GlobalInv'
  BY DEF GlobalInv
<1>1. licence \in [Clients -> LicenceEntry] /\ \A c \in Clients : licence[c].grev \in Nat
  BY DEF TypeInv, LicenceTypeOK, LicenceEntry
<1>2. ASSUME NEW s \in Savers, ConsoleStep(s) PROVE GlobalInv'
  <2>1. PlatformStep(s) /\ licence' = licence /\ serial
    BY <1>2, Alone DEF ConsoleStep, subVars
  <2>2. /\ \A q \in Savers : OpenFor(q)' => file' = Broken
        /\ \/ \A n \in Nat : Current(n)' => Current(n)
           \/ \E m \in Nat : Current(m) /\ \A n \in Nat : Current(n)' => n = m + 1
    BY <2>1, ConsoleOutcome
  <2>3. ASSUME NEW c \in Clients, NEW n \in Nat, Current(n)' PROVE licence'[c].grev <= n
    <3>1. CASE \A k \in Nat : Current(k)' => Current(k)
      BY <2>1, <2>3, <3>1 DEF GlobalInv
    <3>2. CASE \E m \in Nat : Current(m) /\ \A k \in Nat : Current(k)' => k = m + 1
      <4>1. PICK m \in Nat : Current(m) /\ n = m + 1
        BY <2>3, <3>2
      <4>2. licence[c].grev <= m
        BY <2>1, <4>1 DEF GlobalInv
      <4> QED BY <1>1, <2>1, <4>1, <4>2
    <3> QED BY <2>2, <3>1, <3>2
  <2> QED BY <2>2, <2>3 DEF GlobalInv
<1>3. CASE \A s \in Savers : ~ConsoleStep(s)
  <2>1. file' = file /\ saver' = saver /\ serial
    BY <1>3, FileKept DEF platformVars
  <2>2. (\A s \in Savers : OpenFor(s)' <=> OpenFor(s)) /\ \A n \in Nat : Current(n)' <=> Current(n)
    BY <2>1 DEF OpenFor, Current
  <2>3. ASSUME NEW c \in Clients, NEW n \in Nat, Current(n) PROVE licence'[c].grev <= n
    <3>1. licence[c].grev <= n
      BY <2>1, <2>3 DEF GlobalInv
    <3>2. CASE licence'[c].grev = licence[c].grev \/ licence'[c].grev = 0
      BY <3>1, <3>2
    <3>3. CASE file # Broken /\ licence'[c].grev = file.rev
      <4>1. \A s \in Savers : ~OpenFor(s)
        BY <2>1, <3>3 DEF GlobalInv
      <4>2. n = file.rev
        BY <2>3, <4>1 DEF Current
      <4> QED BY <3>3, <4>2
    <3>4. ASSUME NEW d \in Clients, LicenceNext(d)
          PROVE  \/ licence'[c].grev = licence[c].grev \/ licence'[c].grev = 0
                 \/ file # Broken /\ licence'[c].grev = file.rev
      <4>1. CASE c = d
        BY <3>4, <4>1, LicenceStep
      <4>2. CASE c # d
        BY <3>4, <4>2, LicenceStep
      <4> QED BY <4>1, <4>2
    <3> QED BY <3>2, <3>3, <3>4, LicencesKept
  <2> QED BY <2>1, <2>2, <2>3 DEF GlobalInv
<1> QED BY <1>2, <1>3

\* Every action keeps what the two revisions tell.
LEMMA LicenceInvStep ==
  ASSUME TypeInv, FreshInv, RevInv, FileInv, GlobalInv, LicenceInv, [Next]_vars
  PROVE  LicenceInv'
<1> SUFFICES ASSUME ~lapse' PROVE LicenceInv'
  BY DEF LicenceInv
<1>1. ~lapse
  BY LapseStays
<1>2. /\ company.rev \in Nat /\ company'.rev \in Nat /\ company.rev <= company'.rev
      /\ company'.rev = company.rev =>
           \/ \E r \in Requests : Owes(r)'
           \/ /\ company'.plan = company.plan /\ company'.ent = company.ent
              /\ company'.column = company.column
              /\ \A q \in Requests : Owes(q) => Owes(q)'
  <2>1. company.rev \in Nat /\ company'.rev \in Nat
    BY TypesStep, RowParts DEF TypeInv, ConfigTypeOK
  <2>2. ASSUME NEW r \in Requests, Stores(r)
        PROVE  /\ company.rev <= company'.rev
               /\ company'.rev = company.rev =>
                    \/ Owes(r)'
                    \/ /\ company'.plan = company.plan /\ company'.ent = company.ent
                       /\ company'.column = company.column
                       /\ \A q \in Requests : Owes(q) => Owes(q)'
    <3>1. CASE company' = company /\ ~Owes(r)
      <4>1. \A q \in Requests : Owes(q) => Owes(q)'
        BY <2>2, <3>1, OwesStays
      <4> QED BY <2>1, <3>1, <4>1
    <3>2. CASE company'.rev = company.rev + 1
      BY <2>1, <3>2
    <3>3. CASE /\ company'.rev = company.rev /\ Content(company') = Content(company)
               /\ company'.column = company.column /\ ~Owes(r)
      <4>1. \A q \in Requests : Owes(q) => Owes(q)'
        BY <2>2, <3>3, OwesStays
      <4>2. Content(company').plan = company'.plan /\ Content(company').ent = company'.ent
              /\ Content(company).plan = company.plan /\ Content(company).ent = company.ent
        BY DEF Content
      <4> QED BY <2>1, <3>3, <4>1, <4>2
    <3>4. CASE company'.rev = company.rev /\ Owes(r)'
      BY <2>1, <3>4
    <3> QED BY <2>2, <3>1, <3>2, <3>3, <3>4, StoreOutcome
  <2>3. CASE \A r \in Requests : ~Stores(r)
    <3>1. company' = company
      <4>1. ASSUME NEW r \in Requests, RequestStep(r) PROVE company' = company
        <5>1. CASE Loads(r)
          BY <5>1, LoadStep DEF TypeInv
        <5>2. CASE GoesOn(r)
          BY <5>2, MoveStep DEF TypeInv, Moved
        <5> QED BY <2>3, <4>1, <5>1, <5>2, RequestSteps
      <4> QED BY <4>1, ConfigKept
    <3>2. \A q \in Requests : Owes(q) => Owes(q)'
      BY <2>3, OwesKept
    <3> QED BY <2>1, <3>1, <3>2
  <2> QED BY <2>1, <2>2, <2>3
<1>3. \A c \in Clients : licence[c].rev \in Nat /\ licence[c].grev \in Nat
  BY DEF TypeInv, LicenceTypeOK, LicenceEntry
<1>4. ASSUME NEW c \in Clients PROVE licence'[c].rev <= company'.rev
  <2>1. licence'[c].rev \in {licence[c].rev, company.rev}
    <3>1. ASSUME NEW d \in Clients, LicenceNext(d) PROVE licence'[c].rev \in {licence[c].rev, company.rev}
      <4>1. CASE c = d
        BY <3>1, <4>1, LicenceStep
      <4>2. CASE c # d
        BY <3>1, <4>2, LicenceStep
      <4> QED BY <4>1, <4>2
    <3> QED BY <3>1, LicencesKept
  <2>2. licence[c].rev <= company.rev
    BY <1>1 DEF LicenceInv
  <2> QED BY <1>2, <1>3, <2>1, <2>2
<1> DEFINE Told(c) == \/ licence[c].says = Manifest
                      \/ \E r \in Requests : Owes(r)
                      \/ \E s \in Savers : PlanOwes(s)
<1>5. ASSUME NEW c \in Clients, serial', licence'[c].step = "held", ~licence'[c].torn,
             licence'[c].rev = company'.rev, NEW n \in Nat, licence'[c].grev = n, Current(n)'
      PROVE  Told(c)'
  <2>1. CASE \E d \in Clients : LicenceNext(d)
    <3>1. PICK d \in Clients : LicenceNext(d)
      BY <2>1
    <3>2. UNCHANGED <<configVars, platformVars, sub>>
      BY <3>1, LicenceStep
    <3>3. /\ company' = company /\ req' = req /\ file' = file /\ catalogue' = catalogue
          /\ saver' = saver /\ serial' = serial /\ sub' = sub
      BY <3>2 DEF configVars, platformVars
    <3>4. CASE licence'[c] = licence[c]
      <4>1. Current(n) /\ licence[c].grev = n
        BY <1>5, <3>3, <3>4 DEF Current, OpenFor
      <4>2. Told(c)
        BY <1>1, <1>5, <3>3, <3>4, <4>1 DEF LicenceInv
      <4> QED BY <3>3, <3>4, <4>2 DEF Manifest, Owes, PlanOwes
    <3>5. CASE licence'[c] # licence[c]
      <4>1. c = d
        BY <3>1, <3>5, LicenceStep
      <4>2. licence'[c].says = Manifest
        BY <1>5, <3>1, <4>1, LicenceStep
      <4> QED BY <3>3, <4>2 DEF Manifest
    <3> QED BY <3>4, <3>5
  <2>2. CASE \A d \in Clients : ~LicenceNext(d)
    <3>1. licence' = licence
      BY <2>2, LicencesKept
    <3>2. licence[c].rev = company.rev /\ company'.rev = company.rev
      BY <1>1, <1>2, <1>3, <1>5, <3>1 DEF LicenceInv
    <3>3. CASE \E r \in Requests : Owes(r)'
      BY <3>3
    <3>4. CASE ~\E r \in Requests : Owes(r)'
      <4>1. /\ company'.plan = company.plan /\ company'.ent = company.ent
            /\ company'.column = company.column /\ sub' = sub
            /\ ~\E r \in Requests : Owes(r)
        BY <1>2, <3>2, <3>4, SubOwed
      <4>2. CASE \A s \in Savers : ~ConsoleStep(s)
        <5>1. file' = file /\ catalogue' = catalogue /\ saver' = saver /\ serial' = serial
          BY <4>2, FileKept DEF platformVars
        <5>2. Current(n) /\ licence[c].grev = n
          BY <1>5, <3>1, <5>1 DEF Current, OpenFor
        <5>3. licence[c].says = Manifest \/ \E s \in Savers : PlanOwes(s)
          BY <1>1, <1>5, <3>1, <3>2, <4>1, <5>1, <5>2 DEF LicenceInv
        <5> QED BY <3>1, <4>1, <5>1, <5>3 DEF Manifest, ManifestOf, PlanOwes
      <4>3. ASSUME NEW s \in Savers, ConsoleStep(s) PROVE Told(c)'
        <5>1. PlatformStep(s) /\ serial
          BY <1>5, <4>3, Alone DEF ConsoleStep
        <5>2. CASE /\ \A k \in Nat : Current(k)' => Current(k)
                   /\ catalogue' = catalogue \/ PlanOwes(s)'
                   /\ PlanOwes(s) => PlanOwes(s)'
          <6>1. Current(n) /\ licence[c].grev = n
            BY <1>5, <3>1, <5>2
          <6>2. licence[c].says = Manifest \/ \E q \in Savers : PlanOwes(q)
            BY <1>1, <1>5, <3>1, <3>2, <4>1, <5>1, <6>1 DEF LicenceInv
          <6>3. \A q \in Savers : PlanOwes(q) => PlanOwes(q)'
            BY <1>5, <5>1, <5>2, ConsoleMoves DEF PlanOwes
          <6> QED BY <3>1, <4>1, <5>2, <6>2, <6>3 DEF Manifest, ManifestOf
        <5>3. CASE \E m \in Nat : Current(m) /\ \A k \in Nat : Current(k)' => k = m + 1
          <6>1. PICK m \in Nat : Current(m) /\ licence[c].grev = m + 1
            BY <1>5, <3>1, <5>3
          <6>2. licence[c].grev <= m
            BY <5>1, <6>1 DEF GlobalInv
          <6> QED BY <1>3, <6>1, <6>2
        <5> QED BY <1>5, <5>1, <5>2, <5>3, ConsoleOutcome
      <4> QED BY <4>2, <4>3
    <3> QED BY <3>3, <3>4
  <2> QED BY <2>1, <2>2
<1>6. \A c \in Clients : licence'[c].grev \in Nat
  BY TypesStep DEF TypeInv, LicenceTypeOK, LicenceEntry
<1> QED BY <1>4, <1>5, <1>6 DEF LicenceInv, Current, OpenFor

\* Nobody holds a licence yet.
LEMMA LicenceInit == Init => GlobalInv /\ LicenceInv
<1> SUFFICES ASSUME Init PROVE GlobalInv /\ LicenceInv
  OBVIOUS
<1>1. FileInv /\ TypeInv
  BY FileInit, TypesInit
<1>2. licence = [c \in Clients |-> NoLicence]
  BY DEF Init
<1>3. \A c \in Clients : licence[c].rev = 0 /\ licence[c].grev = 0 /\ licence[c].step = "none"
  BY <1>2 DEF NoLicence
<1>4. company.rev \in Nat
  BY <1>1, RowParts DEF TypeInv, ConfigTypeOK
<1>5. \A s \in Savers : ~OpenFor(s)
  <2>1. \A s \in Savers : saver[s].step \in {"start", "end"}
    BY DEF Init, PlatformInit, NewSaver
  <2> QED BY <2>1 DEF OpenFor
<1>6. GlobalInv
  BY <1>3, <1>5 DEF GlobalInv
<1>7. LicenceInv
  BY <1>3, <1>4 DEF LicenceInv
<1> QED BY <1>6, <1>7

\* For any number of desktops, requests and plans, the two revisions a licence carries tell
\* whether what it says is outdated, but for the changes that were lost or not counted
\* (license_manifest_service.py:45).
THEOREM LicencesTellAll == Spec => []LicenceTellsAll
<1> DEFINE Inv == CompanyInv /\ FileInv /\ GlobalInv /\ LicenceInv
<1>1. Inv /\ [Next]_vars => Inv'
  <2> SUFFICES ASSUME Inv, [Next]_vars PROVE Inv'
    OBVIOUS
  <2>1. CompanyInv'
    BY TypesStep, FreshStep, RevStep DEF CompanyInv
  <2>2. FileInv'
    BY FileStep
  <2>3. GlobalInv' /\ LicenceInv'
    BY GlobalStep, LicenceInvStep DEF CompanyInv
  <2> QED BY <2>1, <2>2, <2>3
<1>2. Init => Inv
  BY TypesInit, FreshInit, RevInit, FileInit, LicenceInit DEF CompanyInv
<1>3. Inv => LicenceTellsAll
  <2> SUFFICES ASSUME Inv, NEW c \in Clients, licence[c].step = "held", ~licence[c].torn,
                      licence[c].rev = company.rev, file # Broken, licence[c].grev = file.rev,
                      ~lapse, serial
               PROVE  \/ licence[c].says = ManifestOf(company, catalogue[company.plan], sub)
                      \/ Pending \/ PlanPending
    BY DEF LicenceTellsAll
  <2>1. Current(licence[c].grev)
    BY DEF Current
  <2>2. \/ licence[c].says = Manifest
        \/ \E r \in Requests : Owes(r)
        \/ \E s \in Savers : PlanOwes(s)
    BY <2>1 DEF LicenceInv
  <2> QED BY <2>2 DEF Manifest, Owes, Pending, PlanOwes, PlanPending
<1> QED BY <1>1, <1>2, <1>3, PTL DEF Spec

----------------------------------------------------------------------------
(* The two databases of a company *)

\* Nobody but p asks for what p asks for.
Only(p, kind) ==
  req[p].op.kind = kind /\ \A q \in Requests : req[q].op.kind = kind => q = p

Nobody(kind) == \A q \in Requests : req[q].op.kind # kind

\* Where the only change of the company's state is, and what the routing row and the company
\* have to do with each other then.
PatchAt(p) ==
  LET step == req[p].step
  IN /\ step \in {"start", "bump", "bumping", "publish", "end"} => routed = company.active
     /\ step = "loaded" => /\ req[p].seen.active = company.active
                           /\ read[p].routed = routed /\ routed = company.active
     /\ step = "patched" => read[p].routed = routed
     /\ step = "routing" => read[p].routed = routed /\ req[p].seen.active = company.active

\* The same of the only assignment, to a plan with a row.
Agree == sub # NoSub => sub.plan = company.plan /\ sub.status = company.status

Assigned(p) == company.plan = req[p].op.plan /\ company.status = req[p].op.status

AssignAt(p) ==
  LET step == req[p].step
  IN /\ step \in {"start", "bump", "bumping", "publish", "end"} => Agree
     /\ step = "loaded" => /\ Agree /\ req[p].seen.plan = company.plan
                           /\ req[p].seen.status = company.status
     /\ step = "catalogue" => Assigned(p)
     /\ step = "persist" => /\ Assigned(p) /\ (read[p].sub = NoSub <=> sub = NoSub)
                            /\ sub # NoSub => /\ read[p].sub.plan = sub.plan
                                              /\ read[p].sub.status = sub.status

AgreeInv ==
  /\ \A p \in Requests : Only(p, "patch") => PatchAt(p)
  /\ Nobody("patch") => routed = company.active
  /\ \A p \in Requests : Only(p, "assign") /\ req[p].op.plan \in PlanRows => AssignAt(p)
  /\ Nobody("assign") => Agree

\* What a step of one request leaves of the others.
LEMMA Bystanders ==
  ASSUME TypeInv, NEW r \in Requests, RequestStep(r)
  PROVE  /\ req'[r].op = req[r].op
         /\ \A q \in Requests \ {r} :
              /\ req'[q].op = req[q].op /\ req'[q].step = req[q].step
              /\ req'[q].seen = req[q].seen /\ read'[q] = read[q]
<1> USE DEF TypeInv
<1>1. \A q \in Requests \ {r} : read'[q] = read[q]
  <2>1. read \in [Requests -> ReadEntry]
    BY DEF SubTypeOK
  <2>2. CASE LoadForPatch(r)
    BY <2>1, <2>2 DEF LoadForPatch
  <2>3. CASE LoadForAssign(r)
    BY <2>1, <2>3 DEF LoadForAssign
  <2>4. CASE LoadSub(r)
    BY <2>1, <2>4 DEF LoadSub
  <2>5. CASE ~(LoadForPatch(r) \/ LoadForAssign(r) \/ LoadSub(r))
    BY <2>5, RequestSteps DEF Stores, Loads, GoesOn, RefreshPatched, CommitSub,
       CommitRenewal, CommitRouting, subVars
  <2> QED BY <2>2, <2>3, <2>4, <2>5
<1>2. CASE Stores(r)
  BY <1>1, <1>2, StoreStep DEF Stored
<1>3. CASE Loads(r)
  BY <1>1, <1>3, LoadStep DEF Loaded, OthersStay
<1>4. CASE GoesOn(r)
  BY <1>1, <1>4, MoveStep DEF Moved, WentTo, OthersStay
<1> QED BY <1>2, <1>3, <1>4, RequestSteps

\* Only a change of the company's state changes it, and only an assignment its plan and status.
LEMMA ColumnsKept ==
  ASSUME TypeInv, NEW r \in Requests, RequestStep(r)
  PROVE  /\ req[r].op.kind # "patch" => company'.active = company.active /\ routed' = routed
         /\ req[r].op.kind # "assign" => company'.plan = company.plan /\ company'.status = company.status
<1> USE DEF TypeInv
<1>1. CASE Stores(r)
  BY <1>1, PoliciesCommitted, ProfileCommitted, EmailCommitted, BumpCommitted, AssignCommitted,
     PatchCommitted DEF Stores, Counts, SameColumns, CommitAssign, CommitPatch, subVars
<1>2. CASE Loads(r)
  BY <1>2, LoadStep DEF Loads, LoadForPatch, RefreshPatched, LoadForAssign, subVars
<1>3. CASE GoesOn(r)
  <2>1. company' = company
    BY <1>3, MoveStep DEF Moved
  <2>2. req[r].op.kind # "patch" => ~CommitRouting(r)
    BY Request DEF CommitRouting, Fits
  <2>3. ~CommitRouting(r) => routed' = routed
    BY <1>3 DEF GoesOn, LoadSub, CommitSub, CommitRenewal, LoadForAssign, subVars
  <2> QED BY <2>1, <2>2, <2>3
<1> QED BY <1>1, <1>2, <1>3, RequestSteps

\* A renewal leaves the plan and the status of the subscription.
LEMMA SubAgrees ==
  ASSUME TypeInv, NEW r \in Requests, RequestStep(r), req[r].op.kind # "assign"
  PROVE  /\ sub' = NoSub <=> sub = NoSub
         /\ sub # NoSub => sub'.plan = sub.plan /\ sub'.status = sub.status
<1> USE DEF TypeInv
<1>1. CASE CommitRenewal(r)
  <2>1. read[r].sub # NoSub /\ sub \in Subs
    BY <1>1 DEF CommitRenewal, SubTypeOK
  <2>2. \/ sub' = sub
        \/ \E end : sub' = [sub EXCEPT !.end = end]
    BY <1>1 DEF CommitRenewal, Renewed
  <2>3. sub' # NoSub
    <3>1. SubTypeOK'
      BY SubTypes
    <3> QED BY <1>1, <2>1, <3>1 DEF SubTypeOK, CommitRenewal
  <2>4. sub'.plan = sub.plan /\ sub'.status = sub.status
    BY <2>1, <2>2 DEF Subs
  <2> QED BY <2>1, <2>3, <2>4, NoSubAssumption
<1>2. CASE ~CommitRenewal(r)
  BY <1>2, RequestSteps DEF Stores, Loads, GoesOn, LoadForPatch, LoadForAssign,
     RefreshPatched, LoadSub, CommitSub, CommitRouting, subVars
<1> QED BY <1>1, <1>2

\* The steps of the only change of the company's state.
LEMMA PatchStep ==
  ASSUME TypeInv, NEW p \in Requests, RequestStep(p), req[p].op.kind = "patch", PatchAt(p)
  PROVE  PatchAt(p)'
<1> USE DEF TypeInv
<1>1. read[p] \in ReadEntry /\ read \in [Requests -> ReadEntry]
  BY DEF SubTypeOK
<1>2. CASE Stores(p)
  <2>1. CommitPatch(p) \/ CommitBump(p)
    BY <1>2 DEF Stores, CommitPolicies, CommitProfile, CommitEmail, CommitAssign, PolicyKinds
  <2>2. UNCHANGED <<routed, read>>
    BY <1>2 DEF Stores, subVars
  <2>3. CASE CommitPatch(p)
    <3>1. req[p].step = "loaded" /\ req'[p].step = "patched"
      BY <2>3, PatchCommitted DEF CommitPatch
    <3> QED BY <2>2, <3>1 DEF PatchAt
  <2>4. CASE CommitBump(p)
    <3>1. req[p].step = "bumping" /\ req'[p].step = "publish" /\ company'.active = company.active
      BY <2>4, BumpCommitted DEF CommitBump, Counts, SameColumns
    <3> QED BY <2>2, <3>1 DEF PatchAt
  <2> QED BY <2>1, <2>3, <2>4
<1>3. CASE Loads(p)
  <2>1. CASE LoadForPatch(p)
    <3>1. /\ req[p].step = "start" /\ req'[p].step = "loaded" /\ req'[p].seen = company
          /\ company' = company /\ routed' = routed
      BY <1>3, <2>1, LoadStep DEF LoadForPatch, Load, Loaded
    <3>2. read'[p].routed = routed
      BY <1>1, <2>1 DEF LoadForPatch, ReadEntry
    <3> QED BY <3>1, <3>2 DEF PatchAt
  <2>2. CASE LoadForBump(p) /\ UNCHANGED <<platformVars, subVars>>
    <3>1. /\ req[p].step = "bump" /\ req'[p].step = "bumping"
          /\ company' = company /\ routed' = routed
      BY <1>3, <2>2, LoadStep DEF LoadForBump, Load, Loaded, subVars
    <3> QED BY <3>1 DEF PatchAt
  <2>3. CASE RefreshPatched(p)
    <3>1. /\ req[p].step = "patched" /\ req'[p].step = "routing" /\ req'[p].seen = company
          /\ company' = company /\ routed' = routed /\ read' = read
      BY <1>3, <2>3, LoadStep DEF RefreshPatched, Load, Loaded, subVars
    <3> QED BY <3>1 DEF PatchAt
  <2> QED BY <1>3, <2>1, <2>2, <2>3 DEF Loads, LoadForChange, LoadForAssign, PolicyKinds
<1>4. CASE GoesOn(p)
  <2>1. company' = company
    BY <1>4, MoveStep DEF Moved
  <2>2. CASE CommitRouting(p)
    <3>1. req[p].step = "routing" /\ req'[p].step = "bump"
      BY <2>2 DEF CommitRouting, Goto, ConfigTypeOK, ReqTypeOK, ReqEntry
    <3>2. routed' = Written(req[p].seen.active, read[p].routed, routed)
      BY <2>2 DEF CommitRouting
    <3>3. routed' = company.active
      BY <3>1, <3>2 DEF PatchAt, Written
    <3> QED BY <2>1, <3>1, <3>3 DEF PatchAt
  <2>3. CASE (Publish(p) \/ CutOff(p)) /\ UNCHANGED <<platformVars, subVars>>
    <3>1. /\ routed' = routed
          /\ \/ req[p].step = "publish" /\ req'[p].step = "end"
             \/ req'[p].step = "cut"
      <4>1. (req[p].step = "publish" /\ Goto(p, "end")) \/ Goto(p, "cut")
        BY <2>3 DEF Publish, CutOff
      <4>2. \A step : Goto(p, step) => req'[p].step = step
        BY DEF Goto, ConfigTypeOK, ReqTypeOK, ReqEntry
      <4> QED BY <2>3, <4>1, <4>2 DEF subVars
    <3> QED BY <2>1, <3>1 DEF PatchAt
  <2> QED BY <1>4, <2>2, <2>3 DEF GoesOn, LoadSub, CommitSub, CommitRenewal, LoadForAssign
<1> QED BY <1>2, <1>3, <1>4, RequestSteps

\* The steps of the only assignment.
LEMMA AssignStep ==
  ASSUME TypeInv, NEW p \in Requests, RequestStep(p), req[p].op.kind = "assign",
         req[p].op.plan \in PlanRows, AssignAt(p)
  PROVE  AssignAt(p)'
<1> USE DEF TypeInv
<1>1. read[p] \in ReadEntry /\ read \in [Requests -> ReadEntry]
  BY DEF SubTypeOK
<1>2. CASE Stores(p)
  <2>1. CommitAssign(p) \/ CommitBump(p)
    BY <1>2 DEF Stores, CommitPolicies, CommitProfile, CommitEmail, CommitPatch, PolicyKinds
  <2>2. UNCHANGED <<sub, read>>
    BY <1>2 DEF Stores, subVars
  <2>3. CASE CommitAssign(p)
    <3>1. /\ req[p].step = "loaded" /\ req'[p].step = "catalogue" /\ req'[p].op = req[p].op
          /\ company'.plan = Written(req[p].op.plan, req[p].seen.plan, company.plan)
          /\ company'.status = Written(req[p].op.status, req[p].seen.status, company.status)
      BY <2>3, AssignCommitted DEF CommitAssign
    <3>2. company'.plan = req[p].op.plan /\ company'.status = req[p].op.status
      BY <3>1 DEF AssignAt, Written
    <3> QED BY <3>1, <3>2 DEF AssignAt, Assigned
  <2>4. CASE CommitBump(p)
    <3>1. /\ req[p].step = "bumping" /\ req'[p].step = "publish"
          /\ company'.plan = company.plan /\ company'.status = company.status
      BY <2>4, BumpCommitted DEF CommitBump, Counts, SameColumns
    <3> QED BY <2>2, <3>1 DEF AssignAt, Agree
  <2> QED BY <2>1, <2>3, <2>4
<1>3. CASE Loads(p)
  <2>1. CASE LoadForAssign(p)
    <3>1. /\ req[p].step = "start" /\ req'[p].step = "loaded" /\ req'[p].seen = company
          /\ company' = company /\ sub' = sub
      BY <1>3, <2>1, LoadStep DEF LoadForAssign, Load, Loaded
    <3> QED BY <3>1 DEF AssignAt, Agree
  <2>2. CASE LoadForBump(p) /\ UNCHANGED <<platformVars, subVars>>
    <3>1. /\ req[p].step = "bump" /\ req'[p].step = "bumping"
          /\ company' = company /\ sub' = sub
      BY <1>3, <2>2, LoadStep DEF LoadForBump, Load, Loaded, subVars
    <3> QED BY <3>1 DEF AssignAt, Agree
  <2>3. ~RefreshPatched(p)
    BY Request DEF RefreshPatched, Load, Fits
  <2> QED BY <1>3, <2>1, <2>2, <2>3 DEF Loads, LoadForChange, LoadForPatch, PolicyKinds
<1>4. CASE GoesOn(p)
  <2>1. company' = company /\ req'[p].op = req[p].op
    BY <1>4, MoveStep DEF Moved, WentTo
  <2>2. CASE LoadSub(p)
    <3>1. req[p].step = "catalogue" /\ req'[p].step = "persist" /\ sub' = sub
      BY <2>2 DEF LoadSub, Goto, ConfigTypeOK, ReqTypeOK, ReqEntry
    <3>2. read'[p].sub = sub
      BY <1>1, <2>2 DEF LoadSub, ReadEntry
    <3> QED BY <2>1, <3>1, <3>2 DEF AssignAt, Assigned
  <2>3. CASE CommitSub(p)
    <3> DEFINE op == req[p].op
               seen == read[p].sub
               new == [plan |-> op.plan, status |-> op.status, end |-> op.end,
                       override |-> op.override]
    <3>1. /\ Assigned(p) /\ (seen = NoSub <=> sub = NoSub)
          /\ sub # NoSub => seen.plan = sub.plan /\ seen.status = sub.status
      BY <2>3 DEF CommitSub, AssignAt
    <3>2. /\ req'[p].step = "bump"
          /\ sub' = IF seen = NoSub THEN new
                    ELSE [field \in DOMAIN sub |-> Written(new[field], seen[field], sub[field])]
      BY <2>3, <3>1 DEF CommitSub, Goto, ConfigTypeOK, ReqTypeOK, ReqEntry
    <3>3. new.plan = op.plan /\ new.status = op.status
      OBVIOUS
    <3>4. sub # NoSub => "plan" \in DOMAIN sub /\ "status" \in DOMAIN sub
      BY DEF SubTypeOK, Subs
    <3> HIDE DEF new
    <3>5. sub'.plan = op.plan /\ sub'.status = op.status
      BY <3>1, <3>2, <3>3, <3>4 DEF Written
    <3> QED BY <2>1, <3>1, <3>2, <3>5 DEF AssignAt, Agree, Assigned
  <2>4. CASE (Publish(p) \/ CutOff(p)) /\ UNCHANGED <<platformVars, subVars>>
    <3>1. /\ sub' = sub
          /\ \/ req[p].step = "publish" /\ req'[p].step = "end"
             \/ req'[p].step = "cut"
      <4>1. (req[p].step = "publish" /\ Goto(p, "end")) \/ Goto(p, "cut")
        BY <2>4 DEF Publish, CutOff
      <4>2. \A step : Goto(p, step) => req'[p].step = step
        BY DEF Goto, ConfigTypeOK, ReqTypeOK, ReqEntry
      <4> QED BY <2>4, <4>1, <4>2 DEF subVars
    <3> QED BY <2>1, <3>1 DEF AssignAt, Agree
  <2>5. CASE LoadForAssign(p) /\ Refused(p)
    <3>1. req[p].step = "start" /\ req'[p].step = "end" /\ sub' = sub
      BY <2>5 DEF LoadForAssign, Refused, Goto, ConfigTypeOK, ReqTypeOK, ReqEntry
    <3> QED BY <2>1, <3>1 DEF AssignAt, Agree
  <2>6. ~CommitRouting(p) /\ ~CommitRenewal(p)
    BY Request DEF CommitRouting, CommitRenewal, Fits
  <2> QED BY <1>4, <2>2, <2>3, <2>4, <2>5, <2>6 DEF GoesOn
<1> QED BY <1>2, <1>3, <1>4, RequestSteps

\* Every action keeps the agreement.
LEMMA AgreeStep ==
  ASSUME TypeInv, AgreeInv, [Next]_vars
  PROVE  AgreeInv'
<1>1. CASE \E r \in Requests : RequestStep(r)
  <2>1. PICK r \in Requests : RequestStep(r)
    BY <1>1
  <2>2. /\ req'[r].op = req[r].op
        /\ \A q \in Requests \ {r} :
             /\ req'[q].op = req[q].op /\ req'[q].step = req[q].step
             /\ req'[q].seen = req[q].seen /\ read'[q] = read[q]
    BY <2>1, Bystanders
  <2>3. \A q \in Requests : req'[q].op = req[q].op
    BY <2>2
  <2>4. /\ req[r].op.kind # "patch" => company'.active = company.active /\ routed' = routed
        /\ req[r].op.kind # "assign" => company'.plan = company.plan /\ company'.status = company.status
    BY <2>1, ColumnsKept
  <2>5. req[r].op.kind # "assign" =>
          /\ sub' = NoSub <=> sub = NoSub
          /\ sub # NoSub => sub'.plan = sub.plan /\ sub'.status = sub.status
    BY <2>1, SubAgrees
  <2>6. ASSUME NEW p \in Requests, Only(p, "patch")' PROVE PatchAt(p)'
    <3>1. Only(p, "patch")
      BY <2>3, <2>6 DEF Only
    <3>2. PatchAt(p)
      BY <3>1 DEF AgreeInv
    <3>3. CASE p = r
      BY <2>1, <3>1, <3>2, <3>3, PatchStep DEF Only
    <3>4. CASE p # r
      BY <2>2, <2>4, <3>1, <3>2, <3>4 DEF Only, PatchAt
    <3> QED BY <3>3, <3>4
  <2>7. Nobody("patch")' => (routed = company.active)'
    BY <2>3, <2>4 DEF Nobody, AgreeInv
  <2>8. ASSUME NEW p \in Requests, Only(p, "assign")', req'[p].op.plan \in PlanRows
        PROVE  AssignAt(p)'
    <3>1. Only(p, "assign") /\ req[p].op.plan \in PlanRows
      BY <2>3, <2>8 DEF Only
    <3>2. AssignAt(p)
      BY <3>1 DEF AgreeInv
    <3>3. CASE p = r
      BY <2>1, <3>1, <3>2, <3>3, AssignStep DEF Only
    <3>4. CASE p # r
      BY <2>2, <2>4, <2>5, <3>1, <3>2, <3>4 DEF Only, AssignAt, Agree, Assigned
    <3> QED BY <3>3, <3>4
  <2>9. Nobody("assign")' => Agree'
    BY <2>3, <2>4, <2>5 DEF Nobody, AgreeInv, Agree
  <2> QED BY <2>6, <2>7, <2>8, <2>9 DEF AgreeInv
<1>2. CASE \A r \in Requests : ~RequestStep(r)
  <2>1. company' = company /\ req' = req
    BY <1>2, ConfigKept
  <2>2. UNCHANGED <<sub, routed, read>>
    <3>1. CASE Tick
      BY <3>1 DEF Tick
    <3>2. ASSUME NEW c \in Clients, ClientStep(c) \/ LicenceNext(c) PROVE UNCHANGED <<sub, routed, read>>
      BY <3>2 DEF ClientStep, subVars, LicenceNext, StartManifest, ReadEntitlements, FinishManifest
    <3>3. ASSUME NEW s \in Savers, ConsoleStep(s) PROVE UNCHANGED <<sub, routed, read>>
      BY <3>3 DEF ConsoleStep, subVars
    <3>4. CASE UNCHANGED vars
      BY <3>4 DEF vars
    <3> QED BY <1>2, <3>1, <3>2, <3>3, <3>4, Actions
  <2> QED BY <2>1, <2>2 DEF AgreeInv, Only, Nobody, PatchAt, AssignAt, Agree, Assigned
<1> QED BY <1>1, <1>2

\* The company is created with its subscription (SubAssumption).
LEMMA AgreeInit == Init => AgreeInv
<1> SUFFICES ASSUME Init PROVE AgreeInv
  OBVIOUS
<1>1. /\ company.active = TRUE /\ company.plan = StartPlan /\ company.status = "active"
      /\ sub = InitialSub /\ routed = TRUE
  BY DEF Init, ConfigInit, NewCompany
<1>2. Agree
  BY <1>1, SubAssumption DEF Agree
<1>3. \A r \in Requests : req[r].step \in {"start", "end"}
  BY DEF Init, ConfigInit, NewRequest
<1> QED BY <1>1, <1>2, <1>3 DEF AgreeInv, PatchAt, AssignAt

\* At most one request that asks for something is none, or the only one.
LEMMA CountedOnce ==
  ASSUME NEW kind, Count(kind) <= 1
  PROVE  Nobody(kind) \/ \E p \in Requests : Only(p, kind)
<1> DEFINE asking == {r \in Requests : req[r].op.kind = kind}
<1>1. IsFiniteSet(asking)
  BY RequestsAssumption, FS_Subset
<1>2. Cardinality(asking) \in Nat /\ Cardinality(asking) <= 1
  BY <1>1, FS_CardinalityType DEF Count
<1>3. CASE Cardinality(asking) = 0
  BY <1>1, <1>3, FS_EmptySet DEF Nobody
<1>4. CASE Cardinality(asking) = 1
  <2>1. PICK p : asking = {p}
    BY <1>1, <1>4, FS_Singleton
  <2> QED BY <2>1 DEF Only
<1> QED BY <1>2, <1>3, <1>4

\* However the requests interleave, the catalogue and the company agree when none is under
\* way and none died, if one change of its state and one assignment at most were asked for
\* (subscriptions.py:186, companies.py:138).
THEOREM DatabasesAgree == Spec => []CatalogueAgrees
<1> DEFINE Inv == TypeInv /\ AgreeInv
<1>1. Inv /\ [Next]_vars => Inv'
  BY TypesStep, AgreeStep
<1>2. Init => Inv
  BY TypesInit, AgreeInit
<1>3. Inv => CatalogueAgrees
  <2> SUFFICES ASSUME Inv, Quiet PROVE CatalogueAgrees
    BY DEF CatalogueAgrees
  <2>1. ASSUME Count("patch") <= 1 PROVE routed = company.active
    BY <2>1, CountedOnce DEF AgreeInv, PatchAt, Quiet
  <2>2. ASSUME Count("assign") <= 1,
               \A r \in Requests : req[r].op.kind = "assign" => req[r].op.plan \in PlanRows
        PROVE  Agree
    <3>1. CASE Nobody("assign")
      BY <3>1 DEF AgreeInv
    <3>2. ASSUME NEW p \in Requests, Only(p, "assign") PROVE Agree
      BY <2>2, <3>2 DEF AgreeInv, AssignAt, Quiet, Only
    <3> QED BY <2>2, <3>1, <3>2, CountedOnce
  <2> QED BY <2>1, <2>2 DEF CatalogueAgrees, Agree
<1> QED BY <1>1, <1>2, <1>3, PTL DEF Spec
=============================================================================
