------------------------- MODULE EditOutcomeProofs -------------------------
(***************************************************************************)
(* Proofs about QuorumEdit: what an edit may change, what it reports and   *)
(* leaves marked, and that its verdict stands.                             *)
(***************************************************************************)
EXTENDS QuorumEditProofs

Late == {"apply", "applySent", "steer", "stop", "over"}

\* Where an edit may have a job and may have changed documents.
Applying(e) == pc[e] \in Late /\ row[e].state \in {"APPLYING", "SUCCEEDED", "FAILED"}

Clean(e) == job[e] = NoJob /\ applied[e] = Off /\ touched[e] = {} /\ due[e] = {}

\* The state of the row at each place of the flow. A lost checkpoint may repeat the
\* step that asks for a decision after the decision was taken; an end that could not
\* be written leaves the row live.
Place(e) ==
  LET state == row[e].state IN
  /\ pc[e] \in {"idle", "checked"} => state = "NONE"
  /\ pc[e] = "stored" => state = "PLANNING"
  /\ pc[e] \in {"plan", "planSent"} => state \in {"PLANNING", "FAILED"}
  /\ pc[e] = "park" =>
       \/ state \in {"PLANNING", "FAILED"}
       \/ e \in rerun /\ state \in {"AWAITING_APPROVAL", "APPLYING", "REJECTED"}
  /\ pc[e] = "decide" => state \in {"AWAITING_APPROVAL", "APPLYING", "REJECTED"}
  /\ pc[e] \in {"apply", "applySent"} => state = "APPLYING"
  /\ pc[e] = "steer" => state \in {"SUCCEEDED", "APPLYING"}
  /\ pc[e] = "stop" => state \in {"SUCCEEDED", "FAILED", "APPLYING"}
  /\ pc[e] = "over" => state # "NONE"

Verdict(d) == IF d.verdict = "approve" THEN "APPLYING" ELSE "REJECTED"

\* A decision that reached the flow is the one on the row.
DecisionFits(e) ==
  decided[e] # Off =>
    /\ pc[e] \in {"park", "decide"} \cup (Late \ {"over"})
    /\ decided[e].approved = row[e].approved
    /\ pc[e] \in {"park", "decide"} => row[e].state = Verdict(decided[e])

\* What an edit has changed was approved, what is due lies below its target.
ChangesFit(e) ==
  /\ ~ Applying(e) => Clean(e)
  /\ job[e].at = "idle" => job[e] = NoJob
  /\ job[e].at # "idle" => job[e].todo \subseteq row[e].approved
  /\ touched[e] \subseteq {row[e].target} \cup row[e].approved
  /\ due[e] \subseteq Below[row[e].target]

\* What jobs, callbacks and the row report was rewritten.
ReportsFit(e) ==
  /\ job[e].updated \subseteq touched[e]
  /\ job[e].at = "items" => row[e].target \in touched[e]
  /\ applied[e] # Off => pc[e] \in {"apply", "applySent", "steer", "stop"}
  /\ applied[e] # Off /\ applied[e].ok =>
       {row[e].target} \cup applied[e].updated \subseteq touched[e]
  /\ row[e].state = "SUCCEEDED" => {row[e].target} \cup row[e].updated \subseteq touched[e]

\* Unless a step is repeated, an edit has one job, and it is over once it reports.
OneJob(e) ==
  e \notin rerun =>
    /\ pc[e] = "apply" => Clean(e)
    /\ applied[e] # Off => job[e].at = "idle"
    /\ row[e].state = "SUCCEEDED" => job[e].at = "idle"

\* A marker that nobody is about to remove.
Marked(d) == d \in stale /\ ~ Clearing(d)

\* What the job has marked, and after its report everything that is due, is marked
\* for good: a document that gets another writer is due no longer.
DriftFits(e) ==
  /\ job[e].at = "items" => \A d \in due[e] \ job[e].left : Marked(d)
  /\ e \notin rerun /\ applied[e] # Off /\ applied[e].ok => \A d \in due[e] : Marked(d)
  /\ e \notin rerun /\ row[e].state = "SUCCEEDED" => \A d \in due[e] : Marked(d)

EditFits(e) ==
  Place(e) /\ DecisionFits(e) /\ ChangesFit(e) /\ ReportsFit(e) /\ OneJob(e) /\ DriftFits(e)

\* A decision that was written is on the row, and still is when it is sent.
WonFits(h) ==
  deciding[h] # Off /\ deciding[h].won =>
    LET e == deciding[h].edit IN
    /\ pc[e] \in {"park", "decide"} \cup Late
    /\ row[e].state \notin {"NONE", "PLANNING", "AWAITING_APPROVAL"}
    /\ row[e].approved = deciding[h].approved
    /\ pc[e] \in {"park", "decide"} => row[e].state = Verdict(deciding[h])

Sound == Typed /\ Decided
Outcomes == (\A e \in Edits : EditFits(e)) /\ (\A h \in Deciders : WonFits(h))

-----------------------------------------------------------------------------
(* Markers last. *)

Steady == \A d \in Docs : Marked(d) => Marked(d)' \/ \A e \in Edits : d \notin due'[e]

Removes(h, d) == saving[h] # Off /\ saving[h].doc = d /\ saving[h].at \in {"clear", "verified"}

\* A step that gives d no writer who has yet to remove its marker.
Fades(d) ==
  /\ \A e \in Edits : job'[e].clear = d => job[e].clear = d
  /\ \A h \in Editors : Removes(h, d)' => Removes(h, d)

LEMMA FadesMarked ==
  ASSUME NEW d \in Docs, Marked(d), Fades(d), d \in stale'
  PROVE  Marked(d)'
BY DEF Marked, Clearing, Fades, Removes

\* No step takes a marker off that nobody was about to remove, and whoever writes or
\* verifies a document makes it due for no edit.
LEMMA MarksLast == Sound /\ [Next]_vars => Steady
<1> SUFFICES ASSUME Sound, [Next]_vars, NEW d \in Docs, Marked(d),
                    NEW f \in Edits, d \in due'[f]
             PROVE  Marked(d)'
  BY DEF Steady
<1>1. d \in stale /\ ~ Clearing(d) /\ d # Off
  BY SlotAssumption DEF Marked
<1>2. ASSUME stale \subseteq stale', UNCHANGED saving,
             \A e \in Edits : job'[e].clear \in {job[e].clear, Off}
      PROVE  Marked(d)'
  <2>1. Fades(d)
    BY <1>1, <1>2 DEF Fades, Removes
  <2> QED BY <1>1, <1>2, <2>1, FadesMarked
<1>3. NoJob.clear = Off
  BY DEF NoJob
<1>4. ASSUME NEW e \in Edits,
             \/ AskEdit(e) \/ HandOff(e) \/ Flow(e) \/ PlanJobEnds(e) \/ ApplyJobEnds(e)
             \/ \E t \in Targets : StoreEdit(e, t)
      PROVE  Marked(d)'
  <2>1. UNCHANGED <<stale, saving>>
    BY <1>4 DEF AskEdit, HandOff, StoreEdit, PlanJobEnds, ApplyJobEnds, Flow, DispatchPlan,
                PlanArrives, AwaitApproval, DecisionArrives, DecisionTimesOut, DispatchApply,
                ApplyArrives, Steer, StopSession, docs
  <2>2. \A x \in Edits : job'[x].clear \in {job[x].clear, Off}
    <3>1. CASE DispatchApply(e)
      <4> DEFINE S == decided[e].approved \cap DOMAIN row[e].plan
                 j == [NoJob EXCEPT !.at = "target", !.plan = row[e].plan, !.todo = S]
      <4>1. UNCHANGED job \/ job' = [job EXCEPT ![e] = j]
        BY <3>1 DEF DispatchApply
      <4>2. j.clear = Off
        BY DEF NoJob
      <4> HIDE DEF j
      <4> QED BY <4>1, <4>2 DEF Sound, Typed, RestTyped
    <3>2. CASE ApplyJobEnds(e) \/ StopSession(e)
      BY <1>3, <3>2 DEF ApplyJobEnds, StopSession, KillJobs, Sound, Typed, RestTyped
    <3>3. CASE UNCHANGED job
      BY <3>3
    <3> QED BY <1>4, <3>1, <3>2, <3>3
            DEF AskEdit, HandOff, StoreEdit, PlanJobEnds, Flow, DispatchPlan, PlanArrives,
                AwaitApproval, DecisionArrives, DecisionTimesOut, ApplyArrives, Steer
  <2> QED BY <1>2, <2>1, <2>2
<1>5. ASSUME NEW e \in Edits, RewriteTarget(e) PROVE Marked(d)'
  <2> DEFINE t == row[e].target
  <2>1. /\ UNCHANGED stale /\ Outdate(t)
        /\ \A x \in Edits : job'[x].clear = job[x].clear \/ job'[x].clear = t
    BY <1>5 DEF RewriteTarget, Sound, Typed, RestTyped, Jobs
  <2>2. d # t
    <3>1. t \in Docs
      BY <1>5 DEF RewriteTarget, Sound, Typed, FlowTyped, TargetFits
    <3>2. t \notin due'[f]
      BY <1>5, <3>1, GraphAssumption DEF RewriteTarget
    <3> QED BY <3>2
  <2>3. Fades(d)
    BY <2>1, <2>2 DEF Fades, Removes, Outdate
  <2> QED BY <1>1, <2>1, <2>3, FadesMarked
<1>6. ASSUME NEW e \in Edits, ClearMarker(e) PROVE Marked(d)'
  <2>1. /\ d # job[e].clear /\ UNCHANGED saving
        /\ \A x \in Edits : job'[x].clear \in {job[x].clear, Off}
    BY <1>1, <1>6 DEF ClearMarker, Clearing, Sound, Typed, RestTyped, Jobs
  <2>2. Fades(d) /\ d \in stale'
    BY <1>1, <1>6, <2>1 DEF ClearMarker, MayClear, Fades, Removes
  <2> QED BY <2>2, FadesMarked
<1>7. ASSUME NEW e \in Edits, NEW c \in Docs, MarkDownstream(e, c) PROVE Marked(d)'
  <2>1. /\ stale \subseteq stale' /\ UNCHANGED saving
        /\ \A x \in Edits : job'[x].clear = job[x].clear
    BY <1>7 DEF MarkDownstream, Sound, Typed, RestTyped, Jobs
  <2> QED BY <1>2, <2>1
<1>8. ASSUME NEW e \in Edits, NEW c \in Docs, ApplyItem(e, c) PROVE Marked(d)'
  <2>1. CASE UNCHANGED docs /\ UNCHANGED saving /\ job' = [job EXCEPT ![e].todo = @ \ {c}]
    <3>1. UNCHANGED <<stale, saving>> /\ \A x \in Edits : job'[x].clear = job[x].clear
      BY <2>1 DEF docs, Sound, Typed, RestTyped, Jobs
    <3> QED BY <1>2, <3>1
  <2>2. CASE NoLongerDue(c) /\ UNCHANGED stale
    <3>1. d # c
      BY <2>2 DEF NoLongerDue
    <3>2. \A x \in Edits : job'[x].clear \in {job[x].clear, c}
      <4>1. PICK j \in {[job[e] EXCEPT !.todo = @ \ {c}],
                        [job[e] EXCEPT !.todo = @ \ {c}, !.clear = c],
                        [job[e] EXCEPT !.todo = @ \ {c}, !.updated = @ \cup {c}, !.clear = c]} :
              job' = [job EXCEPT ![e] = j]
        BY <1>8 DEF ApplyItem, Sound, Typed, RestTyped
      <4>2. j.clear \in {job[e].clear, c}
        BY <4>1 DEF Sound, Typed, RestTyped, Jobs
      <4> QED BY <4>1, <4>2 DEF Sound, Typed, RestTyped
    <3>3. Outdate(c) \/ UNCHANGED saving
      BY <1>8 DEF ApplyItem
    <3>4. \A x \in Editors : Removes(x, d)' => Removes(x, d)
      <4>1. CASE Outdate(c)
        BY <4>1 DEF Removes, Outdate, Sound, Typed, RestTyped, Saves
      <4>2. CASE UNCHANGED saving
        BY <4>2 DEF Removes
      <4> QED BY <3>3, <4>1, <4>2
    <3>5. \A x \in Edits : job'[x].clear = d => job[x].clear = d
      BY <3>1, <3>2
    <3>6. Fades(d)
      BY <3>4, <3>5 DEF Fades
    <3> QED BY <1>1, <2>2, <3>6, FadesMarked
  <2> QED BY <1>8, <2>1, <2>2 DEF ApplyItem
<1>9. ASSUME NEW h \in Editors, WriteSave(h) PROVE Marked(d)'
  <2>1. UNCHANGED stale /\ UNCHANGED job
    BY <1>9 DEF WriteSave, docs
  <2>2. CASE saving[h].outdated
    BY <1>1, <1>9, <2>1, <2>2, FadesMarked DEF WriteSave, Fades, Removes, Sound, Typed, RestTyped
  <2>3. CASE ~ saving[h].outdated
    <3>1. d # saving[h].doc
      BY <1>9, <2>3 DEF WriteSave, NoLongerDue
    <3>2. \A x \in Editors : Removes(x, d)' => Removes(x, d)
      <4>1. saving[h] \in Saves
        BY <1>9 DEF WriteSave, Sound, Typed, RestTyped
      <4>2. [saving[h] EXCEPT !.at = "clear"].doc = saving[h].doc
        BY <4>1 DEF Saves
      <4> QED BY <1>9, <2>3, <3>1, <4>2 DEF WriteSave, Removes, Sound, Typed, RestTyped, Saves
    <3> QED BY <1>1, <2>1, <3>2, FadesMarked DEF Fades
  <2> QED BY <2>2, <2>3
<1>10. ASSUME NEW h \in Editors, ClearSave(h) PROVE Marked(d)'
  <2>1. d # saving[h].doc /\ UNCHANGED job
    BY <1>1, <1>10 DEF ClearSave, Clearing
  <2>2. \A x \in Editors : Removes(x, d)' => Removes(x, d)
    BY <1>10, <2>1 DEF ClearSave, Removes, Sound, Typed, RestTyped, Saves
  <2> QED BY <1>1, <1>10, <2>1, <2>2, FadesMarked DEF ClearSave, MayClear, Fades
<1>11. ASSUME NEW h \in Editors, MarkSave(h) \/ \E c \in Docs : StartSave(h, c)
       PROVE  Marked(d)'
  <2>1. stale \subseteq stale' /\ UNCHANGED job
    BY <1>11 DEF MarkSave, StartSave, docs
  <2>2. \A x \in Editors : Removes(x, d)' => Removes(x, d)
    BY <1>11 DEF MarkSave, StartSave, Removes, Sound, Typed, RestTyped
  <2> QED BY <1>1, <2>1, <2>2, FadesMarked DEF Fades
<1>12. ASSUME NEW h \in Editors, NEW c \in Docs, VerifyArtifact(h, c) PROVE Marked(d)'
  <2>1. d # c /\ UNCHANGED <<job, stale>>
    BY <1>12 DEF VerifyArtifact, NoLongerDue
  <2>2. \A x \in Editors : Removes(x, d)' => Removes(x, d)
    BY <1>12, <2>1 DEF VerifyArtifact, Removes, Sound, Typed, RestTyped
  <2> QED BY <1>1, <2>1, <2>2, FadesMarked DEF Fades
<1>13. ASSUME NEW h \in Deciders,
              CloseDecision(h) \/ SendDecision(h) \/ \E e \in Edits : OpenDecision(h, e)
       PROVE  Marked(d)'
  <2>1. UNCHANGED <<stale, saving, job>>
    BY <1>13 DEF CloseDecision, SendDecision, OpenDecision, docs
  <2> QED BY <1>2, <2>1
<1>14. ASSUME ParkRun \/ EndRun \/ Relaunch \/ AskRun \/ GoRun \/ ContainerDies \/ UNCHANGED vars
       PROVE  Marked(d)'
  <2>1. UNCHANGED <<stale, saving>>
    BY <1>14 DEF ParkRun, EndRun, Relaunch, SetRun, AskRun, GoRun, ContainerDies, vars, docs
  <2>2. \A x \in Edits : job'[x].clear \in {job[x].clear, Off}
    BY <1>3, <1>14 DEF ParkRun, EndRun, Relaunch, SetRun, AskRun, GoRun, ContainerDies, KillJobs,
                       vars
  <2> QED BY <1>2, <2>1, <2>2
<1> QED BY <1>4, <1>5, <1>6, <1>7, <1>8, <1>9, <1>10, <1>11, <1>12, <1>13, <1>14 DEF Next

-----------------------------------------------------------------------------
(* What leaves an edit or a decision as it is. *)

SameRow(e) ==
  /\ row'[e].state = row[e].state /\ row'[e].target = row[e].target
  /\ row'[e].approved = row[e].approved /\ row'[e].updated = row[e].updated

\* What is due and marked stays so, unless a job that marks begins.
LEMMA DriftKeeps ==
  ASSUME Sound, Steady, NEW e \in Edits, DriftFits(e), rerun \subseteq rerun',
         due'[e] \subseteq due[e],
         job'[e].at = "items" =>
           job[e].at = "items" /\ due'[e] \ job'[e].left \subseteq due[e] \ job[e].left,
         e \notin rerun /\ applied'[e] # Off /\ applied'[e].ok => applied[e] # Off /\ applied[e].ok,
         e \notin rerun /\ row'[e].state = "SUCCEEDED" =>
           row[e].state = "SUCCEEDED" \/ (applied[e] # Off /\ applied[e].ok)
  PROVE  DriftFits(e)'
<1>1. \A d \in due'[e] : Marked(d) => Marked(d)'
  BY DEF Steady, Sound, Typed, RestTyped
<1>2. ASSUME \A d \in due[e] : Marked(d)
      PROVE  \A d \in due'[e] : Marked(d)'
  BY <1>1, <1>2
<1>3. ASSUME job'[e].at = "items"
      PROVE  \A d \in due'[e] \ job'[e].left : Marked(d)'
  <2>1. \A d \in due[e] \ job[e].left : Marked(d)
    BY <1>3 DEF DriftFits
  <2> QED BY <1>1, <1>3, <2>1
<1>4. ASSUME e \notin rerun', applied'[e] # Off, applied'[e].ok
      PROVE  \A d \in due'[e] : Marked(d)'
  BY <1>2, <1>4 DEF DriftFits
<1>5. ASSUME e \notin rerun', row'[e].state = "SUCCEEDED"
      PROVE  \A d \in due'[e] : Marked(d)'
  BY <1>2, <1>5 DEF DriftFits
<1> QED BY <1>3, <1>4, <1>5 DEF DriftFits

LEMMA Bystander ==
  ASSUME Sound, Steady, NEW e \in Edits, EditFits(e), SameRow(e), rerun \subseteq rerun',
         pc'[e] = pc[e], decided'[e] = decided[e], applied'[e] = applied[e],
         job'[e] = job[e] \/ job'[e] = NoJob,
         touched'[e] = touched[e], due'[e] \subseteq due[e]
  PROVE  EditFits(e)'
<1>1. job'[e] = NoJob => job'[e].at = "idle" /\ job'[e].updated = {}
  BY DEF NoJob
<1>2. Applying(e)' = Applying(e)
  BY DEF Applying, SameRow
<1>3. Clean(e) => Clean(e)'
  BY DEF Clean
<1>4. Place(e)' /\ DecisionFits(e)'
  BY DEF EditFits, Place, DecisionFits, Verdict, SameRow
<1>5. ChangesFit(e)'
  BY <1>1, <1>2, <1>3 DEF EditFits, ChangesFit, SameRow
<1>6. ReportsFit(e)'
  BY <1>1 DEF EditFits, ReportsFit, SameRow
<1>7. OneJob(e)'
  BY <1>1, <1>3 DEF EditFits, OneJob, SameRow
<1>8. DriftFits(e)'
  BY <1>1, DriftKeeps DEF EditFits, SameRow
<1> QED BY <1>4, <1>5, <1>6, <1>7, <1>8 DEF EditFits

\* A decision stays good as long as the flow does not go back and the row keeps it.
LEMMA WonKeeps ==
  ASSUME Sound, Outcomes, UNCHANGED deciding,
         NEW e \in Edits,
         \A x \in Edits \ {e} : pc'[x] = pc[x] /\ row'[x].state = row[x].state
                                /\ row'[x].approved = row[x].approved,
         row'[e].approved = row[e].approved \/ pc[e] \notin {"park", "decide"} \cup Late,
         pc[e] \in {"park", "decide"} \cup Late =>
           /\ pc'[e] \in {"park", "decide"} \cup Late
           /\ row[e].state # "PLANNING" =>
                \/ row'[e].state \notin {"NONE", "PLANNING", "AWAITING_APPROVAL"}
                \/ row'[e].state = row[e].state
           /\ pc'[e] \in {"park", "decide"} =>
                \/ pc[e] \in {"park", "decide"} /\ row'[e].state = row[e].state
                \/ row[e].state = "PLANNING"
  PROVE  \A h \in Deciders : WonFits(h)'
<1> SUFFICES ASSUME NEW h \in Deciders PROVE WonFits(h)'
  OBVIOUS
<1>1. WonFits(h) /\ (deciding[h] # Off => deciding[h].edit \in Edits)
  BY DEF Sound, Typed, RestTyped, Outcomes, Requests
<1>2. CASE deciding[h].edit = e
  BY <1>1, <1>2 DEF WonFits, Verdict
<1>3. CASE deciding[h].edit # e
  BY <1>1, <1>3 DEF WonFits, Verdict
<1> QED BY <1>2, <1>3

\* A step of the flow or of a request of edit e: documents stay as they are.
LEMMA ActorOnly ==
  ASSUME Sound, Outcomes, Steady, NEW e \in Edits, EditFits(e)', rerun \subseteq rerun',
         UNCHANGED docs,
         \A x \in Edits \ {e} : /\ SameRow(x) /\ pc'[x] = pc[x]
                                /\ decided'[x] = decided[x] /\ applied'[x] = applied[x]
                                /\ job'[x] = job[x] \/ job'[x] = NoJob
  PROVE  \A x \in Edits : EditFits(x)'
<1>1. ASSUME NEW x \in Edits, x # e PROVE EditFits(x)'
  <2>1. EditFits(x) /\ due'[x] \subseteq due[x] /\ touched'[x] = touched[x]
    BY DEF Outcomes, docs
  <2> QED BY <1>1, <2>1, Bystander
<1> QED BY <1>1

\* An edit that has changed nothing, with no decision in its flow.
LEMMA CleanFits ==
  ASSUME NEW e \in Edits, Clean(e)', decided'[e] = Off, Place(e)', row'[e].state # "SUCCEEDED"
  PROVE  EditFits(e)'
<1>1. job'[e].at = "idle" /\ job'[e].updated = {}
  BY DEF Clean, NoJob
<1> QED BY <1>1 DEF EditFits, Clean, DecisionFits, ChangesFit, ReportsFit, OneJob, DriftFits

LEMMA CleanEarly ==
  ASSUME Outcomes, NEW e \in Edits, pc[e] \notin Late
  PROVE  /\ Clean(e)
         /\ pc[e] \notin {"park", "decide"} => decided[e] = Off
BY DEF Outcomes, EditFits, ChangesFit, Applying, DecisionFits

\* A request checks, stores and hands over an edit that has changed nothing.
LEMMA OpeningOutcomes ==
  ASSUME Sound, Outcomes, Steady, NEW e \in Edits,
         AskEdit(e) \/ (\E t \in Targets : StoreEdit(e, t)) \/ HandOff(e)
  PROVE  Outcomes'
<1>1. /\ Clean(e) /\ decided[e] = Off /\ Place(e)
      /\ pc[e] \notin {"park", "decide"} \cup Late
  BY CleanEarly DEF AskEdit, StoreEdit, HandOff, Late, Outcomes, EditFits
<1>2. UNCHANGED <<rerun, decided, applied, job, deciding, docs>>
  BY DEF AskEdit, StoreEdit, HandOff, cbs
<1>3. \A x \in Edits \ {e} : row'[x] = row[x] /\ pc'[x] = pc[x]
  BY DEF AskEdit, StoreEdit, HandOff, WriteEnd, Goto, Sound, Typed, FlowTyped
<1>4. Place(e)' /\ row'[e].state # "SUCCEEDED"
  <2>1. row[e] \in Rows
    BY DEF Sound, Typed, FlowTyped
  <2>2. CASE HandOff(e)
    <3>1. PICK step \in {"plan", "over"} : pc'[e] = step
      BY <2>2 DEF HandOff, Goto, Sound, Typed, FlowTyped
    <3>2. row'[e].state \in {"PLANNING", "FAILED"}
      BY <1>1, <2>1, <2>2
      DEF HandOff, WriteEnd, Ended, Place, Sound, Typed, FlowTyped, Rows
    <3> QED BY <3>1, <3>2 DEF Place
  <2>3. CASE ~ HandOff(e)
    BY <1>1, <2>1, <2>3 DEF AskEdit, StoreEdit, Goto, Place, Sound, Typed, FlowTyped, Rows
  <2> QED BY <2>2, <2>3
<1>5. Clean(e)' /\ decided'[e] = Off
  BY <1>1, <1>2 DEF Clean, docs
<1>6. EditFits(e)'
  BY <1>4, <1>5, CleanFits
<1>7. \A x \in Edits : EditFits(x)'
  BY <1>2, <1>3, <1>6, ActorOnly DEF SameRow
<1>8. \A h \in Deciders : WonFits(h)'
  BY <1>1, <1>2, <1>3, WonKeeps
<1> QED BY <1>7, <1>8 DEF Outcomes

\* An end is written, or the row stays as it is.
LEMMA EndSeen ==
  ASSUME Sound, NEW e \in Edits, NEW end, WriteEnd(e, end)
  PROVE  /\ row'[e] \in {row[e], end}
         /\ \A x \in Edits \ {e} : row'[x] = row[x]
BY DEF WriteEnd, Sound, Typed, FlowTyped

\* A failure of the flow leaves what the edit has changed, and its job, as they are.
LEMMA FailOutcomes ==
  ASSUME Sound, Outcomes, Steady, NEW e \in Edits, FailEdit(e),
         pc[e] \in {"plan", "planSent", "park", "apply", "applySent"},
         UNCHANGED <<job, deciding, docs>>
  PROVE  Outcomes'
<1>1. /\ pc'[e] = "over" /\ row'[e] \in {row[e], [row[e] EXCEPT !.state = "FAILED"]}
      /\ decided'[e] = Off /\ applied'[e] = Off /\ rerun' = rerun
  BY EndSeen DEF FailEdit, Ended, EndFlow, Goto, Sound, Typed, FlowTyped, RestTyped
<1>2. /\ row'[e].state \in {row[e].state, "FAILED"} /\ row'[e].target = row[e].target
      /\ row'[e].approved = row[e].approved
  BY <1>1 DEF Sound, Typed, FlowTyped, Rows
<1>3. \A x \in Edits \ {e} : /\ row'[x] = row[x] /\ pc'[x] = pc[x]
                             /\ decided'[x] = decided[x] /\ applied'[x] = applied[x]
  BY EndSeen DEF FailEdit, EndFlow, Goto, Sound, Typed, FlowTyped, RestTyped
<1>4. UNCHANGED <<stale, touched, due, job>>
  BY DEF docs
<1>5. EditFits(e) /\ row[e].state \notin {"NONE", "SUCCEEDED"}
  BY DEF Outcomes, EditFits, Place
<1>6. Place(e)' /\ DecisionFits(e)'
  BY <1>1, <1>2, <1>5 DEF Place, DecisionFits
<1>7. ~ Applying(e)' => Clean(e)'
  <2>1. CASE pc[e] \in {"apply", "applySent"}
    BY <1>1, <1>2, <1>5, <2>1 DEF EditFits, Place, Applying, Late
  <2>2. CASE pc[e] \notin {"apply", "applySent"}
    BY <1>1, <1>4, <2>2, CleanEarly DEF Late, Clean
  <2> QED BY <2>1, <2>2
<1>8. ChangesFit(e)'
  BY <1>2, <1>4, <1>5, <1>7 DEF EditFits, ChangesFit
<1>9. ReportsFit(e)' /\ OneJob(e)'
  BY <1>1, <1>2, <1>4, <1>5 DEF EditFits, ReportsFit, OneJob
<1>10. DriftFits(e)'
  BY <1>1, <1>2, <1>4, <1>5, DriftKeeps DEF EditFits
<1>11. EditFits(e)'
  BY <1>6, <1>8, <1>9, <1>10 DEF EditFits
<1>12. \A x \in Edits : EditFits(x)'
  BY <1>1, <1>3, <1>11, ActorOnly DEF SameRow
<1>13. \A h \in Deciders : WonFits(h)'
  BY <1>1, <1>2, <1>3, WonKeeps DEF Late
<1> QED BY <1>12, <1>13 DEF Outcomes

LEMMA AdvanceSeen ==
  ASSUME Sound, NEW e \in Edits, NEW step, Advance(e, step)
  PROVE  /\ \A x \in Edits \ {e} : pc'[x] = pc[x]
         /\ \/ pc'[e] = step /\ rerun' = rerun
            \/ pc'[e] = pc[e] /\ rerun' = rerun \cup {e}
BY DEF Advance, Goto, Sound, Typed, FlowTyped

LEMMA PlanningOutcomes ==
  ASSUME Sound, Outcomes, Steady, NEW e \in Edits,
         DispatchPlan(e) \/ PlanArrives(e) \/ AwaitApproval(e)
  PROVE  Outcomes'
<1>1. /\ UNCHANGED <<job, deciding, docs>>
      /\ pc[e] \in {"plan", "planSent", "park"}
  BY DEF DispatchPlan, PlanArrives, AwaitApproval
<1>2. Clean(e) /\ Place(e) /\ DecisionFits(e)
  BY <1>1, CleanEarly DEF Late, Outcomes, EditFits
<1>3. ASSUME UNCHANGED cbs, rerun \subseteq rerun',
             \A x \in Edits \ {e} : row'[x] = row[x] /\ pc'[x] = pc[x],
             row'[e].approved = row[e].approved,
             pc'[e] \in {"plan", "planSent", "park", "decide"},
             pc[e] = "park" => row[e].state = "PLANNING" /\ pc'[e] \in {"park", "decide"},
             Place(e)'
      PROVE  Outcomes'
  <2>1. decided[e] = Off
    BY <1>1, <1>2, <1>3 DEF DecisionFits, Verdict, Late
  <2>2. Clean(e)' /\ decided'[e] = Off
    BY <1>1, <1>2, <1>3, <2>1 DEF Clean, docs, cbs
  <2>3. row'[e].state # "SUCCEEDED"
    BY <1>3 DEF Place
  <2>4. EditFits(e)'
    BY <1>3, <2>2, <2>3, CleanFits
  <2>5. \A x \in Edits : EditFits(x)'
    BY <1>1, <1>3, <2>4, ActorOnly DEF SameRow, cbs
  <2>6. \A h \in Deciders : WonFits(h)'
    BY <1>1, <1>3, WonKeeps DEF Late
  <2> QED BY <2>5, <2>6 DEF Outcomes
<1>4. CASE DispatchPlan(e) /\ ~ FailEdit(e)
  <2>1. Advance(e, "planSent") /\ UNCHANGED <<row, cbs>> /\ pc[e] = "plan"
    BY <1>4 DEF DispatchPlan
  <2> QED BY <1>2, <1>3, <2>1, AdvanceSeen DEF Place
<1>5. CASE PlanArrives(e) /\ ~ FailEdit(e)
  <2>1. Goto(e, "park") /\ UNCHANGED <<row, rerun, cbs>> /\ pc[e] = "planSent"
    BY <1>5 DEF PlanArrives
  <2>2. pc'[e] = "park" /\ \A x \in Edits \ {e} : pc'[x] = pc[x]
    BY <2>1 DEF Goto, Sound, Typed, FlowTyped
  <2> QED BY <1>2, <1>3, <2>1, <2>2 DEF Place
<1>6. CASE AwaitApproval(e) /\ ~ FailEdit(e)
  <2>1. /\ row[e].state = "PLANNING" /\ pc[e] = "park"
        /\ row' = [row EXCEPT ![e].state = "AWAITING_APPROVAL", ![e].plan = planned[e].plan]
        /\ Advance(e, "decide") /\ UNCHANGED cbs
    BY <1>6 DEF AwaitApproval
  <2>2. /\ \A x \in Edits \ {e} : row'[x] = row[x]
        /\ row'[e].state = "AWAITING_APPROVAL" /\ row'[e].approved = row[e].approved
    BY <2>1 DEF Sound, Typed, FlowTyped, Rows
  <2>3. Place(e)'
    BY <2>1, <2>2, AdvanceSeen DEF Place
  <2> QED BY <1>3, <2>1, <2>2, <2>3, AdvanceSeen
<1> QED BY <1>1, <1>4, <1>5, <1>6, FailOutcomes DEF DispatchPlan, PlanArrives, AwaitApproval

\* The decision reaches the flow, or its time is over.
LEMMA DecisionOutcomes ==
  ASSUME Sound, Outcomes, Steady, NEW e \in Edits, DecisionArrives(e) \/ DecisionTimesOut(e)
  PROVE  Outcomes'
<1>1. UNCHANGED <<rerun, job, deciding, docs>> /\ pc[e] = "decide"
  BY DEF DecisionArrives, DecisionTimesOut
<1>2. Clean(e) /\ Place(e) /\ DecisionFits(e) /\ ChangesFit(e)
  BY <1>1, CleanEarly DEF Late, Outcomes, EditFits
<1>3. /\ row'[e] \in {row[e], [row[e] EXCEPT !.state = "CANCELLED"]}
      /\ \A x \in Edits \ {e} : row'[x] = row[x]
  BY EndSeen DEF DecisionArrives, DecisionTimesOut, Ended
<1>4. \A x \in Edits \ {e} : /\ pc'[x] = pc[x]
                             /\ decided'[x] = decided[x] /\ applied'[x] = applied[x]
  BY DEF DecisionArrives, DecisionTimesOut, EndFlow, Goto, cbs, Sound, Typed, FlowTyped, RestTyped
<1>5. Clean(e)'
  BY <1>1, <1>2 DEF DecisionArrives, DecisionTimesOut, EndFlow, Clean, cbs, docs,
                    Sound, Typed, RestTyped
<1>6. row'[e].approved = row[e].approved /\ row'[e].state \in {"CANCELLED", row[e].state}
  BY <1>3 DEF Sound, Typed, FlowTyped, Rows
<1>7. ASSUME EditFits(e)', pc'[e] \in {"apply", "over"}
      PROVE  Outcomes'
  <2>1. \A x \in Edits : EditFits(x)'
    BY <1>1, <1>3, <1>4, <1>7, ActorOnly DEF SameRow
  <2>2. \A h \in Deciders : WonFits(h)'
    BY <1>1, <1>3, <1>4, <1>6, <1>7, WonKeeps DEF Late
  <2> QED BY <2>1, <2>2 DEF Outcomes
<1>8. CASE DecisionArrives(e) /\ decided[e].verdict = "approve"
  <2>1. pc'[e] = "apply" /\ UNCHANGED <<row, cbs>>
    BY <1>8 DEF DecisionArrives, Goto, Sound, Typed, FlowTyped
  <2>2. row[e].state = "APPLYING"
    BY <1>1, <1>2, <1>8 DEF DecisionArrives, DecisionFits, Verdict
  <2>3. Place(e)' /\ DecisionFits(e)'
    BY <1>2, <2>1, <2>2 DEF Place, DecisionFits, Late, cbs
  <2>4. job'[e].at = "idle" /\ job'[e].updated = {}
    BY <1>5 DEF Clean, NoJob
  <2>5. ChangesFit(e)'
    BY <1>5, <2>4 DEF ChangesFit, Clean
  <2>6. ReportsFit(e)' /\ OneJob(e)' /\ DriftFits(e)'
    BY <1>5, <2>1, <2>2, <2>4 DEF Clean, ReportsFit, OneJob, DriftFits
  <2> QED BY <1>7, <2>1, <2>3, <2>5, <2>6 DEF EditFits
<1>9. CASE ~ (DecisionArrives(e) /\ decided[e].verdict = "approve")
  <2>1. pc'[e] = "over" /\ decided'[e] = Off
    BY <1>9 DEF DecisionArrives, DecisionTimesOut, EndFlow, Goto, Sound, Typed, FlowTyped, RestTyped
  <2>2. row'[e].state \notin {"NONE", "SUCCEEDED"}
    BY <1>1, <1>2, <1>6 DEF Place
  <2>3. Place(e)'
    BY <2>1, <2>2 DEF Place
  <2>4. EditFits(e)'
    BY <1>5, <2>1, <2>2, <2>3, CleanFits
  <2> QED BY <1>7, <2>1, <2>4
<1> QED BY <1>8, <1>9

LEMMA DispatchOutcomes ==
  ASSUME Sound, Outcomes, Steady, NEW e \in Edits, DispatchApply(e), ~ FailEdit(e)
  PROVE  Outcomes'
<1>1. /\ pc[e] = "apply" /\ UNCHANGED <<row, cbs, deciding, docs>>
      /\ Advance(e, "applySent")
      /\ job' = IF job[e].at # "idle" THEN job
                ELSE [job EXCEPT ![e] =
                       [NoJob EXCEPT !.at = "target", !.plan = row[e].plan,
                                     !.todo = decided[e].approved \cap DOMAIN row[e].plan]]
  BY DEF DispatchApply
<1>2. EditFits(e) /\ decided[e] # Off
  BY <1>1 DEF Sound, Decided, Outcomes
<1>3. /\ \A x \in Edits \ {e} : pc'[x] = pc[x] /\ job'[x] = job[x]
      /\ rerun \subseteq rerun' /\ pc'[e] \in {"apply", "applySent"}
      /\ pc'[e] = "apply" => e \in rerun'
  BY <1>1, AdvanceSeen DEF Sound, Typed, RestTyped
<1>4. \/ job'[e] = job[e] /\ job[e].at # "idle"
      \/ /\ job[e].at = "idle" /\ job'[e].at = "target" /\ job'[e].updated = {}
         /\ job'[e].todo \subseteq decided[e].approved
  <2>1. CASE job[e].at = "idle"
    <3> DEFINE S == decided[e].approved \cap DOMAIN row[e].plan
               j == [NoJob EXCEPT !.at = "target", !.plan = row[e].plan, !.todo = S]
    <3>1. job'[e] = j
      BY <1>1, <2>1 DEF Sound, Typed, RestTyped
    <3>2. j.at = "target" /\ j.updated = {} /\ j.todo = S
      BY DEF NoJob
    <3> QED BY <2>1, <3>1, <3>2
  <2> QED BY <1>1, <2>1
<1>5. row[e].state = "APPLYING" /\ Applying(e) /\ Applying(e)'
  BY <1>1, <1>2, <1>3 DEF EditFits, Place, Applying, Late
<1>6. Place(e)' /\ DecisionFits(e)'
  BY <1>1, <1>2, <1>3, <1>5 DEF EditFits, Place, DecisionFits, Late, cbs
<1>7. ChangesFit(e)'
  BY <1>1, <1>2, <1>4, <1>5 DEF EditFits, ChangesFit, DecisionFits, docs
<1>8. ReportsFit(e)'
  BY <1>1, <1>2, <1>3, <1>4, <1>5 DEF EditFits, ReportsFit, cbs, docs
<1>9. OneJob(e)'
  BY <1>1, <1>2, <1>3, <1>4, <1>5 DEF EditFits, OneJob, Clean, cbs, docs
<1>10. DriftFits(e)'
  BY <1>1, <1>2, <1>3, <1>4, <1>5, DriftKeeps DEF EditFits, cbs, docs
<1>11. EditFits(e)'
  BY <1>6, <1>7, <1>8, <1>9, <1>10 DEF EditFits
<1>12. \A x \in Edits : EditFits(x)'
  BY <1>1, <1>3, <1>11, ActorOnly DEF SameRow, cbs
<1>13. \A h \in Deciders : WonFits(h)'
  BY <1>1, <1>3, WonKeeps DEF Late
<1> QED BY <1>12, <1>13 DEF Outcomes

\* The report of the job is written, or lost.
LEMMA ReportOutcomes ==
  ASSUME Sound, Outcomes, Steady, NEW e \in Edits, ApplyArrives(e), ~ FailEdit(e)
  PROVE  Outcomes'
<1> DEFINE ok == applied[e].ok
           end == [row[e] EXCEPT !.state = IF ok THEN "SUCCEEDED" ELSE "FAILED",
                                 !.updated = applied[e].updated]
<1>1. /\ pc[e] = "applySent" /\ applied[e] # Off
      /\ UNCHANGED <<rerun, cbs, job, deciding, docs>>
      /\ WriteEnd(e, end) /\ Goto(e, IF ok THEN "steer" ELSE "stop")
  BY DEF ApplyArrives
<1>2. EditFits(e) /\ row[e].state = "APPLYING"
  BY <1>1 DEF Outcomes, EditFits, Place
<1>3. /\ \A x \in Edits \ {e} : pc'[x] = pc[x] /\ row'[x] = row[x]
      /\ row'[e] \in {row[e], end}
      /\ pc'[e] = IF ok THEN "steer" ELSE "stop"
  <2> HIDE DEF end
  <2> QED BY <1>1, EndSeen DEF Goto, Sound, Typed, FlowTyped
<1>4. /\ row'[e].target = row[e].target /\ row'[e].approved = row[e].approved
      /\ \/ row'[e].state = "APPLYING"
         \/ ok /\ row'[e].state = "SUCCEEDED" /\ row'[e].updated = applied[e].updated
         \/ ~ ok /\ row'[e].state = "FAILED"
  <2>1. row[e] \in Rows
    BY DEF Sound, Typed, FlowTyped
  <2>2. /\ end.target = row[e].target /\ end.approved = row[e].approved
        /\ end.state = (IF ok THEN "SUCCEEDED" ELSE "FAILED")
        /\ end.updated = applied[e].updated
    BY <2>1 DEF Rows
  <2> HIDE DEF end
  <2> QED BY <1>2, <1>3, <2>2
<1> HIDE DEF end, ok
<1>5. Applying(e)' /\ Place(e)' /\ DecisionFits(e)'
  BY <1>1, <1>2, <1>3, <1>4 DEF Applying, EditFits, Place, DecisionFits, Late, cbs
<1>6. UNCHANGED <<applied, job, touched, due>>
  BY <1>1 DEF cbs, docs
<1>7. ChangesFit(e)'
  BY <1>2, <1>4, <1>5, <1>6 DEF EditFits, ChangesFit
<1>8. ReportsFit(e)'
  <2>1. ReportsFit(e)
    BY <1>2 DEF EditFits
  <2> QED BY <1>1, <1>3, <1>4, <1>6, <2>1 DEF ReportsFit, ok
<1>9. OneJob(e)'
  BY <1>1, <1>2, <1>3, <1>4, <1>6 DEF EditFits, OneJob
<1>10. DriftFits(e)'
  BY <1>1, <1>2, <1>4, <1>6, DriftKeeps DEF EditFits, ok
<1>11. EditFits(e)'
  BY <1>5, <1>7, <1>8, <1>9, <1>10 DEF EditFits
<1>12. \A x \in Edits : EditFits(x)'
  BY <1>1, <1>3, <1>11, ActorOnly DEF SameRow, cbs
<1>13. \A h \in Deciders : WonFits(h)'
  BY <1>1, <1>3, <1>4, WonKeeps DEF Late
<1> QED BY <1>12, <1>13 DEF Outcomes

\* The steering step changes nothing an outcome depends on.
LEMMA SteerOutcomes ==
  ASSUME Sound, Outcomes, Steady, NEW e \in Edits, Steer(e)
  PROVE  Outcomes'
<1>1. /\ pc[e] = "steer" /\ pc'[e] = "stop" /\ \A x \in Edits \ {e} : pc'[x] = pc[x]
      /\ UNCHANGED <<row, rerun, cbs, job, deciding, docs>>
  BY DEF Steer, Goto, Sound, Typed, FlowTyped
<1>2. EditFits(e)
  BY DEF Outcomes
<1>3. Applying(e)' /\ Place(e)' /\ DecisionFits(e)'
  BY <1>1, <1>2 DEF Applying, EditFits, Place, DecisionFits, Late, cbs
<1>4. ChangesFit(e)' /\ ReportsFit(e)' /\ OneJob(e)'
  BY <1>1, <1>2, <1>3 DEF EditFits, ChangesFit, ReportsFit, OneJob, cbs, docs
<1>5. DriftFits(e)'
  BY <1>1, <1>2, DriftKeeps DEF EditFits, cbs, docs
<1>6. EditFits(e)'
  BY <1>3, <1>4, <1>5 DEF EditFits
<1>7. \A x \in Edits : EditFits(x)'
  BY <1>1, <1>6, ActorOnly DEF SameRow, cbs
<1>8. \A h \in Deciders : WonFits(h)'
  BY <1>1, WonKeeps DEF Late
<1> QED BY <1>7, <1>8 DEF Outcomes

LEMMA StopOutcomes ==
  ASSUME Sound, Outcomes, Steady, NEW e \in Edits, StopSession(e)
  PROVE  Outcomes'
<1>1. /\ pc[e] = "stop" /\ pc'[e] = "over" /\ decided'[e] = Off /\ applied'[e] = Off
      /\ UNCHANGED <<row, rerun, deciding, docs>>
      /\ \A x \in Edits \ {e} : /\ pc'[x] = pc[x] /\ decided'[x] = decided[x]
                                /\ applied'[x] = applied[x]
      /\ \A x \in Edits : job'[x] \in {job[x], NoJob}
  BY DEF StopSession, KillJobs, EndFlow, Goto, Sound, Typed, FlowTyped, RestTyped
<1>2. EditFits(e) /\ NoJob.at = "idle" /\ NoJob.updated = {}
  BY DEF Outcomes, NoJob
<1>3. Applying(e)' /\ Place(e)' /\ DecisionFits(e)'
  BY <1>1, <1>2 DEF Applying, EditFits, Place, DecisionFits, Late
<1>4. ChangesFit(e)' /\ ReportsFit(e)'
  BY <1>1, <1>2, <1>3 DEF EditFits, ChangesFit, ReportsFit, docs
<1>5. OneJob(e)'
  BY <1>1, <1>2 DEF EditFits, OneJob
<1>6. DriftFits(e)'
  BY <1>1, <1>2, DriftKeeps DEF EditFits, docs
<1>7. EditFits(e)'
  BY <1>3, <1>4, <1>5, <1>6 DEF EditFits
<1>8. \A x \in Edits : EditFits(x)'
  BY <1>1, <1>7, ActorOnly DEF SameRow
<1>9. \A h \in Deciders : WonFits(h)'
  BY <1>1, WonKeeps DEF Late
<1> QED BY <1>8, <1>9 DEF Outcomes

-----------------------------------------------------------------------------
(* The jobs. *)

\* A step of the job of edit e: what it rewrites or verifies is due for nobody else.
LEMMA JobOnly ==
  ASSUME Sound, Outcomes, Steady, NEW e \in Edits, EditFits(e)',
         UNCHANGED <<row, pc, rerun, decided, deciding>>,
         \A x \in Edits \ {e} : /\ job'[x] = job[x] /\ applied'[x] = applied[x]
                                /\ touched'[x] = touched[x] /\ due'[x] \subseteq due[x]
  PROVE  Outcomes'
<1>1. ASSUME NEW x \in Edits, x # e PROVE EditFits(x)'
  <2>1. EditFits(x)
    BY DEF Outcomes
  <2> QED BY <1>1, <2>1, Bystander DEF SameRow
<1>2. \A h \in Deciders : WonFits(h)'
  BY DEF Outcomes, WonFits, Verdict
<1> QED BY <1>1, <1>2 DEF Outcomes

LEMMA RewriteOutcomes ==
  ASSUME Sound, Outcomes, Steady, NEW e \in Edits, RewriteTarget(e)
  PROVE  Outcomes'
<1> DEFINE t == row[e].target
<1>1. /\ UNCHANGED <<rows, cbs, deciding>> /\ job[e].at = "target"
      /\ job'[e] = [job[e] EXCEPT !.at = "items", !.left = Below[t], !.clear = t]
      /\ touched'[e] = touched[e] \cup {t} /\ due'[e] = (due[e] \ {t}) \cup Below[t]
      /\ \A x \in Edits \ {e} : /\ job'[x] = job[x] /\ touched'[x] = touched[x]
                                /\ due'[x] = due[x] \ {t}
  BY DEF RewriteTarget, Sound, Typed, RestTyped
<1>2. /\ job'[e].at = "items" /\ job'[e].updated = job[e].updated /\ job'[e].todo = job[e].todo
      /\ job'[e].left = Below[t]
  BY <1>1 DEF Sound, Typed, RestTyped, Jobs
<1>3. UNCHANGED <<row, pc, rerun, decided, applied>>
  BY <1>1 DEF rows, cbs
<1>4. EditFits(e) /\ Applying(e)
  BY <1>1 DEF Outcomes, EditFits, ChangesFit, Clean, NoJob
<1>5. Applying(e)' /\ Place(e)' /\ DecisionFits(e)'
  BY <1>3, <1>4 DEF Applying, EditFits, Place, DecisionFits, Verdict
<1>6. ChangesFit(e)'
  <2>1. touched'[e] \subseteq {row'[e].target} \cup row'[e].approved
    BY <1>1, <1>3, <1>4 DEF EditFits, ChangesFit
  <2>2. due'[e] \subseteq Below[row'[e].target] /\ job'[e].todo \subseteq row'[e].approved
    BY <1>1, <1>2, <1>3, <1>4 DEF EditFits, ChangesFit
  <2> QED BY <1>2, <1>5, <2>1, <2>2 DEF ChangesFit
<1>7. ReportsFit(e)'
  BY <1>1, <1>2, <1>3, <1>4 DEF EditFits, ReportsFit
<1>8. e \notin rerun => applied[e] = Off /\ row[e].state # "SUCCEEDED" /\ pc[e] # "apply"
  BY <1>1, <1>4 DEF EditFits, OneJob, Clean, NoJob
<1>9. OneJob(e)'
  BY <1>3, <1>8 DEF OneJob
<1>10. DriftFits(e)'
  <2>1. due'[e] \subseteq job'[e].left
    BY <1>1, <1>2, <1>4 DEF EditFits, ChangesFit
  <2> QED BY <1>3, <1>8, <2>1 DEF DriftFits
<1>11. EditFits(e)'
  BY <1>5, <1>6, <1>7, <1>9, <1>10 DEF EditFits
<1> HIDE DEF t
<1> QED BY <1>1, <1>3, <1>11, JobOnly

\* A marker is set, or taken off a document that is due no longer.
LEMMA MarkOutcomes ==
  ASSUME Sound, Outcomes, Steady, NEW e \in Edits,
         ClearMarker(e) \/ \E d \in Docs : MarkDownstream(e, d)
  PROVE  Outcomes'
<1>1. /\ UNCHANGED <<row, pc, rerun, decided, applied, deciding, touched>>
      /\ \A x \in Edits : due'[x] \subseteq due[x]
      /\ \A x \in Edits \ {e} : job'[x] = job[x]
  <2>1. CASE ClearMarker(e)
    BY <2>1 DEF ClearMarker, rows, cbs, Sound, Typed, RestTyped
  <2>2. CASE \E d \in Docs : MarkDownstream(e, d)
    BY <2>2 DEF MarkDownstream, rows, cbs, Sound, Typed, RestTyped
  <2> QED BY <2>1, <2>2
<1>2. /\ job[e] # NoJob
      /\ job'[e].at = job[e].at /\ job'[e].updated = job[e].updated /\ job'[e].todo = job[e].todo
  <2>1. CASE ClearMarker(e)
    BY <2>1 DEF ClearMarker, NoJob, Sound, Typed, RestTyped, Jobs
  <2>2. CASE \E d \in Docs : MarkDownstream(e, d)
    BY <2>2 DEF MarkDownstream, NoJob, Sound, Typed, RestTyped, Jobs
  <2> QED BY <2>1, <2>2
<1>3. EditFits(e) /\ Applying(e) /\ job[e].at # "idle"
  BY <1>2 DEF Outcomes, EditFits, ChangesFit, Clean
<1>4. Applying(e)' /\ Place(e)' /\ DecisionFits(e)'
  BY <1>1, <1>3 DEF Applying, EditFits, Place, DecisionFits, Verdict
<1>5. ChangesFit(e)' /\ ReportsFit(e)'
  BY <1>1, <1>2, <1>3, <1>4 DEF EditFits, ChangesFit, ReportsFit
<1>6. OneJob(e)'
  BY <1>1, <1>2, <1>3 DEF EditFits, OneJob, Clean, NoJob
<1>7. DriftFits(e)'
  <2>1. CASE ClearMarker(e)
    <3>1. job'[e].left = job[e].left
      BY <2>1 DEF ClearMarker, Sound, Typed, RestTyped, Jobs
    <3> QED BY <1>1, <1>2, <1>3, <3>1, DriftKeeps DEF EditFits
  <2>2. ASSUME NEW d \in Docs, MarkDownstream(e, d)
        PROVE  DriftFits(e)'
    <3>1. /\ job[e].clear = Off /\ d \in stale' /\ UNCHANGED saving
          /\ job'[e].left = job[e].left \ {d}
          /\ \A x \in Edits : job'[x].clear = job[x].clear
      BY <2>2 DEF MarkDownstream, Sound, Typed, RestTyped, Jobs
    <3>2. d \in due'[e] => Marked(d)'
      <4>1. d \in due'[e] => ~ Clearing(d)
        BY <2>2 DEF MarkDownstream, Sound, Typed, RestTyped
      <4>2. Clearing(d)' => Clearing(d)
        BY <3>1 DEF Clearing
      <4> QED BY <3>1, <4>1, <4>2 DEF Marked
    <3>3. \A c \in due'[e] : Marked(c) => Marked(c)'
      BY <1>1 DEF Steady, Sound, Typed, RestTyped
    <3>4. ASSUME job'[e].at = "items", NEW c \in due'[e] \ job'[e].left
          PROVE  Marked(c)'
      <4>1. c # d => c \in due[e] \ job[e].left
        BY <1>1, <3>1, <3>4
      <4>2. c # d => Marked(c)
        BY <1>2, <1>3, <3>4, <4>1 DEF EditFits, DriftFits
      <4> QED BY <3>2, <3>3, <3>4, <4>2
    <3>5. e \notin rerun => applied'[e] = Off /\ row'[e].state # "SUCCEEDED"
      BY <1>1, <1>3 DEF EditFits, OneJob
    <3> QED BY <1>1, <3>4, <3>5 DEF DriftFits
  <2> QED BY <2>1, <2>2
<1>8. EditFits(e)'
  BY <1>4, <1>5, <1>6, <1>7 DEF EditFits
<1> QED BY <1>1, <1>8, JobOnly

\* An approved document is updated, verified or left by the job.
LEMMA ItemOutcomes ==
  ASSUME Sound, Outcomes, Steady, NEW e \in Edits, NEW d \in Docs, ApplyItem(e, d)
  PROVE  Outcomes'
<1>1. /\ UNCHANGED <<row, pc, rerun, decided, applied, deciding>>
      /\ job[e].at = "items" /\ d \in job[e].todo
  BY DEF ApplyItem, rows, cbs
<1>2. EditFits(e) /\ Applying(e)
  BY <1>1 DEF Outcomes, EditFits, ChangesFit, Clean, NoJob
<1>3. Applying(e)' /\ Place(e)' /\ DecisionFits(e)'
  BY <1>1, <1>2 DEF Applying, EditFits, Place, DecisionFits, Verdict
<1>4. PICK j \in {[job[e] EXCEPT !.todo = @ \ {d}],
                  [job[e] EXCEPT !.todo = @ \ {d}, !.clear = d],
                  [job[e] EXCEPT !.todo = @ \ {d}, !.updated = @ \cup {d}, !.clear = d]} :
        /\ job' = [job EXCEPT ![e] = j]
        /\ \/ UNCHANGED docs /\ j = [job[e] EXCEPT !.todo = @ \ {d}]
           \/ touched' = [touched EXCEPT ![e] = @ \cup {d}] /\ NoLongerDue(d)
  BY DEF ApplyItem, Sound, Typed, RestTyped
<1>5. /\ j.at = "items" /\ j.todo = job[e].todo \ {d} /\ j.left = job[e].left
      /\ \/ j.updated = job[e].updated
         \/ j.updated = job[e].updated \cup {d}
            /\ touched' = [touched EXCEPT ![e] = @ \cup {d}]
  <2>1. job[e] \in Jobs
    BY DEF Sound, Typed, RestTyped
  <2>2. [job[e] EXCEPT !.todo = @ \ {d}].updated = job[e].updated
    BY <2>1 DEF Jobs
  <2> QED BY <1>1, <1>4, <2>1, <2>2 DEF Jobs
<1>6. job'[e] = j /\ \A x \in Edits \ {e} : job'[x] = job[x]
  BY <1>4 DEF Sound, Typed, RestTyped
<1>7. /\ touched'[e] \in {touched[e], touched[e] \cup {d}}
      /\ j.updated # job[e].updated => touched'[e] = touched[e] \cup {d}
      /\ \A x \in Edits \ {e} : touched'[x] = touched[x]
      /\ \A x \in Edits : due'[x] \subseteq due[x]
  BY <1>4, <1>5 DEF NoLongerDue, docs, Sound, Typed, RestTyped
<1>8. ChangesFit(e)'
  <2>1. touched'[e] \subseteq {row'[e].target} \cup row'[e].approved
    BY <1>1, <1>2, <1>7 DEF EditFits, ChangesFit
  <2> QED BY <1>1, <1>2, <1>3, <1>5, <1>6, <1>7, <2>1 DEF EditFits, ChangesFit
<1>9. ReportsFit(e)'
  BY <1>1, <1>2, <1>5, <1>6, <1>7 DEF EditFits, ReportsFit
<1>10. OneJob(e)'
  BY <1>1, <1>2 DEF EditFits, OneJob, Clean, NoJob
<1>11. DriftFits(e)'
  BY <1>1, <1>2, <1>5, <1>6, <1>7, DriftKeeps DEF EditFits
<1>12. EditFits(e)'
  BY <1>3, <1>8, <1>9, <1>10, <1>11 DEF EditFits
<1> QED BY <1>1, <1>6, <1>7, <1>12, JobOnly

\* A report says what its job has updated.
LEMMA JobEndOutcomes ==
  ASSUME Sound, Outcomes, Steady, NEW e \in Edits, ApplyJobEnds(e)
  PROVE  Outcomes'
<1>1. /\ job[e].at # "idle" /\ UNCHANGED <<row, pc, rerun, decided, deciding, touched, due>>
      /\ \A x \in Edits \ {e} : job'[x] = job[x]
      /\ job'[e] = NoJob /\ job'[e].at = "idle" /\ job'[e].updated = {}
  BY DEF ApplyJobEnds, NoJob, rows, docs, Sound, Typed, RestTyped
<1>2. EditFits(e) /\ Applying(e)
  BY <1>1 DEF Outcomes, EditFits, ChangesFit, Clean, NoJob
<1>3. Applying(e)' /\ Place(e)' /\ DecisionFits(e)' /\ ChangesFit(e)'
  BY <1>1, <1>2 DEF Applying, EditFits, Place, DecisionFits, Verdict, ChangesFit
<1>4. /\ \A x \in Edits \ {e} : applied'[x] = applied[x]
      /\ \/ applied'[e] = applied[e]
         \/ /\ applied[e] = Off /\ pc[e] \in {"apply", "applySent"}
            /\ applied'[e].ok =>
                 /\ job[e].at = "items" /\ job[e].left = {}
                 /\ applied'[e].updated = job[e].updated
  BY DEF ApplyJobEnds, CompleteApply, Bad, Sound, Typed, RestTyped
<1>5. ReportsFit(e)'
  BY <1>1, <1>2, <1>4 DEF EditFits, ReportsFit
<1>6. OneJob(e)'
  BY <1>1, <1>2, <1>4 DEF EditFits, OneJob, Clean, NoJob
<1>7. DriftFits(e)'
  <2>1. CASE applied'[e] = applied[e]
    BY <1>1, <1>2, <2>1, DriftKeeps DEF EditFits
  <2>2. CASE applied'[e] # applied[e]
    <3>1. \A d \in due'[e] : Marked(d) => Marked(d)'
      BY <1>1 DEF Steady, Sound, Typed, RestTyped
    <3>2. applied'[e].ok => \A d \in due[e] : Marked(d)
      BY <1>2, <1>4, <2>2 DEF EditFits, DriftFits
    <3>3. e \notin rerun => row[e].state # "SUCCEEDED"
      BY <1>1, <1>2 DEF EditFits, OneJob
    <3> QED BY <1>1, <3>1, <3>2, <3>3 DEF DriftFits
  <2> QED BY <2>1, <2>2
<1>8. EditFits(e)'
  BY <1>3, <1>5, <1>6, <1>7 DEF EditFits
<1> QED BY <1>1, <1>4, <1>8, JobOnly

-----------------------------------------------------------------------------
(* The people, and the run. *)

\* What the plan job writes is not what the outcome depends on.
LEMMA PlanJobOutcomes ==
  ASSUME Sound, Outcomes, Steady, NEW e \in Edits, PlanJobEnds(e)
  PROVE  Outcomes'
<1>1. /\ UNCHANGED <<pc, rerun, decided, applied, job, deciding, docs>>
      /\ \A x \in Edits : SameRow(x)
  <2>1. UNCHANGED row \/ \E p \in sanitizePlan(e) : row' = [row EXCEPT ![e].plan = p]
    BY DEF PlanJobEnds
  <2>2. \A x \in Edits : SameRow(x)
    BY <2>1 DEF SameRow, Sound, Typed, FlowTyped, Rows
  <2> QED BY <2>2 DEF PlanJobEnds
<1>2. EditFits(e)'
  <2>1. EditFits(e) /\ due'[e] \subseteq due[e]
    BY <1>1 DEF Outcomes, docs
  <2> QED BY <1>1, <2>1, Bystander DEF docs
<1>3. \A x \in Edits : EditFits(x)'
  BY <1>1, <1>2, ActorOnly
<1>4. \A h \in Deciders : WonFits(h)'
  BY <1>1, WonKeeps DEF SameRow
<1> QED BY <1>3, <1>4 DEF Outcomes

\* The first of two decisions is written, the second finds the edit decided. One whose
\* retirement was not written may still be decided, for nobody.
LEMMA CloseOutcomes ==
  ASSUME Sound, Outcomes, Steady, NEW h \in Deciders, CloseDecision(h)
  PROVE  Outcomes'
<1> SUFFICES ASSUME NEW d \in Requests, d = deciding[h], NEW e \in Edits, e = d.edit
             PROVE  Outcomes'
  BY DEF CloseDecision, Requests, Sound, Typed, RestTyped
<1>1. ~ d.won /\ UNCHANGED <<pc, rerun, decided, applied, job, docs>>
  BY DEF CloseDecision, Requests, cbs, Sound, Typed, RestTyped
<1>2. EditFits(e)
  BY <1>1 DEF Outcomes
<1>3. CASE row[e].state = "AWAITING_APPROVAL"
  <2>1. /\ row'[e].state = Verdict(d) /\ row'[e].approved = d.approved
        /\ row'[e].target = row[e].target /\ row'[e].updated = row[e].updated
        /\ \A x \in Edits \ {e} : row'[x] = row[x]
        /\ deciding' = [deciding EXCEPT ![h].won = TRUE]
    BY <1>1, <1>3 DEF CloseDecision, Verdict, Sound, Typed, FlowTyped, Rows
  <2>2. /\ pc[e] \in {"park", "decide", "over"} /\ decided[e] = Off /\ Clean(e)
        /\ pc[e] = "park" => e \in rerun
    <3>1. pc[e] \in {"park", "decide", "over"} /\ (pc[e] = "park" => e \in rerun)
      BY <1>2, <1>3 DEF EditFits, Place, Sound, Typed, FlowTyped, FlowSteps
    <3>2. decided[e] = Off
      BY <1>2, <1>3, <3>1 DEF EditFits, DecisionFits, Verdict, Late
    <3> QED BY <1>2, <1>3, <3>1, <3>2 DEF EditFits, ChangesFit, Applying
  <2>3. Clean(e)' /\ decided'[e] = Off
    BY <1>1, <2>2 DEF Clean, docs
  <2>4. Place(e)' /\ row'[e].state # "SUCCEEDED"
    BY <1>1, <2>1, <2>2 DEF Place, Verdict
  <2>5. EditFits(e)'
    BY <1>1, <2>3, <2>4, CleanFits
  <2>6. \A x \in Edits : EditFits(x)'
    BY <1>1, <2>1, <2>5, ActorOnly DEF SameRow
  <2>7. ASSUME NEW k \in Deciders PROVE WonFits(k)'
    <3>1. CASE k = h
      <4>1. deciding'[h] = [d EXCEPT !.won = TRUE]
        BY <2>1 DEF Sound, Typed, RestTyped
      <4>2. deciding'[h].edit = e /\ deciding'[h].approved = d.approved
            /\ Verdict(deciding'[h]) = Verdict(d)
        BY <1>1, <4>1 DEF Requests, Verdict
      <4>3. Verdict(d) \notin {"NONE", "PLANNING", "AWAITING_APPROVAL"}
        BY DEF Verdict
      <4> QED BY <1>1, <2>1, <2>2, <3>1, <4>2, <4>3 DEF WonFits, Verdict, Late
    <3>2. CASE k # h
      <4>1. deciding'[k] = deciding[k] /\ WonFits(k)
        BY <2>1, <3>2 DEF Sound, Typed, RestTyped, Outcomes
      <4>2. deciding[k] # Off => deciding[k].edit \in Edits
        BY DEF Sound, Typed, RestTyped, Requests
      <4>3. deciding[k] # Off /\ deciding[k].won => deciding[k].edit # e
        BY <1>3, <4>1 DEF WonFits
      <4> QED BY <1>1, <2>1, <4>1, <4>2, <4>3 DEF WonFits, Verdict
    <3> QED BY <3>1, <3>2
  <2> QED BY <2>6, <2>7 DEF Outcomes
<1>4. CASE row[e].state # "AWAITING_APPROVAL"
  <2>1. UNCHANGED row /\ deciding' = [deciding EXCEPT ![h] = Off]
    BY <1>4 DEF CloseDecision
  <2>2. EditFits(e)'
    <3>1. due'[e] \subseteq due[e]
      BY <1>1 DEF docs
    <3> QED BY <1>1, <1>2, <2>1, <3>1, Bystander DEF SameRow, docs
  <2>3. \A x \in Edits : EditFits(x)'
    BY <1>1, <2>1, <2>2, ActorOnly DEF SameRow
  <2>4. ASSUME NEW k \in Deciders PROVE WonFits(k)'
    <3>1. WonFits(k) /\ (deciding'[k] = deciding[k] \/ deciding'[k] = Off)
      BY <2>1 DEF Sound, Typed, RestTyped, Outcomes
    <3> QED BY <1>1, <2>1, <3>1 DEF WonFits, Verdict
  <2> QED BY <2>3, <2>4 DEF Outcomes
<1> QED BY <1>3, <1>4

\* The flow is told the decision that won.
LEMMA SendOutcomes ==
  ASSUME Sound, Outcomes, Steady, NEW h \in Deciders, SendDecision(h)
  PROVE  Outcomes'
<1> SUFFICES ASSUME NEW d \in Requests, d = deciding[h], NEW e \in Edits, e = d.edit
             PROVE  Outcomes'
  BY DEF SendDecision, Requests, Sound, Typed, RestTyped
<1>1. /\ d # Off /\ d.won
      /\ UNCHANGED <<row, pc, rerun, applied, job, docs>>
      /\ deciding' = [deciding EXCEPT ![h] = Off]
  BY DEF SendDecision, Requests, rows, Sound, Typed, RestTyped
<1>2. WonFits(h) /\ EditFits(e)
  BY <1>1 DEF Outcomes
<1>3. /\ \A x \in Edits \ {e} : decided'[x] = decided[x]
      /\ \/ decided'[e] = decided[e]
         \/ /\ pc[e] \in {"park", "decide"}
            /\ decided'[e] = [verdict |-> d.verdict, approved |-> d.approved]
  BY <1>1 DEF SendDecision, Sound, Typed, RestTyped
<1>4. DecisionFits(e)'
  <2>1. CASE decided'[e] = decided[e]
    BY <1>1, <1>2, <2>1 DEF EditFits, DecisionFits, Verdict
  <2>2. CASE /\ pc[e] \in {"park", "decide"}
             /\ decided'[e] = [verdict |-> d.verdict, approved |-> d.approved]
    <3>1. row[e].approved = d.approved /\ row[e].state = Verdict(d)
      BY <1>1, <1>2, <2>2 DEF WonFits
    <3>2. decided'[e].approved = d.approved /\ Verdict(decided'[e]) = Verdict(d)
      BY <2>2 DEF Verdict
    <3> QED BY <1>1, <2>2, <3>1, <3>2 DEF DecisionFits, Verdict
  <2> QED BY <1>3, <2>1, <2>2
<1>5. EditFits(e)'
  <2>1. Place(e)' /\ ChangesFit(e)' /\ ReportsFit(e)' /\ OneJob(e)'
    BY <1>1, <1>2 DEF EditFits, Place, ChangesFit, ReportsFit, OneJob, Applying, Clean, docs
  <2>2. DriftFits(e)'
    BY <1>1, <1>2, DriftKeeps DEF EditFits, docs
  <2> QED BY <1>4, <2>1, <2>2 DEF EditFits
<1>6. \A x \in Edits : EditFits(x)'
  BY <1>1, <1>3, <1>5, ActorOnly DEF SameRow
<1>7. ASSUME NEW k \in Deciders PROVE WonFits(k)'
  <2>1. WonFits(k) /\ (deciding'[k] = deciding[k] \/ deciding'[k] = Off)
    BY <1>1 DEF Sound, Typed, RestTyped, Outcomes
  <2> QED BY <1>1, <2>1 DEF WonFits, Verdict
<1> QED BY <1>6, <1>7 DEF Outcomes

\* A step of the run, of a save or of a person ends jobs and what is due only.
LEMMA OthersKeepOutcomes ==
  ASSUME Sound, Outcomes, Steady, UNCHANGED <<row, pc, rerun, decided, applied, touched>>,
         \A e \in Edits : job'[e] = job[e] \/ job'[e] = NoJob,
         \A h \in Deciders : \/ deciding'[h] = deciding[h]
                             \/ deciding'[h] # Off => ~ deciding'[h].won,
         \A e \in Edits : due'[e] \subseteq due[e]
  PROVE  Outcomes'
<1>1. ASSUME NEW e \in Edits PROVE EditFits(e)'
  <2>1. EditFits(e)
    BY DEF Outcomes
  <2> QED BY <2>1, Bystander DEF SameRow
<1>2. ASSUME NEW h \in Deciders PROVE WonFits(h)'
  <2>1. WonFits(h)
    BY DEF Outcomes
  <2> QED BY <2>1 DEF WonFits, Verdict
<1> QED BY <1>1, <1>2 DEF Outcomes

LEMMA AskOutcomes ==
  ASSUME Sound, Outcomes, Steady, NEW h \in Deciders, NEW e \in Edits, OpenDecision(h, e)
  PROVE  Outcomes'
<1>1. /\ UNCHANGED <<row, pc, rerun, decided, applied, touched, job, due>>
      /\ \A k \in Deciders : \/ deciding'[k] = deciding[k]
                             \/ deciding'[k] # Off => ~ deciding'[k].won
  BY DEF OpenDecision, rows, cbs, docs, Sound, Typed, RestTyped
<1> QED BY <1>1, OthersKeepOutcomes

LEMMA RunOutcomes ==
  ASSUME Sound, Outcomes, Steady,
         ParkRun \/ EndRun \/ Relaunch \/ AskRun \/ GoRun \/ ContainerDies
  PROVE  Outcomes'
<1>1. UNCHANGED <<row, pc, rerun, decided, applied, touched, deciding, due>>
  BY DEF ParkRun, EndRun, Relaunch, SetRun, AskRun, GoRun, ContainerDies, rows, cbs, docs
<1>2. \A e \in Edits : job'[e] = job[e] \/ job'[e] = NoJob
  BY DEF ParkRun, EndRun, Relaunch, SetRun, AskRun, GoRun, ContainerDies, KillJobs
<1> QED BY <1>1, <1>2, OthersKeepOutcomes

LEMMA SaveOutcomes ==
  ASSUME Sound, Outcomes, Steady, NEW h \in Editors,
         \/ WriteSave(h) \/ ClearSave(h) \/ MarkSave(h)
         \/ \E d \in Docs : StartSave(h, d) \/ VerifyArtifact(h, d)
  PROVE  Outcomes'
<1>1. UNCHANGED <<row, pc, rerun, decided, applied, touched, job, deciding>>
  BY DEF WriteSave, ClearSave, MarkSave, StartSave, VerifyArtifact, rows, cbs, docs
<1>2. \A e \in Edits : due'[e] \subseteq due[e]
  BY DEF WriteSave, ClearSave, MarkSave, StartSave, VerifyArtifact, NoLongerDue, docs
<1> QED BY <1>1, <1>2, OthersKeepOutcomes

-----------------------------------------------------------------------------
LEMMA OutcomesInit == Init => Outcomes
<1> SUFFICES ASSUME Init PROVE Outcomes
  OBVIOUS
<1>1. ASSUME NEW e \in Edits PROVE EditFits(e)
  <2>1. Clean(e) /\ Place(e) /\ decided[e] = Off /\ row[e].state = "NONE"
    BY DEF Init, Clean, Place, NoRow
  <2>2. job[e].at = "idle" /\ job[e].updated = {}
    BY DEF Init, NoJob
  <2> QED BY <2>1, <2>2 DEF EditFits, Clean, DecisionFits, ChangesFit, ReportsFit, OneJob, DriftFits
<1> QED BY <1>1 DEF Init, Outcomes, WonFits

LEMMA OutcomesStep ==
  ASSUME Sound, Outcomes, [Next]_vars
  PROVE  Outcomes'
<1>1. Steady
  BY MarksLast
<1>2. ASSUME NEW e \in Edits, Flow(e) PROVE Outcomes'
  <2>1. CASE DispatchApply(e)
    <3>1. FailEdit(e) => pc[e] = "apply" /\ (UNCHANGED job => Outcomes')
      BY <1>1, <2>1, FailOutcomes DEF DispatchApply
    <3>2. FailEdit(e) => UNCHANGED job
      BY <2>1 DEF DispatchApply, FailEdit, Advance, EndFlow, Goto, Sound, Typed, FlowTyped
    <3> QED BY <1>1, <2>1, <3>1, <3>2, DispatchOutcomes
  <2>2. CASE ApplyArrives(e)
    <3>1. FailEdit(e) => Outcomes'
      BY <1>1, <2>2, FailOutcomes DEF ApplyArrives
    <3> QED BY <1>1, <2>2, <3>1, ReportOutcomes
  <2> QED BY <1>1, <1>2, <2>1, <2>2, PlanningOutcomes, DecisionOutcomes, SteerOutcomes,
             StopOutcomes DEF Flow
<1>3. CASE UNCHANGED vars
  BY <1>1, <1>3, OthersKeepOutcomes DEF vars, rows, cbs, docs
<1> QED BY <1>1, <1>2, <1>3, OpeningOutcomes, PlanJobOutcomes, RewriteOutcomes, MarkOutcomes,
           ItemOutcomes, JobEndOutcomes, CloseOutcomes, SendOutcomes, AskOutcomes, SaveOutcomes,
           RunOutcomes DEF Next

LEMMA OutcomesAlways == Spec => [](Sound /\ Outcomes)
<1>1. Sound /\ Outcomes /\ [Next]_vars => (Sound /\ Outcomes)'
  BY TypedStep, OutcomesStep DEF Sound
<1>2. Init => Sound /\ Outcomes
  BY TypedInit, OutcomesInit DEF Sound
<1> QED BY <1>1, <1>2, PTL DEF Spec

\* Only what was approved is changed, however decisions, expiries and repeated steps
\* interleave.
THEOREM ApprovalIsKept == Spec => []OnlyApprovedChanges
<1>1. Outcomes => OnlyApprovedChanges
  BY DEF Outcomes, EditFits, ChangesFit, Clean, Applying, OnlyApprovedChanges
<1> QED BY <1>1, OutcomesAlways, PTL

\* The state an edit ended in stays.
LEMMA VerdictKeeps ==
  ASSUME Sound, Outcomes, [Next]_vars, NEW e \in Edits \ rerun, row[e].state \in Terminal
  PROVE  row'[e].state = row[e].state
<1>1. /\ pc[e] \in {"plan", "planSent", "park"} => row[e].state = "FAILED"
      /\ pc[e] \notin {"idle", "checked", "stored", "apply", "applySent"}
  BY DEF Outcomes, EditFits, Place, Terminal
<1>2. ASSUME NEW x \in Edits,
             \/ AskEdit(x) \/ HandOff(x) \/ Flow(x)
             \/ \E t \in Targets : StoreEdit(x, t)
      PROVE  row'[e].state = row[e].state
  <2>1. CASE x # e
    BY <1>2, <2>1 DEF AskEdit, HandOff, StoreEdit, Flow, DispatchPlan, PlanArrives, AwaitApproval,
                      DecisionArrives, DecisionTimesOut, DispatchApply, ApplyArrives, Steer,
                      StopSession, FailEdit, WriteEnd, Sound, Typed, FlowTyped
  <2>2. CASE x = e
    BY <1>1, <1>2, <2>2
    DEF AskEdit, HandOff, StoreEdit, Flow, DispatchPlan, PlanArrives, AwaitApproval,
        DecisionArrives, DecisionTimesOut, DispatchApply, ApplyArrives, Steer, StopSession,
        FailEdit, WriteEnd, Ended, Terminal, Sound, Typed, FlowTyped, Rows
  <2> QED BY <2>1, <2>2
<1>3. ASSUME NEW x \in Edits, PlanJobEnds(x)
      PROVE  row'[e].state = row[e].state
  <2>1. UNCHANGED row \/ \E p \in sanitizePlan(x) : row' = [row EXCEPT ![x].plan = p]
    BY <1>3 DEF PlanJobEnds
  <2> QED BY <2>1 DEF Sound, Typed, FlowTyped, Rows
<1>4. ASSUME NEW h \in Deciders, CloseDecision(h)
      PROVE  row'[e].state = row[e].state
  BY <1>4 DEF CloseDecision, Terminal, Sound, Typed, FlowTyped, Rows
<1>5. CASE UNCHANGED row
  BY <1>5
<1>6. ASSUME NEW x \in Edits,
             \/ RewriteTarget(x) \/ ClearMarker(x) \/ ApplyJobEnds(x)
             \/ \E d \in Docs : MarkDownstream(x, d) \/ ApplyItem(x, d)
      PROVE  UNCHANGED row
  BY <1>6 DEF RewriteTarget, ClearMarker, MarkDownstream, ApplyJobEnds, ApplyItem, rows
<1>7. ASSUME NEW h \in Deciders, SendDecision(h) \/ \E x \in Edits : OpenDecision(h, x)
      PROVE  UNCHANGED row
  BY <1>7 DEF SendDecision, OpenDecision, rows
<1>8. ASSUME NEW h \in Editors,
             \/ WriteSave(h) \/ ClearSave(h) \/ MarkSave(h)
             \/ \E d \in Docs : StartSave(h, d) \/ VerifyArtifact(h, d)
      PROVE  UNCHANGED row
  BY <1>8 DEF WriteSave, ClearSave, MarkSave, StartSave, VerifyArtifact, rows
<1>9. ASSUME ParkRun \/ EndRun \/ Relaunch \/ AskRun \/ GoRun \/ ContainerDies
      PROVE  UNCHANGED row
  BY <1>9 DEF ParkRun, EndRun, Relaunch, SetRun, AskRun, GoRun, ContainerDies, rows
<1> QED BY <1>2, <1>3, <1>4, <1>5, <1>6, <1>7, <1>8, <1>9 DEF Next, vars, rows

\* Two people, the expiry, the flow and its failures agree on one end of an edit.
THEOREM VerdictsStand == Spec => VerdictStands
<1>1. Sound /\ Outcomes /\ [Next]_vars =>
        [\A e \in Edits \ rerun :
           row[e].state \in Terminal => row'[e].state = row[e].state]_vars
  BY VerdictKeeps
<1> QED BY <1>1, OutcomesAlways, PTL DEF Spec, VerdictStands

\* What is reported as updated was rewritten.
THEOREM ReportsAreTrue == Spec => []ReportIsTrue
<1>1. Outcomes => ReportIsTrue
  BY DEF Outcomes, EditFits, ReportsFit, ReportIsTrue
<1> QED BY <1>1, OutcomesAlways, PTL

\* What lies below the target of a successful edit and has had no other writer since
\* the edit marked it is marked: no late removal of a marker takes that one off.
THEOREM DriftStaysMarked == Spec => []DriftIsMarked
<1>1. Outcomes => DriftIsMarked
  BY DEF Outcomes, EditFits, DriftFits, Marked, DriftIsMarked
<1> QED BY <1>1, OutcomesAlways, PTL

=============================================================================
