-------------------------- MODULE QuorumEditProofs --------------------------
(***************************************************************************)
(* Proofs about QuorumEdit, for every set of documents, edits and people.  *)
(***************************************************************************)
EXTENDS QuorumEdit, TLAPS

Rows == [state : RowStates, target : Docs \cup {Off}, plan : Plans \cup {Off},
         approved : SUBSET Docs, updated : SUBSET Docs]
Jobs == [at : JobSteps, plan : Plans \cup {Off}, left : SUBSET Docs, todo : SUBSET Docs,
         updated : SUBSET Docs, clear : Docs \cup {Off}]

\* A plan is one for the target, and is there when people are asked about it.
PlanFits(r) ==
  /\ r.plan # Off => r.target # Off /\ DOMAIN r.plan = Below[r.target]
  /\ r.state = "AWAITING_APPROVAL" => r.plan \in Plans

Begun(e) == pc[e] \notin {"idle", "checked"}

\* An edit has a target once its row is stored, and a plan callback brings a plan
\* of what is below it.
TargetFits(e) ==
  /\ ~ Begun(e) => /\ row[e] = NoRow /\ planned[e] = Off
                /\ e \notin planJob /\ job[e].at = "idle"
  /\ Begun(e) => row[e].target \in Docs
  /\ planned[e] # Off /\ planned[e].ok => planned[e].plan \in sanitizePlan(e)
  /\ pc[e] = "park" => planned[e] # Off /\ planned[e].ok

\* The types, in two groups: what the flow of an edit reads and writes, the rest.
FlowTyped ==
  /\ row \in [Edits -> Rows]
  /\ \A e \in Edits : PlanFits(row[e]) /\ TargetFits(e)
  /\ pc \in [Edits -> FlowSteps]
  /\ planned \in [Edits -> {Off} \cup Proposals]
  /\ planJob \subseteq Edits

RestTyped ==
  /\ events \in 0..MaxEvents
  /\ run \in {"RUNNING", "WAITING", "DONE"}
  /\ asking \in BOOLEAN
  /\ rerun \subseteq Edits
  /\ lost \subseteq Edits
  /\ decided \in [Edits -> {Off} \cup Decisions]
  /\ applied \in [Edits -> {Off} \cup Reports]
  /\ job \in [Edits -> Jobs]
  /\ deciding \in [Deciders -> {Off} \cup Requests]
  /\ saving \in [Editors -> {Off} \cup Saves]
  /\ stale \subseteq Docs
  /\ touched \in [Edits -> SUBSET Docs]
  /\ due \in [Edits -> SUBSET Docs]

Typed == FlowTyped /\ RestTyped

\* What is about to be applied was decided.
Decided == \A e \in Edits : pc[e] = "apply" => decided[e] # Off

LEMMA TypedTypeOK == Typed => TypeOK
BY DEF Typed, FlowTyped, RestTyped, PlanFits, TypeOK, Rows, Jobs

-----------------------------------------------------------------------------
(* The types. *)

LEMMA PlansOfTarget ==
  ASSUME NEW e \in Edits, row[e].target \in Docs
  PROVE  /\ sanitizePlan(e) \subseteq Plans
         /\ \A p \in sanitizePlan(e) : DOMAIN p = Below[row[e].target]
BY GraphAssumption DEF sanitizePlan, Plans

\* A step of edit e that writes its row, its place and its plan callback.
LEMMA EditKeepsFlow ==
  ASSUME FlowTyped, NEW e \in Edits, NEW r \in Rows, NEW step \in FlowSteps,
         NEW p \in {Off} \cup Proposals,
         row' = [row EXCEPT ![e] = r], pc' = [pc EXCEPT ![e] = step],
         planned' = [planned EXCEPT ![e] = p], planJob' \subseteq planJob \cup {e},
         \A x \in Edits \ {e} : job'[x].at # "idle" => job[x].at # "idle",
         PlanFits(r), step \notin {"idle", "checked"}, r.target \in Docs,
         p # Off /\ p.ok => p.plan \in [Below[r.target] -> {"update", "verify"}],
         step = "park" => p # Off /\ p.ok
  PROVE  FlowTyped'
<1>1. \A x \in Edits : PlanFits(row'[x])
  BY DEF FlowTyped
<1>2. ASSUME NEW x \in Edits PROVE TargetFits(x)'
  <2>1. CASE x = e
    BY <2>1 DEF FlowTyped, TargetFits, Begun, sanitizePlan
  <2>2. CASE x # e
    <3>1. row'[x] = row[x] /\ pc'[x] = pc[x] /\ planned'[x] = planned[x]
          /\ (x \in planJob' => x \in planJob) /\ (job'[x].at # "idle" => job[x].at # "idle")
      BY <2>2 DEF FlowTyped
    <3>2. TargetFits(x)
      BY DEF FlowTyped
    <3> QED BY <3>1, <3>2 DEF TargetFits, Begun, sanitizePlan
  <2> QED BY <2>1, <2>2
<1>3. PlanFits(r)' = PlanFits(r)
  BY DEF PlanFits
<1> QED BY <1>1, <1>2 DEF FlowTyped, PlanFits

\* A step that leaves the target and the plan alone.
LEMMA StepKeepsFlow ==
  ASSUME FlowTyped, NEW e \in Edits, Begun(e), NEW step \in FlowSteps, NEW state \in RowStates,
         \/ UNCHANGED row
         \/ row' = [row EXCEPT ![e] = [row[e] EXCEPT !.state = state]],
         state = "AWAITING_APPROVAL" => row[e].state = state,
         pc' = [pc EXCEPT ![e] = step], step \notin {"idle", "checked"},
         \/ UNCHANGED planned
         \/ planned' = [planned EXCEPT ![e] = Off] /\ step # "park",
         step = "park" => planned[e] # Off /\ planned[e].ok,
         planJob' \subseteq planJob \cup {e},
         \A x \in Edits \ {e} : job'[x].at # "idle" => job[x].at # "idle"
  PROVE  FlowTyped'
<1>1. \E r \in Rows :
        /\ row' = [row EXCEPT ![e] = r]
        /\ r.target = row[e].target /\ r.plan = row[e].plan
        /\ r.state = "AWAITING_APPROVAL" => row[e].state = r.state
  BY DEF FlowTyped, Rows
<1>2. \E p \in {Off} \cup Proposals :
        /\ planned' = [planned EXCEPT ![e] = p]
        /\ p # Off => p = planned[e]
        /\ step = "park" => p # Off
  BY DEF FlowTyped
<1>3. PICK r \in Rows :
        /\ row' = [row EXCEPT ![e] = r]
        /\ r.target = row[e].target /\ r.plan = row[e].plan
        /\ r.state = "AWAITING_APPROVAL" => row[e].state = r.state
  BY <1>1
<1>4. PICK p \in {Off} \cup Proposals :
        /\ planned' = [planned EXCEPT ![e] = p]
        /\ p # Off => p = planned[e]
        /\ step = "park" => p # Off
  BY <1>2
<1>5. PlanFits(row[e]) /\ TargetFits(e)
  BY DEF FlowTyped
<1>6. PlanFits(r)
  BY <1>3, <1>5 DEF PlanFits
<1>7. p # Off /\ p.ok => p.plan \in [Below[r.target] -> {"update", "verify"}]
  BY <1>3, <1>4, <1>5 DEF TargetFits, sanitizePlan
<1>8. r.target \in Docs /\ (step = "park" => p # Off /\ p.ok)
  BY <1>3, <1>4, <1>5 DEF TargetFits
<1> QED BY <1>3, <1>4, <1>6, <1>7, <1>8, EditKeepsFlow

\* A step that leaves all that alone, but may end plan jobs.
LEMMA OthersKeepFlow ==
  ASSUME FlowTyped, UNCHANGED <<row, pc, planned>>, planJob' \subseteq planJob,
         \A x \in Edits : job'[x].at # "idle" => job[x].at # "idle"
  PROVE  FlowTyped'
BY DEF FlowTyped, PlanFits, TargetFits, Begun, sanitizePlan

\* An end reaches the row, or it does not.
LEMMA EndWritten ==
  ASSUME Typed, NEW e \in Edits, NEW end, WriteEnd(e, end)
  PROVE  /\ lost' \subseteq Edits /\ events' \in 0..MaxEvents
         /\ UNCHANGED row \/ row' = [row EXCEPT ![e] = end]
BY BoundAssumption DEF WriteEnd, Event, Typed, RestTyped

LEMMA AdvanceTyped ==
  ASSUME Typed, NEW e \in Edits, NEW step \in FlowSteps, Advance(e, step)
  PROVE  /\ rerun' \subseteq Edits /\ events' \in 0..MaxEvents
         /\ \E at \in {step, pc[e]} : pc' = [pc EXCEPT ![e] = at]
BY BoundAssumption DEF Advance, Goto, Event, Typed, RestTyped, FlowTyped

\* The requests that open an edit.
LEMMA OpeningTyped ==
  ASSUME Typed, NEW e \in Edits,
         AskEdit(e) \/ (\E t \in Targets : StoreEdit(e, t)) \/ HandOff(e)
  PROVE  Typed'
<1>1. CASE AskEdit(e)
  <2>1. RestTyped'
    BY <1>1, BoundAssumption DEF AskEdit, Event, docs, cbs, Typed, RestTyped
  <2>2. pc' = [pc EXCEPT ![e] = "checked"] /\ UNCHANGED <<row, planned, planJob, job>>
    BY <1>1 DEF AskEdit, Goto, cbs
  <2>3. \A x \in Edits : Begun(x)' = Begun(x)
    BY <1>1, <2>2 DEF AskEdit, Begun, Typed, FlowTyped
  <2>4. \A x \in Edits : pc'[x] = "park" => pc[x] = "park"
    BY <2>2 DEF Typed, FlowTyped
  <2>5. \A x \in Edits : TargetFits(x)'
    BY <2>2, <2>3, <2>4 DEF Typed, FlowTyped, TargetFits, sanitizePlan
  <2> QED BY <2>1, <2>2, <2>5 DEF Typed, FlowTyped, PlanFits, FlowSteps
<1>2. ASSUME NEW t \in Targets, StoreEdit(e, t) PROVE Typed'
  <2>1. RestTyped'
    BY <1>2 DEF StoreEdit, docs, cbs, Typed, RestTyped
  <2>2. row[e] = NoRow /\ planned[e] = Off
    BY <1>2 DEF StoreEdit, Typed, FlowTyped, TargetFits, Begun
  <2> DEFINE r == [NoRow EXCEPT !.state = "PLANNING", !.target = t]
  <2>3. r \in Rows /\ PlanFits(r) /\ r.target \in Docs
    BY TargetsAssumption DEF NoRow, Rows, RowStates, PlanFits
  <2>4. row' = [row EXCEPT ![e] = r]
    BY <1>2, <2>2 DEF StoreEdit, Typed, FlowTyped
  <2>5. /\ pc' = [pc EXCEPT ![e] = "stored"]
        /\ planned' = [planned EXCEPT ![e] = Off]
        /\ UNCHANGED <<planJob, job>>
    BY <1>2, <2>2 DEF StoreEdit, Goto, cbs, Typed, FlowTyped
  <2>6. "stored" \in FlowSteps
    BY DEF FlowSteps
  <2> HIDE DEF r
  <2>7. FlowTyped'
    BY <2>3, <2>4, <2>5, <2>6, ~(Off # Off), EditKeepsFlow DEF Typed
  <2> QED BY <2>1, <2>7 DEF Typed
<1>3. CASE HandOff(e)
  <2>1. PICK step \in {"plan", "over"} :
          /\ Goto(e, step)
          /\ UNCHANGED <<row, lost, events>> \/ WriteEnd(e, Ended(e, "FAILED"))
    BY <1>3 DEF HandOff
  <2>2. /\ lost' \subseteq Edits /\ events' \in 0..MaxEvents
        /\ UNCHANGED row \/ row' = [row EXCEPT ![e] = [row[e] EXCEPT !.state = "FAILED"]]
    BY <2>1, EndWritten DEF Ended, Typed, RestTyped
  <2>3. /\ UNCHANGED <<planned, planJob, job>> /\ Begun(e)
        /\ "FAILED" \in RowStates /\ step \in FlowSteps /\ pc' = [pc EXCEPT ![e] = step]
    BY <1>3, <2>1 DEF HandOff, cbs, Begun, RowStates, Terminal, FlowSteps, Goto
  <2>4. FlowTyped'
    BY <2>1, <2>2, <2>3, StepKeepsFlow DEF Typed
  <2>5. RestTyped'
    BY <1>3, <2>2 DEF HandOff, docs, cbs, Typed, RestTyped
  <2> QED BY <2>4, <2>5 DEF Typed
<1> QED BY <1>1, <1>2, <1>3

\* The flow fails an edit, wherever it is.
LEMMA FailTyped ==
  ASSUME Typed, NEW e \in Edits, Begun(e), FailEdit(e), planJob' \subseteq planJob,
         \A x \in Edits : job'[x].at # "idle" => job[x].at # "idle"
  PROVE  /\ FlowTyped'
         /\ rerun' \subseteq Edits /\ lost' \subseteq Edits /\ events' \in 0..MaxEvents
         /\ decided' \in [Edits -> {Off} \cup Decisions]
         /\ applied' \in [Edits -> {Off} \cup Reports]
<1>1. /\ UNCHANGED row \/ row' = [row EXCEPT ![e] = [row[e] EXCEPT !.state = "FAILED"]]
      /\ lost' \subseteq Edits /\ events' \in 0..MaxEvents
      /\ pc' = [pc EXCEPT ![e] = "over"]
      /\ planned' = [planned EXCEPT ![e] = Off]
  BY EndWritten DEF FailEdit, Ended, EndFlow, Goto
<1>2. "FAILED" \in RowStates /\ "over" \in FlowSteps
  BY DEF RowStates, Terminal, FlowSteps
<1>3. planJob' \subseteq planJob \cup {e} /\ FlowTyped
  BY DEF Typed
<1>4. FlowTyped'
  <2>1. CASE UNCHANGED row
    <3>1. row[e].state \in RowStates
      BY <1>3 DEF FlowTyped, Rows
    <3> QED BY <1>1, <1>2, <1>3, <2>1, <3>1, StepKeepsFlow
  <2>2. CASE row' = [row EXCEPT ![e] = [row[e] EXCEPT !.state = "FAILED"]]
    BY <1>1, <1>2, <1>3, <2>2, StepKeepsFlow
  <2> QED BY <1>1, <2>1, <2>2
<1> QED BY <1>1, <1>4 DEF FailEdit, EndFlow, Typed, RestTyped

\* The flow goes on, in a way that leaves its row alone.
LEMMA AdvanceKeepsFlow ==
  ASSUME Typed, NEW e \in Edits, Begun(e), NEW step \in FlowSteps \ {"idle", "checked", "park"},
         Advance(e, step), pc[e] # "park", UNCHANGED <<row, planned>>,
         planJob' \subseteq planJob \cup {e},
         \A x \in Edits \ {e} : job'[x].at # "idle" => job[x].at # "idle"
  PROVE  FlowTyped'
<1>1. PICK at \in {step, pc[e]} : pc' = [pc EXCEPT ![e] = at]
  BY AdvanceTyped
<1>2. at \in FlowSteps \ {"idle", "checked", "park"} /\ row[e].state \in RowStates
  BY <1>1 DEF Begun, Typed, FlowTyped, Rows
<1> QED BY <1>1, <1>2, StepKeepsFlow DEF Typed

LEMMA PlanningTyped ==
  ASSUME Typed, NEW e \in Edits, DispatchPlan(e) \/ PlanArrives(e) \/ AwaitApproval(e)
  PROVE  Typed'
<1>1. CASE DispatchPlan(e)
  <2>1. Begun(e) /\ pc[e] # "park" /\ UNCHANGED job
    BY <1>1 DEF DispatchPlan, Begun
  <2>2. CASE FailEdit(e) /\ UNCHANGED planJob
    BY <1>1, <2>1, <2>2, FailTyped DEF DispatchPlan, docs, Typed, RestTyped
  <2>3. CASE /\ planJob' = planJob \cup {e} /\ Advance(e, "planSent")
             /\ UNCHANGED <<row, lost, cbs>>
    <3>1. "planSent" \in FlowSteps
      BY DEF FlowSteps
    <3>2. FlowTyped'
      BY <2>1, <2>3, <3>1, AdvanceKeepsFlow DEF cbs
    <3> QED BY <1>1, <2>3, <3>1, <3>2, AdvanceTyped DEF DispatchPlan, docs, cbs, Typed, RestTyped
  <2> QED BY <1>1, <2>2, <2>3 DEF DispatchPlan
<1>2. CASE PlanArrives(e)
  <2>1. Begun(e) /\ UNCHANGED <<planJob, job>>
    BY <1>2 DEF PlanArrives, Begun
  <2>2. CASE FailEdit(e)
    BY <1>2, <2>1, <2>2, FailTyped DEF PlanArrives, docs, Typed, RestTyped
  <2>3. CASE /\ planned[e] # Off /\ planned[e].ok
             /\ Goto(e, "park") /\ UNCHANGED <<rerun, lost, row, events, cbs>>
    <3>1. "park" \in FlowSteps /\ row[e].state \in RowStates
      BY DEF FlowSteps, Typed, FlowTyped, Rows
    <3>2. FlowTyped'
      BY <2>1, <2>3, <3>1, StepKeepsFlow DEF Goto, cbs, Typed
    <3> QED BY <1>2, <2>3, <3>2 DEF PlanArrives, docs, cbs, Typed, RestTyped
  <2> QED BY <1>2, <2>2, <2>3 DEF PlanArrives
<1>3. CASE AwaitApproval(e)
  <2>1. Begun(e) /\ UNCHANGED <<planJob, job>>
    BY <1>3 DEF AwaitApproval, Begun
  <2>2. CASE FailEdit(e)
    BY <1>3, <2>1, <2>2, FailTyped DEF AwaitApproval, docs, Typed, RestTyped
  <2>3. CASE ~ FailEdit(e)
    <3> DEFINE p == planned[e]
               r == [row[e] EXCEPT !.state = "AWAITING_APPROVAL", !.plan = p.plan]
    <3>1. row' = [row EXCEPT ![e] = r] /\ Advance(e, "decide") /\ UNCHANGED <<lost, cbs>>
      BY <1>3, <2>3 DEF AwaitApproval, Typed, FlowTyped
    <3>2. pc[e] = "park" /\ TargetFits(e) /\ row[e] \in Rows
      BY <1>3 DEF AwaitApproval, Typed, FlowTyped
    <3>3. row[e].target \in Docs /\ p # Off /\ p.ok /\ p.plan \in sanitizePlan(e)
      BY <2>1, <3>2 DEF TargetFits
    <3>4. p.plan \in Plans /\ DOMAIN p.plan = Below[row[e].target]
      BY <3>3, PlansOfTarget
    <3>5. r \in Rows /\ PlanFits(r) /\ r.target = row[e].target
      BY <3>2, <3>3, <3>4, SlotAssumption DEF Rows, RowStates, PlanFits
    <3>6. p.plan \in [Below[r.target] -> {"update", "verify"}]
      BY <3>3, <3>5 DEF sanitizePlan
    <3>7. PICK at \in {"decide", "park"} : pc' = [pc EXCEPT ![e] = at]
      BY <3>1, <3>2, AdvanceTyped DEF FlowSteps
    <3>8. at \in FlowSteps /\ planned' = [planned EXCEPT ![e] = p]
          /\ p \in {Off} \cup Proposals
      BY <3>1 DEF FlowSteps, cbs, Typed, FlowTyped
    <3> HIDE DEF r, p
    <3>9. FlowTyped'
      BY <2>1, <3>1, <3>3, <3>5, <3>6, <3>7, <3>8, EditKeepsFlow DEF Typed
    <3> QED BY <1>3, <3>1, <3>9, AdvanceTyped
            DEF AwaitApproval, docs, cbs, FlowSteps, Typed, RestTyped
  <2> QED BY <2>2, <2>3
<1> QED BY <1>1, <1>2, <1>3

\* The flow ends without a failure, or goes on from where its decision is awaited.
LEMMA DecisionTyped ==
  ASSUME Typed, NEW e \in Edits, DecisionArrives(e) \/ DecisionTimesOut(e)
  PROVE  Typed'
<1>1. /\ Begun(e)
      /\ UNCHANGED <<planJob, job, run, asking, rerun, deciding, saving, docs>>
  BY DEF DecisionArrives, DecisionTimesOut, Begun
<1>2. row[e].state \in RowStates /\ {"CANCELLED"} \subseteq RowStates
      /\ {"over", "apply"} \subseteq FlowSteps
  BY DEF RowStates, Terminal, FlowSteps, Typed, FlowTyped, Rows
<1>3. CASE /\ EndFlow(e)
           /\ UNCHANGED <<row, lost, events>> \/ WriteEnd(e, Ended(e, "CANCELLED"))
  <2>1. /\ pc' = [pc EXCEPT ![e] = "over"]
        /\ planned' = [planned EXCEPT ![e] = Off]
        /\ lost' \subseteq Edits /\ events' \in 0..MaxEvents
        /\ UNCHANGED row \/ row' = [row EXCEPT ![e] = [row[e] EXCEPT !.state = "CANCELLED"]]
    BY <1>3, EndWritten DEF EndFlow, Goto, Ended, Typed, RestTyped
  <2>2. FlowTyped'
    BY <1>1, <1>2, <2>1, StepKeepsFlow DEF Typed
  <2>3. RestTyped'
    BY <1>1, <1>3, <2>1 DEF EndFlow, docs, Typed, RestTyped
  <2> QED BY <2>2, <2>3 DEF Typed
<1>4. CASE Goto(e, "apply") /\ UNCHANGED <<cbs, row, lost, events>>
  <2>1. FlowTyped'
    BY <1>1, <1>2, <1>4, StepKeepsFlow DEF Goto, cbs, Typed
  <2>2. RestTyped'
    BY <1>1, <1>4 DEF docs, cbs, Typed, RestTyped
  <2> QED BY <2>1, <2>2 DEF Typed
<1> QED BY <1>3, <1>4 DEF DecisionArrives, DecisionTimesOut

\* A report is written on the row.
LEMMA ReportTyped ==
  ASSUME Typed, NEW e \in Edits, NEW state \in {"SUCCEEDED", "FAILED"},
         NEW step \in {"steer", "stop"}, NEW S \in SUBSET Docs, Begun(e),
         \/ UNCHANGED row
         \/ row' = [row EXCEPT ![e] = [row[e] EXCEPT !.state = state, !.updated = S]],
         Goto(e, step), UNCHANGED <<planned, planJob, job>>
  PROVE  FlowTyped'
<1>1. row[e] \in Rows /\ PlanFits(row[e]) /\ TargetFits(e)
  BY DEF Typed, FlowTyped
<1>2. PICK r \in {row[e], [row[e] EXCEPT !.state = state, !.updated = S]} :
        row' = [row EXCEPT ![e] = r]
  BY DEF Typed, FlowTyped
<1>3. r \in Rows /\ PlanFits(r) /\ r.target = row[e].target
  BY <1>1, <1>2 DEF Rows, RowStates, Terminal, PlanFits
<1>4. /\ planned[e] \in {Off} \cup Proposals
      /\ planned' = [planned EXCEPT ![e] = planned[e]]
      /\ pc' = [pc EXCEPT ![e] = step] /\ step \in FlowSteps
  BY DEF Goto, FlowSteps, Typed, FlowTyped
<1>5. /\ r.target \in Docs
      /\ planned[e] # Off /\ planned[e].ok =>
           planned[e].plan \in [Below[r.target] -> {"update", "verify"}]
  BY <1>1, <1>3 DEF TargetFits, sanitizePlan
<1> QED BY <1>2, <1>3, <1>4, <1>5, EditKeepsFlow DEF Typed

LEMMA JobStarted ==
  ASSUME NEW p \in Plans \cup {Off}, NEW S \in SUBSET Docs
  PROVE  [NoJob EXCEPT !.at = "target", !.plan = p, !.todo = S] \in Jobs
BY DEF NoJob, Jobs, JobSteps

LEMMA ApplyingTyped ==
  ASSUME Typed, Decided, NEW e \in Edits,
         DispatchApply(e) \/ ApplyArrives(e) \/ Steer(e) \/ StopSession(e)
  PROVE  Typed'
<1>1. CASE DispatchApply(e)
  <2>1. /\ Begun(e) /\ pc[e] # "park" /\ UNCHANGED planJob
        /\ "applySent" \in FlowSteps \ {"idle", "checked", "park"}
    BY <1>1 DEF DispatchApply, Begun, FlowSteps
  <2>2. CASE FailEdit(e) /\ UNCHANGED job
    BY <1>1, <2>1, <2>2, FailTyped DEF DispatchApply, docs, Typed, RestTyped
  <2>3. CASE ~ (FailEdit(e) /\ UNCHANGED job)
    <3>1. /\ Advance(e, "applySent") /\ UNCHANGED <<row, lost, cbs>>
          /\ job' = IF job[e].at # "idle" THEN job
                    ELSE [job EXCEPT ![e] =
                           [NoJob EXCEPT !.at = "target", !.plan = row[e].plan,
                                         !.todo = decided[e].approved \cap DOMAIN row[e].plan]]
      BY <1>1, <2>3 DEF DispatchApply
    <3>2. \A x \in Edits \ {e} : job'[x] = job[x]
      BY <3>1 DEF Typed, RestTyped
    <3>3. FlowTyped'
      BY <2>1, <3>1, <3>2, AdvanceKeepsFlow DEF cbs
    <3>4. job' \in [Edits -> Jobs]
      <4> DEFINE S == decided[e].approved \cap DOMAIN row[e].plan
                 j == [NoJob EXCEPT !.at = "target", !.plan = row[e].plan, !.todo = S]
      <4>1. decided[e] \in Decisions /\ row[e] \in Rows
        BY <1>1 DEF DispatchApply, Decided, Typed, FlowTyped, RestTyped
      <4>2. row[e].plan \in Plans \cup {Off} /\ S \in SUBSET Docs
        BY <4>1 DEF Decisions, Rows
      <4>3. j \in Jobs
        <5> HIDE DEF S
        <5> QED BY <4>2, JobStarted
      <4>4. job' = job \/ job' = [job EXCEPT ![e] = j]
        BY <3>1
      <4> HIDE DEF j
      <4> QED BY <4>3, <4>4 DEF Typed, RestTyped
    <3> QED BY <1>1, <2>1, <3>1, <3>3, <3>4, AdvanceTyped
            DEF DispatchApply, docs, cbs, Typed, RestTyped
  <2> QED BY <2>2, <2>3
<1>2. CASE ApplyArrives(e)
  <2>1. Begun(e) /\ UNCHANGED <<planJob, job>>
    BY <1>2 DEF ApplyArrives, Begun
  <2>2. CASE FailEdit(e)
    BY <1>2, <2>1, <2>2, FailTyped DEF ApplyArrives, docs, Typed, RestTyped
  <2>3. CASE ~ FailEdit(e)
    <3> DEFINE ok == applied[e].ok
               end == [row[e] EXCEPT !.state = IF ok THEN "SUCCEEDED" ELSE "FAILED",
                                     !.updated = applied[e].updated]
    <3>1. /\ applied[e] \in Reports /\ WriteEnd(e, end) /\ UNCHANGED <<rerun, cbs>>
          /\ Goto(e, IF ok THEN "steer" ELSE "stop")
      BY <1>2, <2>3 DEF ApplyArrives, Typed, RestTyped
    <3>2. /\ lost' \subseteq Edits /\ events' \in 0..MaxEvents
          /\ UNCHANGED row \/ row' = [row EXCEPT ![e] = end]
      <4> HIDE DEF end
      <4> QED BY <3>1, EndWritten
    <3>3. FlowTyped'
      BY <2>1, <3>1, <3>2, ReportTyped DEF Reports, cbs
    <3> QED BY <1>2, <3>1, <3>2, <3>3 DEF ApplyArrives, docs, cbs, Typed, RestTyped
  <2> QED BY <2>2, <2>3
<1>3. CASE Steer(e)
  <2>1. Begun(e) /\ row[e].state \in RowStates /\ "stop" \in FlowSteps
    BY <1>3 DEF Steer, Begun, Typed, FlowTyped, Rows, FlowSteps
  <2>2. FlowTyped'
    BY <1>3, <2>1, StepKeepsFlow DEF Steer, Goto, cbs, Typed
  <2> QED BY <1>3, <2>2 DEF Steer, cbs, docs, Typed, RestTyped
<1>4. CASE StopSession(e)
  <2>1. /\ Begun(e) /\ row[e].state \in RowStates /\ "over" \in FlowSteps
        /\ planJob' \subseteq planJob
        /\ \A x \in Edits : job'[x].at # "idle" => job[x].at # "idle"
    BY <1>4 DEF StopSession, KillJobs, NoJob, Begun, Typed, FlowTyped, Rows, FlowSteps
  <2>2. FlowTyped'
    BY <1>4, <2>1, StepKeepsFlow DEF StopSession, EndFlow, Goto, Typed
  <2>3. job' \in [Edits -> Jobs]
    BY <1>4 DEF StopSession, KillJobs, NoJob, Jobs, JobSteps, Typed, RestTyped
  <2> QED BY <1>4, <2>2, <2>3 DEF StopSession, EndFlow, docs, Typed, RestTyped
<1> QED BY <1>1, <1>2, <1>3, <1>4

LEMMA OutdateTyped ==
  ASSUME Typed, NEW S, Outdate(S)
  PROVE  saving' \in [Editors -> {Off} \cup Saves]
<1>1. ASSUME NEW x \in Editors PROVE saving'[x] \in {Off} \cup Saves
  <2>1. saving[x] \in {Off} \cup Saves
    BY DEF Typed, RestTyped
  <2>2. saving[x] # Off => [saving[x] EXCEPT !.outdated = TRUE] \in Saves
    BY <2>1 DEF Saves
  <2> QED BY <2>1, <2>2 DEF Outdate
<1> QED BY <1>1 DEF Outdate

\* One more step of a job that is in the container.
LEMMA JobStepTyped ==
  ASSUME Typed, NEW e \in Edits, NEW j \in Jobs, job' = [job EXCEPT ![e] = j],
         job[e].at # "idle" \/ j.at = job[e].at, UNCHANGED <<row, pc, planned, planJob>>
  PROVE  FlowTyped' /\ job' \in [Edits -> Jobs]
<1>1. \A x \in Edits : job'[x].at # "idle" => job[x].at # "idle"
  BY DEF Typed, RestTyped
<1> QED BY <1>1, OthersKeepFlow DEF Typed, RestTyped

\* The jobs in the container.
LEMMA JobsTyped ==
  ASSUME Typed, NEW e \in Edits,
         \/ RewriteTarget(e) \/ ClearMarker(e) \/ ApplyJobEnds(e)
         \/ \E d \in Docs : MarkDownstream(e, d) \/ ApplyItem(e, d)
  PROVE  Typed'
<1>1. job[e] \in Jobs /\ TargetFits(e)
  BY DEF Typed, FlowTyped, RestTyped
<1>2. CASE RewriteTarget(e)
  <2> DEFINE t == row[e].target
             j == [job[e] EXCEPT !.at = "items", !.left = Below[t], !.clear = t]
  <2>1. t \in Docs /\ Below[t] \subseteq Docs /\ job[e].at # "idle"
    BY <1>1, <1>2, GraphAssumption DEF TargetFits, RewriteTarget
  <2>2. j \in Jobs /\ job' = [job EXCEPT ![e] = j]
    BY <1>1, <1>2, <2>1 DEF Jobs, JobSteps, RewriteTarget, Typed, RestTyped
  <2>3. UNCHANGED <<row, pc, planned, planJob>>
    BY <1>2 DEF RewriteTarget, rows, cbs
  <2>4. FlowTyped' /\ job' \in [Edits -> Jobs]
    <3> HIDE DEF j, t
    <3> QED BY <2>1, <2>2, <2>3, JobStepTyped
  <2>5. saving' \in [Editors -> {Off} \cup Saves]
    BY <1>2, OutdateTyped DEF RewriteTarget
  <2>6. /\ touched' \in [Edits -> SUBSET Docs] /\ due' \in [Edits -> SUBSET Docs]
    BY <1>2, <2>1 DEF RewriteTarget, Typed, RestTyped
  <2> QED BY <1>2, <2>4, <2>5, <2>6 DEF RewriteTarget, rows, cbs, Typed, RestTyped
<1>3. CASE ClearMarker(e)
  <2> DEFINE j == [job[e] EXCEPT !.clear = Off]
  <2>1. j \in Jobs /\ j.at = job[e].at /\ job' = [job EXCEPT ![e] = j]
    BY <1>1, <1>3 DEF Jobs, ClearMarker, Typed, RestTyped
  <2>2. FlowTyped' /\ job' \in [Edits -> Jobs]
    <3> HIDE DEF j
    <3> QED BY <1>3, <2>1, JobStepTyped DEF ClearMarker, rows, cbs
  <2>3. stale' \subseteq Docs
    BY <1>3 DEF ClearMarker, MayClear, Typed, RestTyped
  <2> QED BY <1>3, <2>2, <2>3 DEF ClearMarker, rows, cbs, Typed, RestTyped
<1>4. ASSUME NEW d \in Docs, MarkDownstream(e, d) PROVE Typed'
  <2> DEFINE j == [job[e] EXCEPT !.left = @ \ {d}]
  <2>1. j \in Jobs /\ j.at = job[e].at /\ job' = [job EXCEPT ![e] = j]
    BY <1>1, <1>4 DEF Jobs, MarkDownstream, Typed, RestTyped
  <2>2. FlowTyped' /\ job' \in [Edits -> Jobs]
    <3> HIDE DEF j
    <3> QED BY <1>4, <2>1, JobStepTyped DEF MarkDownstream, rows, cbs
  <2>3. stale' \subseteq Docs /\ due' \in [Edits -> SUBSET Docs]
    BY <1>4 DEF MarkDownstream, Typed, RestTyped
  <2> QED BY <1>4, <2>2, <2>3 DEF MarkDownstream, rows, cbs, Typed, RestTyped
<1>5. CASE ApplyJobEnds(e)
  <2>1. FlowTyped'
    BY <1>5, OthersKeepFlow DEF ApplyJobEnds, rows, NoJob, Typed, RestTyped
  <2>2. applied' \in [Edits -> {Off} \cup Reports]
    <3>1. Bad \in Reports /\ [ok |-> TRUE, updated |-> job[e].updated] \in Reports
      BY <1>1 DEF Bad, Reports, Jobs
    <3>2. \E r \in Reports : CompleteApply(e, r)
      BY <1>5, <3>1 DEF ApplyJobEnds
    <3> QED BY <3>2 DEF CompleteApply, Typed, RestTyped
  <2>3. job' \in [Edits -> Jobs]
    BY <1>5 DEF ApplyJobEnds, NoJob, Jobs, JobSteps, Typed, RestTyped
  <2> QED BY <1>5, <2>1, <2>2, <2>3 DEF ApplyJobEnds, rows, docs, Typed, RestTyped
<1>6. ASSUME NEW d \in Docs, ApplyItem(e, d) PROVE Typed'
  <2>1. PICK j \in {[job[e] EXCEPT !.todo = @ \ {d}],
                    [job[e] EXCEPT !.todo = @ \ {d}, !.clear = d],
                    [job[e] EXCEPT !.todo = @ \ {d}, !.updated = @ \cup {d}, !.clear = d]} :
          job' = [job EXCEPT ![e] = j]
    BY <1>6 DEF ApplyItem, Typed, RestTyped
  <2>2. j \in Jobs /\ j.at = job[e].at
    <3>1. job[e].todo \ {d} \in SUBSET Docs /\ job[e].updated \cup {d} \in SUBSET Docs
      BY <1>1 DEF Jobs
    <3> QED BY <1>1, <2>1, <3>1 DEF Jobs
  <2>3. FlowTyped' /\ job' \in [Edits -> Jobs]
    BY <1>6, <2>1, <2>2, JobStepTyped DEF ApplyItem, rows, cbs
  <2>4. saving' \in [Editors -> {Off} \cup Saves]
    <3>1. (\E x \in Docs : Outdate(x)) \/ UNCHANGED saving
      BY <1>6 DEF ApplyItem
    <3> QED BY <3>1, OutdateTyped DEF Typed, RestTyped
  <2>5. /\ touched' \in [Edits -> SUBSET Docs]
        /\ due' \in [Edits -> SUBSET Docs] /\ UNCHANGED stale
    <3>1. \/ UNCHANGED docs
          \/ /\ touched' = [touched EXCEPT ![e] = @ \cup {d}]
             /\ NoLongerDue(d) /\ UNCHANGED stale
      BY <1>6 DEF ApplyItem
    <3> QED BY <3>1 DEF NoLongerDue, docs, Typed, RestTyped
  <2> QED BY <1>6, <2>3, <2>4, <2>5 DEF ApplyItem, rows, cbs, Typed, RestTyped
<1> QED BY <1>2, <1>3, <1>4, <1>5, <1>6

LEMMA PlanJobTyped ==
  ASSUME Typed, NEW e \in Edits, PlanJobEnds(e)
  PROVE  Typed'
<1>1. RestTyped'
  BY DEF PlanJobEnds, docs, Typed, RestTyped
<1>2. /\ Begun(e) /\ TargetFits(e) /\ row[e] \in Rows /\ PlanFits(row[e])
      /\ planned[e] \in {Off} \cup Proposals
  BY DEF PlanJobEnds, Typed, FlowTyped, TargetFits
<1>3. pc' = [pc EXCEPT ![e] = pc[e]] /\ pc[e] \in FlowSteps \ {"idle", "checked"}
      /\ row[e].target \in Docs /\ UNCHANGED job /\ planJob' \subseteq planJob
  BY <1>2 DEF PlanJobEnds, Begun, TargetFits, Typed, FlowTyped
<1>4. ASSUME NEW p \in sanitizePlan(e), row' = [row EXCEPT ![e].plan = p],
             CompletePlan(e, [ok |-> TRUE, plan |-> p])
      PROVE  FlowTyped'
  <2> DEFINE r == [row[e] EXCEPT !.plan = p]
  <2>1. p \in Plans /\ DOMAIN p = Below[row[e].target]
    BY <1>3, PlansOfTarget
  <2>2. r \in Rows /\ PlanFits(r) /\ r.target = row[e].target /\ row' = [row EXCEPT ![e] = r]
    BY <1>2, <1>3, <1>4, <2>1, SlotAssumption DEF Rows, PlanFits
  <2>3. PICK q \in {planned[e], [ok |-> TRUE, plan |-> p]} :
          /\ planned' = [planned EXCEPT ![e] = q]
          /\ pc[e] = "park" => q = planned[e]
    BY <1>4 DEF CompletePlan, Typed, FlowTyped
  <2>4. /\ q \in {Off} \cup Proposals
        /\ q # Off /\ q.ok => q.plan \in [Below[r.target] -> {"update", "verify"}]
        /\ pc[e] = "park" => q # Off /\ q.ok
    <3>1. CASE q = planned[e]
      BY <1>2, <2>2, <3>1 DEF TargetFits, sanitizePlan
    <3>2. CASE q = [ok |-> TRUE, plan |-> p] /\ q # planned[e]
      BY <2>1, <2>2, <2>3, <3>2 DEF Proposals, sanitizePlan
    <3> QED BY <2>3, <3>1, <3>2
  <2> HIDE DEF r
  <2> QED BY <1>3, <2>2, <2>3, <2>4, EditKeepsFlow DEF Typed
<1>5. ASSUME UNCHANGED row, CompletePlan(e, [ok |-> FALSE, plan |-> Off])
      PROVE  FlowTyped'
  <2>1. PICK q \in {planned[e], [ok |-> FALSE, plan |-> Off]} :
          /\ planned' = [planned EXCEPT ![e] = q]
          /\ pc[e] = "park" => q = planned[e]
    BY <1>5 DEF CompletePlan, Typed, FlowTyped
  <2>2. /\ q \in {Off} \cup Proposals
        /\ q # Off /\ q.ok => q.plan \in [Below[row[e].target] -> {"update", "verify"}]
        /\ pc[e] = "park" => q # Off /\ q.ok
    <3>1. CASE q = planned[e]
      BY <1>2, <3>1 DEF TargetFits, sanitizePlan
    <3>2. CASE q = [ok |-> FALSE, plan |-> Off] /\ q # planned[e]
      BY <2>1, <3>2 DEF Proposals
    <3> QED BY <2>1, <3>1, <3>2
  <2>3. row' = [row EXCEPT ![e] = row[e]]
    BY <1>5 DEF Typed, FlowTyped
  <2> QED BY <1>2, <1>3, <2>1, <2>2, <2>3, EditKeepsFlow DEF Typed
<1> QED BY <1>1, <1>4, <1>5 DEF PlanJobEnds, Typed

LEMMA DecisionsTyped ==
  ASSUME Typed, NEW h \in Deciders,
         CloseDecision(h) \/ SendDecision(h) \/ (\E e \in Edits : OpenDecision(h, e))
  PROVE  Typed'
<1>1. CASE CloseDecision(h)
  <2> DEFINE d == deciding[h]
             e == d.edit
             r == [row[e] EXCEPT !.state = IF d.verdict = "approve" THEN "APPLYING" ELSE "REJECTED",
                                 !.approved = d.approved]
  <2>1. d \in Requests
    BY <1>1 DEF CloseDecision, Typed, RestTyped
  <2>2. CASE row[e].state = "AWAITING_APPROVAL"
    <3>1. row' = [row EXCEPT ![e] = r]
      BY <1>1, <2>1, <2>2 DEF CloseDecision, Requests, Typed, FlowTyped
    <3>2. e \in Edits /\ row[e] \in Rows /\ PlanFits(row[e]) /\ TargetFits(e)
      BY <2>1 DEF Requests, Typed, FlowTyped
    <3>3. r \in Rows /\ PlanFits(r) /\ r.target = row[e].target
      BY <2>1, <3>2 DEF Rows, RowStates, Terminal, Requests, PlanFits
    <3>4. Begun(e)
      BY <2>2, <3>2 DEF TargetFits, NoRow
    <3>5. /\ pc' = [pc EXCEPT ![e] = pc[e]] /\ planned' = [planned EXCEPT ![e] = planned[e]]
          /\ pc[e] \in FlowSteps \ {"idle", "checked"} /\ planned[e] \in {Off} \cup Proposals
          /\ UNCHANGED <<planJob, job>>
      BY <1>1, <3>2, <3>4 DEF CloseDecision, cbs, Begun, Typed, FlowTyped
    <3>6. /\ r.target \in Docs
          /\ planned[e] # Off /\ planned[e].ok =>
               planned[e].plan \in [Below[r.target] -> {"update", "verify"}]
          /\ pc[e] = "park" => planned[e] # Off /\ planned[e].ok
      BY <3>2, <3>3, <3>4 DEF TargetFits, sanitizePlan
    <3> HIDE DEF r
    <3>7. FlowTyped'
      BY <3>1, <3>2, <3>3, <3>5, <3>6, EditKeepsFlow DEF Typed
    <3>8. deciding' \in [Deciders -> {Off} \cup Requests]
      <4>1. [d EXCEPT !.won = TRUE] \in Requests
        BY <2>1 DEF Requests
      <4>2. deciding' = [deciding EXCEPT ![h] = [d EXCEPT !.won = TRUE]]
        BY <1>1, <2>2 DEF CloseDecision
      <4> QED BY <4>1, <4>2 DEF Typed, RestTyped
    <3> QED BY <1>1, <3>7, <3>8 DEF CloseDecision, cbs, docs, Typed, RestTyped
  <2>3. CASE row[e].state # "AWAITING_APPROVAL"
    <3>1. /\ UNCHANGED <<row, pc, rerun, cbs, planJob, job>>
          /\ deciding' = [deciding EXCEPT ![h] = Off]
      BY <1>1, <2>3 DEF CloseDecision
    <3>2. FlowTyped'
      BY <3>1, OthersKeepFlow DEF cbs, Typed
    <3> QED BY <1>1, <3>1, <3>2 DEF CloseDecision, cbs, docs, Typed, RestTyped
  <2> QED BY <2>2, <2>3
<1>2. CASE SendDecision(h)
  <2>1. FlowTyped'
    BY <1>2, OthersKeepFlow DEF SendDecision, rows, Typed
  <2>2. deciding[h] \in Requests
    BY <1>2 DEF SendDecision, Typed, RestTyped
  <2>3. [verdict |-> deciding[h].verdict, approved |-> deciding[h].approved] \in Decisions
    BY <2>2 DEF Requests, Decisions
  <2>4. decided' \in [Edits -> {Off} \cup Decisions]
    BY <1>2, <2>3 DEF SendDecision, Typed, RestTyped
  <2> QED BY <1>2, <2>1, <2>4 DEF SendDecision, rows, docs, Typed, RestTyped
<1>3. ASSUME NEW e \in Edits, OpenDecision(h, e) PROVE Typed'
  <2>1. FlowTyped'
    BY <1>3, OthersKeepFlow DEF OpenDecision, rows, cbs, Typed
  <2>2. row[e].plan \in Plans
    BY <1>3 DEF OpenDecision, Typed, FlowTyped, PlanFits
  <2>3. DOMAIN row[e].plan \subseteq Docs
    BY <2>2 DEF Plans
  <2>4. deciding' \in [Deciders -> {Off} \cup Requests]
    BY <1>3, <2>3 DEF OpenDecision, Requests, Typed, RestTyped
  <2> QED BY <1>3, <2>1, <2>4, BoundAssumption
          DEF OpenDecision, Event, rows, cbs, docs, Typed, RestTyped
<1> QED BY <1>1, <1>2, <1>3

LEMMA SavesTyped ==
  ASSUME Typed, NEW h \in Editors,
         \/ WriteSave(h) \/ ClearSave(h) \/ MarkSave(h)
         \/ \E d \in Docs : StartSave(h, d) \/ VerifyArtifact(h, d)
  PROVE  Typed'
<1>1. FlowTyped'
  BY OthersKeepFlow
  DEF WriteSave, ClearSave, MarkSave, StartSave, VerifyArtifact, rows, cbs, Typed
<1>2. CASE WriteSave(h)
  <2>1. saving[h] \in Saves /\ saving[h].doc \in Docs
    BY <1>2 DEF WriteSave, Saves, Typed, RestTyped
  <2>2. saving' \in [Editors -> {Off} \cup Saves]
    <3>1. CASE saving[h].outdated
      BY <1>2, <3>1 DEF WriteSave, Typed, RestTyped
    <3>2. CASE ~ saving[h].outdated
      <4>1. ASSUME NEW x \in Editors PROVE saving'[x] \in {Off} \cup Saves
        <5>1. saving[x] \in {Off} \cup Saves
          BY DEF Typed, RestTyped
        <5>2. /\ saving[x] # Off => [saving[x] EXCEPT !.outdated = TRUE] \in Saves
              /\ [saving[h] EXCEPT !.at = "clear"] \in Saves
          BY <2>1, <5>1 DEF Saves
        <5> QED BY <1>2, <3>2, <5>1, <5>2 DEF WriteSave
      <4> QED BY <1>2, <3>2, <4>1 DEF WriteSave
    <3> QED BY <3>1, <3>2
  <2>3. stale' \subseteq Docs /\ due' \in [Edits -> SUBSET Docs] /\ UNCHANGED touched
    BY <1>2, <2>1 DEF WriteSave, NoLongerDue, docs, Typed, RestTyped
  <2> QED BY <1>1, <1>2, <2>2, <2>3 DEF WriteSave, rows, cbs, Typed, RestTyped
<1>3. CASE ClearSave(h)
  <2>1. saving[h] \in Saves
    BY <1>3 DEF ClearSave, Typed, RestTyped
  <2>2. [saving[h] EXCEPT !.at = "mark"] \in Saves
    BY <2>1 DEF Saves
  <2>3. saving' \in [Editors -> {Off} \cup Saves] /\ stale' \subseteq Docs
    BY <1>3, <2>2 DEF ClearSave, MayClear, Typed, RestTyped
  <2> QED BY <1>1, <1>3, <2>3 DEF ClearSave, rows, cbs, Typed, RestTyped
<1>4. CASE MarkSave(h)
  <2>1. saving[h] \in Saves /\ Below[saving[h].doc] \subseteq Docs
    BY <1>4, GraphAssumption DEF MarkSave, Saves, Typed, RestTyped
  <2>2. saving' \in [Editors -> {Off} \cup Saves] /\ stale' \subseteq Docs
    BY <1>4, <2>1 DEF MarkSave, Typed, RestTyped
  <2> QED BY <1>1, <1>4, <2>2 DEF MarkSave, rows, cbs, Typed, RestTyped
<1>5. ASSUME NEW d \in Docs, StartSave(h, d) PROVE Typed'
  <2>1. saving' \in [Editors -> {Off} \cup Saves]
    BY <1>5 DEF StartSave, Saves, Typed, RestTyped
  <2> QED BY <1>1, <1>5, <2>1, BoundAssumption
          DEF StartSave, Event, rows, cbs, docs, Typed, RestTyped
<1>6. ASSUME NEW d \in Docs, VerifyArtifact(h, d) PROVE Typed'
  <2>1. saving' \in [Editors -> {Off} \cup Saves] /\ due' \in [Edits -> SUBSET Docs]
    BY <1>6 DEF VerifyArtifact, NoLongerDue, Saves, Typed, RestTyped
  <2> QED BY <1>1, <1>6, <2>1, BoundAssumption
          DEF VerifyArtifact, Event, rows, cbs, Typed, RestTyped
<1> QED BY <1>2, <1>3, <1>4, <1>5, <1>6

LEMMA RunTyped ==
  ASSUME Typed, ParkRun \/ EndRun \/ Relaunch \/ AskRun \/ GoRun \/ ContainerDies
  PROVE  Typed'
<1>1. ASSUME NEW status \in {"RUNNING", "WAITING", "DONE"}, SetRun(status) PROVE Typed'
  <2>1. FlowTyped'
    BY <1>1, OthersKeepFlow DEF SetRun, rows, cbs, Typed
  <2> QED BY <1>1, <2>1, BoundAssumption
          DEF SetRun, Event, rows, cbs, docs, Typed, RestTyped
<1>2. CASE AskRun
  <2>1. FlowTyped'
    BY <1>2, OthersKeepFlow DEF AskRun, rows, cbs, Typed
  <2> QED BY <1>2, <2>1, BoundAssumption DEF AskRun, Event, rows, cbs, docs, Typed, RestTyped
<1>3. CASE GoRun
  <2>1. FlowTyped'
    BY <1>3, OthersKeepFlow DEF GoRun, rows, cbs, Typed
  <2> QED BY <1>3, <2>1 DEF GoRun, rows, cbs, docs, Typed, RestTyped
<1>4. CASE ContainerDies
  <2>1. FlowTyped'
    BY <1>4, OthersKeepFlow DEF ContainerDies, KillJobs, NoJob, rows, cbs, Typed
  <2>2. job' \in [Edits -> Jobs]
    BY <1>4 DEF ContainerDies, KillJobs, NoJob, Jobs, JobSteps
  <2> QED BY <1>4, <2>1, <2>2, BoundAssumption
          DEF ContainerDies, Event, rows, cbs, docs, Typed, RestTyped
<1> QED BY <1>1, <1>2, <1>3, <1>4 DEF ParkRun, EndRun, Relaunch

LEMMA DecidedStep ==
  ASSUME Typed, Decided, [Next]_vars
  PROVE  Decided'
<1>1. ASSUME NEW e \in Edits, NEW step \in {"planSent", "decide"}, Advance(e, step)
      PROVE  \A x \in Edits : pc'[x] = "apply" => pc[x] = "apply"
  BY <1>1 DEF Advance, Goto, Typed, FlowTyped
<1>2. ASSUME NEW e \in Edits, Advance(e, "applySent")
      PROVE  \A x \in Edits : pc'[x] = "apply" => pc[x] = "apply"
  BY <1>2 DEF Advance, Goto, Typed, FlowTyped
<1>3. ASSUME NEW e \in Edits, FailEdit(e) \/ EndFlow(e)
      PROVE  Decided'
  BY <1>3 DEF FailEdit, EndFlow, Goto, Decided, Typed, FlowTyped, RestTyped
<1>4. ASSUME NEW e \in Edits, NEW step \in FlowSteps, Goto(e, step), decided' = decided,
             step = "apply" => decided[e] # Off
      PROVE  Decided'
  BY <1>4 DEF Goto, Decided, Typed, FlowTyped
<1>5. ASSUME \A x \in Edits : pc'[x] = "apply" => pc[x] = "apply", decided' = decided
      PROVE  Decided'
  BY <1>5 DEF Decided
<1>6. ASSUME NEW e \in Edits, AskEdit(e) \/ HandOff(e) \/ \E t \in Targets : StoreEdit(e, t)
      PROVE  Decided'
  <2>1. \E step \in FlowSteps \ {"apply"} : Goto(e, step)
    BY <1>6 DEF AskEdit, HandOff, StoreEdit, FlowSteps
  <2>2. decided' = decided
    BY <1>6 DEF AskEdit, HandOff, StoreEdit, cbs
  <2> QED BY <1>4, <2>1, <2>2
<1>7. ASSUME NEW e \in Edits, DispatchPlan(e) \/ PlanArrives(e) \/ AwaitApproval(e)
      PROVE  Decided'
  <2>1. CASE Advance(e, "planSent") /\ UNCHANGED cbs
    BY <1>1, <1>5, <2>1 DEF cbs
  <2>2. CASE Advance(e, "decide") /\ UNCHANGED cbs
    BY <1>1, <1>5, <2>2 DEF cbs
  <2>3. CASE Goto(e, "park") /\ UNCHANGED cbs
    BY <1>4, <2>3 DEF cbs, FlowSteps
  <2> QED BY <1>3, <1>7, <2>1, <2>2, <2>3 DEF DispatchPlan, PlanArrives, AwaitApproval
<1>8. ASSUME NEW e \in Edits,
             DecisionArrives(e) \/ DecisionTimesOut(e) \/ DispatchApply(e) \/ StopSession(e)
      PROVE  Decided'
  <2>1. CASE Goto(e, "apply") /\ UNCHANGED cbs /\ decided[e] # Off
    BY <1>4, <2>1 DEF cbs, FlowSteps
  <2>2. CASE Advance(e, "applySent") /\ UNCHANGED cbs
    BY <1>2, <1>5, <2>2 DEF cbs
  <2> QED BY <1>3, <1>8, <2>1, <2>2
          DEF DecisionArrives, DecisionTimesOut, DispatchApply, StopSession
<1>9. ASSUME NEW e \in Edits, ApplyArrives(e) \/ Steer(e)
      PROVE  Decided'
  <2>1. CASE UNCHANGED cbs /\ \E step \in {"steer", "stop"} : Goto(e, step)
    BY <1>4, <2>1 DEF cbs, FlowSteps
  <2> QED BY <1>3, <1>9, <2>1 DEF ApplyArrives, Steer
<1>10. ASSUME NEW h \in Deciders, SendDecision(h)
       PROVE  Decided'
  BY <1>10 DEF SendDecision, Decided, rows, Typed, RestTyped
<1>11. CASE UNCHANGED <<pc, decided>>
  BY <1>11 DEF Decided
<1>12. ASSUME NEW e \in Edits,
              \/ PlanJobEnds(e) \/ RewriteTarget(e) \/ ClearMarker(e) \/ ApplyJobEnds(e)
              \/ \E d \in Docs : MarkDownstream(e, d) \/ ApplyItem(e, d)
       PROVE  UNCHANGED <<pc, decided>>
  BY <1>12 DEF PlanJobEnds, RewriteTarget, ClearMarker, MarkDownstream, ApplyJobEnds,
               ApplyItem, rows, cbs
<1>13. ASSUME NEW h \in Deciders, CloseDecision(h) \/ \E e \in Edits : OpenDecision(h, e)
       PROVE  UNCHANGED <<pc, decided>>
  BY <1>13 DEF CloseDecision, OpenDecision, rows, cbs
<1>14. ASSUME NEW h \in Editors,
              \/ WriteSave(h) \/ ClearSave(h) \/ MarkSave(h)
              \/ \E d \in Docs : StartSave(h, d) \/ VerifyArtifact(h, d)
       PROVE  UNCHANGED <<pc, decided>>
  BY <1>14 DEF WriteSave, ClearSave, MarkSave, StartSave, VerifyArtifact, rows, cbs
<1>15. ASSUME ParkRun \/ EndRun \/ Relaunch \/ AskRun \/ GoRun \/ ContainerDies
       PROVE  UNCHANGED <<pc, decided>>
  BY <1>15 DEF ParkRun, EndRun, Relaunch, SetRun, AskRun, GoRun, ContainerDies, rows, cbs
<1>16. CASE UNCHANGED vars
  BY <1>11, <1>16 DEF vars, rows, cbs
<1> QED BY <1>6, <1>7, <1>8, <1>9, <1>10, <1>11, <1>12, <1>13, <1>14, <1>15, <1>16
        DEF Next, Flow

LEMMA TypedInit == Init => Typed /\ Decided
<1> SUFFICES ASSUME Init PROVE Typed /\ Decided
  OBVIOUS
<1>1. NoRow \in Rows /\ NoJob \in Jobs /\ NoRow.state # "AWAITING_APPROVAL"
  BY DEF NoRow, Rows, RowStates, NoJob, Jobs, JobSteps
<1>2. \A e \in Edits : PlanFits(row[e]) /\ TargetFits(e)
  BY <1>1 DEF Init, PlanFits, TargetFits, Begun, NoRow, NoJob
<1>3. FlowTyped
  BY <1>1, <1>2 DEF Init, FlowTyped, FlowSteps
<1>4. RestTyped
  <2>1. events \in 0..MaxEvents
    BY BoundAssumption DEF Init
  <2>2. job \in [Edits -> Jobs] /\ touched \in [Edits -> SUBSET Docs]
        /\ due \in [Edits -> SUBSET Docs]
    BY <1>1 DEF Init
  <2> QED BY <2>1, <2>2 DEF Init, RestTyped
<1> QED BY <1>3, <1>4 DEF Init, Typed, Decided

LEMMA TypedStep == Typed /\ Decided /\ [Next]_vars => (Typed /\ Decided)'
<1> SUFFICES ASSUME Typed, Decided, [Next]_vars PROVE Typed'
  BY DecidedStep
<1>1. ASSUME NEW e \in Edits,
             \/ AskEdit(e) \/ HandOff(e) \/ Flow(e) \/ PlanJobEnds(e)
             \/ RewriteTarget(e) \/ ClearMarker(e) \/ ApplyJobEnds(e)
             \/ \E d \in Docs : MarkDownstream(e, d) \/ ApplyItem(e, d)
             \/ \E t \in Targets : StoreEdit(e, t)
      PROVE  Typed'
  BY <1>1, OpeningTyped, PlanningTyped, DecisionTyped, ApplyingTyped, JobsTyped, PlanJobTyped
  DEF Flow
<1>2. CASE UNCHANGED vars
  <2>1. FlowTyped'
    BY <1>2, OthersKeepFlow DEF vars, rows, cbs, Typed
  <2> QED BY <1>2, <2>1 DEF vars, rows, cbs, docs, Typed, RestTyped
<1> QED BY <1>1, <1>2, DecisionsTyped, SavesTyped, RunTyped DEF Next

\* Every variable has its type: whatever is planned covers what is below the target,
\* and jobs, decisions and saves hold documents of the intent.
THEOREM TypeCorrect == Spec => []TypeOK
<1>1. Spec => [](Typed /\ Decided)
  BY TypedInit, TypedStep, PTL DEF Spec
<1> QED BY <1>1, TypedTypeOK, PTL

=============================================================================
