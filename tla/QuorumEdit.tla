----------------------------- MODULE QuorumEdit -----------------------------
(***************************************************************************)
(* Edits of an intent's documents after the fact. A user describes a       *)
(* change; a durable flow has a container job propose an update plan for   *)
(* the documents downstream of the target, waits for a human decision, and *)
(* has a second job apply what was approved: rewrite the target, mark      *)
(* everything downstream as possibly stale, then update or verify the      *)
(* approved documents. Humans save and verify documents meanwhile, runs    *)
(* park and resume, and the jobs of all edits of an intent share one       *)
(* container. (v2-orchestrator/quorum-edit.js, the quorum-edit commands of *)
(* agentcore, shared/artifact-edit.js and the edit endpoints of intents.)  *)
(***************************************************************************)
EXTENDS Naturals, FiniteSets

CONSTANTS
  Docs,      \* the documents of one intent
  Below,     \* of each document, those downstream of it
  Targets,   \* the documents edits are asked for
  Edits,     \* the edits that may be asked for
  Deciders,  \* the people who decide on plans
  Editors,   \* the people who save documents
  MaxEvents, \* a bound: how often something happens to the edits from outside
  Off        \* no value

ASSUME GraphAssumption ==
  /\ Below \in [Docs -> SUBSET Docs]
  /\ \A d \in Docs : d \notin Below[d]

ASSUME TargetsAssumption == Targets \subseteq Docs
ASSUME BoundAssumption == MaxEvents \in Nat

ASSUME SlotAssumption == Off \notin Docs

VARIABLES
  events,      \* how much of the bound is left
  run,         \* the status of the execution, as far as edits tell it apart
  asking,      \* whether an answer or a start has passed its check for edits
  row,         \* the QEDIT rows
  pc,          \* where the request and then the durable flow of each edit is
  rerun,       \* the edits one step of which has run twice
  lost,        \* history: the edits an end of which could not be written
  planned,     \* the plan callbacks
  decided,     \* the decision callbacks
  applied,     \* the apply callbacks
  planJob,     \* the edits with a plan job in the container
  job,         \* the apply jobs in the container
  deciding,    \* the decision requests
  saving,      \* the save requests
  stale,       \* the documents that carry the drift marker
  touched,     \* history: the documents each edit has rewritten or verified
  due          \* history: the documents an edit has made stale and not seen rewritten
               \* or verified since, nor under way when it came to mark them

rows  == <<row, pc, rerun, lost>>
cbs   == <<planned, decided, applied>>
docs  == <<stale, touched, due>>
vars  == <<events, run, asking, rows, cbs, planJob, job, deciding, saving, docs>>

Terminal  == {"SUCCEEDED", "FAILED", "REJECTED", "CANCELLED"}
RowStates == {"NONE", "PLANNING", "AWAITING_APPROVAL", "APPLYING"} \cup Terminal
FlowSteps == {"idle", "checked", "stored", "plan", "planSent", "park", "decide",
              "apply", "applySent", "steer", "stop", "over"}
JobSteps  == {"idle", "target", "items"}
Plans     == UNION {[S -> {"update", "verify"}] : S \in SUBSET Docs}
Proposals == [ok : BOOLEAN, plan : {Off} \cup Plans]
Bad       == [ok |-> FALSE, updated |-> {}]
Reports   == [ok : BOOLEAN, updated : SUBSET Docs]
Decisions == [verdict : {"approve", "reject"}, approved : SUBSET Docs]
Requests  == [edit : Edits, verdict : {"approve", "reject"},
              approved : SUBSET Docs, won : BOOLEAN]
Saves     == [doc : Docs, at : {"write", "clear", "mark", "verified"}, outdated : BOOLEAN]

NoRow == [state |-> "NONE", target |-> Off, plan |-> Off, approved |-> {},
          updated |-> {}]
NoJob == [at |-> "idle", plan |-> Off, left |-> {}, todo |-> {}, updated |-> {},
          clear |-> Off]

Init ==
  /\ events = MaxEvents
  /\ run = "WAITING"
  /\ asking = FALSE
  /\ row = [e \in Edits |-> NoRow]
  /\ pc = [e \in Edits |-> "idle"]
  /\ rerun = {}
  /\ lost = {}
  /\ planned = [e \in Edits |-> Off]
  /\ decided = [e \in Edits |-> Off]
  /\ applied = [e \in Edits |-> Off]
  /\ planJob = {}
  /\ job = [e \in Edits |-> NoJob]
  /\ deciding = [h \in Deciders |-> Off]
  /\ saving = [h \in Editors |-> Off]
  /\ stale = {}
  /\ touched = [e \in Edits |-> {}]
  /\ due = [e \in Edits |-> {}]

(* The bounded steps: requests, a step that runs twice, a container that dies. *)
Event == events > 0 /\ events' = events - 1

-----------------------------------------------------------------------------
(* The execution and the guards between it and the edits. The guards read  *)
(* the rows, and what they let through happens later.                      *)

isExecutionActive   == run = "RUNNING"
activeQuorumEdit(S) == \E e \in S : row[e].state \notin Terminal \cup {"NONE"}
editBlocked         == isExecutionActive \/ activeQuorumEdit(Edits)

SetRun(status) ==
  /\ Event
  /\ run' = status
  /\ UNCHANGED <<asking, rows, cbs, planJob, job, deciding, saving, docs>>

ParkRun == isExecutionActive /\ SetRun("WAITING")
EndRun  == run # "DONE" /\ SetRun("DONE")

(* Rewind, repair and recompose launch the run again and look at no edit. *)
Relaunch == ~isExecutionActive /\ SetRun("RUNNING")

(* A gate answer or a start passes its check for live edits (a listing     *)
(* that fails counts as an empty one) ...                                  *)
AskRun ==
  /\ Event
  /\ ~asking
  /\ ~isExecutionActive
  /\ \E listed \in {Edits, {}} : ~activeQuorumEdit(listed)
  /\ asking' = TRUE
  /\ UNCHANGED <<run, rows, cbs, planJob, job, deciding, saving, docs>>

(* ... and makes the run go on, unless it already does. *)
GoRun ==
  /\ asking
  /\ asking' = FALSE
  /\ run' = "RUNNING"
  /\ UNCHANGED <<events, rows, cbs, planJob, job, deciding, saving, docs>>

-----------------------------------------------------------------------------
(* What the writers of documents do to the graph. A rewrite or a           *)
(* verification is one operation, the removal of the drift marker the next *)
(* one: best effort, and late for a marker that another writer has set     *)
(* between the two.                                                        *)

NoLongerDue(d) == due' = [e \in Edits |-> due[e] \ {d}]

MayClear(d) == stale' \in {stale, stale \ {d}}

(* Some writer has written or verified d and has yet to remove its marker. *)
Clearing(d) ==
  \/ \E e \in Edits : job[e].clear = d
  \/ \E h \in Editors : saving[h] # Off /\ saving[h].doc = d
                         /\ saving[h].at \in {"clear", "verified"}

(* Whoever holds an older edit revision of the document is out of date. *)
Outdate(d) ==
  saving' = [h \in Editors |->
               IF saving[h] # Off /\ saving[h].doc = d /\ saving[h].at = "write"
               THEN [saving[h] EXCEPT !.outdated = TRUE] ELSE saving[h]]

-----------------------------------------------------------------------------
(* The endpoint that opens an edit. The row is written after the check; the *)
(* request may die between any two of its steps.                            *)

Goto(e, step) == pc' = [pc EXCEPT ![e] = step]

AskEdit(e) ==
  /\ Event
  /\ pc[e] = "idle"
  /\ ~editBlocked
  /\ Goto(e, "checked")
  /\ UNCHANGED <<run, asking, row, rerun, lost, cbs, planJob, job, deciding, saving, docs>>

StoreEdit(e, t) ==
  /\ pc[e] = "checked"
  /\ row' = [row EXCEPT ![e].state = "PLANNING", ![e].target = t]
  /\ Goto(e, "stored")
  /\ UNCHANGED <<events, run, asking, rerun, lost, cbs, planJob, job, deciding, saving, docs>>

(* The end of an edit is written on its row. Whoever writes it swallows the *)
(* failure of the write and goes on: nobody writes it again.                *)
WriteEnd(e, end) ==
  \/ row' = [row EXCEPT ![e] = end] /\ UNCHANGED <<lost, events>>
  \/ Event /\ lost' = lost \cup {e} /\ UNCHANGED row

Ended(e, state) == [row[e] EXCEPT !.state = state]

(* The hand-off to the orchestrator succeeds, fails, or fails after it was *)
(* in fact delivered.                                                      *)
HandOff(e) ==
  /\ pc[e] = "stored"
  /\ \/ Goto(e, "plan") /\ UNCHANGED <<row, lost, events>>
     \/ WriteEnd(e, Ended(e, "FAILED")) /\ \E step \in {"plan", "over"} : Goto(e, step)
  /\ UNCHANGED <<run, asking, rerun, cbs, planJob, job, deciding, saving, docs>>

-----------------------------------------------------------------------------
(* The durable flow. Its steps are checkpointed after they have run: one   *)
(* whose checkpoint is lost runs again.                                    *)

Advance(e, step) ==
  \/ Goto(e, step) /\ UNCHANGED <<rerun, events>>
  \/ Event /\ e \notin rerun /\ rerun' = rerun \cup {e} /\ UNCHANGED pc

(* The callbacks are those of the durable execution, and end with it. *)
EndFlow(e) ==
  /\ Goto(e, "over")
  /\ planned' = [planned EXCEPT ![e] = Off]
  /\ decided' = [decided EXCEPT ![e] = Off]
  /\ applied' = [applied EXCEPT ![e] = Off]

(* The failure is written whatever the row's state is. A flow that cannot  *)
(* even read its rows ends as one that could not write.                    *)
FailEdit(e) ==
  /\ WriteEnd(e, Ended(e, "FAILED"))
  /\ EndFlow(e)
  /\ UNCHANGED rerun

(* The container accepts the plan job (it knows the one it is running) or  *)
(* the dispatch fails.                                                     *)
DispatchPlan(e) ==
  /\ pc[e] = "plan"
  /\ \/ /\ planJob' = planJob \cup {e}
        /\ Advance(e, "planSent")
        /\ UNCHANGED <<row, lost, cbs>>
     \/ FailEdit(e) /\ UNCHANGED planJob
  /\ UNCHANGED <<run, asking, job, deciding, saving, docs>>

(* The callback brings a plan or a failure, or no heartbeat came in time. *)
PlanArrives(e) ==
  /\ pc[e] = "planSent"
  /\ IF planned[e] # Off /\ planned[e].ok
     THEN Goto(e, "park") /\ UNCHANGED <<rerun, lost, row, events, cbs>>
     ELSE FailEdit(e)
  /\ UNCHANGED <<run, asking, planJob, job, deciding, saving, docs>>

(* The row awaits approval, unless it has left PLANNING or the write fails. *)
AwaitApproval(e) ==
  /\ pc[e] = "park"
  /\ \/ /\ row[e].state = "PLANNING"
        /\ row' = [row EXCEPT ![e].state = "AWAITING_APPROVAL", ![e].plan = planned[e].plan]
        /\ Advance(e, "decide")
        /\ UNCHANGED <<lost, cbs>>
     \/ FailEdit(e)
  /\ UNCHANGED <<run, asking, planJob, job, deciding, saving, docs>>

DecisionArrives(e) ==
  /\ pc[e] = "decide"
  /\ decided[e] # Off
  /\ IF decided[e].verdict = "approve"
     THEN Goto(e, "apply") /\ UNCHANGED cbs
     ELSE EndFlow(e)
  /\ UNCHANGED <<events, run, asking, row, rerun, lost, planJob, job, deciding, saving, docs>>

\* Mutant: the expiry retires the edit whatever was decided.
RetireAnyway(e) ==
  /\ pc[e] = "decide"
  /\ decided[e] = Off
  /\ WriteEnd(e, Ended(e, "CANCELLED"))
  /\ EndFlow(e)
  /\ UNCHANGED <<run, asking, rerun, planJob, job, deciding, saving, docs>>

\* Mutant: an approved edit whose decision never arrived is not retired.
RetireUndecided(e) ==
  /\ pc[e] = "decide"
  /\ decided[e] = Off
  /\ IF row[e].state = "AWAITING_APPROVAL"
     THEN WriteEnd(e, Ended(e, "CANCELLED")) ELSE UNCHANGED <<row, lost, events>>
  /\ EndFlow(e)
  /\ UNCHANGED <<run, asking, rerun, planJob, job, deciding, saving, docs>>

(* 72 hours without a decision that reached the flow. *)
DecisionTimesOut(e) ==
  /\ pc[e] = "decide"
  /\ decided[e] = Off
  /\ IF row[e].state \in {"AWAITING_APPROVAL", "APPLYING"}
     THEN WriteEnd(e, Ended(e, "CANCELLED")) ELSE UNCHANGED <<row, lost, events>>
  /\ EndFlow(e)
  /\ UNCHANGED <<run, asking, rerun, planJob, job, deciding, saving, docs>>

(* The container runs one apply job per edit: a repeated dispatch finds it, *)
(* unless it has ended. The job takes the plan from the row and the         *)
(* approved documents from the dispatch.                                    *)
DispatchApply(e) ==
  /\ pc[e] = "apply"
  /\ \/ /\ job' = IF job[e].at # "idle" THEN job
                   ELSE [job EXCEPT ![e] =
                          [NoJob EXCEPT !.at = "target", !.plan = row[e].plan,
                                        !.todo = decided[e].approved \cap DOMAIN row[e].plan]]
        /\ Advance(e, "applySent")
        /\ UNCHANGED <<row, lost, cbs>>
     \/ FailEdit(e) /\ UNCHANGED job
  /\ UNCHANGED <<run, asking, planJob, deciding, saving, docs>>

(* The outcome is written on the row, or no heartbeat came in time: the    *)
(* row then fails, and a job that is still running goes on.                *)
ApplyArrives(e) ==
  /\ pc[e] = "applySent"
  /\ IF applied[e] = Off
     THEN FailEdit(e)
     ELSE LET ok == applied[e].ok IN
          /\ WriteEnd(e, [row[e] EXCEPT !.state = IF ok THEN "SUCCEEDED" ELSE "FAILED",
                                        !.updated = applied[e].updated])
          /\ Goto(e, IF ok THEN "steer" ELSE "stop")
          /\ UNCHANGED <<rerun, cbs>>
  /\ UNCHANGED <<run, asking, planJob, job, deciding, saving, docs>>

(* A run that is parked now may be told what changed: best effort, once,   *)
(* and nothing in the state of an edit depends on it.                      *)
Steer(e) ==
  /\ pc[e] = "steer"
  /\ Goto(e, "stop")
  /\ UNCHANGED <<events, run, asking, row, rerun, lost, cbs, planJob, job, deciding, saving, docs>>

KillJobs == planJob' = {} /\ job' = [e \in Edits |-> NoJob]

(* The session is the intent's: its stop, if it works, ends the jobs of    *)
(* every edit.                                                             *)
StopSession(e) ==
  /\ pc[e] = "stop"
  /\ KillJobs \/ UNCHANGED <<planJob, job>>
  /\ EndFlow(e)
  /\ UNCHANGED <<events, run, asking, row, rerun, lost, deciding, saving, docs>>

ContainerDies ==
  /\ Event
  /\ planJob # {} \/ \E e \in Edits : job[e].at # "idle"
  /\ KillJobs
  /\ UNCHANGED <<run, asking, rows, cbs, deciding, saving, docs>>

-----------------------------------------------------------------------------
(* The jobs in the container. A callback completes once, and only while    *)
(* the flow waits for it; a completion may fail to be delivered.           *)

\* Mutant: the proposal may name a document that is not below the target.
MadeUpItems(e) == [Below[row[e].target] \cup {row[e].target} -> {"update", "verify"}]

(* The proposal covers exactly the documents below the target: what the    *)
(* model made up is dropped, and what it skipped is added for verification. *)
sanitizePlan(e) == [Below[row[e].target] -> {"update", "verify"}]

CompletePlan(e, result) ==
  \/ UNCHANGED planned
  \/ /\ planned[e] = Off /\ pc[e] \in {"plan", "planSent"}
     /\ planned' = [planned EXCEPT ![e] = result]

(* The plan is written on the row, whatever the row's state is. *)
PlanJobEnds(e) ==
  /\ e \in planJob
  /\ planJob' = planJob \ {e}
  /\ \/ \E p \in sanitizePlan(e) :
          /\ row' = [row EXCEPT ![e].plan = p]
          /\ CompletePlan(e, [ok |-> TRUE, plan |-> p])
     \/ UNCHANGED row /\ CompletePlan(e, [ok |-> FALSE, plan |-> Off])
  /\ UNCHANGED <<events, run, asking, pc, rerun, lost, decided, applied, job, deciding, saving,
                 docs>>

(* Step 1 of the apply job: the target is rewritten. *)
RewriteTarget(e) ==
  LET t == row[e].target IN
  /\ job[e].at = "target"
  /\ job' = [job EXCEPT ![e].at = "items", ![e].left = Below[t], ![e].clear = t]
  /\ touched' = [touched EXCEPT ![e] = @ \cup {t}]
  /\ due' = [x \in Edits |-> IF x = e THEN (due[x] \ {t}) \cup Below[t] ELSE due[x] \ {t}]
  /\ Outdate(t)
  /\ UNCHANGED <<events, run, asking, rows, cbs, planJob, deciding, stale>>

(* The document just rewritten or verified loses its marker. *)
ClearMarker(e) ==
  /\ job[e].clear # Off
  /\ MayClear(job[e].clear)
  /\ job' = [job EXCEPT ![e].clear = Off]
  /\ UNCHANGED <<events, run, asking, rows, cbs, planJob, deciding, saving, touched, due>>

\* Mutant: only the documents the human approved are marked.
MarkApproved(e, d) ==
  /\ job[e].clear = Off /\ d \in job[e].left
  /\ job' = [job EXCEPT ![e].left = @ \ {d}]
  /\ stale' = stale \cup ({d} \cap job[e].todo)
  /\ due' = IF Clearing(d) THEN [due EXCEPT ![e] = @ \ {d}] ELSE due
  /\ UNCHANGED <<events, run, asking, rows, cbs, planJob, deciding, saving, touched>>

(* Step 2: everything below the target is marked, one document at a time.  *)
(* The marker of one that another writer has yet to clear will not last.   *)
MarkDownstream(e, d) ==
  /\ job[e].clear = Off /\ d \in job[e].left
  /\ job' = [job EXCEPT ![e].left = @ \ {d}]
  /\ stale' = stale \cup {d}
  /\ due' = IF Clearing(d) THEN [due EXCEPT ![e] = @ \ {d}] ELSE due
  /\ UNCHANGED <<events, run, asking, rows, cbs, planJob, deciding, saving, touched>>

\* Mutant: a document is reported as updated before its rewrite is known.
ReportFirst(e, d) ==
  /\ job[e].left = {} /\ job[e].clear = Off /\ d \in job[e].todo
  /\ \/ /\ job' = [job EXCEPT ![e].todo = @ \ {d}, ![e].updated = @ \cup {d}]
        /\ UNCHANGED <<saving, docs>>
     \/ /\ job' = [job EXCEPT ![e].todo = @ \ {d}, ![e].updated = @ \cup {d}, ![e].clear = d]
        /\ touched' = [touched EXCEPT ![e] = @ \cup {d}]
        /\ NoLongerDue(d)
        /\ Outdate(d)
        /\ UNCHANGED stale
  /\ UNCHANGED <<events, run, asking, rows, cbs, planJob, deciding>>

(* Step 3: an approved document is updated, verified, or left as it is. *)
ApplyItem(e, d) ==
  /\ job[e].at = "items" /\ job[e].left = {} /\ job[e].clear = Off /\ d \in job[e].todo
  /\ \/ /\ job' = [job EXCEPT ![e].todo = @ \ {d}]
        /\ UNCHANGED <<saving, docs>>
     \/ /\ touched' = [touched EXCEPT ![e] = @ \cup {d}]
        /\ NoLongerDue(d)
        /\ UNCHANGED stale
        /\ \/ /\ job[e].plan[d] = "update"
              /\ job' = [job EXCEPT ![e].todo = @ \ {d}, ![e].updated = @ \cup {d},
                                    ![e].clear = d]
              /\ Outdate(d)
           \/ /\ job[e].plan[d] = "verify"
              /\ job' = [job EXCEPT ![e].todo = @ \ {d}, ![e].clear = d]
              /\ UNCHANGED saving
  /\ UNCHANGED <<events, run, asking, rows, cbs, planJob, deciding>>

CompleteApply(e, result) ==
  \/ UNCHANGED applied
  \/ /\ applied[e] = Off /\ pc[e] \in {"apply", "applySent"}
     /\ applied' = [applied EXCEPT ![e] = result]

(* The job ends with its report; before, it may refuse the target or throw. *)
ApplyJobEnds(e) ==
  /\ job[e].at # "idle" /\ job[e].clear = Off
  /\ \/ /\ job[e].at = "items" /\ job[e].left = {} /\ job[e].todo = {}
        /\ CompleteApply(e, [ok |-> TRUE, updated |-> job[e].updated])
     \/ CompleteApply(e, Bad)
  /\ job' = [job EXCEPT ![e] = NoJob]
  /\ UNCHANGED <<events, run, asking, rows, planned, decided, planJob, deciding, saving, docs>>

-----------------------------------------------------------------------------
(* The decision endpoint: it reads the row, sets its state if it still     *)
(* awaits approval, and only then wakes the flow.                          *)

\* Mutant: the decision is written on the state read before.
DecideOnRead(h) ==
  /\ deciding[h] # Off /\ ~deciding[h].won
  /\ LET d == deciding[h] IN
     row' = [row EXCEPT
       ![d.edit].state = IF d.verdict = "approve" THEN "APPLYING" ELSE "REJECTED",
       ![d.edit].approved = d.approved]
  /\ deciding' = [deciding EXCEPT ![h].won = TRUE]
  /\ UNCHANGED <<events, run, asking, pc, rerun, lost, cbs, planJob, job, saving, docs>>

OpenDecision(h, e) ==
  /\ Event
  /\ deciding[h] = Off
  /\ row[e].state = "AWAITING_APPROVAL"
  /\ \E v \in {"approve", "reject"}, S \in SUBSET DOMAIN row[e].plan :
       /\ v = "reject" => S = {}
       /\ deciding' = [deciding EXCEPT ![h] =
            [edit |-> e, verdict |-> v, approved |-> S, won |-> FALSE]]
  /\ UNCHANGED <<run, asking, rows, cbs, planJob, job, saving, docs>>

CloseDecision(h) ==
  /\ deciding[h] # Off /\ ~deciding[h].won
  /\ LET d == deciding[h] IN
     IF row[d.edit].state = "AWAITING_APPROVAL"
     THEN /\ row' = [row EXCEPT
               ![d.edit].state = IF d.verdict = "approve" THEN "APPLYING" ELSE "REJECTED",
               ![d.edit].approved = d.approved]
          /\ deciding' = [deciding EXCEPT ![h].won = TRUE]
     ELSE UNCHANGED row /\ deciding' = [deciding EXCEPT ![h] = Off]
  /\ UNCHANGED <<events, run, asking, pc, rerun, lost, cbs, planJob, job, saving, docs>>

(* The wake-up is sent, or the request dies before; the flow may be over. *)
SendDecision(h) ==
  /\ deciding[h] # Off /\ deciding[h].won
  /\ LET d == deciding[h] IN
     \/ UNCHANGED decided
     \/ /\ pc[d.edit] \in {"park", "decide"}
        /\ decided' = [decided EXCEPT ![d.edit] =
                          [verdict |-> d.verdict, approved |-> d.approved]]
  /\ deciding' = [deciding EXCEPT ![h] = Off]
  /\ UNCHANGED <<events, run, asking, rows, planned, applied, planJob, job, saving, docs>>

-----------------------------------------------------------------------------
(* A human saves a document: the write tests the edit revision the client  *)
(* has read, then its marker is removed, then the documents below are      *)
(* marked, one by one until one fails.                                     *)

StartSave(h, d) ==
  /\ Event
  /\ saving[h] = Off
  /\ ~editBlocked
  /\ \E o \in BOOLEAN :
       saving' = [saving EXCEPT ![h] = [doc |-> d, at |-> "write", outdated |-> o]]
  /\ UNCHANGED <<run, asking, rows, cbs, planJob, job, deciding, docs>>

WriteSave(h) ==
  /\ saving[h] # Off /\ saving[h].at = "write"
  /\ LET d == saving[h].doc IN
     IF saving[h].outdated
     THEN saving' = [saving EXCEPT ![h] = Off] /\ UNCHANGED docs
     ELSE /\ saving' = [x \in Editors |->
               IF x = h THEN [saving[h] EXCEPT !.at = "clear"]
               ELSE IF saving[x] # Off /\ saving[x].doc = d /\ saving[x].at = "write"
               THEN [saving[x] EXCEPT !.outdated = TRUE] ELSE saving[x]]
          /\ NoLongerDue(d)
          /\ UNCHANGED <<stale, touched>>
  /\ UNCHANGED <<events, run, asking, rows, cbs, planJob, job, deciding>>

ClearSave(h) ==
  /\ saving[h] # Off /\ saving[h].at \in {"clear", "verified"}
  /\ MayClear(saving[h].doc)
  /\ saving' = [saving EXCEPT ![h] =
       IF saving[h].at = "clear" THEN [saving[h] EXCEPT !.at = "mark"] ELSE Off]
  /\ UNCHANGED <<events, run, asking, rows, cbs, planJob, job, deciding, touched, due>>

MarkSave(h) ==
  /\ saving[h] # Off /\ saving[h].at = "mark"
  /\ \E S \in SUBSET Below[saving[h].doc] : stale' = stale \cup S
  /\ saving' = [saving EXCEPT ![h] = Off]
  /\ UNCHANGED <<events, run, asking, rows, cbs, planJob, job, deciding, touched, due>>

(* A human judges a document still valid, whatever the state of the run. *)
VerifyArtifact(h, d) ==
  /\ Event
  /\ saving[h] = Off
  /\ saving' = [saving EXCEPT ![h] = [doc |-> d, at |-> "verified", outdated |-> FALSE]]
  /\ NoLongerDue(d)
  /\ UNCHANGED <<run, asking, rows, cbs, planJob, job, deciding, stale, touched>>

-----------------------------------------------------------------------------
Flow(e) ==
  \/ DispatchPlan(e) \/ PlanArrives(e) \/ AwaitApproval(e)
  \/ DecisionArrives(e) \/ DecisionTimesOut(e)
  \/ DispatchApply(e) \/ ApplyArrives(e) \/ Steer(e) \/ StopSession(e)

Next ==
  \/ ParkRun \/ EndRun \/ Relaunch \/ AskRun \/ GoRun \/ ContainerDies
  \/ \E e \in Edits :
       \/ AskEdit(e) \/ HandOff(e) \/ Flow(e) \/ PlanJobEnds(e)
       \/ RewriteTarget(e) \/ ClearMarker(e) \/ ApplyJobEnds(e)
       \/ \E d \in Docs : MarkDownstream(e, d) \/ ApplyItem(e, d)
       \/ \E t \in Targets : StoreEdit(e, t)
  \/ \E h \in Deciders :
       CloseDecision(h) \/ SendDecision(h) \/ \E e \in Edits : OpenDecision(h, e)
  \/ \E h \in Editors :
       \/ WriteSave(h) \/ ClearSave(h) \/ MarkSave(h)
       \/ \E d \in Docs : StartSave(h, d) \/ VerifyArtifact(h, d)

Spec == Init /\ [][Next]_vars

(* The durable flow goes on: its steps are retried and its callbacks expire. *)
FairSpec == Spec /\ \A e \in Edits : WF_vars(Flow(e))

-----------------------------------------------------------------------------
(* Every variable has its type, and a plan covers what is below its target. *)
TypeOK ==
  /\ events \in 0..MaxEvents
  /\ run \in {"RUNNING", "WAITING", "DONE"}
  /\ asking \in BOOLEAN
  /\ row \in [Edits -> [state : RowStates, target : Docs \cup {Off},
                        plan : Plans \cup {Off}, approved : SUBSET Docs,
                        updated : SUBSET Docs]]
  /\ \A e \in Edits : row[e].plan # Off =>
       row[e].target # Off /\ DOMAIN row[e].plan = Below[row[e].target]
  /\ pc \in [Edits -> FlowSteps]
  /\ rerun \subseteq Edits
  /\ lost \subseteq Edits
  /\ planned \in [Edits -> {Off} \cup Proposals]
  /\ decided \in [Edits -> {Off} \cup Decisions]
  /\ applied \in [Edits -> {Off} \cup Reports]
  /\ planJob \subseteq Edits
  /\ job \in [Edits -> [at : JobSteps, plan : Plans \cup {Off}, left : SUBSET Docs,
                        todo : SUBSET Docs, updated : SUBSET Docs, clear : Docs \cup {Off}]]
  /\ deciding \in [Deciders -> {Off} \cup Requests]
  /\ saving \in [Editors -> {Off} \cup Saves]
  /\ stale \subseteq Docs
  /\ touched \in [Edits -> SUBSET Docs]
  /\ due \in [Edits -> SUBSET Docs]

(* An edit touches no document before a human approved it, and then its    *)
(* target and the approved documents only: a plan that was rejected, or    *)
(* that nobody decided on in time, changes nothing, whichever of two       *)
(* people was first and however late the decision reaches the flow.        *)
OnlyApprovedChanges ==
  \A e \in Edits : touched[e] # {} =>
    /\ row[e].state \in {"APPLYING", "SUCCEEDED", "FAILED"}
    /\ touched[e] \subseteq {row[e].target} \cup row[e].approved

(* What a finished edit reports as updated it did rewrite, and its target, *)
(* also when its job ran twice or the container died on the way.           *)
ReportIsTrue ==
  \A e \in Edits : row[e].state = "SUCCEEDED" =>
    {row[e].target} \cup row[e].updated \subseteq touched[e]

(* After an edit has succeeded, everything below its target carries the    *)
(* drift marker (what failed, what the human left out of the plan), unless *)
(* somebody updated or verified it since, or had done so and was about to  *)
(* remove its marker when the edit set it. That last case is a race of the *)
(* code: the late removal takes the fresh marker off.                      *)
DriftIsMarked ==
  \A e \in Edits : row[e].state = "SUCCEEDED" /\ e \notin rerun => due[e] \subseteq stale

(* How an edit ended is final, though two people, the expiry and the flow  *)
(* may all want to end it.                                                 *)
VerdictStands ==
  [][\A e \in Edits \ rerun :
       row[e].state \in Terminal => row'[e].state = row[e].state]_vars

(* An edit handed to its flow comes to an end, whoever dies meanwhile, and *)
(* does not block the intent's answers, starts and edits for ever, unless  *)
(* the write of that end failed: nothing in the code writes it again.      *)
EditEnds ==
  \A e \in Edits :
    []<>(\/ pc[e] \in {"idle", "checked", "stored"}
         \/ pc[e] = "over" /\ (row[e].state \in Terminal \/ e \in lost))

(* What the flow's comment says of its steering step: gate answers and     *)
(* starts are refused while the flow runs, so that a parked run is still   *)
(* parked when it is told what changed.                                    *)
AnswersAreRefused ==
  [][~asking /\ asking' => \A e \in Edits : pc[e] # "steer"]_vars

=============================================================================
