------------------------------- MODULE UnitPr -------------------------------
(***************************************************************************)
(* The delivery of one unit by pull requests: draft one per changed        *)
(* repository, reconcile the unit branch with the intent branch, make the  *)
(* requests ready, observe the provider and wait on a durable callback     *)
(* until something happens, revise the branch on review feedback, and call *)
(* the unit integrated when every request is in (section.js). The wait is  *)
(* ended by whoever notices the news first: the feedback endpoint, the     *)
(* scheduled maintenance pass or a cancel, each of which claims the wait,  *)
(* answers the callback and clears the wait (intents/index.js).            *)
(*                                                                         *)
(* A branch is the number of its last commit: Head of the unit branch      *)
(* grows with every push, inIntent is the last of them that is on the      *)
(* intent branch, target counts the pushes to the intent branch.           *)
(***************************************************************************)
EXTENDS Naturals, FiniteSets

CONSTANTS
  Repos,      \* the repositories of the intent
  Started,    \* what the stages of the unit may have changed: sets of repositories
  Batches,    \* the selections of review comments users may submit
  MaxEvents,  \* a bound: failures, and what people do beyond reviewing
  MaxRetries  \* a bound: how often the section is retried

ASSUME BoundAssumption == MaxEvents \in Nat /\ MaxRetries \in Nat
ASSUME StartedAssumption == Started \subseteq SUBSET Repos
ASSUME NamesAssumption == Batches \cap {"none", "maintenance", "cancel"} = {}
ASSUME FiniteAssumption == IsFiniteSet(Batches)

VARIABLES
  events,     \* events, rounds: how much of the bounds is left
  rounds,
  redo,       \* the last stage of the lane has failed in a revision
  live,       \* the execution is not cancelled
  unit,       \* the UNIT row: its state, its wait and the claim on the wait
  row,        \* the UNITPR rows
  batch,      \* the FEEDBACK rows
  pr,         \* the provider's open or last pull request of each repository (early is
              \* history: it became or stayed mergeable out of the lane's turn)
  head,       \* the unit branch on the remote
  inIntent,   \* the last commit of the unit branch that is on the intent branch
  target,     \* the intent branch on the remote
  based,      \* how much of the intent branch the unit branch contains
  pc,         \* where the lane is
  changed,    \* changed, integrated: the lane's rows
  integrated,
  ready,      \* the requests as they were when they were made ready
  seen,       \* the requests as the last poll read them
  current,    \* the batch the lane works on
  callback,   \* the number of the callback the lane waits for, and whether it
  answered,   \* is answered
  waker,      \* those who end waits
  work,       \* history: the last commit the lane's stages made, and the last
  reviewed    \* one they made in a repository with a request under review

rows  == <<unit, row, batch>>
git   == <<head, inIntent, target, based>>
past  == <<rounds, redo, work, reviewed>>
local == <<changed, integrated, ready, seen, current>>
wait  == <<callback, answered>>
vars  == <<events, live, rows, pr, git, pc, local, wait, waker, past>>

Wakers     == Batches \cup {"maintenance", "cancel"}
UnitStates == {"RUNNING", "PR_DRAFT", "RECONCILING", "PR_READY",
               "ADDRESSING_FEEDBACK", "MERGED", "FAILED"}
Active     == {"PR_DRAFT", "RECONCILING", "PR_READY", "ADDRESSING_FEEDBACK"}
(* A row IN_REVIEW is DRAFT, RECONCILING, READY, ADDRESSING_FEEDBACK, CONFLICTED, *)
(* CLOSED or FAILED: nothing the lane does depends on which.                      *)
RowStates  == {"NONE", "UNCHANGED", "IN_REVIEW", "MERGED", "PARTIALLY_MERGED"}
Integrated == {"MERGED", "PARTIALLY_MERGED"}
Steps      == {"draft", "pre", "before", "revise", "after", "reply", "reconcile",
               "ready", "observe", "polled", "parked", "refresh", "done", "failed",
               "retired"}
Over       == {"done", "failed", "retired"}
Statuses   == [state : {"open", "closed", "merged"}, head : Nat, target : Nat]
IsSnapshot(s) == DOMAIN s \subseteq Repos /\ s \in [DOMAIN s -> Statuses]
NoSnapshot == [r \in {} |-> 0]

Init ==
  /\ events = MaxEvents /\ rounds = MaxRetries
  /\ redo = FALSE
  /\ live = TRUE
  /\ unit = [state |-> "RUNNING", cb |-> 0, snap |-> NoSnapshot,
             claim |-> "none"]
  /\ row = [r \in Repos |-> "NONE"]
  /\ batch = [b \in Batches |-> "NONE"]
  /\ pr = [r \in Repos |-> [state |-> "none", draft |-> TRUE, early |-> FALSE, head |-> 0]]
  /\ \E S \in Started : head = [r \in Repos |-> IF r \in S THEN 1 ELSE 0]
  /\ inIntent = [r \in Repos |-> 0]
  /\ target = [r \in Repos |-> 0]
  /\ based = [r \in Repos |-> 0]
  /\ pc = "draft"
  /\ changed = {}
  /\ integrated = {}
  /\ seen = NoSnapshot /\ ready = NoSnapshot
  /\ current = "none"
  /\ callback = 0
  /\ answered = FALSE
  /\ waker = [w \in Wakers |-> [at |-> "idle", cb |-> 0]]
  /\ work = head
  /\ reviewed = head

(* The bounded steps. *)
Event == events > 0 /\ events' = events - 1

-----------------------------------------------------------------------------
(* The rows. *)

(* A unit in any other state than PR_READY has no wait. *)
unbound(u) == [u EXCEPT !.cb = 0, !.snap = NoSnapshot, !.claim = "none"]

\* Mutant: a unit keeps its wait whatever becomes of it.
KeepWait(state) == unit' = [unit EXCEPT !.state = state]

updateUnitState(state) ==
  unit' = IF state = "PR_READY" THEN [unit EXCEPT !.state = state]
                                ELSE unbound([unit EXCEPT !.state = state])

updateUnitPrs(S, state) ==
  row' = [r \in Repos |-> IF r \in S THEN state ELSE row[r]]

updateBatch(state) == batch' = [batch EXCEPT ![current] = state]

Queued == {b \in Batches : batch[b] = "QUEUED"}

-----------------------------------------------------------------------------
(* The provider. *)

(* A merged request keeps the head it was merged with. *)
Status(r) ==
  [state |-> pr[r].state, target |-> target[r],
   head  |-> IF pr[r].state = "merged" THEN pr[r].head ELSE head[r]]

(* What compare calls identical or behind. *)
Unchanged(r) == head[r] <= inIntent[r]

setDraft(S, draft) ==
  pr' = [r \in Repos |-> IF r \in S /\ pr[r].state = "open"
                         THEN [pr[r] EXCEPT !.draft = draft, !.early = FALSE] ELSE pr[r]]

(* A reviewer merges a ready request; a person may also lift the draft and *)
(* merge at once, and may squash: then no commit of the unit branch gets   *)
(* onto the intent branch.                                                 *)
MergePr(r, squash) ==
  /\ pr[r].state = "open" /\ pc \notin {"done", "retired"}
  /\ IF squash \/ pr[r].draft THEN Event ELSE UNCHANGED events
  /\ pr' = [pr EXCEPT ![r] = [state |-> "merged", draft |-> FALSE, early |-> FALSE,
                              head |-> head[r]]]
  /\ inIntent' = IF squash THEN inIntent ELSE [inIntent EXCEPT ![r] = head[r]]
  /\ target' = [target EXCEPT ![r] = @ + 1]
  /\ UNCHANGED <<live, rows, head, based, pc, local, wait, waker, past>>

ClosePr(r) ==
  /\ Event
  /\ pr[r].state = "open" /\ pc \notin Over
  /\ pr' = [pr EXCEPT ![r] = [state |-> "closed", draft |-> FALSE, early |-> FALSE, head |-> 0]]
  /\ UNCHANGED <<live, rows, git, pc, local, wait, waker, past>>

(* A person lifts a draft without merging it. *)
LiftDraft(r) ==
  /\ Event
  /\ pr[r].state = "open" /\ pr[r].draft /\ pc \notin Over
  /\ pr' = [pr EXCEPT ![r].draft = FALSE, ![r].early = TRUE]
  /\ UNCHANGED <<live, rows, git, pc, local, wait, waker, past>>

(* Another unit or a person pushes to the intent branch ... *)
TargetMoves(r) ==
  /\ Event /\ pc \notin Over
  /\ target' = [target EXCEPT ![r] = @ + 1]
  /\ UNCHANGED <<live, rows, pr, head, inIntent, based, pc, local, wait, waker, past>>

(* ... or a person to the unit branch. *)
HeadMoves(r) ==
  /\ Event /\ pc \notin Over
  /\ head' = [head EXCEPT ![r] = @ + 1]
  /\ UNCHANGED <<live, rows, pr, inIntent, target, based, pc, local, wait, waker, past>>

-----------------------------------------------------------------------------
(* The lane. A step that visits every repository is one action: what a     *)
(* visit reads and writes is of its repository only, so whatever happens   *)
(* between two visits might as well happen before or after all of them.    *)
(* Unless the step fails half-way: see the actions that end in LaneFails.  *)

(* The lane is over, and its locals are gone. laneFailed leaves it to a    *)
(* person to retry the section.                                            *)
End(step) ==
  /\ pc' = step
  /\ changed' = {} /\ integrated' = {}
  /\ seen' = NoSnapshot /\ ready' = NoSnapshot
  /\ current' = "none"

LaneFails == updateUnitState("FAILED") /\ End("failed")

\* Mutant: a repository without difference is unchanged, merged or not.
DraftForgets(S) ==
  /\ pr' = [r \in Repos |->
       IF r \in S /\ (~Unchanged(r) \/ pr[r].state \in {"open", "closed"})
       THEN [state |-> "open", draft |-> TRUE, early |-> FALSE, head |-> 0] ELSE pr[r]]
  /\ row' = [r \in Repos |->
       CASE r \in S /\ ~Unchanged(r) -> "IN_REVIEW"
         [] r \in S /\ Unchanged(r) -> "UNCHANGED"
         [] OTHER -> row[r]]

(* ensureDraftPullRequests. A closed request is reopened or replaced, a    *)
(* merged one replaced, but only where there is something to review. What  *)
(* a lane has merged stays merged.                                         *)
DraftAll(S) ==
  /\ pr' = [r \in Repos |->
       IF r \in S /\ (~Unchanged(r) \/ pr[r].state \in {"open", "closed"})
       THEN [state |-> "open", draft |-> TRUE, early |-> FALSE, head |-> 0] ELSE pr[r]]
  /\ row' = [r \in Repos |->
       CASE r \in S /\ ~Unchanged(r) -> "IN_REVIEW"
         [] r \in S /\ Unchanged(r) /\ row[r] \notin Integrated -> "UNCHANGED"
         [] OTHER -> row[r]]

Draft ==
  /\ pc = "draft"
  /\ DraftAll(Repos)
  /\ changed' = {r \in Repos : ~Unchanged(r)}
  /\ integrated' = {r \in Repos : Unchanged(r) /\ row[r] \in Integrated}

(* The first drafts: PR_DRAFT, and the lane waits for its turn and holds   *)
(* the integration lock from then on. With nothing to review it is done.   *)
FirstDraft ==
  /\ Draft /\ current = "none"
  /\ updateUnitState("PR_DRAFT")
  /\ pc' = IF changed' = {} THEN "refresh" ELSE "pre"
  /\ UNCHANGED <<events, live, batch, git, ready, seen, current, wait, waker, past>>

(* The drafts after a revision, some of which replace merged requests. *)
FollowUpDraft ==
  /\ Draft /\ current # "none"
  /\ pc' = "reply"
  /\ UNCHANGED <<events, live, unit, batch, git, ready, seen, current, wait, waker,
                 past>>

DraftFails(S) ==
  /\ Event
  /\ pc = "draft"
  /\ DraftAll(S)
  /\ LaneFails
  /\ UNCHANGED <<live, batch, git, wait, waker, past>>

(* processNextFeedback, called before each reconciliation ("pre") and each  *)
(* observation. The lane is the only one to take batches off the queue.     *)
TakeFeedback(b) ==
  /\ pc \in {"pre", "observe"} /\ b \in Queued
  /\ batch' = [batch EXCEPT ![b] = "RUNNING"]
  /\ current' = b
  /\ ready' = NoSnapshot
  /\ pc' = "before"
  /\ UNCHANGED <<events, live, unit, row, pr, git, changed, integrated, seen, wait, waker,
                 past>>

(* The checkpoint of that claim is lost: the step runs again, finds the     *)
(* batch RUNNING, and the lane takes it for processed. Nobody works on the  *)
(* batch, and a lane that was observing reconciles requests that are ready. *)
LoseClaim(b) ==
  /\ Event
  /\ pc \in {"pre", "observe"} /\ b \in Queued
  /\ batch' = [batch EXCEPT ![b] = "RUNNING"]
  /\ ready' = NoSnapshot
  /\ pr' = [r \in Repos |-> IF pr[r].state = "open" /\ ~pr[r].draft
                            THEN [pr[r] EXCEPT !.early = TRUE] ELSE pr[r]]
  /\ pc' = "pre"
  /\ UNCHANGED <<live, unit, row, git, changed, integrated, seen, current, wait, waker, past>>

(* No stage of the lane has a SUCCEEDED row to be resumed. *)
RefuseFeedback(b) ==
  /\ Event
  /\ pc \in {"pre", "observe"} /\ b \in Queued
  /\ batch' = [batch EXCEPT ![b] = "FAILED"]
  /\ LaneFails
  /\ UNCHANGED <<live, row, pr, git, wait, waker, past>>

AnyIs(state) == \E r \in changed : pr[r].state = state

(* A revision starts from drafts: nobody merges half of it. *)
BeginRevision ==
  /\ pc = "before" /\ ~AnyIs("closed")
  /\ setDraft(changed, TRUE)
  /\ updateUnitState("ADDRESSING_FEEDBACK")
  /\ updateUnitPrs(changed, "IN_REVIEW")
  /\ pc' = "revise"
  /\ UNCHANGED <<events, live, batch, git, changed, integrated, ready, seen, current, wait, waker,
                 past>>

(* A request was closed before or during the revision. *)
RevisionPointless ==
  /\ pc \in {"before", "after"} /\ AnyIs("closed")
  /\ IF pc = "before" THEN setDraft(changed, TRUE) ELSE UNCHANGED pr
  /\ updateBatch("FAILED")
  /\ LaneFails
  /\ UNCHANGED <<events, live, row, git, wait, waker, past>>

(* A stage works in every repository and pushes what it changed, whatever   *)
(* its outcome.                                                             *)
Push(S) ==
  /\ head' = [r \in Repos |-> IF r \in S THEN head[r] + 1 ELSE head[r]]
  /\ work' = [r \in Repos |-> IF r \in S THEN head[r] + 1 ELSE work[r]]
  /\ UNCHANGED <<inIntent, target, based>>

Reviewing(S) ==
  reviewed' = [r \in Repos |-> IF r \in S THEN head[r] + 1 ELSE reviewed[r]]

Revise(S) ==
  /\ pc = "revise"
  /\ Push(S) /\ Reviewing(S \cap changed)
  /\ pc' = "after"
  /\ UNCHANGED <<events, live, rows, pr, local, wait, waker, rounds, redo>>

RevisionFails(S) ==
  /\ Event
  /\ pc = "revise"
  /\ Push(S) /\ Reviewing(S \cap changed)
  /\ updateBatch("FAILED")
  /\ LaneFails
  /\ redo' = TRUE
  /\ UNCHANGED <<live, row, pr, wait, waker, rounds>>

(* A retired revision writes nothing. *)
RevisionRetired ==
  /\ pc = "revise" /\ ~live
  /\ End("retired")
  /\ UNCHANGED <<events, live, rows, pr, git, wait, waker, past>>

(* What was merged meanwhile does not contain the revision: there are new  *)
(* drafts of everything.                                                   *)
FollowUp ==
  /\ pc = "after" /\ ~AnyIs("closed") /\ AnyIs("merged")
  /\ pc' = "draft"
  /\ UNCHANGED <<events, live, rows, pr, git, local, wait, waker, past>>

Revised ==
  /\ pc = "after" /\ ~AnyIs("closed") /\ ~AnyIs("merged")
  /\ updateUnitPrs(changed, "IN_REVIEW")
  /\ pc' = "reply"
  /\ UNCHANGED <<events, live, unit, batch, pr, git, local, wait, waker, past>>

(* The comments are replied to, the batch is SUCCEEDED. *)
FeedbackDone ==
  /\ pc = "reply"
  /\ updateBatch("SUCCEEDED")
  /\ updateUnitState("PR_DRAFT")
  /\ current' = "none"
  /\ pc' = "pre"
  /\ UNCHANGED <<events, live, row, pr, git, changed, integrated, ready, seen, wait, waker,
                 past>>

StartReconciling ==
  /\ pc = "pre" /\ Queued = {}
  /\ updateUnitState("RECONCILING")
  /\ updateUnitPrs(changed, "IN_REVIEW")
  /\ pc' = "reconcile"
  /\ UNCHANGED <<events, live, batch, pr, git, local, wait, waker, past>>

(* reconcile-lane merges the intent branch into the unit branch of every   *)
(* repository that does not contain it yet; resolve-conflict may help.     *)
Reconcile ==
  /\ pc = "reconcile"
  /\ head' = [r \in Repos |-> IF based[r] < target[r] THEN head[r] + 1 ELSE head[r]]
  /\ based' = target
  /\ pc' = "ready"
  /\ UNCHANGED <<events, live, rows, pr, inIntent, target, local, wait, waker, past>>

ReconcileFails ==
  /\ Event
  /\ pc = "reconcile"
  /\ updateUnitPrs(changed, "IN_REVIEW")
  /\ LaneFails
  /\ UNCHANGED <<live, batch, pr, git, wait, waker, past>>

(* Ready for review, with the head that is to be merged. *)
MakeReady(S) ==
  /\ setDraft(S, FALSE)
  /\ row' = [r \in Repos |->
       CASE r \in S /\ pr[r].state = "merged" -> "MERGED"
         [] r \in S /\ pr[r].state # "merged" -> "IN_REVIEW"
         [] OTHER -> row[r]]

Ready ==
  /\ pc = "ready" /\ ~AnyIs("closed")
  /\ MakeReady(changed)
  /\ ready' = [r \in changed |-> Status(r)]
  /\ updateUnitState("PR_READY")
  /\ pc' = "observe"
  /\ UNCHANGED <<events, live, batch, git, changed, integrated, seen, current, wait, waker,
                 past>>

(* A closed request, or the provider, fails the step: some requests are    *)
(* ready, and the lane crashes.                                            *)
ReadyFails(S) ==
  /\ pc = "ready" /\ S \subseteq changed
  /\ IF AnyIs("closed") THEN UNCHANGED events ELSE Event
  /\ \A r \in S : pr[r].state # "closed"
  /\ MakeReady(S)
  /\ LaneFails
  /\ UNCHANGED <<live, batch, git, wait, waker, past>>

Poll ==
  /\ pc = "observe" /\ Queued = {}
  /\ seen' = [r \in changed |-> Status(r)]
  /\ pc' = "polled"
  /\ UNCHANGED <<events, live, rows, pr, git, changed, integrated, ready, current, wait, waker,
                 past>>

\* Mutant: what the provider calls merged is in.
MergedByStatus == {r \in changed : seen[r].state = "merged"}

(* The verdict on a poll. A merged request counts when the head that was   *)
(* made ready is on the intent branch (isAncestor).                        *)
MergedIn == {r \in changed : seen[r].state = "merged" /\ ready[r].head <= inIntent[r]}

ClosedOnes == {r \in changed : seen[r].state # "open"} \ MergedIn

Moved == \E r \in changed : /\ seen[r].state = "open"
                            /\ \/ seen[r].head # ready[r].head
                               \/ seen[r].target # ready[r].target

Broken == ClosedOnes # {} \/ (MergedIn # {} /\ Moved)

Outcome(r) ==
  CASE r \in MergedIn   -> "PARTIALLY_MERGED"
    [] r \in ClosedOnes -> "IN_REVIEW"
    [] OTHER            -> row[r]

(* A closed request, a squashed one, or a merged one beside one that moved. *)
Halt ==
  /\ pc = "polled" /\ Broken
  /\ row' = [r \in Repos |-> IF r \in changed THEN Outcome(r) ELSE row[r]]
  /\ LaneFails
  /\ UNCHANGED <<events, live, batch, pr, git, wait, waker, past>>

AllMerged ==
  /\ pc = "polled" /\ ~Broken /\ MergedIn = changed
  /\ seen' = NoSnapshot /\ ready' = NoSnapshot
  /\ pc' = "refresh"
  /\ UNCHANGED <<events, live, rows, pr, git, changed, integrated, current, wait, waker,
                 past>>

\* Mutant: the rows are updated, the requests stay ready.
RowsOnly(S) == UNCHANGED pr /\ updateUnitPrs(S, "IN_REVIEW")

(* A branch moved: back to draft and reconcile again. A request that is no *)
(* longer open cannot be made a draft, and the lane crashes.               *)
MakeDrafts(S) == setDraft(S, TRUE) /\ updateUnitPrs(S, "IN_REVIEW")

Redraft ==
  /\ pc = "polled" /\ ~Broken /\ Moved
  /\ \A r \in changed : pr[r].state = "open"
  /\ MakeDrafts(changed)
  /\ seen' = NoSnapshot /\ ready' = NoSnapshot
  /\ pc' = "pre"
  /\ UNCHANGED <<events, live, unit, batch, git, changed, integrated, current, wait, waker,
                 past>>

RedraftFails(S) ==
  /\ pc = "polled" /\ ~Broken /\ Moved /\ S \subseteq changed
  /\ IF \A r \in changed : pr[r].state = "open" THEN Event ELSE UNCHANGED events
  /\ \A r \in S : pr[r].state = "open"
  /\ MakeDrafts(S)
  /\ LaneFails
  /\ UNCHANGED <<live, batch, git, wait, waker, past>>

(* A read of the provider, or a reply, that keeps failing: the lane fails  *)
(* or crashes. A batch being revised stays RUNNING.                        *)
ProviderFails ==
  /\ Event
  /\ pc \in {"before", "after", "reply", "observe", "polled"}
  /\ LaneFails
  /\ UNCHANGED <<live, row, batch, pr, git, wait, waker, past>>

(* bindUnitPrWait, with a new callback: the unit carries the callback and  *)
(* what was seen, unless it carries another callback still.                *)
CanBind(cb) == unit.state = "PR_READY" /\ unit.cb \in {0, cb}
Known       == {unit.cb} \cup {waker[w].cb : w \in Wakers}
Fresh       == CHOOSE cb \in 1 .. Cardinality(Known) + 1 : cb \notin Known
Quiet       == pc = "polled" /\ ~Broken /\ MergedIn # changed /\ ~Moved

\* Mutant: the lane waits whether or not the unit carries its callback.
BindAnyway ==
  /\ Quiet
  /\ callback' = Fresh /\ answered' = FALSE
  /\ unit' = IF CanBind(Fresh)
             THEN [unit EXCEPT !.cb = Fresh, !.snap = seen, !.claim = "none"] ELSE unit
  /\ pc' = "parked"
  /\ UNCHANGED <<events, live, row, batch, pr, git, local, waker, past>>

Bind ==
  /\ Quiet /\ CanBind(Fresh)
  /\ callback' = Fresh /\ answered' = FALSE
  /\ unit' = [unit EXCEPT !.cb = Fresh, !.snap = seen, !.claim = "none"]
  /\ pc' = "parked"
  /\ UNCHANGED <<events, live, row, batch, pr, git, local, waker, past>>

(* pr_wait_callback_conflict, or the execution is no longer the lane's. *)
BindRefused ==
  /\ Quiet /\ ~CanBind(Fresh)
  /\ IF live THEN LaneFails ELSE End("retired") /\ UNCHANGED unit
  /\ UNCHANGED <<events, live, row, batch, pr, git, wait, waker, past>>

(* The checkpoint of the bind is lost and the step runs again. *)
BindAgain ==
  /\ Event
  /\ pc = "parked" /\ CanBind(callback)
  /\ unit' = [unit EXCEPT !.cb = callback, !.snap = seen, !.claim = "none"]
  /\ UNCHANGED <<live, row, batch, pr, git, pc, local, wait, waker, past>>

(* The callback has no timeout. A woken lane first asks whether the        *)
(* execution still is its own.                                             *)
Wake ==
  /\ pc = "parked" /\ answered /\ live
  /\ callback' = 0 /\ answered' = FALSE
  /\ seen' = NoSnapshot
  /\ pc' = "observe"
  /\ UNCHANGED <<events, live, rows, pr, git, changed, integrated, ready, current, waker, past>>

WakeRetired ==
  /\ pc = "parked" /\ answered /\ ~live
  /\ End("retired")
  /\ UNCHANGED <<events, live, rows, pr, git, wait, waker, past>>

(* Every request is in: the intent workspace is refreshed, the unit MERGED. *)
Integrate ==
  /\ pc = "refresh"
  /\ updateUnitPrs(integrated \cup changed, "MERGED")
  /\ updateUnitState("MERGED")
  /\ End("done")
  /\ UNCHANGED <<events, live, batch, pr, git, wait, waker, past>>

RefreshFails ==
  /\ Event
  /\ pc = "refresh"
  /\ LaneFails
  /\ UNCHANGED <<live, row, batch, pr, git, wait, waker, past>>

(* Retry at the halt gate: the next round of the section runs what has not *)
(* succeeded of the lane's stages, a failed revision, and drafts again.    *)
Retry(S) ==
  /\ pc = "failed" /\ live /\ rounds > 0
  /\ rounds' = rounds - 1
  /\ redo \/ S = {}
  /\ redo' = FALSE
  /\ updateUnitState("RUNNING")
  /\ Push(S) /\ Reviewing(S)
  /\ pc' = "draft"
  /\ UNCHANGED <<events, live, row, batch, pr, local, wait, waker>>

-----------------------------------------------------------------------------
(* Those who end waits.                                                    *)

Same == <<row, pr, git, pc, local, callback, past>>

Rest(w) == waker' = [waker EXCEPT ![w] = [at |-> "idle", cb |-> 0]]

(* A user selects review comments (handleUnitReviewFeedback): the unit must *)
(* be in review.                                                            *)
SubmitFeedback(b) ==
  /\ batch[b] = "NONE" /\ unit.state \in Active
  /\ batch' = [batch EXCEPT ![b] = "QUEUED"]
  /\ waker' = [waker EXCEPT ![b].at = "stored"]
  /\ UNCHANGED <<events, live, unit, answered, Same>>

(* A cancel retires what waits after the status is written. *)
Cancel ==
  /\ Event
  /\ live /\ pc \notin {"done", "retired"}
  /\ live' = FALSE
  /\ waker' = [waker EXCEPT !["cancel"].at = "stored"]
  /\ UNCHANGED <<unit, batch, answered, Same>>

\* Mutant: a claim holds for ever.
ClaimOnce(w) ==
  /\ unit.cb # 0 /\ unit.state = "PR_READY" /\ unit.claim = "none"
  /\ unit' = [unit EXCEPT !.claim = w]
  /\ waker' = [waker EXCEPT ![w] = [at |-> "claimed", cb |-> unit.cb]]
  /\ UNCHANGED <<events, live, batch, answered, Same>>

(* wakeUnitPrWait: claim the wait, answer the callback, clear the wait. The *)
(* claim names the callback that was read, so reading and claiming are one  *)
(* step. A claim holds for two minutes: after the death of its holder, or,  *)
(* which counts as an event, before the holder is done.                     *)
Claim(w) ==
  /\ unit.cb # 0 /\ unit.state = "PR_READY"
  /\ IF unit.claim # "none" /\ waker[unit.claim].at # "idle"
     THEN Event ELSE UNCHANGED events
  /\ unit' = [unit EXCEPT !.claim = w]
  /\ waker' = [waker EXCEPT ![w] = [at |-> "claimed", cb |-> unit.cb]]
  /\ UNCHANGED <<live, batch, answered, Same>>

(* The feedback request and the cancel wake a wait they find ... *)
WakeWait(w) == waker[w].at = "stored" /\ Claim(w)

(* ... and do nothing without one, or while another claim holds. *)
LeaveWait(w) ==
  /\ waker[w].at = "stored"
  /\ unit.cb = 0 \/ unit.claim # "none"
  /\ Rest(w)
  /\ UNCHANGED <<events, live, unit, batch, answered, Same>>

(* providerTransitionFor: what of the snapshot no longer is so. *)
Transition(before, after) ==
  IF after.state = "open"
  THEN after.head # before.head \/ after.target # before.target
  ELSE after.state # before.state

News(snapshot) ==
  Queued # {} \/ \E r \in DOMAIN snapshot : Transition(snapshot[r], Status(r))

(* The scheduled pass (runPrWaitReconciler) looks at every wait, as long as *)
(* there are no more than a hundred: it reads the first hundred, always in  *)
(* the same order of execution ids.                                         *)
Reconciler ==
  /\ waker["maintenance"].at = "idle"
  /\ live /\ News(unit.snap)
  /\ Claim("maintenance")

ClearStaleWait ==
  /\ waker["maintenance"].at = "idle"
  /\ ~live /\ unit.cb # 0
  /\ unit' = unbound(unit)
  /\ UNCHANGED <<events, live, batch, answered, waker, Same>>

(* A callback that is gone counts as answered. *)
Send(w) ==
  /\ waker[w].at = "claimed"
  /\ answered' = (answered \/ callback = waker[w].cb)
  /\ waker' = [waker EXCEPT ![w].at = "sent"]
  /\ UNCHANGED <<events, live, unit, batch, Same>>

Holds(w) == unit.cb = waker[w].cb /\ unit.claim = w

SendFails(w) ==
  /\ Event
  /\ waker[w].at = "claimed"
  /\ unit' = IF Holds(w) THEN [unit EXCEPT !.claim = "none"] ELSE unit
  /\ Rest(w)
  /\ UNCHANGED <<live, batch, answered, Same>>

Complete(w) ==
  /\ waker[w].at = "sent"
  /\ unit' = IF Holds(w) THEN unbound(unit) ELSE unit
  /\ Rest(w)
  /\ UNCHANGED <<events, live, batch, answered, Same>>

(* A request or a maintenance pass dies, or its last write fails. *)
Die(w) ==
  /\ Event
  /\ waker[w].at # "idle"
  /\ Rest(w)
  /\ UNCHANGED <<live, unit, batch, answered, Same>>

-----------------------------------------------------------------------------
Provider ==
  \/ \E r \in Repos, squash \in BOOLEAN : MergePr(r, squash)
  \/ \E r \in Repos : ClosePr(r) \/ LiftDraft(r) \/ TargetMoves(r) \/ HeadMoves(r)

Feedback ==
  \/ \E b \in Batches : TakeFeedback(b) \/ LoseClaim(b) \/ RefuseFeedback(b)
  \/ \E S \in SUBSET Repos : Revise(S) \/ RevisionFails(S)
  \/ BeginRevision \/ RevisionPointless \/ RevisionRetired
  \/ FollowUp \/ Revised \/ FeedbackDone

Lane ==
  \/ FirstDraft \/ FollowUpDraft
  \/ StartReconciling \/ Reconcile \/ ReconcileFails \/ Ready
  \/ Poll \/ Halt \/ AllMerged \/ Redraft
  \/ Bind \/ BindRefused \/ BindAgain \/ Wake \/ WakeRetired
  \/ Integrate \/ RefreshFails \/ ProviderFails
  \/ \E S \in SUBSET Repos : DraftFails(S) \/ ReadyFails(S) \/ RedraftFails(S) \/ Retry(S)

Wakes ==
  \/ \E b \in Batches : SubmitFeedback(b)
  \/ \E w \in Wakers : \/ WakeWait(w) \/ LeaveWait(w) \/ Send(w) \/ SendFails(w)
                       \/ Complete(w) \/ Die(w)
  \/ Cancel \/ Reconciler \/ ClearStaleWait

Next == Provider \/ Feedback \/ Lane \/ Wakes

Spec == Init /\ [][Next]_vars

(* The maintenance pass runs every minute, whoever has claimed a wait goes  *)
(* on or dies, an answered lane goes on. Nobody has to review anything.     *)
Maintenance == Reconciler \/ \E w \in Wakers : Send(w) \/ Complete(w)

Fairness == WF_vars(Maintenance) /\ WF_vars(Wake)

FairSpec == Spec /\ Fairness

-----------------------------------------------------------------------------
(* The types of the state. A claim is of a wait, and only a unit that is    *)
(* ready has a wait (updateUnitState removes it from any other).            *)
TypeOK ==
  /\ events \in 0..MaxEvents /\ rounds \in 0..MaxRetries /\ live \in BOOLEAN
  /\ redo \in BOOLEAN
  /\ DOMAIN unit = {"state", "cb", "snap", "claim"}
  /\ unit.state \in UnitStates /\ unit.cb \in Nat /\ IsSnapshot(unit.snap)
  /\ unit.claim \in Wakers \cup {"none"}
  /\ unit.claim # "none" => unit.cb # 0
  /\ unit.cb # 0 => unit.state = "PR_READY"
  /\ row \in [Repos -> RowStates]
  /\ batch \in [Batches -> {"NONE", "QUEUED", "RUNNING", "SUCCEEDED", "FAILED"}]
  /\ pr \in [Repos -> [state : {"none", "open", "closed", "merged"}, draft : BOOLEAN,
                       early : BOOLEAN, head : Nat]]
  /\ {head, inIntent, target, based, work, reviewed} \subseteq [Repos -> Nat]
  /\ pc \in Steps
  /\ changed \subseteq Repos /\ integrated \subseteq Repos
  /\ IsSnapshot(seen) /\ IsSnapshot(ready)
  /\ current \in Batches \cup {"none"}
  /\ callback \in Nat /\ answered \in BOOLEAN
  /\ waker \in [Wakers -> [at : {"idle", "stored", "claimed", "sent"},
                           cb : Nat]]

(* A unit is integrated only when what was under review is on the intent    *)
(* branch of every repository: every stage and revision commit of a         *)
(* repository with a request, whatever was squashed, closed, merged half,   *)
(* retried or revised on the way (integrateUnitPullRequests).               *)
UnitDelivered ==
  unit.state = "MERGED" =>
    \A r \in Repos : reviewed[r] <= inIntent[r] /\ row[r] \in {"MERGED", "UNCHANGED"}

(* While the lane revises or reconciles, each of its open requests is a     *)
(* draft, unless a person has lifted it since the lane made it one, or it   *)
(* was ready when the lane passed over a batch whose claim it had lost. In  *)
(* no other way can unfinished work become mergeable: not by a revision, a  *)
(* failed step, a retry or a branch that moves.                             *)
DraftWhileWorking ==
  pc \in {"revise", "after", "reply", "reconcile"} =>
    \A r \in changed : pr[r].state = "open" => pr[r].draft \/ pr[r].early

(* A lane suspended on an unanswered callback, which has no timeout, can    *)
(* always be found: the unit row carries this callback, until a cancelled   *)
(* execution's waits are cleared.                                           *)
ParkedIsWakeable ==
  pc = "parked" /\ ~answered /\ live => unit.state = "PR_READY" /\ unit.cb = callback

(* A repository whose merge was confirmed stays so through the retries of   *)
(* a partial merge, unless its branch gets something new to review.         *)
RetryKeepsOutcome ==
  [][\A r \in Repos : row[r] = "PARTIALLY_MERGED" /\ Unchanged(r)
                        => row'[r] \in Integrated]_vars

(* No news is lost: what happens between a poll and the bind, under a claim *)
(* whose holder dies, or beside another wake-up, still wakes the lane.      *)
NewsIsSeen == []<>~(live /\ pc = "parked" /\ News(seen))

(* docs/concepts/execution.md: "A unit is complete only after every changed *)
(* repository confirms the exact ready head is on the intent branch." So    *)
(* whatever the lane's stages pushed is on the intent branch by then.       *)
WorkIsDelivered ==
  unit.state = "MERGED" => \A r \in Repos : work[r] <= inIntent[r]

=============================================================================
