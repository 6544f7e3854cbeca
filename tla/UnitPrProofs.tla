---------------------------- MODULE UnitPrProofs ----------------------------
(***************************************************************************)
(* Proofs about UnitPr, for every set of repositories and batches.         *)
(***************************************************************************)
EXTENDS UnitPr, FiniteSetTheorems, TLAPS

\* The types, group by group.
CountTyped ==
  events \in 0..MaxEvents /\ rounds \in 0..MaxRetries /\ live \in BOOLEAN /\ redo \in BOOLEAN

UnitTyped ==
  /\ unit \in [state : UnitStates, cb : Nat, snap : {unit.snap}, claim : Wakers \cup {"none"}]
  /\ IsSnapshot(unit.snap)
  /\ unit.claim # "none" => unit.cb # 0
  /\ unit.cb # 0 => unit.state = "PR_READY"

RowsTyped ==
  /\ row \in [Repos -> RowStates]
  /\ batch \in [Batches -> {"NONE", "QUEUED", "RUNNING", "SUCCEEDED", "FAILED"}]

Requests ==
  [state : {"none", "open", "closed", "merged"}, draft : BOOLEAN, early : BOOLEAN, head : Nat]

\* What the lane looks at has a request.
PrTyped == pr \in [Repos -> Requests] /\ \A r \in changed : pr[r].state # "none"

GitTyped ==
  /\ head \in [Repos -> Nat] /\ inIntent \in [Repos -> Nat] /\ target \in [Repos -> Nat]
  /\ based \in [Repos -> Nat] /\ work \in [Repos -> Nat] /\ reviewed \in [Repos -> Nat]

LaneTyped ==
  /\ pc \in Steps
  /\ changed \subseteq Repos /\ integrated \subseteq Repos
  /\ IsSnapshot(seen) /\ IsSnapshot(ready)
  /\ current \in Batches \cup {"none"}
  /\ callback \in Nat /\ answered \in BOOLEAN

WakerTyped ==
  waker \in [Wakers -> [at : {"idle", "stored", "claimed", "sent"}, cb : Nat]]

Typed ==
  CountTyped /\ UnitTyped /\ RowsTyped /\ PrTyped /\ GitTyped /\ LaneTyped /\ WakerTyped

LEMMA TypedTypeOK == Typed => TypeOK
BY DEF Typed, CountTyped, UnitTyped, RowsTyped, PrTyped, Requests, GitTyped, LaneTyped,
       WakerTyped, TypeOK

-----------------------------------------------------------------------------
(* Fresh is a callback id that neither the row nor a waker knows.          *)

LEMMA KnownIsFinite == IsFiniteSet(Known)
<1>1. IsFiniteSet(Batches \cup {"maintenance"})
  BY FiniteAssumption, FS_AddElement
<1>2. IsFiniteSet((Batches \cup {"maintenance"}) \cup {"cancel"})
  BY <1>1, FS_AddElement
<1>3. IsFiniteSet(Wakers)
  <2>1. Wakers = (Batches \cup {"maintenance"}) \cup {"cancel"}
    BY DEF Wakers
  <2> QED BY <1>2, <2>1
<1>4. [w \in Wakers |-> waker[w].cb] \in Surjection(Wakers, {waker[w].cb : w \in Wakers})
  BY DEF Surjection
<1>5. IsFiniteSet({waker[w].cb : w \in Wakers})
  BY <1>3, <1>4, FS_Surjection
<1>6. IsFiniteSet({waker[w].cb : w \in Wakers} \cup {unit.cb})
  BY <1>5, FS_AddElement
<1> QED BY <1>6, {waker[w].cb : w \in Wakers} \cup {unit.cb} = Known DEF Known

LEMMA FreshIsFresh == Fresh \in Nat \ {0} /\ Fresh \notin Known
<1>1. IsFiniteSet(Known) /\ Cardinality(Known) \in Nat
  BY KnownIsFinite, FS_CardinalityType
<1>2. \E cb \in 1 .. Cardinality(Known) + 1 : cb \notin Known
  <2>1. Cardinality(1 .. Cardinality(Known) + 1) = Cardinality(Known) + 1
    BY <1>1, FS_Interval
  <2>2. ASSUME 1 .. Cardinality(Known) + 1 \subseteq Known PROVE FALSE
    BY <1>1, <2>1, <2>2, FS_Subset
  <2> QED BY <2>2
<1>3. Fresh \in 1 .. Cardinality(Known) + 1 /\ Fresh \notin Known
  BY <1>2 DEF Fresh
<1> QED BY <1>1, <1>3

-----------------------------------------------------------------------------
(* The types: what the operators of the lane do to them.                   *)

LEMMA EventCounts ==
  ASSUME CountTyped, Event
  PROVE  events' \in 0..MaxEvents
BY BoundAssumption DEF CountTyped, Event

LEMMA NoSnapshotTyped == IsSnapshot(NoSnapshot)
BY DEF IsSnapshot, NoSnapshot

LEMMA StatusTyped ==
  ASSUME PrTyped, GitTyped, LaneTyped
  PROVE  IsSnapshot([r \in changed |-> Status(r)])
<1>1. ASSUME NEW r \in changed PROVE Status(r) \in Statuses
  BY DEF PrTyped, GitTyped, LaneTyped, Requests, Status, Statuses
<1> QED BY <1>1 DEF IsSnapshot, LaneTyped

LEMMA UnitMoves ==
  ASSUME UnitTyped, NEW state \in UnitStates, updateUnitState(state)
  PROVE  UnitTyped' /\ unit'.state = state
BY NoSnapshotTyped DEF UnitTyped, updateUnitState, unbound

LEMMA RowsMove ==
  ASSUME RowsTyped, NEW S, NEW state \in RowStates, updateUnitPrs(S, state)
  PROVE  row' \in [Repos -> RowStates]
BY DEF RowsTyped, updateUnitPrs

LEMMA BatchMoves ==
  ASSUME RowsTyped, NEW state \in {"SUCCEEDED", "FAILED"}, updateBatch(state)
  PROVE  batch' \in [Batches -> {"NONE", "QUEUED", "RUNNING", "SUCCEEDED", "FAILED"}]
BY DEF RowsTyped, updateBatch

LEMMA DraftSet ==
  ASSUME PrTyped, NEW S, NEW draft \in BOOLEAN, setDraft(S, draft), LaneTyped
  PROVE  /\ pr' \in [Repos -> Requests]
         /\ \A r \in changed : pr'[r].state # "none"
BY DEF PrTyped, Requests, setDraft, LaneTyped

LEMMA DraftKeeps ==
  ASSUME PrTyped, NEW S, NEW draft \in BOOLEAN, setDraft(S, draft), NEW r \in Repos
  PROVE  /\ pr'[r].state = pr[r].state /\ pr'[r].head = pr[r].head
         /\ r \in S /\ pr[r].state = "open" => pr'[r].draft = draft
BY DEF PrTyped, Requests, setDraft

LEMMA DraftLifted ==
  ASSUME PrTyped, LaneTyped, NEW r \in Repos, LiftDraft(r)
  PROVE  PrTyped'
<1>1. [pr[r] EXCEPT !.draft = FALSE, !.early = TRUE] \in Requests
  BY DEF PrTyped, Requests
<1>2. pr' = [pr EXCEPT ![r] = [pr[r] EXCEPT !.draft = FALSE, !.early = TRUE]]
  BY DEF LiftDraft, PrTyped, Requests
<1>3. changed' = changed /\ [pr[r] EXCEPT !.draft = FALSE, !.early = TRUE].state = pr[r].state
  BY DEF LiftDraft, local, PrTyped, Requests
<1> QED BY <1>1, <1>2, <1>3 DEF PrTyped

LEMMA ClaimLost ==
  ASSUME PrTyped, LaneTyped, NEW b \in Batches, LoseClaim(b)
  PROVE  PrTyped'
<1>1. \A r \in Repos : pr'[r] \in Requests /\ pr'[r].state = pr[r].state
  BY DEF LoseClaim, PrTyped, Requests
<1>2. pr' \in [Repos -> Requests]
  BY <1>1 DEF LoseClaim
<1> QED BY <1>1, <1>2 DEF LoseClaim, PrTyped, LaneTyped

LEMMA ReadyMade ==
  ASSUME PrTyped, RowsTyped, LaneTyped, NEW S, MakeReady(S)
  PROVE  /\ pr' \in [Repos -> Requests]
         /\ \A r \in changed : pr'[r].state # "none"
         /\ row' \in [Repos -> RowStates]
<1>1. row' \in [Repos -> RowStates]
  BY DEF MakeReady, RowsTyped, RowStates
<1> QED BY <1>1, DraftSet DEF MakeReady

LEMMA DraftsMade ==
  ASSUME PrTyped, RowsTyped, GitTyped, NEW S, DraftAll(S)
  PROVE  /\ pr' \in [Repos -> Requests]
         /\ \A r \in Repos : r \in S /\ ~Unchanged(r) => pr'[r].state # "none"
         /\ row' \in [Repos -> RowStates]
<1>1. pr' \in [Repos -> Requests]
  BY DEF DraftAll, PrTyped, Requests
<1>2. row' \in [Repos -> RowStates]
  BY DEF DraftAll, RowsTyped, RowStates
<1>3. \A r \in Repos : r \in S /\ ~Unchanged(r) => pr'[r].state # "none"
  BY DEF DraftAll
<1> QED BY <1>1, <1>2, <1>3

LEMMA LaneEnds ==
  ASSUME LaneTyped, NEW step \in Over, End(step), UNCHANGED wait
  PROVE  LaneTyped' /\ changed' = {}
BY NoSnapshotTyped DEF LaneTyped, End, wait, Over, Steps

LEMMA FailureTyped ==
  ASSUME UnitTyped, LaneTyped, LaneFails, UNCHANGED wait
  PROVE  UnitTyped' /\ LaneTyped' /\ changed' = {}
BY UnitMoves, LaneEnds DEF LaneFails, UnitStates, Over

-----------------------------------------------------------------------------
(* The types: one step per action.                                         *)

LEMMA ProviderTyped ==
  ASSUME Typed, Provider
  PROVE  Typed'
<1> USE DEF Typed, CountTyped, UnitTyped, RowsTyped, PrTyped, GitTyped, LaneTyped,
   WakerTyped, Requests, rows, git, past, local, wait
<1>1. ASSUME NEW r \in Repos, NEW squash \in BOOLEAN, MergePr(r, squash) PROVE Typed'
  BY <1>1, EventCounts DEF MergePr, Steps
<1>2. ASSUME NEW r \in Repos, ClosePr(r) PROVE Typed'
  BY <1>2, EventCounts DEF ClosePr, Steps
<1>3. ASSUME NEW r \in Repos, TargetMoves(r) PROVE Typed'
  BY <1>3, EventCounts DEF TargetMoves, Steps
<1>4. ASSUME NEW r \in Repos, HeadMoves(r) PROVE Typed'
  BY <1>4, EventCounts DEF HeadMoves, Steps
<1>5. ASSUME NEW r \in Repos, LiftDraft(r) PROVE Typed'
  <2>1. events' \in 0..MaxEvents
    BY <1>5, EventCounts DEF LiftDraft
  <2>2. PrTyped'
    BY <1>5, DraftLifted
  <2> HIDE DEF PrTyped
  <2>3. UNCHANGED <<live, rows, git, pc, local, wait, waker, past>>
    BY <1>5 DEF LiftDraft
  <2> QED BY <2>1, <2>2, <2>3
<1> QED BY <1>1, <1>2, <1>3, <1>4, <1>5 DEF Provider

LEMMA FeedbackTyped ==
  ASSUME Typed, Feedback
  PROVE  Typed'
<1> USE DEF Typed, CountTyped, UnitTyped, RowsTyped, PrTyped, GitTyped, LaneTyped,
   WakerTyped, Requests, rows, git, past, local, wait
<1>1. ASSUME NEW b \in Batches, TakeFeedback(b) PROVE Typed'
  BY <1>1, NoSnapshotTyped DEF TakeFeedback, Steps, Wakers
<1>2. ASSUME NEW b \in Batches, RefuseFeedback(b) PROVE Typed'
  BY <1>2, FailureTyped, EventCounts DEF RefuseFeedback, Steps
<1>3. ASSUME BeginRevision PROVE Typed'
  BY <1>3, UnitMoves, RowsMove, DraftSet DEF BeginRevision, UnitStates, RowStates, Steps
<1>4. ASSUME RevisionPointless PROVE Typed'
  BY <1>4, BatchMoves, DraftSet, FailureTyped DEF RevisionPointless, Steps
<1>5. ASSUME NEW S \in SUBSET Repos, Revise(S) PROVE Typed'
  BY <1>5 DEF Revise, Push, Reviewing, Steps
<1>6. ASSUME NEW S \in SUBSET Repos, RevisionFails(S) PROVE Typed'
  BY <1>6, BatchMoves, FailureTyped, EventCounts DEF RevisionFails, Push, Reviewing, Steps
<1>7. ASSUME RevisionRetired PROVE Typed'
  BY <1>7, LaneEnds DEF RevisionRetired, Over, Steps
<1>8. ASSUME FollowUp PROVE Typed'
  BY <1>8 DEF FollowUp, Steps
<1>9. ASSUME Revised PROVE Typed'
  BY <1>9, RowsMove DEF Revised, RowStates, Steps
<1>10. ASSUME FeedbackDone PROVE Typed'
  BY <1>10, UnitMoves, BatchMoves DEF FeedbackDone, UnitStates, Steps
<1>11. ASSUME NEW b \in Batches, LoseClaim(b) PROVE Typed'
  <2>1. events' \in 0..MaxEvents
    BY <1>11, EventCounts DEF LoseClaim
  <2>2. PrTyped'
    BY <1>11, ClaimLost
  <2> HIDE DEF PrTyped
  <2> QED BY <1>11, <2>1, <2>2, NoSnapshotTyped DEF LoseClaim, Steps
<1> QED BY <1>1, <1>2, <1>3, <1>4, <1>5, <1>6, <1>7, <1>8, <1>9, <1>10, <1>11 DEF Feedback

LEMMA LaneStepTyped ==
  ASSUME Typed, Lane
  PROVE  Typed'
<1> USE DEF Typed, CountTyped, UnitTyped, RowsTyped, PrTyped, GitTyped, LaneTyped,
   WakerTyped, Requests, rows, git, past, local, wait
<1>1. ASSUME FirstDraft PROVE Typed'
  BY <1>1, UnitMoves, DraftsMade DEF FirstDraft, UnitStates, Draft, Steps
<1>2. ASSUME FollowUpDraft PROVE Typed'
  BY <1>2, DraftsMade DEF FollowUpDraft, Draft, Steps
<1>3. ASSUME NEW S \in SUBSET Repos, DraftFails(S) PROVE Typed'
  BY <1>3, DraftsMade, FailureTyped, EventCounts DEF DraftFails, Steps
<1>4. ASSUME StartReconciling PROVE Typed'
  BY <1>4, UnitMoves, RowsMove DEF StartReconciling, UnitStates, RowStates, Steps
<1>5. ASSUME Reconcile PROVE Typed'
  BY <1>5 DEF Reconcile, Steps
<1>6. ASSUME ReconcileFails PROVE Typed'
  BY <1>6, RowsMove, FailureTyped, EventCounts DEF ReconcileFails, RowStates, Steps
<1>7. ASSUME Ready PROVE Typed'
  BY <1>7, UnitMoves, ReadyMade, StatusTyped DEF Ready, UnitStates, Steps
<1>8. ASSUME NEW S \in SUBSET Repos, ReadyFails(S) PROVE Typed'
  BY <1>8, ReadyMade, FailureTyped, EventCounts DEF ReadyFails, Steps
<1>9. ASSUME Poll PROVE Typed'
  BY <1>9, StatusTyped DEF Poll, Steps
<1>10. ASSUME Halt PROVE Typed'
  BY <1>10, FailureTyped DEF Halt, Steps, Outcome, RowStates
<1>11. ASSUME AllMerged PROVE Typed'
  BY <1>11, NoSnapshotTyped DEF AllMerged, Steps
<1>12. ASSUME Redraft PROVE Typed'
  BY <1>12, DraftSet, RowsMove, NoSnapshotTyped DEF Redraft, MakeDrafts, RowStates, Steps
<1>13. ASSUME NEW S \in SUBSET Repos, RedraftFails(S) PROVE Typed'
  BY <1>13, DraftSet, RowsMove, FailureTyped, EventCounts DEF RedraftFails, MakeDrafts,
     RowStates, Steps
<1>14. ASSUME ProviderFails PROVE Typed'
  BY <1>14, FailureTyped, EventCounts DEF ProviderFails, Steps
<1>15. ASSUME Bind PROVE Typed'
  BY <1>15, FreshIsFresh DEF Bind, Quiet, CanBind, Steps
<1>16. ASSUME BindRefused PROVE Typed'
  BY <1>16, FailureTyped, LaneEnds, FreshIsFresh DEF BindRefused, Over, CanBind, Steps
<1>17. ASSUME BindAgain PROVE Typed'
  BY <1>17, EventCounts DEF BindAgain, CanBind, Steps
<1>18. ASSUME Wake PROVE Typed'
  BY <1>18, NoSnapshotTyped DEF Wake, Steps
<1>19. ASSUME WakeRetired PROVE Typed'
  BY <1>19, LaneEnds DEF WakeRetired, Over, Steps
<1>20. ASSUME Integrate PROVE Typed'
  BY <1>20, UnitMoves, RowsMove, LaneEnds DEF Integrate, UnitStates, RowStates, Over,
     Steps
<1>21. ASSUME RefreshFails PROVE Typed'
  BY <1>21, FailureTyped, EventCounts DEF RefreshFails, Steps
<1>22. ASSUME NEW S \in SUBSET Repos, Retry(S) PROVE Typed'
  <2>1. rounds' \in 0..MaxRetries
    <3>1. rounds > 0 /\ rounds' = rounds - 1
      BY <1>22 DEF Retry
    <3> QED BY <3>1, BoundAssumption
  <2>2. UnitTyped'
    BY <1>22, UnitMoves DEF Retry, UnitStates
  <2>3. GitTyped'
    BY <1>22 DEF Retry, Push, Reviewing
  <2> QED BY <1>22, <2>1, <2>2, <2>3 DEF Retry, Steps
<1> QED BY <1>1, <1>2, <1>3, <1>4, <1>5, <1>6, <1>7, <1>8, <1>9, <1>10, <1>11, <1>12,
   <1>13, <1>14, <1>15, <1>16, <1>17, <1>18, <1>19, <1>20, <1>21, <1>22 DEF Lane

LEMMA WakesTyped ==
  ASSUME Typed, Wakes
  PROVE  Typed'
<1> USE DEF Typed, CountTyped, UnitTyped, RowsTyped, PrTyped, GitTyped, LaneTyped,
   WakerTyped, Requests, rows, git, past, local, wait
<1>1. ASSUME NEW b \in Batches, SubmitFeedback(b) PROVE Typed'
  BY <1>1 DEF SubmitFeedback, Same, Steps, Wakers
<1>2. ASSUME Cancel PROVE Typed'
  <2>1. events' \in 0..MaxEvents
    BY <1>2, EventCounts DEF Cancel
  <2>2. waker' = [waker EXCEPT !["cancel"].at = "stored"] /\ "cancel" \in Wakers
    BY <1>2 DEF Cancel, Wakers
  <2>3. WakerTyped'
    BY <2>2
  <2> QED BY <1>2, <2>1, <2>3 DEF Cancel, Same
<1>3. ASSUME NEW w \in Wakers, WakeWait(w) PROVE Typed'
  BY <1>3, EventCounts DEF WakeWait, Claim, Same, Steps, Wakers
<1>4. ASSUME NEW w \in Wakers, LeaveWait(w) PROVE Typed'
  BY <1>4 DEF LeaveWait, Rest, Same, Steps, Wakers
<1>5. ASSUME Reconciler PROVE Typed'
  BY <1>5, EventCounts DEF Reconciler, Claim, Same, Steps, Wakers
<1>6. ASSUME ClearStaleWait PROVE Typed'
  BY <1>6, NoSnapshotTyped DEF ClearStaleWait, unbound, Same, Steps, Wakers
<1>7. ASSUME NEW w \in Wakers, Send(w) PROVE Typed'
  BY <1>7 DEF Send, Same, Steps, Wakers
<1>8. ASSUME NEW w \in Wakers, SendFails(w) PROVE Typed'
  BY <1>8, EventCounts DEF SendFails, Rest, Holds, Same, Steps, Wakers
<1>9. ASSUME NEW w \in Wakers, Complete(w) PROVE Typed'
  BY <1>9, NoSnapshotTyped DEF Complete, unbound, Rest, Holds, Same, Steps, Wakers
<1>10. ASSUME NEW w \in Wakers, Die(w) PROVE Typed'
  BY <1>10, EventCounts DEF Die, Rest, Same, Steps, Wakers
<1> QED BY <1>1, <1>2, <1>3, <1>4, <1>5, <1>6, <1>7, <1>8, <1>9, <1>10 DEF Wakes

LEMMA TypedStep == Typed /\ [Next]_vars => Typed'
<1>1. ASSUME Typed, UNCHANGED vars PROVE Typed'
  BY <1>1 DEF vars, rows, git, past, local, wait, Typed, CountTyped, UnitTyped, RowsTyped,
              PrTyped, GitTyped, LaneTyped, WakerTyped
<1> QED BY <1>1, ProviderTyped, FeedbackTyped, LaneStepTyped, WakesTyped DEF Next

LEMMA TypedInit == Init => Typed
<1> SUFFICES ASSUME Init PROVE Typed
  OBVIOUS
<1>1. PICK S \in Started : head = [r \in Repos |-> IF r \in S THEN 1 ELSE 0]
  BY DEF Init
<1>2. GitTyped
  BY <1>1 DEF Init, GitTyped
<1>3. CountTyped
  <2>1. events \in 0..MaxEvents /\ rounds \in 0..MaxRetries
    <3>1. events = MaxEvents /\ rounds = MaxRetries
      BY DEF Init
    <3> QED BY <3>1, BoundAssumption
  <2> QED BY <2>1 DEF Init, CountTyped
<1>6. LaneTyped
  BY NoSnapshotTyped DEF Init, LaneTyped, Steps
<1>4. UnitTyped /\ RowsTyped
  BY NoSnapshotTyped DEF Init, UnitTyped, RowsTyped, UnitStates, RowStates
<1>5. PrTyped /\ WakerTyped
  BY DEF Init, PrTyped, Requests, WakerTyped
<1> QED BY <1>2, <1>3, <1>4, <1>5, <1>6 DEF Typed

LEMMA TypedAlways == Spec => []Typed
BY TypedInit, TypedStep, PTL DEF Spec

\* The rows, the provider's requests, the branches, the lane and those who wake it stay
\* in their states, for every set of repositories and batches: a claim is always of a
\* wait, and only a unit that is ready has one.
THEOREM TypeCorrect == Spec => []TypeOK
BY TypedAlways, TypedTypeOK, PTL

-----------------------------------------------------------------------------
(* What has been delivered.                                                *)

Working == {"pre", "before", "revise", "after", "reply", "reconcile", "ready", "observe",
            "polled", "parked", "refresh"}

\* The unit branch contains what was merged and what is under review.
HeadsFit == \A r \in Repos : inIntent[r] <= head[r] /\ reviewed[r] <= head[r]

\* From the first draft to the moment the requests are made ready they are drafts, but for
\* those a person has lifted and those of a lane that lost the claim of a batch.
DraftsFit ==
  pc \in {"pre", "revise", "after", "reply", "reconcile", "ready"} =>
    \A r \in changed : pr[r].state = "open" => pr[r].draft \/ pr[r].early

\* A half-merged repository is not under review.
PartialFits == \A r \in changed : row[r] # "PARTIALLY_MERGED"

\* What a lane found nothing to review in is in, and stays in.
RestFits ==
  pc \in Working =>
    \A r \in Repos \ changed :
      reviewed[r] <= inIntent[r] /\ (r \notin integrated => row[r] = "UNCHANGED")

\* A request was merged with all that was under review, unless the lane is just about to
\* replace it; and a request that is ready has been made ready with all of it.
MergedFits ==
  pc \in Working \ {"after", "refresh"} =>
    \A r \in changed : pr[r].state = "merged" => reviewed[r] <= pr[r].head

ReadyFits ==
  pc \in {"observe", "polled", "parked"} =>
    DOMAIN ready = changed /\ \A r \in changed : reviewed[r] <= ready[r].head

\* So everything is in when the lane finds every ready head on the intent branch.
AllIn == pc = "refresh" => \A r \in Repos : reviewed[r] <= inIntent[r]

DoneFits == unit.state = "MERGED" => pc = "done" /\ UnitDelivered

Delivery ==
  /\ HeadsFit /\ DraftsFit /\ PartialFits /\ RestFits /\ MergedFits /\ ReadyFits /\ AllIn
  /\ DoneFits

\* A lane that failed claims nothing.
LEMMA FailureDelivers ==
  ASSUME UnitTyped, LaneFails, HeadsFit'
  PROVE  Delivery'
<1>1. pc' = "failed" /\ changed' = {} /\ unit'.state # "MERGED"
  <2>1. unit'.state # "MERGED"
    BY DEF LaneFails, updateUnitState, unbound, UnitTyped
  <2> QED BY <2>1 DEF LaneFails, End
<1> QED BY <1>1 DEF Delivery, Working, DraftsFit, PartialFits, RestFits, MergedFits, ReadyFits,
                    AllIn, DoneFits

\* Making drafts of everything under review moves no request and no commit.
LEMMA RedraftFits ==
  ASSUME PrTyped, LaneTyped, MergedFits, pc \in {"before", "polled"},
         setDraft(changed, TRUE), UNCHANGED <<changed, reviewed>>
  PROVE  DraftsFit' /\ MergedFits'
<1>1. \A r \in changed : /\ pr'[r].state = pr[r].state /\ pr'[r].head = pr[r].head
                         /\ pr[r].state = "open" => pr'[r].draft
  BY DraftKeeps DEF LaneTyped
<1>2. \A r \in changed : pr[r].state = "merged" => reviewed[r] <= pr[r].head
  BY DEF MergedFits, Working
<1>3. DraftsFit'
  BY <1>1 DEF DraftsFit
<1>4. MergedFits'
  BY <1>1, <1>2 DEF MergedFits
<1> QED BY <1>3, <1>4

LEMMA ProviderDelivers ==
  ASSUME Typed, Delivery, Provider
  PROVE  Delivery'
<1> USE DEF Typed, UnitTyped, RowsTyped, PrTyped, Requests, GitTyped, LaneTyped, Delivery,
   Working, HeadsFit, DraftsFit, PartialFits, RestFits, MergedFits, ReadyFits, AllIn,
   DoneFits, UnitDelivered, rows, git, past, local, wait
<1>1. ASSUME NEW r \in Repos, NEW squash \in BOOLEAN, MergePr(r, squash) PROVE Delivery'
  BY <1>1 DEF MergePr, Event
<1>2. ASSUME NEW r \in Repos, ClosePr(r) PROVE Delivery'
  BY <1>2 DEF ClosePr, Event
<1>3. ASSUME NEW r \in Repos, TargetMoves(r) PROVE Delivery'
  BY <1>3 DEF TargetMoves, Event
<1>4. ASSUME NEW r \in Repos, HeadMoves(r) PROVE Delivery'
  BY <1>4 DEF HeadMoves, Event
<1>5. ASSUME NEW r \in Repos, LiftDraft(r) PROVE Delivery'
  BY <1>5 DEF LiftDraft, Event
<1> QED BY <1>1, <1>2, <1>3, <1>4, <1>5 DEF Provider

LEMMA FeedbackDelivers ==
  ASSUME Typed, Delivery, Feedback
  PROVE  Delivery'
<1> USE DEF Typed, UnitTyped, RowsTyped, PrTyped, Requests, GitTyped, LaneTyped, Delivery,
   Working, HeadsFit, DraftsFit, PartialFits, RestFits, MergedFits, ReadyFits, AllIn,
   DoneFits, UnitDelivered, rows, git, past, local, wait
<1>1. ASSUME NEW b \in Batches, TakeFeedback(b) PROVE Delivery'
  BY <1>1 DEF TakeFeedback, NoSnapshot
<1>2. ASSUME NEW b \in Batches, RefuseFeedback(b) PROVE Delivery'
  BY <1>2, FailureDelivers DEF RefuseFeedback
<1>3. ASSUME BeginRevision PROVE Delivery'
  <2>1. DraftsFit' /\ MergedFits'
    BY <1>3, RedraftFits DEF BeginRevision
  <2>2. PartialFits' /\ RestFits'
    BY <1>3 DEF BeginRevision, updateUnitPrs
  <2>3. unit'.state # "MERGED"
    BY <1>3 DEF BeginRevision, updateUnitState, unbound
  <2> QED BY <1>3, <2>1, <2>2, <2>3 DEF BeginRevision
<1>4. ASSUME RevisionPointless PROVE Delivery'
  BY <1>4, FailureDelivers DEF RevisionPointless
<1>5. ASSUME NEW S \in SUBSET Repos, Revise(S) PROVE Delivery'
  BY <1>5 DEF Revise, Push, Reviewing
<1>6. ASSUME NEW S \in SUBSET Repos, RevisionFails(S) PROVE Delivery'
  <2>1. HeadsFit'
    BY <1>6 DEF RevisionFails, Push, Reviewing
  <2> QED BY <1>6, <2>1, FailureDelivers DEF RevisionFails
<1>7. ASSUME RevisionRetired PROVE Delivery'
  BY <1>7 DEF RevisionRetired, End, NoSnapshot
<1>8. ASSUME FollowUp PROVE Delivery'
  BY <1>8 DEF FollowUp, AnyIs
<1>9. ASSUME Revised PROVE Delivery'
  BY <1>9 DEF Revised, updateUnitPrs, AnyIs
<1>10. ASSUME FeedbackDone PROVE Delivery'
  BY <1>10 DEF FeedbackDone, updateUnitState, unbound, NoSnapshot, updateBatch
<1>11. ASSUME NEW b \in Batches, LoseClaim(b) PROVE Delivery'
  BY <1>11 DEF LoseClaim, Event, NoSnapshot
<1> QED BY <1>1, <1>2, <1>3, <1>4, <1>5, <1>6, <1>7, <1>8, <1>9, <1>10, <1>11 DEF Feedback

LEMMA LaneDelivers ==
  ASSUME Typed, Delivery, Lane
  PROVE  Delivery'
<1> USE DEF Typed, UnitTyped, RowsTyped, PrTyped, Requests, GitTyped, LaneTyped, Delivery,
   Working, HeadsFit, DraftsFit, PartialFits, RestFits, MergedFits, ReadyFits, AllIn,
   DoneFits, UnitDelivered, rows, git, past, local, wait
<1>1. ASSUME FirstDraft PROVE Delivery'
  BY <1>1 DEF FirstDraft, updateUnitState, unbound, NoSnapshot, Draft, DraftAll,
     Unchanged, Integrated
<1>2. ASSUME FollowUpDraft PROVE Delivery'
  BY <1>2 DEF FollowUpDraft, Draft, DraftAll, Unchanged, Integrated, NoSnapshot
<1>3. ASSUME NEW S \in SUBSET Repos, DraftFails(S) PROVE Delivery'
  BY <1>3, FailureDelivers DEF DraftFails
<1>4. ASSUME StartReconciling PROVE Delivery'
  BY <1>4 DEF StartReconciling, updateUnitState, unbound, NoSnapshot, updateUnitPrs
<1>5. ASSUME Reconcile PROVE Delivery'
  BY <1>5 DEF Reconcile
<1>6. ASSUME ReconcileFails PROVE Delivery'
  BY <1>6, FailureDelivers DEF ReconcileFails
<1>7. ASSUME Ready PROVE Delivery'
  <2>1. \A r \in Repos : pr'[r].state = pr[r].state /\ pr'[r].head = pr[r].head
    BY <1>7, DraftKeeps DEF Ready, MakeReady
  <2> QED BY <1>7, <2>1 DEF Ready, updateUnitState, unbound, NoSnapshot, Status, AnyIs,
                            MakeReady
<1>8. ASSUME NEW S \in SUBSET Repos, ReadyFails(S) PROVE Delivery'
  BY <1>8, FailureDelivers DEF ReadyFails
<1>9. ASSUME Poll PROVE Delivery'
  BY <1>9 DEF Poll, Status
<1>10. ASSUME Halt PROVE Delivery'
  BY <1>10, FailureDelivers DEF Halt
<1>11. ASSUME AllMerged PROVE Delivery'
  <2>1. \A r \in changed : ready[r].head <= inIntent[r]
    BY <1>11 DEF AllMerged, MergedIn
  <2>2. \A r \in Repos : reviewed[r] <= inIntent[r]
    <3>1. \A r \in changed : reviewed[r] <= ready[r].head
      BY <1>11 DEF AllMerged
    <3>2. \A r \in changed : ready[r].head \in Nat
      BY <1>11 DEF AllMerged, IsSnapshot, Statuses
    <3>3. \A r \in Repos \ changed : reviewed[r] <= inIntent[r]
      BY <1>11 DEF AllMerged
    <3> QED BY <2>1, <3>1, <3>2, <3>3
  <2> QED BY <1>11, <2>2 DEF AllMerged
<1>12. ASSUME Redraft PROVE Delivery'
  <2>1. DraftsFit' /\ MergedFits'
    BY <1>12, RedraftFits DEF Redraft, MakeDrafts
  <2>2. PartialFits' /\ RestFits'
    BY <1>12 DEF Redraft, MakeDrafts, updateUnitPrs
  <2> QED BY <1>12, <2>1, <2>2 DEF Redraft
<1>13. ASSUME NEW S \in SUBSET Repos, RedraftFails(S) PROVE Delivery'
  BY <1>13, FailureDelivers DEF RedraftFails
<1>14. ASSUME ProviderFails PROVE Delivery'
  BY <1>14, FailureDelivers DEF ProviderFails
<1>15. ASSUME Bind PROVE Delivery'
  BY <1>15 DEF Bind, CanBind, Quiet, MergedIn, Broken
<1>16. ASSUME BindRefused PROVE Delivery'
  <2>1. CASE live
    BY <1>16, <2>1, FailureDelivers DEF BindRefused
  <2>2. CASE ~live
    BY <1>16, <2>2 DEF BindRefused, Quiet, End
  <2> QED BY <2>1, <2>2
<1>17. ASSUME BindAgain PROVE Delivery'
  BY <1>17 DEF BindAgain, Event, CanBind, Quiet, MergedIn, Broken
<1>18. ASSUME Wake PROVE Delivery'
  BY <1>18 DEF Wake, NoSnapshot
<1>19. ASSUME WakeRetired PROVE Delivery'
  BY <1>19 DEF WakeRetired, End, NoSnapshot
<1>20. ASSUME Integrate PROVE Delivery'
  BY <1>20 DEF Integrate, updateUnitState, unbound, NoSnapshot, updateUnitPrs, End
<1>21. ASSUME RefreshFails PROVE Delivery'
  BY <1>21, FailureDelivers DEF RefreshFails
<1>22. ASSUME NEW S \in SUBSET Repos, Retry(S) PROVE Delivery'
  BY <1>22 DEF Retry, updateUnitState, unbound, NoSnapshot, Push, Reviewing
<1> QED BY <1>1, <1>2, <1>3, <1>4, <1>5, <1>6, <1>7, <1>8, <1>9, <1>10, <1>11, <1>12,
   <1>13, <1>14, <1>15, <1>16, <1>17, <1>18, <1>19, <1>20, <1>21, <1>22 DEF Lane

LEMMA WakesDeliver ==
  ASSUME Typed, Delivery, Wakes
  PROVE  Delivery'
<1> USE DEF Typed, UnitTyped, RowsTyped, PrTyped, Requests, GitTyped, LaneTyped, Delivery,
   Working, HeadsFit, DraftsFit, PartialFits, RestFits, MergedFits, ReadyFits, AllIn,
   DoneFits, UnitDelivered, rows, git, past, local, wait
<1>1. ASSUME NEW b \in Batches, SubmitFeedback(b) PROVE Delivery'
  BY <1>1 DEF SubmitFeedback, Same
<1>2. ASSUME Cancel PROVE Delivery'
  BY <1>2 DEF Cancel, Event, Same
<1>3. ASSUME NEW w \in Wakers, WakeWait(w) PROVE Delivery'
  BY <1>3 DEF WakeWait, Claim, Event, Same
<1>4. ASSUME NEW w \in Wakers, LeaveWait(w) PROVE Delivery'
  BY <1>4 DEF LeaveWait, Rest, Same
<1>5. ASSUME Reconciler PROVE Delivery'
  BY <1>5 DEF Reconciler, Claim, Event, Same
<1>6. ASSUME ClearStaleWait PROVE Delivery'
  BY <1>6 DEF ClearStaleWait, unbound, NoSnapshot, Same
<1>7. ASSUME NEW w \in Wakers, Send(w) PROVE Delivery'
  BY <1>7 DEF Send, Same
<1>8. ASSUME NEW w \in Wakers, SendFails(w) PROVE Delivery'
  BY <1>8 DEF SendFails, Event, Rest, Holds, Same
<1>9. ASSUME NEW w \in Wakers, Complete(w) PROVE Delivery'
  BY <1>9 DEF Complete, unbound, NoSnapshot, Rest, Holds, Same
<1>10. ASSUME NEW w \in Wakers, Die(w) PROVE Delivery'
  BY <1>10 DEF Die, Event, Rest, Same
<1> QED BY <1>1, <1>2, <1>3, <1>4, <1>5, <1>6, <1>7, <1>8, <1>9, <1>10 DEF Wakes

LEMMA DeliveryStep == Typed /\ Delivery /\ [Next]_vars => Delivery'
<1>1. ASSUME Delivery, UNCHANGED vars PROVE Delivery'
  BY <1>1 DEF vars, rows, git, past, local, wait, Delivery, Working, HeadsFit, DraftsFit,
              PartialFits, RestFits, MergedFits, ReadyFits, AllIn, DoneFits, UnitDelivered
<1> QED BY <1>1, ProviderDelivers, FeedbackDelivers, LaneDelivers, WakesDeliver DEF Next

LEMMA DeliveryInit == Init => Delivery
<1> SUFFICES ASSUME Init PROVE Delivery
  OBVIOUS
<1>1. PICK S \in Started : head = [r \in Repos |-> IF r \in S THEN 1 ELSE 0]
  BY DEF Init
<1>2. HeadsFit
  BY <1>1 DEF Init, HeadsFit
<1> QED BY <1>2 DEF Init, Delivery, Working, DraftsFit, PartialFits, RestFits, MergedFits,
                    ReadyFits, AllIn, DoneFits

LEMMA DeliveryAlways == Spec => []Delivery
BY DeliveryInit, DeliveryStep, TypedAlways, PTL DEF Spec

\* A unit is integrated only with every commit that was under review on the intent branch
\* of every repository, for any number of repositories, retries and revisions.
THEOREM ReviewedIsDelivered == Spec => []UnitDelivered
<1>1. Typed /\ Delivery => UnitDelivered
  BY DEF Delivery, DoneFits, UnitDelivered
<1> QED BY <1>1, TypedAlways, DeliveryAlways, PTL

\* While a lane revises or reconciles, an open request of its is a draft unless a person
\* has lifted it or the lane has lost the claim of a batch: the lane's other steps, its
\* failures and retries never leave half of its work ready to be merged.
THEOREM WorkIsDraft == Spec => []DraftWhileWorking
<1>1. Delivery => DraftWhileWorking
  BY DEF Delivery, DraftsFit, DraftWhileWorking
<1> QED BY <1>1, DeliveryAlways, PTL

LEMMA OutcomeKept ==
  ASSUME Typed, Delivery, Next,
         NEW r \in Repos, row[r] = "PARTIALLY_MERGED", Unchanged(r)
  PROVE  row'[r] \in Integrated
<1>1. r \notin changed
  BY DEF Delivery, PartialFits
<1>2. ASSUME NEW S, DraftAll(S) PROVE row'[r] \in Integrated
  BY <1>2 DEF DraftAll, Integrated
<1>3. ASSUME NEW S \in SUBSET changed, MakeReady(S) PROVE row'[r] \in Integrated
  BY <1>1, <1>3 DEF MakeReady, Integrated
<1>4. ASSUME NEW S, NEW state, updateUnitPrs(S, state), r \notin S \/ state = "MERGED"
      PROVE  row'[r] \in Integrated
  BY <1>4 DEF updateUnitPrs, Integrated
<1>5. ASSUME UNCHANGED row PROVE row'[r] \in Integrated
  BY <1>5 DEF Integrated
<1>6. ASSUME Provider PROVE row'[r] \in Integrated
  BY <1>5, <1>6 DEF Provider, MergePr, ClosePr, LiftDraft, TargetMoves, HeadMoves, rows
<1>7. ASSUME Feedback PROVE row'[r] \in Integrated
  BY <1>1, <1>4, <1>5, <1>7
     DEF Feedback, TakeFeedback, LoseClaim, RefuseFeedback, Revise, RevisionFails,
         BeginRevision, RevisionPointless, RevisionRetired, FollowUp, Revised, FeedbackDone,
         rows
<1>8. ASSUME Lane PROVE row'[r] \in Integrated
  <2>1. CASE FirstDraft \/ FollowUpDraft \/ \E S \in SUBSET Repos : DraftFails(S)
    BY <1>2, <2>1 DEF FirstDraft, FollowUpDraft, DraftFails, Draft
  <2>2. CASE Ready \/ \E S \in SUBSET Repos : ReadyFails(S)
    BY <1>3, <2>2 DEF Ready, ReadyFails
  <2>3. CASE StartReconciling \/ ReconcileFails
    BY <1>1, <1>4, <2>3 DEF StartReconciling, ReconcileFails
  <2>4. CASE Redraft \/ \E S \in SUBSET Repos : RedraftFails(S)
    BY <1>1, <1>4, <2>4 DEF Redraft, RedraftFails, MakeDrafts
  <2>5. CASE Integrate
    BY <1>4, <2>5 DEF Integrate
  <2>6. CASE Halt
    BY <1>1, <2>6 DEF Halt, Integrated
  <2>7. CASE \/ Reconcile \/ Poll \/ AllMerged \/ Bind \/ BindRefused \/ BindAgain \/ Wake
             \/ WakeRetired \/ RefreshFails \/ ProviderFails \/ \E S \in SUBSET Repos : Retry(S)
    BY <1>5, <2>7 DEF Reconcile, Poll, AllMerged, Bind, BindRefused, BindAgain, Wake,
                      WakeRetired, RefreshFails, ProviderFails, Retry, rows
  <2> QED BY <1>8, <2>1, <2>2, <2>3, <2>4, <2>5, <2>6, <2>7 DEF Lane
<1>9. ASSUME Wakes PROVE row'[r] \in Integrated
  BY <1>5, <1>9 DEF Wakes, SubmitFeedback, WakeWait, LeaveWait, Send, SendFails, Complete, Die,
                    Cancel, Reconciler, ClearStaleWait, Claim, Same, rows
<1> QED BY <1>6, <1>7, <1>8, <1>9 DEF Next

\* What was confirmed as merged before a partial merge failed the lane stays confirmed
\* through retries, unless there is something new to review.
THEOREM OutcomeIsKept == Spec => RetryKeepsOutcome
<1>1. Typed /\ Delivery /\ [Next]_vars =>
        [\A r \in Repos : row[r] = "PARTIALLY_MERGED" /\ Unchanged(r)
                            => row'[r] \in Integrated]_vars
  BY OutcomeKept
<1> QED BY <1>1, TypedAlways, DeliveryAlways, PTL DEF Spec, RetryKeepsOutcome

-----------------------------------------------------------------------------
(* The wait.                                                               *)

\* An unanswered callback is new to everyone: the row carries it as long as the execution
\* is live, and nobody who has sent an answer to it is about to clear it from the row.
WaitFits ==
  pc = "parked" /\ ~answered =>
    /\ callback # 0
    /\ live => unit.state = "PR_READY" /\ unit.cb = callback
    /\ \A w \in Wakers : waker[w].at = "sent" => waker[w].cb # callback

\* The steps of a lane that is not parked and does not park.
LEMMA NotParked ==
  ASSUME Lane \/ Feedback
  PROVE  \/ pc' # "parked"
         \/ Bind \/ BindAgain
<1>1. ASSUME LaneFails PROVE pc' # "parked"
  BY <1>1 DEF LaneFails, End
<1>2. ASSUME Feedback PROVE pc' # "parked"
  BY <1>1, <1>2
     DEF Feedback, TakeFeedback, LoseClaim, RefuseFeedback, Revise, RevisionFails,
         BeginRevision, RevisionPointless, RevisionRetired, FollowUp, Revised, FeedbackDone, End
<1>3. ASSUME Lane, ~ Bind, ~ BindAgain PROVE pc' # "parked"
  BY <1>1, <1>3
     DEF Lane, FirstDraft, FollowUpDraft, DraftFails, StartReconciling, Reconcile,
         ReconcileFails, Ready, ReadyFails, Poll, Halt, AllMerged, Redraft, RedraftFails,
         ProviderFails, BindRefused, Wake, WakeRetired, Integrate, RefreshFails, Retry, End
<1> QED BY <1>2, <1>3

LEMMA WaitStep ==
  ASSUME Typed, WaitFits, Next
  PROVE  WaitFits'
<1>1. ASSUME Provider PROVE WaitFits'
  BY <1>1 DEF Provider, MergePr, ClosePr, LiftDraft, TargetMoves, HeadMoves, WaitFits, rows,
              local, wait
<1>2. ASSUME Bind PROVE WaitFits'
  <2>1. /\ pc' = "parked" /\ ~answered' /\ callback' = Fresh
        /\ unit'.cb = Fresh /\ unit'.state = "PR_READY" /\ UNCHANGED waker
    BY <1>2 DEF Bind, CanBind, Typed, UnitTyped
  <2>2. \A w \in Wakers : waker[w].cb # Fresh
    BY FreshIsFresh DEF Known
  <2> QED BY <2>1, <2>2, FreshIsFresh DEF WaitFits
<1>3. ASSUME BindAgain PROVE WaitFits'
  BY <1>3 DEF BindAgain, CanBind, WaitFits, Typed, UnitTyped, wait
<1>4. ASSUME NEW w \in Wakers, Claim(w) PROVE WaitFits'
  BY <1>4 DEF Claim, WaitFits, Typed, UnitTyped, WakerTyped, Same
<1>5. ASSUME NEW w \in Wakers, Send(w) PROVE WaitFits'
  BY <1>5 DEF Send, WaitFits, Typed, WakerTyped, Same
<1>6. ASSUME NEW w \in Wakers, Complete(w) PROVE WaitFits'
  BY <1>6 DEF Complete, Holds, Rest, unbound, WaitFits, Typed, UnitTyped, WakerTyped, Same
<1>7. ASSUME NEW w \in Wakers, SendFails(w) \/ Die(w) \/ LeaveWait(w) PROVE WaitFits'
  BY <1>7 DEF SendFails, Die, LeaveWait, Holds, Rest, WaitFits, Typed, UnitTyped, WakerTyped,
              Same
<1>8. ASSUME Cancel \/ ClearStaleWait \/ \E b \in Batches : SubmitFeedback(b) PROVE WaitFits'
  BY <1>8 DEF Cancel, ClearStaleWait, SubmitFeedback, WaitFits, Typed, WakerTyped, Same
<1>9. ASSUME Wakes PROVE WaitFits'
  BY <1>4, <1>5, <1>6, <1>7, <1>8, <1>9 DEF Wakes, WakeWait, Reconciler, Wakers
<1>10. ASSUME Lane \/ Feedback PROVE WaitFits'
  BY <1>2, <1>3, <1>10, NotParked DEF WaitFits
<1> QED BY <1>1, <1>9, <1>10 DEF Next

LEMMA WaitAlways == Spec => []WaitFits
<1>1. Init => WaitFits
  BY DEF Init, WaitFits
<1>2. Typed /\ WaitFits /\ [Next]_vars => WaitFits'
  <2>1. ASSUME WaitFits, UNCHANGED vars PROVE WaitFits'
    BY <2>1 DEF vars, rows, wait, WaitFits
  <2> QED BY <2>1, WaitStep
<1> QED BY <1>1, <1>2, TypedAlways, PTL DEF Spec

\* A lane that waits for ever unless someone answers its callback can always be found by
\* who has an answer, however claims, deaths, cancels and repeated binds interleave.
THEOREM ParkedIsFound == Spec => []ParkedIsWakeable
<1>1. WaitFits => ParkedIsWakeable
  BY DEF WaitFits, ParkedIsWakeable
<1> QED BY <1>1, WaitAlways, PTL

=============================================================================
