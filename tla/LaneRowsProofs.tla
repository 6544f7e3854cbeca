--------------------------- MODULE LaneRowsProofs ---------------------------
(***************************************************************************)
(* Proofs about Lanes, for every plan and every number of retakes: what    *)
(* the UNIT rows and the verdict of the section say of the intent branch,  *)
(* and that a lane of the owner builds on a branch that holds the heads of *)
(* the units it depends on, the revised ones included.                     *)
(***************************************************************************)
EXTENDS LanesProofs

\* A merged row or lane is a delivered unit, and a lane gets a permit only with its
\* dependencies delivered.
Order ==
  /\ \A u \in Units : row[u] = "MERGED" => u \in delivered
  /\ \A r \in AllRuns, u \in Units :
       /\ lane[r][u] \in {"merged", "MERGED"} => u \in delivered
       /\ lane[r][u] \in {"queued"} \cup Working => plan.dependsOn[u] \subseteq delivered
  /\ DeliveredInOrder

\* The lane of the owner knows of a merged row, unless a revision reopens it.
RowKnown(u) ==
  owner # NoRun /\ row[u] = "MERGED" =>
    \/ lane[owner][u] \in {"MERGED", "TERMINAL"}
    \/ lane[owner][u] \in {"waiting", "queued"} /\ sec[owner].rev > 0

\* What the rows and the lanes of the owner say is merged, is.
Landed ==
  /\ \A u \in Units : row[u] = "MERGED" => landed[u] = Repos
  /\ owner # NoRun => \A u \in Units :
       lane[owner][u] \in {"merged", "MERGED"} => landed[u] = Repos
  /\ \A u \in Units : RowKnown(u)

\* A retake has no owner, and the owner knows of every skip that is recorded.
Owned ==
  /\ retake.step # "none" => owner = NoRun
  /\ owner # NoRun =>
       \A u \in note : \/ u \in skipped[owner] \cup delivered
                       \/ sec[owner].at = "skipping" /\ u \in sec[owner].todo \ sec[owner].omit

\* The lanes of a walk are units of the plan.
InPlan == \A r \in AllRuns : sec[r].todo \cup sec[r].rest \subseteq plan.units

RowsInv == Order /\ Landed /\ Owned /\ InPlan /\ ResolvedIsAccounted

-----------------------------------------------------------------------------
(* The steps of a walk. *)

\* Run r goes to a place that reopens a merged lane only to revise it, and that
\* takes its lanes from the plan.
Goes(r) ==
  \E s \in Sections :
    /\ Go(r, s)
    /\ s.todo \cup s.rest \subseteq plan.units
    /\ s.at # "resolved"
    /\ s.rev = sec[r].rev \/ (\A u \in Units : lane[r][u] \in AtRest)
    /\ s.at = "round" =>
         /\ \A u \in Units : lane[r][u] \in AtRest
         /\ s.rev > 0 \/ Unmerged(lane[r], s.todo)

LEMMA LanesAfterGo ==
  ASSUME Sound, NEW r \in AllRuns, NEW s, Go(r, s), NEW q \in AllRuns, NEW u \in Units
  PROVE  /\ sec'[q] = IF q = r THEN s ELSE sec[q]
         /\ lane'[q][u] = IF q = r /\ s.at = "round" /\ u \in s.todo THEN "waiting"
                                                                     ELSE lane[q][u]
BY DEF Go, Opened, Sound, TypeOK

LEMMA GoOrder ==
  ASSUME Sound, Order, NEW r \in AllRuns, NEW s, Go(r, s), UNCHANGED <<plan, delivered>>,
         \A u \in Units : row'[u] = "MERGED" => row[u] = "MERGED"
  PROVE  Order'
<1>1. ASSUME NEW q \in AllRuns, NEW u \in Units
      PROVE  lane'[q][u] = "waiting" \/ lane'[q][u] = lane[q][u]
  BY LanesAfterGo
<1> QED BY <1>1 DEF Order, DeliveredInOrder, Working

LEMMA GoLanded ==
  ASSUME Sound, Landed, NEW r \in AllRuns, Goes(r), UNCHANGED <<plan, owner, landed>>,
         \A u \in Units : row'[u] = "MERGED" => row[u] = "MERGED"
  PROVE  Landed'
<1>1. PICK s \in Sections :
        /\ Go(r, s)
        /\ s.rev = sec[r].rev \/ (\A u \in Units : lane[r][u] \in AtRest)
        /\ s.at = "round" =>
             /\ \A u \in Units : lane[r][u] \in AtRest
             /\ s.rev > 0 \/ Unmerged(lane[r], s.todo)
  BY DEF Goes
<1>2. ASSUME owner # NoRun
      PROVE  owner \in AllRuns
  BY <1>2 DEF Sound, TypeOK
<1>3. ASSUME owner # NoRun, NEW u \in Units, lane'[owner][u] \in {"merged", "MERGED"}
      PROVE  landed'[u] = Repos
  BY <1>1, <1>2, <1>3, LanesAfterGo DEF Landed
<1>4. ASSUME NEW u \in Units, owner # NoRun, row'[u] = "MERGED"
      PROVE  \/ lane'[owner][u] \in {"MERGED", "TERMINAL"}
             \/ lane'[owner][u] \in {"waiting", "queued"} /\ sec'[owner].rev > 0
  <2>1. \/ lane[owner][u] \in {"MERGED", "TERMINAL"}
        \/ lane[owner][u] \in {"waiting", "queued"} /\ sec[owner].rev > 0
    BY <1>4 DEF Landed, RowKnown
  <2>2. CASE owner # r
    BY <1>1, <1>2, <1>4, <2>1, <2>2, LanesAfterGo
  <2>3. CASE owner = r /\ s.at = "round" /\ u \in s.todo
    <3>1. s.rev > 0
      BY <1>1, <2>1, <2>3 DEF AtRest, Unmerged
    <3> QED BY <1>1, <2>3, <3>1, LanesAfterGo
  <2>4. CASE owner = r /\ ~ (s.at = "round" /\ u \in s.todo)
    <3>1. lane'[r][u] = lane[r][u] /\ sec'[r] = s
      BY <1>1, <2>4, LanesAfterGo
    <3> QED BY <1>1, <2>1, <2>4, <3>1 DEF AtRest
  <2> QED BY <2>2, <2>3, <2>4
<1> QED BY <1>3, <1>4 DEF Landed, RowKnown

LEMMA GoInPlan ==
  ASSUME Sound, InPlan, NEW r \in AllRuns, Goes(r), plan' = plan
  PROVE  InPlan'
<1>1. PICK s \in Sections : Go(r, s) /\ s.todo \cup s.rest \subseteq plan.units
  BY DEF Goes
<1>2. sec' = [sec EXCEPT ![r] = s]
  BY <1>1 DEF Go
<1> QED BY <1>1, <1>2 DEF InPlan, Sound, TypeOK

\* A walk that goes on without writing a row.
LEMMA PlaceOnlyRows ==
  ASSUME Sound, RowsInv, NEW r \in AllRuns, Goes(r),
         sec[r].at = "skipping" => owner # r,
         UNCHANGED <<plan, meta, retake, row, note, git, skipped>>
  PROVE  RowsInv'
<1>1. PICK s \in Sections : Go(r, s) /\ s.at # "resolved"
  BY DEF Goes
<1>2. UNCHANGED <<plan, owner, retake, row, note, landed, delivered, skipped>>
  BY DEF meta, git
<1>3. Order'
  BY <1>1, <1>2, GoOrder DEF RowsInv
<1>4. Landed' /\ InPlan'
  BY <1>2, GoLanded, GoInPlan DEF RowsInv
<1>5. \A q \in AllRuns : q # r => sec'[q] = sec[q]
  BY <1>1, LanesAfterGo DEF Go, Sound, TypeOK
<1>6. sec'[r] = s
  BY <1>1 DEF Go, Sound, TypeOK
<1>7. owner # NoRun => owner \in AllRuns
  BY DEF Sound, TypeOK
<1>8. Owned'
  BY <1>2, <1>5, <1>7 DEF RowsInv, Owned
<1>9. ResolvedIsAccounted'
  BY <1>1, <1>2, <1>5, <1>6, <1>7 DEF RowsInv, ResolvedIsAccounted
<1> QED BY <1>3, <1>4, <1>8, <1>9 DEF RowsInv

-----------------------------------------------------------------------------
(* Where each action of a walk goes.                                       *)

\* The walk of run r in a known state, with its lanes among those of the plan.
LEMMA Here ==
  ASSUME Sound, InPlan, NEW r \in AllRuns
  PROVE  /\ sec[r] \in Sections /\ sec[r].todo \cup sec[r].rest \subseteq plan.units
         /\ plan.units \subseteq Units /\ Walking(sec[r], lane[r])
BY PlaceTyped, PlanFits DEF InPlan

LEMMA RoundGoes ==
  ASSUME Sound, NEW r \in AllRuns, NEW s \in Sections, NEW todo \in SUBSET plan.units,
         NEW round \in Nat, Go(r, Round(s, todo, skipped[r], round)),
         s.rest \subseteq plan.units, \A u \in Units : lane[r][u] \in AtRest,
         s.rev > 0 \/ Unmerged(lane[r], todo)
  PROVE  Goes(r)
<1> DEFINE t == Round(s, todo, skipped[r], round)
<1>1. plan.units \subseteq Units
  BY PlaceTyped, PlanFits
<1>2. /\ t \in Sections /\ t.at = "round" /\ t.todo = todo \ skipped[r] /\ t.rest = s.rest
      /\ t.rev = s.rev
  BY <1>1 DEF Round, Sections, Places
<1> QED BY <1>2 DEF Goes, Unmerged

LEMMA BatchGoes ==
  ASSUME Sound, NEW r \in AllRuns, NEW s \in Sections, NEW w \in Nat \ {0}, GoBatch(r, s, w),
         s.todo \cup s.rest \subseteq plan.units, \A u \in Units : lane[r][u] \in AtRest,
         \A i \in DOMAIN plan.waves : w <= i => Unmerged(lane[r], Batch(s, i))
  PROVE  Goes(r)
<1>1. CASE Go(r, [s EXCEPT !.at = "check"])
  <2>1. /\ [s EXCEPT !.at = "check"] \in Sections /\ [s EXCEPT !.at = "check"].at = "check"
        /\ [s EXCEPT !.at = "check"].todo = s.todo /\ [s EXCEPT !.at = "check"].rest = s.rest
    BY DEF Sections, Places
  <2> QED BY <1>1, <2>1 DEF Goes
<1>2. ASSUME NEW next \in w .. Len(plan.waves),
             Go(r, Round([s EXCEPT !.phase = "batch", !.wave = next, !.rev = 0],
                         Batch(s, next), skipped[r], 0))
      PROVE  Goes(r)
  <2> DEFINE b == [s EXCEPT !.phase = "batch", !.wave = next, !.rev = 0]
  <2>1. next \in DOMAIN plan.waves /\ next \in Nat /\ w <= next
    BY PlaceTyped, PlanFits
  <2>2. b \in Sections /\ b.rest = s.rest
    BY <2>1 DEF Sections
  <2>3. Batch(s, next) \in SUBSET plan.units /\ Unmerged(lane[r], Batch(s, next))
    BY <2>1 DEF Batch
  <2> QED BY <1>2, <2>2, <2>3, RoundGoes
<1> QED BY <1>1, <1>2 DEF GoBatch

LEMMA RemainingGoes ==
  ASSUME Sound, NEW r \in AllRuns, NEW s \in Sections, GoRemaining(r, s),
         s.todo \cup s.rest \subseteq plan.units, \A u \in Units : lane[r][u] \in AtRest,
         Unmerged(lane[r], s.rest)
  PROVE  Goes(r)
<1>1. CASE Go(r, Round([s EXCEPT !.phase = "free"], s.rest, skipped[r], 0))
  <2>1. [s EXCEPT !.phase = "free"] \in Sections /\ [s EXCEPT !.phase = "free"].rest = s.rest
    BY DEF Sections
  <2> QED BY <1>1, <2>1, RoundGoes
<1>2. CASE GoBatch(r, s, 1)
  <2>1. \A i \in DOMAIN plan.waves : Unmerged(lane[r], Batch(s, i))
    BY DEF Batch, Unmerged
  <2> QED BY <1>2, <2>1, BatchGoes
<1> QED BY <1>1, <1>2 DEF GoRemaining

\* A walk that leaves a place for one where no lane runs.
LEMMA AwayGoes ==
  ASSUME Sound, InPlan, NEW r \in AllRuns, NEW at \in Places \ {"round", "resolved"},
         Go(r, [sec[r] EXCEPT !.at = at])
  PROVE  Goes(r)
<1> DEFINE t == [sec[r] EXCEPT !.at = at]
<1>1. /\ t \in Sections /\ t.at = at /\ t.todo = sec[r].todo /\ t.rest = sec[r].rest
      /\ t.rev = sec[r].rev
  BY Here DEF Sections
<1> QED BY <1>1, Here DEF Goes

LEMMA AfterRoundGoes ==
  ASSUME Sound, InPlan, NEW r \in AllRuns, Go(r, AfterRound(sec[r], lane[r]))
  PROVE  Goes(r)
<1> DEFINE t == AfterRound(sec[r], lane[r])
<1>1. t.at \in {"review", "fanout", "check"}
  BY Here DEF AfterRound, Sections
<1>2. /\ t \in Sections /\ t.todo = {} /\ t.rest = sec[r].rest /\ t.rev = sec[r].rev
  BY <1>1, Here DEF AfterRound, Sections, Places, Gates
<1> QED BY <1>1, <1>2, Here DEF Goes

LEMMA EndRoundGoes ==
  ASSUME Sound, InPlan, NEW r \in AllRuns, EndRound(r)
  PROVE  Goes(r)
<1> DEFINE open == {u \in sec[r].todo \ skipped[r] : lane[r][u] # "MERGED"}
           ask  == [sec[r] EXCEPT !.at = "halt", !.todo = open, !.asks = 0]
<1>1. \/ Go(r, [sec[r] EXCEPT !.at = "retired"]) \/ Go(r, AfterRound(sec[r], lane[r]))
      \/ Go(r, ask)
  BY DEF EndRound
<1>2. CASE Go(r, ask)
  <2>1. open \subseteq sec[r].todo
    OBVIOUS
  <2> HIDE DEF open
  <2>2. /\ ask \in Sections /\ ask.at = "halt" /\ ask.todo = open /\ ask.rest = sec[r].rest
        /\ ask.rev = sec[r].rev
    BY <2>1, Here DEF Sections, Places, Gates
  <2> QED BY <1>2, <2>1, <2>2, Here DEF Goes
<1> QED BY <1>1, <1>2, AwayGoes, AfterRoundGoes DEF Places, Ended

LEMMA FanOutGoes ==
  ASSUME Sound, InPlan, NEW r \in AllRuns, FanOut(r)
  PROVE  Goes(r)
<1> DEFINE rest == {u \in plan.units \ (skipped[r] \cup {plan.skeleton}) :
                      lane[r][u] # "MERGED"}
           s    == [sec[r] EXCEPT !.rest = rest, !.rev = 0]
           none == [s EXCEPT !.at = "check"]
           ask  == [s EXCEPT !.at = "ladder"]
<1>1. \A u \in Units : lane[r][u] \in AtRest
  BY RestOutsideRound DEF FanOut
<1>2. Go(r, none) \/ Go(r, ask) \/ GoRemaining(r, s)
  BY DEF FanOut
<1>3. rest \subseteq plan.units /\ Unmerged(lane[r], rest)
  BY DEF Unmerged
<1> HIDE DEF rest
<1>4. s \in Sections /\ s.rest = rest /\ s.todo = sec[r].todo
  BY <1>3, Here DEF Sections
<1> HIDE DEF s
<1>5. /\ none \in Sections /\ none.at = "check" /\ none.todo = s.todo /\ none.rest = rest
      /\ ask \in Sections /\ ask.at = "ladder" /\ ask.todo = s.todo /\ ask.rest = rest
  BY <1>4 DEF Sections, Places, Gates
<1> HIDE DEF none, ask
<1>6. CASE Go(r, none) \/ Go(r, ask)
  BY <1>1, <1>3, <1>4, <1>5, <1>6, Here DEF Goes
<1>7. CASE GoRemaining(r, s)
  BY <1>1, <1>3, <1>4, <1>7, Here, RemainingGoes
<1> QED BY <1>2, <1>6, <1>7

LEMMA AnswerGoes ==
  ASSUME Sound, InPlan, NEW r \in AllRuns, Answer(r)
  PROVE  Goes(r)
<1>1. sec[r].at \in Gates
  BY DEF Answer, Retry, Skip, Approve, RequestChanges, AnswerHalt, ChooseMode, Gates
<1>2. \A u \in Units : lane[r][u] \in AtRest
  BY <1>1, RestOutsideRound DEF Gates
<1>3. CASE Retry(r)
  <2>1. Unmerged(lane[r], sec[r].todo) /\ sec[r].round + 1 \in Nat
    BY <1>3, Here DEF Retry, Walking, OpenAtGates, Sections
  <2> QED BY <1>2, <1>3, <2>1, Here, RoundGoes DEF Retry
<1>4. CASE Skip(r)
  <2> DEFINE t == [sec[r] EXCEPT !.at = "skipping", !.todo = ToOmit(r), !.omit = ToOmit(r)]
  <2>1. ToOmit(r) \subseteq plan.units
    BY DEF ToOmit, Dependents
  <2>2. /\ t \in Sections /\ t.at = "skipping" /\ t.todo = ToOmit(r) /\ t.rest = sec[r].rest
    BY <2>1, Here DEF Sections, Places
  <2> QED BY <1>2, <1>4, <2>1, <2>2, Here DEF Skip, Goes
<1>5. CASE Approve(r)
  <2>1. CASE sec[r].phase = "skeleton"
    BY <1>5, <2>1, AwayGoes DEF Approve, Places, Ended, Gates
  <2>2. CASE sec[r].phase # "skeleton"
    <3>1. sec[r].at = "review" /\ GoBatch(r, sec[r], sec[r].wave + 1)
      BY <1>5, <2>2 DEF Approve
    <3>2. sec[r].phase = "batch" /\ sec[r].wave + 1 \in Nat \ {0}
      BY <2>2, <3>1, Here DEF Walking, PhaseFits, Sections
    <3>3. \A i \in DOMAIN plan.waves :
            sec[r].wave + 1 <= i => Unmerged(lane[r], Batch(sec[r], i))
      BY <3>1, <3>2, Here, PlaceTyped, PlanFits DEF Walking, BatchesToCome, InRound, Sections
    <3> QED BY <1>2, <3>1, <3>2, <3>3, Here, BatchGoes
  <2> QED BY <2>1, <2>2
<1>6. CASE RequestChanges(r)
  <2> DEFINE t == [sec[r] EXCEPT !.rev = @ + 1]
  <2>1. t \in Sections /\ t.rev > 0 /\ t.rest = sec[r].rest
    BY Here DEF Sections
  <2>2. Go(r, Round(t, Revisable(r), skipped[r], 0)) /\ sec[r].at = "review"
    BY <1>6 DEF RequestChanges
  <2>3. Revisable(r) \subseteq plan.units
    <3>1. sec[r].phase = "skeleton" => plan.skeleton \in plan.units
      <4>1. sec[r].phase = "skeleton" => plan.skeleton \in Units
        BY <2>2, Here DEF Walking, PhaseFits, InRound
      <4>2. PlanOK(plan) /\ Off \notin Units
        BY PlaceTyped, PlansAssumption
      <4> QED BY <4>1, <4>2 DEF PlanOK
    <3> QED BY <3>1, Here DEF Revisable, Reviewed, Batch
  <2> HIDE DEF t
  <2> QED BY <1>2, <2>1, <2>2, <2>3, Here, RoundGoes
<1>7. ASSUME NEW parsed \in BOOLEAN, AnswerHalt(r, parsed) PROVE Goes(r)
  <2> DEFINE again == [sec[r] EXCEPT !.asks = @ + 1]
  <2>1. /\ again \in Sections /\ again.at = sec[r].at /\ again.todo = sec[r].todo
        /\ again.rest = sec[r].rest
    BY Here DEF Sections
  <2>2. Go(r, again) => Goes(r)
    BY <1>1, <1>2, <2>1, Here DEF Goes, Gates
  <2>3. Go(r, again) \/ Go(r, [sec[r] EXCEPT !.at = "failed"])
    BY <1>7 DEF AnswerHalt
  <2> QED BY <2>2, <2>3, AwayGoes DEF Places, Ended
<1>8. ASSUME NEW mode \in Modes, ChooseMode(r, mode) PROVE Goes(r)
  <2> DEFINE s == [sec[r] EXCEPT !.mode = mode]
  <2>1. s \in Sections /\ s.rest = sec[r].rest /\ s.todo = sec[r].todo
    BY Here DEF Sections
  <2>2. Unmerged(lane[r], sec[r].rest) /\ GoRemaining(r, s)
    BY <1>8, Here DEF ChooseMode, Walking, OpenAtGates
  <2> HIDE DEF s
  <2> QED BY <1>2, <2>1, <2>2, Here, RemainingGoes
<1> QED BY <1>3, <1>4, <1>5, <1>6, <1>7, <1>8 DEF Answer

-----------------------------------------------------------------------------
(* What the actions of a walk keep of the rows.                            *)

LEMMA AnswerRows ==
  ASSUME Sound, RowsInv, NEW r \in AllRuns, Answer(r)
  PROVE  RowsInv'
<1>1. /\ sec[r].at # "skipping" /\ UNCHANGED <<plan, meta, retake, row, note, git, skipped>>
  BY DEF Answer, Retry, Skip, Approve, RequestChanges, AnswerHalt, ChooseMode, WalkOnly, rows
<1>2. Goes(r)
  BY AnswerGoes DEF RowsInv
<1> QED BY <1>1, <1>2, PlaceOnlyRows

LEMMA QuietWalkRows ==
  ASSUME Sound, RowsInv, NEW r \in AllRuns, EndRound(r) \/ FanOut(r) \/ Retire(r)
  PROVE  RowsInv'
<1>1. /\ sec[r].at = "skipping" => owner # r
      /\ UNCHANGED <<plan, meta, retake, row, note, git, skipped>>
  BY DEF EndRound, FanOut, Retire, WalkOnly, rows, Gates
<1>2. Goes(r)
  BY EndRoundGoes, FanOutGoes, AwayGoes DEF RowsInv, Retire, Places, Ended
<1> QED BY <1>1, <1>2, PlaceOnlyRows

LEMMA CheckRows ==
  ASSUME Sound, RowsInv, NEW r \in AllRuns, Check(r)
  PROVE  RowsInv'
<1>1. sec[r].at = "check" /\ UNCHANGED <<plan, meta, retake, row, note, git, skipped>>
  BY DEF Check, WalkOnly, rows
<1>2. CASE ~ (owner = r /\ \A u \in plan.units : Accounted(u))
  <2>1. Go(r, [sec[r] EXCEPT !.at = "retired"]) \/ Go(r, [sec[r] EXCEPT !.at = "failed"])
    BY <1>2 DEF Check
  <2>2. Goes(r)
    BY <2>1, AwayGoes DEF RowsInv, Places, Ended
  <2> QED BY <1>1, <2>2, PlaceOnlyRows
<1>3. CASE owner = r /\ \A u \in plan.units : Accounted(u)
  <2> DEFINE t == [sec[r] EXCEPT !.at = "resolved"]
  <2>1. Go(r, t)
    BY <1>3 DEF Check
  <2>2. t.at = "resolved" /\ t.todo = sec[r].todo /\ t.rest = sec[r].rest /\ t.rev = sec[r].rev
    BY Here DEF RowsInv, Sections
  <2>3. sec' = [sec EXCEPT ![r] = t] /\ lane' = lane
    BY <2>1, <2>2 DEF Go, Sound, TypeOK
  <2>4. sec'[r] = t /\ \A q \in AllRuns : q # r => sec'[q] = sec[q]
    BY <2>3 DEF Sound, TypeOK
  <2>5. plan.units \subseteq Units
    BY Here DEF RowsInv
  <2> HIDE DEF t
  <2>6. UNCHANGED <<plan, owner, retake, row, note, landed, delivered, skipped>>
    BY <1>1 DEF meta, git
  <2>7. Order'
    BY <2>3, <2>6 DEF RowsInv, Order, DeliveredInOrder
  <2>8. Landed'
    BY <1>3, <2>2, <2>3, <2>4, <2>6 DEF RowsInv, Landed, RowKnown
  <2>9. Owned'
    BY <1>1, <1>3, <2>2, <2>4, <2>6 DEF RowsInv, Owned
  <2>10. InPlan'
    BY <2>2, <2>4, <2>6 DEF RowsInv, InPlan
  <2>11. ResolvedIsAccounted'
    BY <1>3, <2>5, <2>6 DEF RowsInv, ResolvedIsAccounted, Accounted, Landed
  <2> QED BY <2>7, <2>8, <2>9, <2>10, <2>11 DEF RowsInv
<1> QED BY <1>2, <1>3

LEMMA RecordSkipRows ==
  ASSUME Sound, RowsInv, NEW r \in AllRuns, NEW u \in sec[r].omit, RecordSkip(r, u)
  PROVE  RowsInv'
<1> DEFINE t == [sec[r] EXCEPT !.omit = @ \ {u}]
<1>1. /\ sec[r].at = "skipping" /\ owner = r
      /\ row' = [row EXCEPT ![u] = IF lane[r][u] = "none" THEN "BLOCKED" ELSE lane[r][u]]
      /\ note' = note \cup {u}
      /\ UNCHANGED <<plan, owner, retake, landed, delivered>>
  BY DEF RecordSkip, WalkOnly, meta, git
<1>2. u \in Units /\ lane[r][u] # "MERGED" /\ sec[r].omit \subseteq sec[r].todo
  BY <1>1, Here DEF RowsInv, Walking, OpenAtGates, Unmerged, Sections
<1>3. \A v \in Units : row'[v] = "MERGED" => row[v] = "MERGED"
  BY <1>1, <1>2 DEF Sound, TypeOK
<1>4. ASSUME NEW s, Go(r, s), s.at # "resolved", Goes(r),
             \A v \in Units : v \in note' =>
               \/ v \in skipped'[r] \cup delivered
               \/ s.at = "skipping" /\ v \in s.todo \ s.omit
      PROVE  RowsInv'
  <2>1. Order' /\ Landed' /\ InPlan'
    BY <1>1, <1>3, <1>4, GoOrder, GoLanded, GoInPlan DEF RowsInv
  <2>2. sec'[r] = s
    BY <1>4 DEF Go, Sound, TypeOK
  <2>3. note' \subseteq Units /\ r # NoRun
    BY <1>1, <1>2, RunsAreNumbered DEF Sound, TypeOK
  <2>4. Owned'
    BY <1>1, <1>4, <2>2, <2>3 DEF RowsInv, Owned
  <2>5. ResolvedIsAccounted'
    BY <1>1, <1>4, <2>2 DEF ResolvedIsAccounted
  <2> QED BY <2>1, <2>4, <2>5 DEF RowsInv
<1>5. \A v \in note : v \in skipped[r] \cup delivered \/ v \in sec[r].todo \ sec[r].omit
  BY <1>1, RunsAreNumbered DEF RowsInv, Owned
<1>6. CASE sec[r].omit = {u}
  <2>1. Go(r, AfterRound(sec[r], lane[r])) /\ skipped' = [skipped EXCEPT ![r] = @ \cup sec[r].todo]
    BY <1>6 DEF RecordSkip
  <2>2. AfterRound(sec[r], lane[r]).at # "resolved"
    BY Here DEF RowsInv, AfterRound, Sections
  <2>3. skipped'[r] = skipped[r] \cup sec[r].todo
    BY <2>1 DEF Sound, TypeOK
  <2> QED BY <1>1, <1>2, <1>4, <1>5, <2>1, <2>2, <2>3, AfterRoundGoes DEF RowsInv
<1>7. CASE sec[r].omit # {u}
  <2>1. Go(r, t) /\ UNCHANGED skipped
    BY <1>7 DEF RecordSkip
  <2>2. /\ t \in Sections /\ t.at = "skipping" /\ t.omit = sec[r].omit \ {u}
        /\ t.todo = sec[r].todo /\ t.rest = sec[r].rest /\ t.rev = sec[r].rev
    BY <1>1, Here DEF RowsInv, Sections
  <2>3. Goes(r)
    BY <2>1, <2>2, Here DEF RowsInv, Goes
  <2> HIDE DEF t
  <2> QED BY <1>1, <1>2, <1>4, <1>5, <2>1, <2>2, <2>3
<1> QED BY <1>6, <1>7

LEMMA LaunchRows ==
  ASSUME Sound, RowsInv, NEW r \in AllRuns, Launch(r)
  PROVE  RowsInv'
<1> DEFINE omitted == {u \in note : row[u] # "MERGED"}
           lanes   == [u \in Units |-> IF row[u] = "MERGED" THEN "MERGED" ELSE "none"]
           fresh   == [Idle EXCEPT !.mode = autonomy]
           start   == CASE plan.skeleton = Off -> [fresh EXCEPT !.at = "fanout"]
                        [] plan.skeleton # Off /\ lanes[plan.skeleton] # "MERGED" ->
                             Round(fresh, {plan.skeleton}, omitted, 0)
                        [] OTHER -> [fresh EXCEPT !.at =
                             IF autonomy = "none" THEN "review" ELSE "fanout"]
           opened  == IF start.at = "round" THEN Opened(lanes, start.todo) ELSE lanes
<1>1. /\ sec' = [sec EXCEPT ![r] = start] /\ lane' = [lane EXCEPT ![r] = opened]
      /\ UNCHANGED <<plan, row, note, landed, delivered>>
      /\ skipped' = [skipped EXCEPT ![r] = omitted]
      /\ owner' = r /\ retake' = [retake EXCEPT !.step = "none"]
  BY Zenon DEF Launch, rows, git
<1>2. plan.skeleton # Off => plan.skeleton \in plan.units
  BY PlaceTyped, PlansAssumption DEF PlanOK
<1>3. plan.units \subseteq Units
  BY Here DEF RowsInv
<1>4. fresh \in Sections /\ fresh.todo = {} /\ fresh.rest = {} /\ fresh.omit = {}
  BY DEF Idle, Sections, Places, Sound, TypeOK
<1>5. /\ start.todo \subseteq {plan.skeleton} \cap plan.units /\ start.rest = {}
      /\ start.at \in {"round", "fanout", "review"}
      /\ start.at = "round" => row[plan.skeleton] # "MERGED"
  <2>1. CASE plan.skeleton = Off
    BY <2>1, <1>4 DEF Sections
  <2>2. CASE plan.skeleton # Off /\ lanes[plan.skeleton] # "MERGED"
    BY <2>2, <1>2, <1>3, <1>4 DEF Round, Sections
  <2>3. CASE plan.skeleton # Off /\ lanes[plan.skeleton] = "MERGED"
    BY <2>3, <1>4 DEF Sections
  <2> QED BY <2>1, <2>2, <2>3
<1>6. ASSUME NEW u \in Units
      PROVE  /\ opened[u] \in {"none", "waiting", "MERGED"}
             /\ opened[u] = "MERGED" <=> row[u] = "MERGED"
  BY <1>5 DEF Opened
<1>7. /\ sec'[r] = start /\ lane'[r] = opened /\ skipped'[r] = omitted
      /\ \A q \in AllRuns : q # r => sec'[q] = sec[q] /\ lane'[q] = lane[q]
  BY <1>1 DEF Sound, TypeOK
<1> HIDE DEF start, opened
<1>8. Order'
  BY <1>1, <1>6, <1>7 DEF RowsInv, Order, DeliveredInOrder, Working
<1>9. Landed'
  BY <1>1, <1>6, <1>7 DEF RowsInv, Landed, RowKnown
<1>10. Owned'
  <2>1. retake'.step = "none"
    BY <1>1 DEF Sound, TypeOK
  <2>2. note \subseteq Units
    BY DEF Sound, TypeOK
  <2> QED BY <1>1, <1>7, <2>1, <2>2 DEF RowsInv, Owned, Order
<1>11. InPlan'
  BY <1>1, <1>5, <1>7 DEF RowsInv, InPlan
<1>12. ResolvedIsAccounted'
  BY <1>1, <1>5, <1>7 DEF ResolvedIsAccounted
<1> QED BY <1>8, <1>9, <1>10, <1>11, <1>12 DEF RowsInv

-----------------------------------------------------------------------------
(* What the actions of a lane keep of the rows.                            *)

\* A merged row of unit u is known, whatever the lanes of other runs do.
KnownAfter(r, u, pc) ==
  row'[u] = "MERGED" =>
    IF owner = r
    THEN pc \in {"MERGED", "TERMINAL"} \/ (pc \in {"waiting", "queued"} /\ sec[r].rev > 0)
    ELSE row[u] = "MERGED"

LEMMA MoveRows ==
  ASSUME Sound, RowsInv, NEW r \in AllRuns, NEW u \in sec[r].todo, NEW pc \in LanePcs,
         sec[r].at = "round", lane' = [lane EXCEPT ![r][u] = pc],
         UNCHANGED <<plan, owner, retake, note, sec, skipped>>,
         \A v \in Units \ {u} : landed'[v] = landed[v] /\ row'[v] = row[v],
         delivered \subseteq delivered', delivered' \subseteq delivered \cup {u},
         pc \in {"queued"} \cup Working => plan.dependsOn[u] \subseteq delivered,
         u \in delivered' => u \in delivered \/ plan.dependsOn[u] \subseteq delivered,
         pc \in {"merged", "MERGED"} => u \in delivered' /\ (owner = r => landed'[u] = Repos),
         row'[u] = "MERGED" => u \in delivered' /\ landed'[u] = Repos,
         landed[u] = Repos => landed'[u] = Repos \/ owner = r,
         KnownAfter(r, u, pc)
  PROVE  RowsInv'
<1>1. u \in Units /\ u \in plan.units /\ plan.units \subseteq Units
  BY Here DEF RowsInv
<1>2. \A q \in AllRuns, v \in Units :
        lane'[q][v] = IF q = r /\ v = u THEN pc ELSE lane[q][v]
  BY <1>1 DEF Sound, TypeOK
<1>3. owner # NoRun => owner \in AllRuns
  BY DEF Sound, TypeOK
<1>4. Order'
  <2>1. \A v \in Units : row'[v] = "MERGED" => v \in delivered'
    BY DEF RowsInv, Order
  <2>2. ASSUME NEW q \in AllRuns, NEW v \in Units
        PROVE  /\ lane'[q][v] \in {"merged", "MERGED"} => v \in delivered'
               /\ lane'[q][v] \in {"queued"} \cup Working =>
                    plan.dependsOn[v] \subseteq delivered'
    BY <1>2 DEF RowsInv, Order
  <2>3. \A v \in delivered' : plan.dependsOn[v] \subseteq delivered'
    BY DEF RowsInv, Order, DeliveredInOrder
  <2> QED BY <2>1, <2>2, <2>3 DEF Order, DeliveredInOrder
<1>5. Landed'
  <2>1. \A v \in Units : row'[v] = "MERGED" => landed'[v] = Repos
    BY DEF RowsInv, Landed
  <2>2. ASSUME owner # NoRun, NEW v \in Units, lane'[owner][v] \in {"merged", "MERGED"}
        PROVE  landed'[v] = Repos
    <3>1. CASE v # u
      BY <1>2, <1>3, <2>2, <3>1 DEF RowsInv, Landed
    <3>2. CASE v = u /\ owner = r
      BY <1>2, <2>2, <3>2
    <3>3. CASE v = u /\ owner # r
      BY <1>2, <1>3, <2>2, <3>3 DEF RowsInv, Landed
    <3> QED BY <3>1, <3>2, <3>3
  <2>3. ASSUME NEW v \in Units, owner # NoRun, row'[v] = "MERGED"
        PROVE  \/ lane'[owner][v] \in {"MERGED", "TERMINAL"}
               \/ lane'[owner][v] \in {"waiting", "queued"} /\ sec[owner].rev > 0
    <3>1. CASE v # u
      BY <1>2, <1>3, <2>3, <3>1 DEF RowsInv, Landed, RowKnown
    <3>2. CASE v = u /\ owner = r
      BY <1>2, <2>3, <3>2 DEF KnownAfter
    <3>3. CASE v = u /\ owner # r
      <4>1. row[u] = "MERGED"
        BY <2>3, <3>3 DEF KnownAfter
      <4> QED BY <1>2, <1>3, <2>3, <3>3, <4>1 DEF RowsInv, Landed, RowKnown
    <3> QED BY <3>1, <3>2, <3>3
  <2> QED BY <2>1, <2>2, <2>3 DEF Landed, RowKnown
<1>6. Owned' /\ InPlan'
  BY DEF RowsInv, Owned, InPlan
<1>7. ResolvedIsAccounted'
  BY <1>1 DEF RowsInv, ResolvedIsAccounted
<1> QED BY <1>4, <1>5, <1>6, <1>7 DEF RowsInv

\* A lane that moves without a merge.
LEMMA QuietMoveRows ==
  ASSUME Sound, RowsInv, NEW r \in AllRuns, NEW u \in sec[r].todo, NEW pc \in LanePcs,
         sec[r].at = "round", lane' = [lane EXCEPT ![r][u] = pc],
         UNCHANGED <<plan, owner, retake, note, sec, skipped, landed, delivered>>,
         \A v \in Units \ {u} : row'[v] = row[v], row'[u] = "MERGED" => row[u] = "MERGED",
         pc \in {"queued"} \cup Working => plan.dependsOn[u] \subseteq delivered,
         pc \notin {"merged", "MERGED"}, KnownAfter(r, u, pc)
  PROVE  RowsInv'
<1>1. u \in Units
  BY Here DEF RowsInv
<1> QED BY <1>1, MoveRows DEF RowsInv, Order, Landed

LEMMA WriteRows ==
  ASSUME Sound, NEW u \in Units, NEW from, NEW to, Write(u, from, to)
  PROVE  /\ \A v \in Units \ {u} : row'[v] = row[v]
         /\ row'[u] = IF row[u] \in from THEN to ELSE row[u]
BY DEF Write, Sound, TypeOK

\* A lane of the owner that is at work does not have a merged row.
LEMMA AtWorkNotMerged ==
  ASSUME Sound, RowsInv, NEW r \in AllRuns, NEW u \in Units, owner = r
  PROVE  /\ lane[r][u] \in Working => row[u] # "MERGED"
         /\ lane[r][u] \in {"waiting", "queued"} /\ row[u] = "MERGED" => sec[r].rev > 0
BY RunsAreNumbered DEF RowsInv, Landed, RowKnown, Working

\* Nothing moves but the lane, its permit, its row and its branch.
StepOnly == UNCHANGED <<plan, owner, retake, note, sec, skipped>>

LEMMA StepFrame ==
  ASSUME NEW r, NEW u, NEW pc, Step(r, u, pc)
  PROVE  StepOnly /\ lane' = [lane EXCEPT ![r][u] = pc]
BY DEF Step, StepOnly, meta

\* A step of a lane without a merge.
LEMMA QuietStepRows ==
  ASSUME Sound, RowsInv, NEW r \in AllRuns, NEW u \in sec[r].todo, NEW pc \in LanePcs,
         sec[r].at = "round", Step(r, u, pc), UNCHANGED <<landed, delivered>>,
         \A v \in Units \ {u} : row'[v] = row[v], row'[u] = "MERGED" => row[u] = "MERGED",
         pc \in {"queued"} \cup Working => plan.dependsOn[u] \subseteq delivered,
         pc \notin {"merged", "MERGED"}, KnownAfter(r, u, pc)
  PROVE  RowsInv'
<1>1. StepOnly /\ lane' = [lane EXCEPT ![r][u] = pc]
  BY StepFrame
<1> QED BY <1>1, QuietMoveRows DEF StepOnly

LEMMA WaitingRows ==
  ASSUME Sound, RowsInv, NEW r \in AllRuns, NEW u \in sec[r].todo,
         LaneBlocked(r, u) \/ LaneRetired(r, u) \/ LaneReady(r, u)
  PROVE  RowsInv'
<1>1. u \in Units /\ sec[r].at = "round" /\ plan \in Plans
  BY Here, PlaceTyped DEF RowsInv, LaneBlocked, LaneRetired, LaneReady, At
<1>2. CASE LaneBlocked(r, u)
  <2>1. Write(u, RowStates, "BLOCKED") /\ Step(r, u, "BLOCKED") /\ UNCHANGED <<landed, delivered>>
    BY <1>2 DEF LaneBlocked, git
  <2>2. row'[u] = "BLOCKED" /\ \A v \in Units \ {u} : row'[v] = row[v]
    BY <1>1, <2>1, WriteRows DEF Sound, TypeOK
  <2>3. "BLOCKED" \in LanePcs /\ "BLOCKED" \notin {"queued"} \cup Working
    BY DEF LanePcs, Outcomes, Working
  <2>4. KnownAfter(r, u, "BLOCKED")
    BY <2>2 DEF KnownAfter
  <2> QED BY <1>1, <2>1, <2>2, <2>3, <2>4, QuietStepRows
<1>3. CASE LaneRetired(r, u)
  <2>1. Step(r, u, "TERMINAL") /\ UNCHANGED <<row, landed, delivered>>
    BY <1>3 DEF LaneRetired, git
  <2>2. "TERMINAL" \in LanePcs /\ "TERMINAL" \notin {"queued"} \cup Working
    BY DEF LanePcs, Outcomes, Working
  <2>3. KnownAfter(r, u, "TERMINAL")
    BY <2>1 DEF KnownAfter
  <2> QED BY <1>1, <2>1, <2>2, <2>3, QuietStepRows
<1>4. CASE LaneReady(r, u)
  <2>1. plan.dependsOn[u] \subseteq delivered
    <3>1. plan.dependsOn[u] \subseteq Units
      BY <1>1, PlanFits
    <3> QED BY <1>4, <3>1 DEF LaneReady, RowsInv, Order
  <2>2. Step(r, u, "queued") /\ UNCHANGED <<row, landed, delivered>> /\ lane[r][u] = "waiting"
    BY <1>4 DEF LaneReady, At, git
  <2>3. owner = r /\ row[u] = "MERGED" => sec[r].rev > 0
    BY <1>1, <2>2, AtWorkNotMerged
  <2>4. KnownAfter(r, u, "queued") /\ "queued" \in LanePcs
    BY <2>2, <2>3 DEF KnownAfter, LanePcs
  <2> QED BY <1>1, <2>1, <2>2, <2>4, QuietStepRows
<1> QED BY <1>2, <1>3, <1>4

LEMMA StartLaneRows ==
  ASSUME Sound, RowsInv, NEW r \in AllRuns, NEW u \in sec[r].todo, StartLane(r, u)
  PROVE  RowsInv'
<1>1. u \in Units /\ sec[r].at = "round" /\ lane[r][u] = "queued"
  BY Here DEF RowsInv, StartLane, At
<1>2. plan.dependsOn[u] \subseteq delivered
  BY <1>1 DEF RowsInv, Order
<1>3. /\ \A v \in Units \ {u} : row'[v] = row[v]
      /\ row'[u] = IF row[u] \in StartsFrom(r) THEN "RUNNING" ELSE row[u]
  BY <1>1, WriteRows DEF StartLane
<1>4. owner = r => row'[u] # "MERGED"
  <2>1. owner = r /\ row[u] = "MERGED" => sec[r].rev > 0
    BY <1>1, AtWorkNotMerged
  <2> QED BY <1>3, <2>1 DEF StartsFrom
<1>5. /\ lane' = [lane EXCEPT ![r][u] = "starting"]
      /\ UNCHANGED <<plan, owner, retake, note, sec, skipped, landed, delivered>>
  BY DEF StartLane, meta, git
<1>6. "starting" \in LanePcs /\ KnownAfter(r, u, "starting")
  BY <1>3, <1>4 DEF LanePcs, Working, KnownAfter
<1> QED BY <1>1, <1>2, <1>3, <1>5, <1>6, QuietMoveRows

LEMMA AtWorkRows ==
  ASSUME Sound, RowsInv, NEW r \in AllRuns, NEW u \in sec[r].todo,
         InitLane(r, u) \/ LaneFails(r, u) \/ NothingToBuild(r, u) \/ BeginMerge(r, u)
           \/ ResolveConflict(r, u)
  PROVE  RowsInv'
<1>1. u \in Units /\ sec[r].at = "round" /\ lane[r][u] \in Working
  BY Here DEF RowsInv, InitLane, LaneFails, NothingToBuild, BeginMerge, ResolveConflict, At,
              Working
<1>2. plan.dependsOn[u] \subseteq delivered
  BY <1>1 DEF RowsInv, Order
<1>3. owner = r => row[u] # "MERGED"
  BY <1>1, AtWorkNotMerged
<1>4. PICK pc \in {"starting", "building", "built", "merging", "remerging", "FAILED"} :
        Step(r, u, pc)
  BY DEF InitLane, LaneFails, NothingToBuild, BeginMerge, ResolveConflict
<1>5. UNCHANGED <<landed, delivered>>
  BY DEF InitLane, LaneFails, NothingToBuild, BeginMerge, ResolveConflict, git
<1>6. /\ \A v \in Units \ {u} : row'[v] = row[v]
      /\ row'[u] = row[u] \/ row'[u] # "MERGED"
  <2>1. CASE UNCHANGED row
    BY <2>1
  <2>2. ASSUME NEW from, NEW to \in {"FAILED", "MERGING"}, Write(u, from, to)
        PROVE  /\ \A v \in Units \ {u} : row'[v] = row[v]
               /\ row'[u] = row[u] \/ row'[u] # "MERGED"
    BY <1>1, <2>2, WriteRows
  <2> QED BY <2>1, <2>2 DEF InitLane, LaneFails, NothingToBuild, BeginMerge, ResolveConflict
<1>7. pc \in LanePcs /\ pc \notin {"merged", "MERGED"} /\ KnownAfter(r, u, pc)
  BY <1>3, <1>6 DEF LanePcs, Outcomes, Working, KnownAfter
<1>8. row'[u] = "MERGED" => row[u] = "MERGED"
  BY <1>6
<1> QED BY <1>1, <1>2, <1>4, <1>5, <1>6, <1>7, <1>8, QuietStepRows

LEMMA StagesSucceedRows ==
  ASSUME Sound, RowsInv, NEW r \in AllRuns, NEW u \in sec[r].todo, StagesSucceed(r, u)
  PROVE  RowsInv'
<1>1. u \in Units /\ sec[r].at = "round" /\ lane[r][u] = "building" /\ owner = r
  BY Here DEF RowsInv, StagesSucceed, At, Active
<1>2. lane[r][u] \in Working
  BY <1>1 DEF Working
<1>3. plan.dependsOn[u] \subseteq delivered
  BY <1>1, <1>2 DEF RowsInv, Order
<1>4. row[u] # "MERGED"
  BY <1>1, <1>2, AtWorkNotMerged
<1>5. \A v \in Units \ {u} : landed'[v] = landed[v]
  BY <1>1 DEF StagesSucceed, Sound, TypeOK
<1>6. StepOnly /\ lane' = [lane EXCEPT ![r][u] = "built"] /\ UNCHANGED <<row, delivered>>
  BY StepFrame DEF StagesSucceed
<1>7. "built" \in LanePcs /\ KnownAfter(r, u, "built")
  BY <1>4, <1>6 DEF LanePcs, Working, KnownAfter
<1> QED BY <1>1, <1>3, <1>4, <1>5, <1>6, <1>7, MoveRows DEF StepOnly

LEMMA MergeLaneRows ==
  ASSUME Sound, RowsInv, NEW r \in AllRuns, NEW u \in sec[r].todo, NEW taken \in SUBSET Repos,
         NEW answered \in BOOLEAN, MergeLane(r, u, taken, answered)
  PROVE  RowsInv'
<1> DEFINE pc == Verdict(r, u, answered)
<1>1. u \in Units
  BY Here DEF RowsInv
<1>2. /\ Step(r, u, pc) /\ lane[r][u] \in {"merging", "remerging"} /\ sec[r].at = "round"
      /\ pc \in {"merging", "remerging", "merged", "conflict", "FAILED"}
      /\ pc = "merged" => landed'[u] = Repos
  BY MergeLaneSteps
<1> HIDE DEF pc
<1>3. plan.dependsOn[u] \subseteq delivered
  BY <1>1, <1>2 DEF RowsInv, Order, Working
<1>4. owner = r => row[u] # "MERGED"
  <2>1. lane[r][u] \in Working
    BY <1>2 DEF Working
  <2> QED BY <1>1, <2>1, AtWorkNotMerged
<1>5. /\ \A v \in Units \ {u} : row'[v] = row[v]
      /\ row'[u] # "MERGED" \/ row'[u] = row[u]
  BY <1>1, WriteRows DEF MergeLane
<1>6. /\ \A v \in Units \ {u} : landed'[v] = landed[v]
      /\ landed'[u] = landed[u] \cup taken /\ landed[u] \subseteq Repos
  BY <1>1 DEF MergeLane, Sound, TypeOK
<1>7. /\ delivered \subseteq delivered' /\ delivered' \subseteq delivered \cup {u}
      /\ landed'[u] = Repos => u \in delivered'
  BY DEF MergeLane
<1>8. landed[u] = Repos => landed'[u] = Repos
  BY <1>6
<1>9. row'[u] = "MERGED" => u \in delivered' /\ landed'[u] = Repos
  <2>1. row[u] = "MERGED" => landed[u] = Repos /\ u \in delivered
    BY <1>1 DEF RowsInv, Landed, Order
  <2> QED BY <1>5, <1>7, <1>8, <2>1
<1>10. StepOnly /\ lane' = [lane EXCEPT ![r][u] = pc]
  BY <1>2, StepFrame
<1>11. pc \in LanePcs /\ KnownAfter(r, u, pc)
  BY <1>2, <1>4, <1>5 DEF LanePcs, Outcomes, Working, KnownAfter
<1>12. pc \in {"merged", "MERGED"} => u \in delivered' /\ landed'[u] = Repos
  BY <1>2, <1>7
<1> QED BY <1>2, <1>3, <1>5, <1>6, <1>7, <1>8, <1>9, <1>10, <1>11, <1>12, MoveRows DEF StepOnly

LEMMA RecordMergedRows ==
  ASSUME Sound, RowsInv, NEW r \in AllRuns, NEW u \in sec[r].todo, RecordMerged(r, u)
  PROVE  RowsInv'
<1> DEFINE pc == IF owner = r THEN "MERGED" ELSE "TERMINAL"
<1>1. u \in Units /\ sec[r].at = "round" /\ lane[r][u] = "merged"
  BY Here DEF RowsInv, RecordMerged, At
<1>2. u \in delivered /\ (owner = r => landed[u] = Repos)
  BY <1>1, RunsAreNumbered DEF RowsInv, Order, Landed
<1>3. /\ \A v \in Units \ {u} : row'[v] = row[v]
      /\ row'[u] = IF owner = r /\ row[u] \in {"RUNNING", "MERGING"} THEN "MERGED" ELSE row[u]
  BY <1>1, WriteRows DEF RecordMerged
<1>4. row[u] = "MERGED" => landed[u] = Repos
  BY <1>1 DEF RowsInv, Landed
<1>5. StepOnly /\ lane' = [lane EXCEPT ![r][u] = pc] /\ UNCHANGED <<landed, delivered>>
  BY StepFrame DEF RecordMerged, git
<1>6. pc \in LanePcs /\ pc \notin {"queued"} \cup Working
  BY DEF LanePcs, Outcomes, Working
<1>7. KnownAfter(r, u, pc)
  BY <1>3 DEF KnownAfter
<1>8. pc \in {"merged", "MERGED"} => owner = r
  OBVIOUS
<1> HIDE DEF pc
<1> QED BY <1>1, <1>2, <1>3, <1>4, <1>5, <1>6, <1>7, <1>8, MoveRows DEF StepOnly

LEMMA RetakingRows ==
  ASSUME Sound, RowsInv, Retaking
  PROVE  RowsInv'
<1>1. CASE Cancel \/ Rewind \/ Repair \/ Relaunch \/ \E u \in Units : ResetRow(u)
  <2>1. UNCHANGED <<plan, sec, lane, skipped, landed, delivered>>
    BY <1>1 DEF Cancel, Rewind, Repair, Relaunch, ResetRow, BeginRetake, meta, rows, git
  <2>2. /\ owner' = owner \/ owner' = NoRun
        /\ \A u \in Units : row'[u] = "MERGED" => row[u] = "MERGED"
    BY <1>1 DEF Cancel, Rewind, Repair, Relaunch, ResetRow, BeginRetake, meta, rows, Sound, TypeOK
  <2>3. /\ retake'.step # "none" => owner' = NoRun
        /\ note' \subseteq note
    BY <1>1 DEF Cancel, Rewind, Repair, Relaunch, ResetRow, BeginRetake, meta, rows,
                RowsInv, Owned, Sound, TypeOK
  <2>4. owner' # NoRun => note' = note
    BY <1>1 DEF Cancel, Rewind, Repair, Relaunch, ResetRow, BeginRetake, meta, rows,
                RowsInv, Owned
  <2>5. Order'
    BY <2>1, <2>2 DEF RowsInv, Order, DeliveredInOrder
  <2>6. Landed'
    BY <2>1, <2>2 DEF RowsInv, Landed, RowKnown
  <2>7. Owned' /\ InPlan'
    BY <2>1, <2>2, <2>3 DEF RowsInv, Owned, InPlan
  <2>8. ResolvedIsAccounted'
    BY <2>1, <2>2, <2>4 DEF RowsInv, ResolvedIsAccounted
  <2> QED BY <2>5, <2>6, <2>7, <2>8 DEF RowsInv
<1>2. ASSUME NEW r \in AllRuns, StopWalk(r)
      PROVE  RowsInv'
  <2>1. /\ UNCHANGED <<plan, owner, row, note, landed, delivered, lane, skipped>>
        /\ owner = NoRun
    BY <1>2 DEF StopWalk, meta, rows, git, RowsInv, Owned
  <2>2. \A q \in AllRuns : sec'[q].todo = sec[q].todo /\ sec'[q].rest = sec[q].rest
    <3>1. sec' = [sec EXCEPT ![r].at = "stopped"]
      BY <1>2 DEF StopWalk
    <3> QED BY <3>1 DEF Sound, TypeOK, Sections
  <2>3. Order' /\ Landed'
    BY <2>1 DEF RowsInv, Order, DeliveredInOrder, Landed, RowKnown
  <2>4. Owned' /\ InPlan' /\ ResolvedIsAccounted'
    BY <2>1, <2>2 DEF RowsInv, Owned, InPlan, ResolvedIsAccounted
  <2> QED BY <2>3, <2>4 DEF RowsInv
<1> QED BY <1>1, <1>2 DEF Retaking

-----------------------------------------------------------------------------
(* The rows in every behaviour.                                            *)

LEMMA PermitsOnlyRows ==
  ASSUME RowsInv,
         UNCHANGED <<plan, owner, retake, row, note, landed, delivered, sec, lane, skipped>>
  PROVE  RowsInv'
BY DEF RowsInv, Order, DeliveredInOrder, Landed, RowKnown, Owned, InPlan, ResolvedIsAccounted

LEMMA InitRows == Init => RowsInv
BY DEF Init, Idle, RowsInv, Order, DeliveredInOrder, Landed, RowKnown, Owned, InPlan,
       ResolvedIsAccounted, Working

LEMMA NextRows ==
  ASSUME Sound, RowsInv, [Next]_vars
  PROVE  RowsInv'
<1>1. CASE Retaking
  BY <1>1, RetakingRows
<1>2. ASSUME NEW r \in AllRuns, Launch(r) \/ Answer(r) \/ Walk(r)
      PROVE  RowsInv'
  BY <1>2, LaunchRows, AnswerRows, QuietWalkRows, CheckRows, RecordSkipRows DEF Walk
<1>3. ASSUME NEW r \in AllRuns, Replay(r)
      PROVE  RowsInv'
  BY <1>3, PermitsOnlyRows DEF Replay, meta, rows, git
<1>4. ASSUME NEW r \in AllRuns, NEW u \in sec[r].todo, LaneStep(r, u)
      PROVE  RowsInv'
  <2>1. CASE Readmit(r, u)
    BY <2>1, PermitsOnlyRows DEF Readmit, meta, rows, git
  <2> QED BY <1>4, <2>1, WaitingRows, StartLaneRows, AtWorkRows, StagesSucceedRows,
             MergeLaneRows, RecordMergedRows DEF LaneStep
<1>5. ASSUME NEW r \in AllRuns, NEW u \in sec[r].todo, Unanswered(r, u)
      PROVE  RowsInv'
  BY <1>5, MergeLaneRows DEF Unanswered
<1>6. CASE UNCHANGED vars
  BY <1>6, PermitsOnlyRows DEF vars
<1> QED BY <1>1, <1>2, <1>3, <1>4, <1>5, <1>6 DEF Next

THEOREM RowsAreRight == Spec => []RowsInv
<1>1. Init => RowsInv
  BY InitRows
<1>2. Sound /\ RowsInv /\ [Next]_vars => RowsInv'
  BY NextRows
<1> QED BY <1>1, <1>2, WalksAreSound, PTL DEF Spec

\* A unit enters the intent branch after the units it depends on, also across
\* rewinds and beside the runs they leave behind.
THEOREM DeliveryInOrder == Spec => []DeliveredInOrder
<1>1. RowsInv => DeliveredInOrder
  BY DEF RowsInv, Order
<1> QED BY <1>1, RowsAreRight, PTL

\* "MERGED means integrated into the intent branch", of every repository.
THEOREM MergedIsIntegrated == Spec => []MergedMeansIntegrated
<1>1. Sound /\ RowsInv => MergedMeansIntegrated
  <2> SUFFICES ASSUME Sound, RowsInv PROVE MergedMeansIntegrated
    OBVIOUS
  <2>1. plan.units \subseteq Units
    BY PlanFits DEF Sound, TypeOK
  <2> QED BY <2>1 DEF RowsInv, Landed, MergedMeansIntegrated
<1> QED BY <1>1, WalksAreSound, RowsAreRight, PTL

\* A section is resolved only with every unit integrated or omitted by a human.
THEOREM ResolvedMeansAccounted == Spec => []ResolvedIsAccounted
<1>1. RowsInv => ResolvedIsAccounted
  BY DEF RowsInv
<1> QED BY <1>1, RowsAreRight, PTL

-----------------------------------------------------------------------------
(* The section implements UnitDelivery.                                    *)

Promised == [u \in plan.units |-> plan.dependsOn[u]]
Omitted  == IF owner = NoRun THEN {} ELSE skipped[owner] \cap plan.units
Finished == owner # NoRun /\ sec[owner].at = "resolved"

LEMMA InitDelivers == Init => Delivery!Init
<1> SUFFICES ASSUME Init PROVE Delivery!Init
  OBVIOUS
<1>1. plan.units \subseteq Units /\ plan.dependsOn \in [Units -> SUBSET plan.units]
  BY PlanFits DEF Init
<1>2. Promised \in [plan.units -> SUBSET plan.units]
  BY <1>1 DEF Promised
<1>3. \E S \in SUBSET Units : Promised \in [S -> SUBSET S]
  BY <1>1, <1>2
<1> QED BY <1>3 DEF Init, Delivery!Init, Promised

\* A step of a walk that neither omits a unit nor resolves the section.
LEMMA QuietDelivers ==
  ASSUME UNCHANGED <<plan, owner, delivered, skipped>>, Finished' = Finished
  PROVE  UNCHANGED Delivery!vars
BY DEF Delivery!vars, Finished

LEMMA RestartDelivers ==
  ASSUME Sound, UNCHANGED <<plan, delivered>>, ~Finished'
  PROVE  Delivery!Restart
<1>1. DOMAIN Promised = plan.units
  BY DEF Promised
<1>2. Omitted' \in SUBSET plan.units
  BY DEF Omitted
<1>3. UNCHANGED Promised
  BY DEF Promised
<1> QED BY <1>1, <1>2, <1>3 DEF Delivery!Restart, Promised, Omitted, Finished

\* The walk of run r goes on without resolving the section.
LEMMA GoesUnfinished ==
  ASSUME Sound, NEW r \in AllRuns, Goes(r), sec[r].at # "resolved", owner' = owner
  PROVE  /\ Finished' = Finished
         /\ owner = r => ~Finished
<1>1. PICK s \in Sections : Go(r, s) /\ s.at # "resolved"
  BY DEF Goes
<1>2. sec'[r] = s /\ \A q \in AllRuns : q # r => sec'[q] = sec[q]
  BY <1>1 DEF Go, Sound, TypeOK
<1>3. owner # NoRun => owner \in AllRuns
  BY DEF Sound, TypeOK
<1> QED BY <1>1, <1>2, <1>3 DEF Finished

LEMMA WalkDelivers ==
  ASSUME Sound, RowsInv, NEW r \in AllRuns,
         Answer(r) \/ EndRound(r) \/ FanOut(r) \/ Retire(r)
  PROVE  UNCHANGED Delivery!vars
<1>1. sec[r].at # "resolved" /\ UNCHANGED <<plan, owner, delivered, skipped>>
  BY DEF Answer, Retry, Skip, Approve, RequestChanges, AnswerHalt, ChooseMode, EndRound, FanOut,
         Retire, WalkOnly, meta, git, Gates
<1>2. Goes(r)
  BY AnswerGoes, EndRoundGoes, FanOutGoes, AwayGoes DEF RowsInv, Retire, Places, Ended
<1> QED BY <1>1, <1>2, GoesUnfinished, QuietDelivers

LEMMA CheckDelivers ==
  ASSUME Sound, RowsInv, NEW r \in AllRuns, Check(r)
  PROVE  Delivery!Resolve \/ UNCHANGED Delivery!vars
<1>1. sec[r].at = "check" /\ UNCHANGED <<plan, owner, delivered, skipped, row, note>>
  BY DEF Check, WalkOnly, meta, git, rows
<1>2. CASE ~ (owner = r /\ \A u \in plan.units : Accounted(u))
  <2>1. Go(r, [sec[r] EXCEPT !.at = "retired"]) \/ Go(r, [sec[r] EXCEPT !.at = "failed"])
    BY <1>2 DEF Check
  <2>2. Goes(r)
    BY <2>1, AwayGoes DEF RowsInv, Places, Ended
  <2> QED BY <1>1, <2>2, GoesUnfinished, QuietDelivers
<1>3. CASE owner = r /\ \A u \in plan.units : Accounted(u)
  <2>1. Go(r, [sec[r] EXCEPT !.at = "resolved"])
    BY <1>3 DEF Check
  <2>2. sec'[r].at = "resolved"
    BY <2>1, Here DEF RowsInv, Go, Sections, Sound, TypeOK
  <2>3. r # NoRun /\ plan.units \subseteq Units
    BY RunsAreNumbered, Here DEF RowsInv
  <2>4. plan.units \subseteq delivered \cup skipped[r]
    BY <1>1, <1>3, <2>3 DEF Accounted, RowsInv, Owned, Order
  <2>5. DOMAIN Promised \subseteq delivered \cup Omitted
    BY <1>3, <2>3, <2>4 DEF Promised, Omitted
  <2>6. Finished' /\ UNCHANGED <<Promised, Omitted>>
    BY <1>1, <1>3, <2>2, <2>3 DEF Finished, Promised, Omitted
  <2> QED BY <1>1, <2>5, <2>6 DEF Delivery!Resolve, Promised, Omitted, Finished
<1> QED BY <1>2, <1>3

LEMMA RecordSkipDelivers ==
  ASSUME Sound, RowsInv, NEW r \in AllRuns, NEW u \in sec[r].omit, RecordSkip(r, u)
  PROVE  \E S \in SUBSET plan.units : Delivery!Omit(S)
<1>1. /\ sec[r].at = "skipping" /\ owner = r /\ UNCHANGED <<plan, owner, delivered>>
      /\ sec[r].todo \subseteq plan.units /\ r # NoRun
  BY Here, RunsAreNumbered DEF RecordSkip, WalkOnly, meta, git, RowsInv
<1>2. sec'[r].at # "resolved"
  <2>1. /\ [sec[r] EXCEPT !.omit = @ \ {u}].at = "skipping"
        /\ AfterRound(sec[r], lane[r]).at # "resolved"
    BY <1>1, Here DEF RowsInv, AfterRound, Sections
  <2> QED BY <2>1 DEF RecordSkip, Go, Sound, TypeOK
<1>3. ~Finished /\ ~Finished' /\ UNCHANGED Promised
  BY <1>1, <1>2 DEF Finished, Promised
<1>4. PICK S \in SUBSET plan.units : Omitted' = Omitted \cup S
  <2>1. CASE UNCHANGED skipped
    BY <1>1, <2>1 DEF Omitted
  <2>2. CASE skipped' = [skipped EXCEPT ![r] = @ \cup sec[r].todo]
    <3>1. skipped'[r] = skipped[r] \cup sec[r].todo
      BY <2>2 DEF Sound, TypeOK
    <3>2. Omitted' = Omitted \cup sec[r].todo
      BY <1>1, <3>1 DEF Omitted
    <3> QED BY <1>1, <3>2
  <2> QED BY <2>1, <2>2 DEF RecordSkip
<1>5. Delivery!Omit(S)
  BY <1>1, <1>3, <1>4 DEF Delivery!Omit, Finished, Promised, Omitted
<1> QED BY <1>5

LEMMA StepDelivers ==
  ASSUME Sound, StepOnly, UNCHANGED delivered
  PROVE  UNCHANGED Delivery!vars
<1>1. Finished' = Finished
  BY DEF Finished, StepOnly
<1> QED BY <1>1, QuietDelivers DEF StepOnly

LEMMA MergeLaneDelivers ==
  ASSUME Sound, RowsInv, NEW r \in AllRuns, NEW u \in sec[r].todo, NEW taken \in SUBSET Repos,
         NEW answered \in BOOLEAN, MergeLane(r, u, taken, answered)
  PROVE  Delivery!Integrate(u) \/ UNCHANGED Delivery!vars
<1>1. StepOnly /\ lane[r][u] \in Working
  BY MergeLaneSteps, StepFrame DEF Working
<1>2. u \in plan.units /\ plan.units \subseteq Units
  BY Here DEF RowsInv
<1>3. plan.dependsOn[u] \subseteq delivered
  BY <1>1, <1>2 DEF RowsInv, Order
<1>4. CASE delivered' = delivered \cup {u}
  <2>1. u \in DOMAIN Promised /\ Promised[u] \subseteq delivered
    BY <1>2, <1>3 DEF Promised
  <2>2. UNCHANGED <<Promised, Omitted, Finished>>
    BY <1>1 DEF StepOnly, Promised, Omitted, Finished
  <2> QED BY <1>4, <2>1, <2>2 DEF Delivery!Integrate, Promised, Omitted, Finished
<1>5. CASE delivered' = delivered
  BY <1>1, <1>5, StepDelivers
<1> QED BY <1>4, <1>5 DEF MergeLane

LEMMA LaneDelivers ==
  ASSUME Sound, RowsInv, NEW r \in AllRuns, NEW u \in sec[r].todo,
         LaneStep(r, u) \/ Unanswered(r, u)
  PROVE  Delivery!Integrate(u) \/ UNCHANGED Delivery!vars
<1>1. CASE \E taken \in SUBSET Repos, answered \in BOOLEAN : MergeLane(r, u, taken, answered)
  BY <1>1, MergeLaneDelivers
<1>2. CASE StartLane(r, u) \/ Readmit(r, u)
  BY <1>2, StepDelivers DEF StartLane, Readmit, StepOnly, meta, rows, git
<1>3. CASE \/ LaneBlocked(r, u) \/ LaneRetired(r, u) \/ LaneReady(r, u) \/ InitLane(r, u)
           \/ LaneFails(r, u) \/ StagesSucceed(r, u) \/ NothingToBuild(r, u)
           \/ BeginMerge(r, u) \/ ResolveConflict(r, u) \/ RecordMerged(r, u)
  <2>1. StepOnly /\ UNCHANGED delivered
    BY <1>3, StepFrame DEF LaneBlocked, LaneRetired, LaneReady, InitLane, LaneFails,
       StagesSucceed, NothingToBuild, BeginMerge, ResolveConflict, RecordMerged, git
  <2> QED BY <2>1, StepDelivers
<1> QED BY <1>1, <1>2, <1>3 DEF LaneStep, Unanswered

LEMMA LaunchDelivers ==
  ASSUME Sound, RowsInv, NEW r \in AllRuns, Launch(r)
  PROVE  Delivery!Restart
<1>1. UNCHANGED <<plan, delivered>>
  BY DEF Launch, git
<1>2. ~Finished'
  <2>1. Sound' /\ RowsInv'
    BY LaunchKeeps, LaunchRows
  <2>2. sec[r].at = "none" /\ owner' = r
    BY DEF Launch
  <2>3. sec'[r].at # "resolved"
    <3> DEFINE fresh == [Idle EXCEPT !.mode = autonomy]
               omitted == {u \in note : row[u] # "MERGED"}
    <3>1. PICK s : /\ sec' = [sec EXCEPT ![r] = s]
                   /\ \/ s = Round(fresh, {plan.skeleton}, omitted, 0)
                      \/ \E at \in {"fanout", "review"} : s = [fresh EXCEPT !.at = at]
      BY Zenon DEF Launch
    <3>2. s.at # "resolved"
      BY <3>1 DEF Round, Idle
    <3> QED BY <3>1, <3>2 DEF Sound, TypeOK
  <2> QED BY <2>2, <2>3 DEF Finished
<1> QED BY <1>1, <1>2, RestartDelivers

LEMMA RetakingDelivers ==
  ASSUME Sound, RowsInv, Retaking
  PROVE  Delivery!Restart \/ UNCHANGED Delivery!vars
<1>1. CASE Rewind \/ Repair
  <2>1. UNCHANGED <<plan, delivered>> /\ ~Finished'
    BY <1>1 DEF Rewind, Repair, BeginRetake, git, Finished
  <2> QED BY <2>1, RestartDelivers
<1>2. CASE Cancel \/ Relaunch \/ \E u \in Units : ResetRow(u)
  <2>1. UNCHANGED <<plan, owner, delivered, skipped, sec>>
    BY <1>2 DEF Cancel, Relaunch, ResetRow, meta, rows, git
  <2> QED BY <2>1, QuietDelivers DEF Finished
<1>3. ASSUME NEW r \in AllRuns, StopWalk(r)
      PROVE  UNCHANGED Delivery!vars
  <2>1. UNCHANGED <<plan, owner, delivered, skipped>> /\ owner = NoRun
    BY <1>3 DEF StopWalk, meta, git, RowsInv, Owned
  <2> QED BY <2>1, QuietDelivers DEF Finished
<1> QED BY <1>1, <1>2, <1>3 DEF Retaking

LEMMA NextDelivers ==
  ASSUME Sound, RowsInv, [Next]_vars
  PROVE  [Delivery!Next]_Delivery!vars
<1>1. CASE Retaking
  BY <1>1, RetakingDelivers DEF Delivery!Next
<1>2. ASSUME NEW r \in AllRuns, Launch(r)
      PROVE  Delivery!Next
  BY <1>2, LaunchDelivers DEF Delivery!Next
<1>3. ASSUME NEW r \in AllRuns, Answer(r) \/ EndRound(r) \/ FanOut(r) \/ Retire(r)
      PROVE  UNCHANGED Delivery!vars
  BY <1>3, WalkDelivers
<1>4. ASSUME NEW r \in AllRuns, Check(r)
      PROVE  [Delivery!Next]_Delivery!vars
  BY <1>4, CheckDelivers DEF Delivery!Next
<1>5. ASSUME NEW r \in AllRuns, NEW u \in sec[r].omit, RecordSkip(r, u)
      PROVE  Delivery!Next
  <2>1. PICK S \in SUBSET plan.units : Delivery!Omit(S)
    BY <1>5, RecordSkipDelivers
  <2>2. plan.units = DOMAIN Promised
    BY DEF Promised
  <2> QED BY <2>1, <2>2 DEF Delivery!Next, Promised
<1>6. ASSUME NEW r \in AllRuns, NEW u \in sec[r].todo, LaneStep(r, u) \/ Unanswered(r, u)
      PROVE  [Delivery!Next]_Delivery!vars
  <2>1. u \in Units
    BY Here DEF RowsInv
  <2> QED BY <1>6, <2>1, LaneDelivers DEF Delivery!Next
<1>7. CASE UNCHANGED vars \/ \E r \in AllRuns : Replay(r)
  <2>1. UNCHANGED <<plan, owner, delivered, skipped, sec>>
    BY <1>7 DEF Replay, vars, meta, git
  <2> QED BY <2>1, QuietDelivers DEF Finished
<1> QED BY <1>1, <1>2, <1>3, <1>4, <1>5, <1>6, <1>7 DEF Next, Walk

\* The section, its retries and the retakes of the execution keep the promise of
\* UnitDelivery: every step of the code is one of its steps, or none.
THEOREM LanesDeliver == Spec => DeliverySpec
<1>1. Init => Delivery!Init
  BY InitDelivers
<1>2. Sound /\ RowsInv /\ [Next]_vars => [Delivery!Next]_Delivery!vars
  BY NextDelivers
<1> QED BY <1>1, <1>2, WalksAreSound, RowsAreRight, PTL DEF Spec, DeliverySpec, Delivery!Spec

-----------------------------------------------------------------------------
(* The branches lanes build on.                                            *)

\* The remaining lanes are asked about after the skeleton, and a skeleton round is
\* one of the skeleton.
Phased(s) ==
  /\ s.at \in {"fanout", "ladder"} => s.phase = "skeleton"
  /\ s.phase = "skeleton" /\ s.at \in {"round", "halt"} => s.todo \subseteq {plan.skeleton}

\* Lane d is merged, and neither this review nor a later one can revise it.
Final(s, lanes, d) ==
  /\ lanes[d] = "MERGED" /\ s.phase # "skeleton"
  /\ s.phase = "batch" => \A i \in DOMAIN plan.waves : s.wave <= i => d \notin plan.waves[i]

\* A branch cut by this run holds what its unit depends on, and that is final.
Held(r, u) ==
  cut[u].by = r => /\ plan.dependsOn[u] \subseteq cut[u].has
                   /\ \A d \in plan.dependsOn[u] : Final(sec[r], lane[r], d)

\* A lane goes on once its dependencies are merged in its run.
Admitted(r, u) ==
  lane[r][u] \in {"queued"} \cup Working => \A d \in plan.dependsOn[u] : lane[r][d] = "MERGED"

Branches ==
  /\ \A r \in AllRuns : /\ Phased(sec[r]) /\ \A u \in Units : Admitted(r, u)
                        /\ sec[r].at = "none" => \A u \in Units : cut[u].by # r
  /\ owner # NoRun => \A u \in Units : Held(owner, u)

-----------------------------------------------------------------------------
(* The steps of a walk.                                                    *)

\* A lane that a round of run r may open: it is not merged, or its batch is the
\* one of the review or a later one.
Open(r, u) ==
  \/ lane[r][u] # "MERGED"
  \/ sec[r].phase = "batch" /\ \E i \in DOMAIN plan.waves : sec[r].wave <= i /\ u \in plan.waves[i]

\* The walk of run r goes on in the same phase, or leaves the skeleton behind.
Advances(r) ==
  \E s \in Sections :
    /\ Go(r, s) /\ sec[r].at # "none" /\ s.at # "none" /\ Phased(s)
    /\ s.at = "round" => \A u \in Units : lane[r][u] \in AtRest
    /\ \/ sec[r].phase = "skeleton"
       \/ /\ s.phase = sec[r].phase /\ sec[r].wave <= s.wave
          /\ s.at = "round" => \A u \in s.todo : Open(r, u)

LEMMA AdvancesKeeps ==
  ASSUME Sound, Branches, NEW r \in AllRuns, Advances(r), UNCHANGED <<plan, owner, cut>>
  PROVE  Branches'
<1>1. PICK s \in Sections :
        /\ Go(r, s) /\ sec[r].at # "none" /\ s.at # "none" /\ Phased(s)
        /\ s.at = "round" => \A u \in Units : lane[r][u] \in AtRest
        /\ \/ sec[r].phase = "skeleton"
           \/ /\ s.phase = sec[r].phase /\ sec[r].wave <= s.wave
              /\ s.at = "round" => \A u \in s.todo : Open(r, u)
  BY DEF Advances
<1>2. \A q \in AllRuns :
        /\ sec'[q] = IF q = r THEN s ELSE sec[q]
        /\ \A u \in Units : lane'[q][u] = IF q = r /\ s.at = "round" /\ u \in s.todo
                                          THEN "waiting" ELSE lane[q][u]
  <2>1. sec' = [sec EXCEPT ![r] = s]
    BY <1>1 DEF Go
  <2> QED BY <1>1, <2>1, LanesAfterGo DEF Sound, TypeOK
<1>3. \A u \in Units : plan.dependsOn[u] \subseteq Units
  BY PlaceTyped, PlanFits
<1>4. ASSUME NEW q \in AllRuns PROVE Phased(sec[q])'
  BY <1>1, <1>2 DEF Branches, Phased
<1>5. ASSUME NEW q \in AllRuns, NEW u \in Units PROVE Admitted(q, u)'
  <2>1. Admitted(q, u)
    BY DEF Branches
  <2>2. CASE q = r /\ s.at = "round"
    <3>1. lane'[q][u] \notin {"queued"} \cup Working
      BY <1>1, <1>2, <2>2 DEF AtRest, Working
    <3> QED BY <3>1 DEF Admitted
  <2>3. CASE ~ (q = r /\ s.at = "round")
    <3>1. \A v \in Units : lane'[q][v] = lane[q][v]
      BY <1>2, <2>3
    <3> QED BY <1>3, <2>1, <3>1 DEF Admitted
  <2> QED BY <2>2, <2>3
<1>6. ASSUME NEW q \in AllRuns, NEW u \in Units, sec'[q].at = "none" PROVE cut'[u].by # q
  <2>1. sec[q].at = "none"
    BY <1>1, <1>2, <1>6
  <2> QED BY <2>1 DEF Branches
<1>7. ASSUME owner # NoRun, NEW u \in Units PROVE Held(owner, u)'
  <2>1. owner \in AllRuns /\ Held(owner, u)
    BY <1>7 DEF Branches, Sound, TypeOK
  <2>2. ASSUME NEW d \in plan.dependsOn[u], Final(sec[owner], lane[owner], d)
        PROVE  Final(sec[owner], lane[owner], d)'
    <3>1. d \in Units
      BY <1>3
    <3>2. CASE owner # r
      <4>1. sec'[owner] = sec[owner] /\ lane'[owner][d] = lane[owner][d]
        BY <1>2, <2>1, <3>1, <3>2
      <4> QED BY <2>2, <4>1 DEF Final
    <3>3. CASE owner = r
      <4>1. /\ s.phase = sec[r].phase /\ sec[r].wave <= s.wave
            /\ s.at = "round" => \A v \in s.todo : Open(r, v)
        BY <1>1, <2>2, <3>3 DEF Final
      <4>2. ~ (s.at = "round" /\ d \in s.todo)
        BY <2>2, <3>3, <4>1 DEF Final, Open
      <4>3. lane'[r][d] = lane[r][d] /\ sec'[r] = s
        BY <1>2, <3>1, <4>2
      <4>4. \A i \in DOMAIN plan.waves : s.wave <= i => sec[r].wave <= i
        BY <4>1, PlaceTyped, PlanFits DEF Sections
      <4> QED BY <2>2, <3>3, <4>1, <4>3, <4>4 DEF Final
    <3> QED BY <3>2, <3>3
  <2> QED BY <2>1, <2>2 DEF Held
<1> QED BY <1>4, <1>5, <1>6, <1>7 DEF Branches

\* The walk of a run that was launched, in the place it is.
LEMMA Placed ==
  ASSUME Sound, Branches, NEW r \in AllRuns
  PROVE  sec[r] \in Sections /\ Walking(sec[r], lane[r]) /\ Phased(sec[r])
BY PlaceTyped DEF Branches

LEMMA LeavingAdvances ==
  ASSUME Sound, Branches, NEW r \in AllRuns, sec[r].at # "none",
         NEW at \in {"retired", "failed", "resolved", "stopped"},
         Go(r, [sec[r] EXCEPT !.at = at])
  PROVE  Advances(r)
<1> DEFINE t == [sec[r] EXCEPT !.at = at]
<1>1. /\ t \in Sections /\ t.at = at /\ t.phase = sec[r].phase /\ t.wave = sec[r].wave
      /\ sec[r].wave \in Nat
  BY Placed DEF Sections, Places, Ended
<1>2. Phased(t) /\ sec[r].wave <= t.wave
  BY <1>1 DEF Phased
<1>3. Go(r, t)
  OBVIOUS
<1> HIDE DEF t
<1> QED BY <1>1, <1>2, <1>3 DEF Advances

LEMMA AfterRoundAdvances ==
  ASSUME Sound, Branches, NEW r \in AllRuns, sec[r].at # "none",
         Go(r, AfterRound(sec[r], lane[r]))
  PROVE  Advances(r)
<1> DEFINE t == AfterRound(sec[r], lane[r])
<1>1. /\ t.at \in {"review", "fanout", "check"}
      /\ t.at = "fanout" => sec[r].phase = "skeleton"
  BY Placed DEF AfterRound, Sections
<1>2. /\ t \in Sections /\ t.phase = sec[r].phase /\ t.wave = sec[r].wave
      /\ sec[r].wave \in Nat
  BY <1>1, Placed DEF AfterRound, Sections, Places, Gates
<1>3. Go(r, t)
  OBVIOUS
<1> HIDE DEF t
<1>4. Phased(t) /\ sec[r].wave <= t.wave
  BY <1>1, <1>2 DEF Phased
<1> QED BY <1>1, <1>2, <1>3, <1>4 DEF Advances

\* A round of lanes that may be opened, in the phase of the walk or after the
\* skeleton.
LEMMA RoundAdvances ==
  ASSUME Sound, Branches, NEW r \in AllRuns, NEW s \in Sections, NEW todo \in SUBSET Units,
         NEW round \in Nat, Go(r, Round(s, todo, skipped[r], round)),
         sec[r].at # "none", \A u \in Units : lane[r][u] \in AtRest,
         s.phase = "skeleton" => todo \subseteq {plan.skeleton},
         \/ sec[r].phase = "skeleton"
         \/ s.phase = sec[r].phase /\ sec[r].wave <= s.wave /\ \A u \in todo : Open(r, u)
  PROVE  Advances(r)
<1> DEFINE t == Round(s, todo, skipped[r], round)
<1>1. /\ t \in Sections /\ t.at = "round" /\ t.todo = todo \ skipped[r]
      /\ t.phase = s.phase /\ t.wave = s.wave
  BY DEF Round, Sections, Places
<1> HIDE DEF t
<1>2. Phased(t)
  BY <1>1 DEF Phased
<1> QED BY <1>1, <1>2 DEF Advances, t

LEMMA BatchAdvances ==
  ASSUME Sound, Branches, NEW r \in AllRuns, NEW s \in Sections, NEW w \in Nat \ {0},
         GoBatch(r, s, w), sec[r].at # "none", \A u \in Units : lane[r][u] \in AtRest,
         \/ sec[r].phase = "skeleton"
         \/ sec[r].phase = "batch" /\ s = sec[r] /\ s.wave <= w
  PROVE  Advances(r)
<1>1. CASE Go(r, [s EXCEPT !.at = "check"])
  <2> DEFINE t == [s EXCEPT !.at = "check"]
  <2>1. t \in Sections /\ t.at = "check" /\ t.phase = s.phase /\ t.wave = s.wave
        /\ s.wave \in Nat
    BY DEF Sections, Places
  <2> HIDE DEF t
  <2>2. Phased(t) /\ s.wave <= t.wave
    BY <2>1 DEF Phased
  <2> QED BY <1>1, <2>1, <2>2 DEF Advances, t
<1>2. ASSUME NEW next \in w .. Len(plan.waves),
             Go(r, Round([s EXCEPT !.phase = "batch", !.wave = next, !.rev = 0],
                         Batch(s, next), skipped[r], 0))
      PROVE  Advances(r)
  <2> DEFINE b == [s EXCEPT !.phase = "batch", !.wave = next, !.rev = 0]
  <2>1. next \in DOMAIN plan.waves /\ next \in Nat /\ w <= next
    BY PlaceTyped, PlanFits
  <2>2. b \in Sections /\ b.phase = "batch" /\ b.wave = next /\ s.wave \in Nat
    BY <2>1 DEF Sections
  <2>3. Batch(s, next) \in SUBSET Units
    BY DEF Batch, Sections
  <2>4. sec[r].phase = "skeleton" \/ (sec[r].phase = "batch" /\ sec[r].wave <= next)
    BY <2>1, <2>2
  <2>5. sec[r].phase = "batch" => \A u \in Batch(s, next) : sec[r].wave <= next => Open(r, u)
    BY <2>1 DEF Open, Batch
  <2> HIDE DEF b
  <2> QED BY <1>2, <2>2, <2>3, <2>4, <2>5, RoundAdvances DEF b
<1> QED BY <1>1, <1>2 DEF GoBatch

LEMMA RemainingAdvances ==
  ASSUME Sound, Branches, NEW r \in AllRuns, NEW s \in Sections, GoRemaining(r, s),
         sec[r].at # "none", \A u \in Units : lane[r][u] \in AtRest,
         sec[r].phase = "skeleton"
  PROVE  Advances(r)
<1>1. CASE Go(r, Round([s EXCEPT !.phase = "free"], s.rest, skipped[r], 0))
  <2>1. /\ [s EXCEPT !.phase = "free"] \in Sections /\ s.rest \in SUBSET Units
        /\ [s EXCEPT !.phase = "free"].phase = "free"
    BY DEF Sections
  <2> QED BY <1>1, <2>1, RoundAdvances
<1>2. CASE GoBatch(r, s, 1)
  BY <1>2, BatchAdvances
<1> QED BY <1>1, <1>2 DEF GoRemaining

\* Every step of the walk of a run that was launched.
LEMMA WalkAdvances ==
  ASSUME Sound, Branches, NEW r \in AllRuns,
         EndRound(r) \/ FanOut(r) \/ Check(r) \/ Retire(r)
  PROVE  Advances(r)
<1>1. sec[r].at # "none"
  BY DEF EndRound, FanOut, Check, Retire, Gates
<1>2. CASE EndRound(r)
  <2> DEFINE open == {u \in sec[r].todo \ skipped[r] : lane[r][u] # "MERGED"}
             ask  == [sec[r] EXCEPT !.at = "halt", !.todo = open, !.asks = 0]
  <2>1. \/ Go(r, [sec[r] EXCEPT !.at = "retired"]) \/ Go(r, AfterRound(sec[r], lane[r]))
        \/ Go(r, ask)
    BY <1>2 DEF EndRound
  <2>2. CASE Go(r, ask)
    <3>1. open \subseteq sec[r].todo /\ sec[r].at = "round"
      BY <1>2 DEF EndRound
    <3> HIDE DEF open
    <3>2. /\ ask \in Sections /\ ask.at = "halt" /\ ask.todo = open
          /\ ask.phase = sec[r].phase /\ ask.wave = sec[r].wave /\ sec[r].wave \in Nat
      BY <3>1, Placed DEF Sections, Places, Gates
    <3> HIDE DEF ask
    <3>3. Phased(ask) /\ sec[r].wave <= ask.wave
      BY <3>1, <3>2, Placed DEF Phased
    <3> QED BY <1>1, <2>2, <3>2, <3>3 DEF Advances
  <2> QED BY <1>1, <2>1, <2>2, LeavingAdvances, AfterRoundAdvances
<1>3. CASE FanOut(r)
  <2> DEFINE rest == {u \in plan.units \ (skipped[r] \cup {plan.skeleton}) :
                        lane[r][u] # "MERGED"}
             s    == [sec[r] EXCEPT !.rest = rest, !.rev = 0]
             none == [s EXCEPT !.at = "check"]
             ask  == [s EXCEPT !.at = "ladder"]
  <2>1. Go(r, none) \/ Go(r, ask) \/ GoRemaining(r, s)
    BY <1>3 DEF FanOut
  <2>2. rest \in SUBSET Units
    BY PlaceTyped, PlanFits
  <2>3. sec[r].at = "fanout" /\ sec[r].phase = "skeleton"
    BY <1>3, Placed DEF FanOut, Phased
  <2>4. \A u \in Units : lane[r][u] \in AtRest
    BY <2>3, RestOutsideRound
  <2> HIDE DEF rest
  <2>5. s \in Sections /\ s.phase = "skeleton"
    BY <2>2, <2>3, Placed DEF Sections
  <2> HIDE DEF s
  <2>6. /\ none \in Sections /\ none.at = "check" /\ ask \in Sections /\ ask.at = "ladder"
        /\ none.phase = "skeleton" /\ ask.phase = "skeleton"
    BY <2>5 DEF Sections, Places, Gates
  <2> HIDE DEF none, ask
  <2>7. Phased(none) /\ Phased(ask)
    BY <2>6 DEF Phased
  <2>8. CASE Go(r, none) \/ Go(r, ask)
    BY <1>1, <2>3, <2>6, <2>7, <2>8 DEF Advances
  <2> QED BY <1>1, <2>1, <2>3, <2>4, <2>5, <2>8, RemainingAdvances
<1>4. CASE Check(r) \/ Retire(r)
  <2>1. PICK at \in {"retired", "failed", "resolved"} : Go(r, [sec[r] EXCEPT !.at = at])
    BY <1>4 DEF Check, Retire
  <2> QED BY <1>1, <2>1, LeavingAdvances
<1> QED BY <1>2, <1>3, <1>4

LEMMA AnswerAdvances ==
  ASSUME Sound, Branches, NEW r \in AllRuns, Answer(r)
  PROVE  Advances(r)
<1>1. sec[r].at \in Gates
  BY DEF Answer, Retry, Skip, Approve, RequestChanges, AnswerHalt, ChooseMode, Gates
<1>2. sec[r].at # "none" /\ \A u \in Units : lane[r][u] \in AtRest
  BY <1>1, RestOutsideRound DEF Gates
<1>3. sec[r].wave \in Nat /\ sec[r].todo \in SUBSET Units
  BY Placed DEF Sections
<1>4. CASE Retry(r)
  <2>1. sec[r].at = "halt" /\ Go(r, Round(sec[r], sec[r].todo, skipped[r], sec[r].round + 1))
    BY <1>4 DEF Retry
  <2>2. Unmerged(lane[r], sec[r].todo) /\ sec[r].round + 1 \in Nat
    BY <2>1, Placed DEF Walking, OpenAtGates, Sections
  <2>3. \A u \in sec[r].todo : Open(r, u)
    BY <2>2 DEF Unmerged, Open
  <2>4. sec[r].phase = "skeleton" => sec[r].todo \subseteq {plan.skeleton}
    BY <2>1, Placed DEF Phased
  <2>5. sec[r].wave <= sec[r].wave
    BY <1>3
  <2> QED BY <1>2, <1>3, <2>1, <2>2, <2>3, <2>4, <2>5, Placed, RoundAdvances
<1>5. CASE Skip(r)
  <2> DEFINE t == [sec[r] EXCEPT !.at = "skipping", !.todo = ToOmit(r), !.omit = ToOmit(r)]
  <2>1. ToOmit(r) \in SUBSET Units
    BY PlaceTyped, PlanFits DEF ToOmit, Dependents
  <2>2. /\ t \in Sections /\ t.at = "skipping" /\ t.phase = sec[r].phase
        /\ t.wave = sec[r].wave
    BY <2>1, Placed DEF Sections, Places
  <2>3. Go(r, t)
    BY <1>5 DEF Skip
  <2> HIDE DEF t
  <2>4. Phased(t) /\ sec[r].wave <= t.wave
    BY <1>3, <2>2 DEF Phased
  <2> QED BY <1>2, <2>2, <2>3, <2>4 DEF Advances
<1>6. CASE Approve(r)
  <2>1. CASE sec[r].phase = "skeleton"
    <3> DEFINE t == [sec[r] EXCEPT !.at = "fanout"]
    <3>1. Go(r, t)
      BY <1>6, <2>1 DEF Approve
    <3>2. t \in Sections /\ t.at = "fanout" /\ t.phase = "skeleton"
      BY <2>1, Placed DEF Sections, Places
    <3> HIDE DEF t
    <3>3. Phased(t)
      BY <3>2 DEF Phased
    <3> QED BY <1>2, <2>1, <3>1, <3>2, <3>3 DEF Advances
  <2>2. CASE sec[r].phase # "skeleton"
    <3>1. sec[r].at = "review" /\ GoBatch(r, sec[r], sec[r].wave + 1)
      BY <1>6, <2>2 DEF Approve
    <3>2. sec[r].phase = "batch"
      BY <2>2, <3>1, Placed DEF Walking, PhaseFits, Sections
    <3>3. sec[r].wave + 1 \in Nat \ {0} /\ sec[r].wave <= sec[r].wave + 1
      BY <1>3
    <3> QED BY <1>2, <3>1, <3>2, <3>3, Placed, BatchAdvances
  <2> QED BY <2>1, <2>2
<1>7. CASE RequestChanges(r)
  <2> DEFINE t == [sec[r] EXCEPT !.rev = @ + 1]
  <2>1. t \in Sections /\ t.phase = sec[r].phase /\ t.wave = sec[r].wave
    BY Placed DEF Sections
  <2>2. Go(r, Round(t, Revisable(r), skipped[r], 0)) /\ sec[r].at = "review"
    BY <1>7 DEF RequestChanges
  <2>3. sec[r].phase \in {"skeleton", "batch"}
    BY <2>2, Placed DEF Walking, PhaseFits, Sections
  <2>4. /\ Revisable(r) \in SUBSET Units
        /\ sec[r].phase = "skeleton" => Revisable(r) \subseteq {plan.skeleton}
        /\ sec[r].phase = "batch" => \A u \in Revisable(r) : Open(r, u)
    <3>1. CASE sec[r].phase = "skeleton"
      <4>1. plan.skeleton \in Units
        BY <2>2, <3>1, Placed DEF Walking, PhaseFits, InRound
      <4> QED BY <3>1, <4>1 DEF Revisable, Reviewed
    <3>2. CASE sec[r].phase = "batch"
      <4>1. sec[r].wave \in DOMAIN plan.waves
        BY <2>2, <3>2, Placed DEF Walking, BatchesToCome, InRound
      <4>2. Revisable(r) \subseteq plan.waves[sec[r].wave] /\ Revisable(r) \subseteq sec[r].rest
        BY <3>2 DEF Revisable, Reviewed, Batch
      <4>3. sec[r].rest \subseteq Units /\ sec[r].wave <= sec[r].wave
        BY <1>3, Placed DEF Sections
      <4> QED BY <3>2, <4>1, <4>2, <4>3 DEF Open
    <3> QED BY <2>3, <3>1, <3>2
  <2>5. sec[r].wave <= t.wave
    BY <1>3, <2>1
  <2> HIDE DEF t
  <2> QED BY <1>2, <2>1, <2>2, <2>3, <2>4, <2>5, RoundAdvances
<1>8. ASSUME NEW parsed \in BOOLEAN, AnswerHalt(r, parsed) PROVE Advances(r)
  <2> DEFINE again == [sec[r] EXCEPT !.asks = @ + 1]
  <2>1. Go(r, again) \/ Go(r, [sec[r] EXCEPT !.at = "failed"])
    BY <1>8 DEF AnswerHalt
  <2>2. /\ again \in Sections /\ again.at = sec[r].at /\ again.todo = sec[r].todo
        /\ again.phase = sec[r].phase /\ again.wave = sec[r].wave
    BY Placed DEF Sections
  <2> HIDE DEF again
  <2>3. Phased(again) /\ sec[r].wave <= again.wave /\ again.at \notin {"none", "round"}
    BY <1>1, <1>3, <2>2, Placed DEF Phased, Gates
  <2>4. Go(r, again) => Advances(r)
    BY <1>2, <2>2, <2>3 DEF Advances
  <2> QED BY <1>2, <2>1, <2>4, LeavingAdvances
<1>9. ASSUME NEW mode \in Modes, ChooseMode(r, mode) PROVE Advances(r)
  <2>1. [sec[r] EXCEPT !.mode = mode] \in Sections
    BY Placed DEF Sections
  <2>2. sec[r].phase = "skeleton" /\ GoRemaining(r, [sec[r] EXCEPT !.mode = mode])
    BY <1>9, Placed DEF ChooseMode, Phased
  <2> QED BY <1>2, <2>1, <2>2, RemainingAdvances
<1> QED BY <1>4, <1>5, <1>6, <1>7, <1>8, <1>9 DEF Answer

LEMMA RecordSkipAdvances ==
  ASSUME Sound, Branches, NEW r \in AllRuns, NEW u \in sec[r].omit, RecordSkip(r, u)
  PROVE  Advances(r)
<1> DEFINE t == [sec[r] EXCEPT !.omit = @ \ {u}]
<1>1. sec[r].at = "skipping" /\ (Go(r, AfterRound(sec[r], lane[r])) \/ Go(r, t))
  BY DEF RecordSkip
<1>2. /\ t \in Sections /\ t.at = "skipping" /\ t.phase = sec[r].phase
      /\ t.wave = sec[r].wave /\ sec[r].wave \in Nat
  BY <1>1, Placed DEF Sections
<1> HIDE DEF t
<1>3. Phased(t) /\ sec[r].wave <= t.wave
  BY <1>2 DEF Phased
<1>4. Go(r, t) => Advances(r)
  BY <1>1, <1>2, <1>3 DEF Advances
<1> QED BY <1>1, <1>4, AfterRoundAdvances

-----------------------------------------------------------------------------
(* The steps of a lane.                                                    *)

\* What run r must know of the branches after a step of a lane.
HeldAfter(r, v) ==
  cut'[v].by = r => /\ plan.dependsOn[v] \subseteq cut'[v].has
                    /\ \A d \in plan.dependsOn[v] : Final(sec[r], lane[r], d)

LEMMA MoveBranches ==
  ASSUME Sound, InPlan, Branches, NEW r \in AllRuns, NEW u \in sec[r].todo, NEW pc,
         sec[r].at = "round", lane' = [lane EXCEPT ![r][u] = pc], lane[r][u] # "MERGED",
         UNCHANGED <<plan, owner, sec>>,
         pc \in {"queued"} \cup Working => \A d \in plan.dependsOn[u] : lane[r][d] = "MERGED",
         \A v \in Units : cut'[v].by = cut[v].by \/ cut'[v].by = r,
         owner # NoRun => \A v \in Units : HeldAfter(owner, v)
  PROVE  Branches'
<1>1. u \in Units /\ \A v \in Units : plan.dependsOn[v] \subseteq Units
  BY Here, PlaceTyped, PlanFits
<1>2. \A q \in AllRuns, v \in Units :
        lane'[q][v] = IF q = r /\ v = u THEN pc ELSE lane[q][v]
  BY <1>1 DEF Sound, TypeOK
<1>3. ASSUME NEW q \in AllRuns, NEW d \in Units, lane[q][d] = "MERGED"
      PROVE  lane'[q][d] = "MERGED"
  BY <1>2, <1>3
<1>4. ASSUME NEW q \in AllRuns PROVE Phased(sec[q])'
  BY DEF Branches, Phased
<1>5. ASSUME NEW q \in AllRuns, NEW v \in Units PROVE Admitted(q, v)'
  <2>1. Admitted(q, v)
    BY DEF Branches
  <2>2. lane'[q][v] \in {"queued"} \cup Working => \A d \in plan.dependsOn[v] : lane[q][d] = "MERGED"
    BY <1>2, <2>1 DEF Admitted
  <2> QED BY <1>1, <1>3, <2>2 DEF Admitted
<1>6. ASSUME NEW q \in AllRuns, NEW v \in Units, sec'[q].at = "none" PROVE cut'[v].by # q
  BY <1>6 DEF Branches
<1>7. ASSUME owner # NoRun, NEW v \in Units PROVE Held(owner, v)'
  <2>1. owner \in AllRuns
    BY <1>7 DEF Sound, TypeOK
  <2>2. ASSUME NEW d \in plan.dependsOn[v], Final(sec[owner], lane[owner], d)
        PROVE  Final(sec[owner], lane[owner], d)'
    <3>1. lane'[owner][d] = "MERGED"
      BY <1>1, <1>3, <2>1, <2>2 DEF Final
    <3> QED BY <2>2, <3>1 DEF Final
  <2> QED BY <1>7, <2>2 DEF Held, HeldAfter
<1> QED BY <1>4, <1>5, <1>6, <1>7 DEF Branches

\* The dependencies of a lane that was admitted, and of one that moves on.
LEMMA StaysAdmitted ==
  ASSUME Branches, NEW r \in AllRuns, NEW u \in Units,
         lane[r][u] \in {"queued"} \cup Working
  PROVE  \A d \in plan.dependsOn[u] : lane[r][d] = "MERGED"
BY DEF Branches, Admitted

\* A step of a lane that leaves the branches alone.
LEMMA SameBranches ==
  ASSUME Sound, InPlan, Branches, NEW r \in AllRuns, NEW u \in sec[r].todo, NEW pc,
         sec[r].at = "round", lane' = [lane EXCEPT ![r][u] = pc], lane[r][u] # "MERGED",
         UNCHANGED <<plan, owner, sec, cut>>,
         pc \in {"queued"} \cup Working =>
           \/ lane[r][u] \in {"queued"} \cup Working
           \/ \A d \in plan.dependsOn[u] : lane[r][d] = "MERGED"
  PROVE  Branches'
<1>1. u \in Units
  BY Here
<1>2. pc \in {"queued"} \cup Working => \A d \in plan.dependsOn[u] : lane[r][d] = "MERGED"
  BY <1>1, StaysAdmitted
<1>3. owner # NoRun => \A v \in Units : HeldAfter(owner, v)
  BY DEF Branches, Held, HeldAfter
<1> QED BY <1>2, <1>3, MoveBranches

LEMMA QuietBranches ==
  ASSUME Sound, InPlan, Branches, NEW r \in AllRuns, NEW u \in sec[r].todo,
         \/ LaneBlocked(r, u) \/ LaneRetired(r, u) \/ LaneReady(r, u) \/ StartLane(r, u)
         \/ LaneFails(r, u) \/ NothingToBuild(r, u) \/ BeginMerge(r, u) \/ RecordMerged(r, u)
         \/ \E taken \in SUBSET Repos, answered \in BOOLEAN : MergeLane(r, u, taken, answered)
  PROVE  Branches'
<1>1. CASE \E taken \in SUBSET Repos, answered \in BOOLEAN : MergeLane(r, u, taken, answered)
  <2>1. PICK taken \in SUBSET Repos, answered \in BOOLEAN : MergeLane(r, u, taken, answered)
    BY <1>1
  <2>2. /\ Step(r, u, Verdict(r, u, answered)) /\ lane[r][u] \in {"merging", "remerging"}
        /\ sec[r].at = "round" /\ UNCHANGED cut
    BY <2>1, MergeLaneSteps DEF MergeLane
  <2>3. lane[r][u] # "MERGED" /\ lane[r][u] \in Working
    BY <2>2 DEF Working
  <2>4. lane' = [lane EXCEPT ![r][u] = Verdict(r, u, answered)] /\ UNCHANGED <<plan, owner, sec>>
    BY <2>2, StepFrame DEF StepOnly
  <2> QED BY <2>2, <2>3, <2>4, SameBranches
<1>2. CASE StartLane(r, u)
  BY <1>2, SameBranches DEF StartLane, At, git, meta
<1>3. CASE LaneReady(r, u)
  <2>1. /\ sec[r].at = "round" /\ lane[r][u] = "waiting" /\ Step(r, u, "queued")
        /\ UNCHANGED cut /\ \A d \in plan.dependsOn[u] : lane[r][d] = "MERGED"
    BY <1>3 DEF LaneReady, At, git
  <2> QED BY <2>1, StepFrame, SameBranches DEF StepOnly
<1>4. ASSUME \/ LaneBlocked(r, u) \/ LaneRetired(r, u) \/ LaneFails(r, u) \/ NothingToBuild(r, u)
             \/ BeginMerge(r, u) \/ RecordMerged(r, u)
      PROVE  Branches'
  <2>1. PICK pc : Step(r, u, pc) /\ (pc \in {"queued"} \cup Working => lane[r][u] \in Working)
    BY <1>4 DEF LaneBlocked, LaneRetired, LaneFails, NothingToBuild, BeginMerge, RecordMerged, At,
                Working
  <2>2. sec[r].at = "round" /\ lane[r][u] # "MERGED" /\ UNCHANGED cut
    BY <1>4 DEF LaneBlocked, LaneRetired, LaneFails, NothingToBuild, BeginMerge, RecordMerged, At,
                Working, git
  <2> QED BY <2>1, <2>2, StepFrame, SameBranches DEF StepOnly
<1> QED BY <1>1, <1>2, <1>3, <1>4

\* What is merged in the owner's lanes of a round is on the intent branch, and no
\* review of the phase revises what a lane depends on.
LEMMA DependenciesFinal ==
  ASSUME Sound, RowsInv, Branches, NEW r \in AllRuns, NEW u \in sec[r].todo, owner = r,
         sec[r].at = "round", \A d \in plan.dependsOn[u] : lane[r][d] = "MERGED"
  PROVE  /\ plan.dependsOn[u] \subseteq Integrated
         /\ \A d \in plan.dependsOn[u] : Final(sec[r], lane[r], d)
<1>1. u \in plan.units /\ plan.units \subseteq Units /\ PlanOK(plan)
  BY Here, PlaceTyped, PlansAssumption DEF RowsInv
<1>2. plan.dependsOn[u] \subseteq Units
  BY <1>1, PlaceTyped, PlanFits
<1>3. plan.dependsOn[u] \subseteq Integrated
  BY <1>2, RunsAreNumbered DEF RowsInv, Landed, Integrated
<1>4. ASSUME NEW d \in plan.dependsOn[u] PROVE Final(sec[r], lane[r], d)
  <2>1. CASE sec[r].phase = "skeleton"
    <3>1. u = plan.skeleton /\ Off \notin Units
      BY <2>1, Placed, PlansAssumption DEF Phased
    <3> QED BY <1>1, <1>4, <3>1 DEF PlanOK
  <2>2. CASE sec[r].phase = "batch"
    <3>1. sec[r].wave \in DOMAIN plan.waves /\ u \in plan.waves[sec[r].wave]
      BY <2>2, Placed DEF Walking, BatchesToCome, InRound
    <3>2. DOMAIN plan.waves = 1 .. Len(plan.waves) /\ Len(plan.waves) \in Nat
      BY PlaceTyped, PlanFits
    <3>3. PICK j \in 1 .. sec[r].wave - 1 : d \in plan.waves[j]
      <4>1. PICK i \in DOMAIN plan.waves :
              /\ \A k \in DOMAIN plan.waves : u \in plan.waves[k] => i = k
              /\ plan.dependsOn[u] \subseteq UNION {plan.waves[k] : k \in 1 .. i - 1}
        BY <1>1, Zenon DEF PlanOK
      <4>2. i = sec[r].wave
        BY <3>1, <4>1
      <4> QED BY <1>4, <4>1, <4>2
    <3>4. j \in DOMAIN plan.waves /\ j < sec[r].wave /\ j \in Int
      BY <3>1, <3>2, <3>3
    <3>5. ASSUME NEW i \in DOMAIN plan.waves, sec[r].wave <= i PROVE d \notin plan.waves[i]
      <4>1. i # j
        BY <3>1, <3>2, <3>4, <3>5
      <4>2. plan.waves[i] \cap plan.waves[j] = {}
        BY <3>4, <4>1, PlaceTyped, PlanFits
      <4> QED BY <3>3, <4>2
    <3> QED BY <2>2, <3>5 DEF Final
  <2> QED BY <2>1, <2>2 DEF Final
<1> QED BY <1>3, <1>4

LEMMA InitLaneBranches ==
  ASSUME Sound, RowsInv, Branches, NEW r \in AllRuns, NEW u \in sec[r].todo, InitLane(r, u)
  PROVE  Branches'
<1>1. /\ sec[r].at = "round" /\ lane[r][u] = "starting" /\ Step(r, u, "building")
      /\ cut' = IF cut[u].by = NoRun
                THEN [cut EXCEPT ![u] = [by |-> r, has |-> Integrated]] ELSE cut
  BY DEF InitLane, At
<1>2. u \in Units /\ InPlan
  BY Here DEF RowsInv
<1>3. \A d \in plan.dependsOn[u] : lane[r][d] = "MERGED"
  BY <1>1, <1>2, StaysAdmitted DEF Working
<1>4. \A v \in Units : \/ cut'[v] = cut[v]
                       \/ v = u /\ cut'[v].by = r /\ cut'[v].has = Integrated
  BY <1>1, <1>2 DEF Sound, TypeOK
<1>5. ASSUME owner # NoRun, NEW v \in Units PROVE HeldAfter(owner, v)
  <2>1. CASE cut'[v] = cut[v]
    BY <1>5, <2>1 DEF Branches, Held, HeldAfter
  <2>2. CASE v = u /\ cut'[v].by = r /\ cut'[v].has = Integrated /\ owner = r
    BY <1>1, <1>3, <2>2, DependenciesFinal DEF HeldAfter
  <2>3. CASE cut'[v].by = r /\ owner # r
    BY <2>3 DEF HeldAfter
  <2> QED BY <1>4, <2>1, <2>2, <2>3
<1>6. StepOnly /\ lane' = [lane EXCEPT ![r][u] = "building"]
  BY <1>1, StepFrame
<1> QED BY <1>1, <1>2, <1>3, <1>4, <1>5, <1>6, MoveBranches DEF StepOnly

\* The stages take the head of their unit out of the branches that hold it: of
\* those the owner cut, none depends on a unit still in construction.
LEMMA StagesBranches ==
  ASSUME Sound, RowsInv, Branches, NEW r \in AllRuns, NEW u \in sec[r].todo,
         StagesSucceed(r, u) \/ ResolveConflict(r, u)
  PROVE  Branches'
<1>1. u \in Units /\ InPlan /\ \A v \in Units : plan.dependsOn[v] \subseteq Units
  BY Here, PlaceTyped, PlanFits DEF RowsInv
<1>2. PICK pc \in {"built", "remerging"} : Step(r, u, pc)
  BY DEF StagesSucceed, ResolveConflict
<1>3. sec[r].at = "round" /\ lane[r][u] \in Working /\ lane[r][u] # "MERGED"
  BY DEF StagesSucceed, ResolveConflict, At, Working
<1>4. \A d \in plan.dependsOn[u] : lane[r][d] = "MERGED"
  BY <1>1, <1>3, StaysAdmitted
<1>5. \A v \in Units :
        /\ cut'[v].by = cut[v].by
        /\ \/ cut[v].has \subseteq cut'[v].has
           \/ owner = r /\ cut'[v].has = cut[v].has \ {u}
  <2>1. CASE StagesSucceed(r, u)
    <3>1. owner = r /\ \A v \in Units : cut'[v] = [cut[v] EXCEPT !.has = @ \ {u}]
      BY <2>1 DEF StagesSucceed, Active
    <3> QED BY <3>1 DEF Sound, TypeOK
  <2>2. CASE ResolveConflict(r, u)
    <3>1. cut' = [cut EXCEPT ![u].has = @ \cup Integrated]
      BY <2>2 DEF ResolveConflict
    <3> QED BY <1>1, <3>1 DEF Sound, TypeOK
  <2> QED BY <2>1, <2>2
<1>6. ASSUME owner # NoRun, NEW v \in Units PROVE HeldAfter(owner, v)
  <2>1. Held(owner, v)
    BY <1>6 DEF Branches
  <2>2. CASE cut[v].has \subseteq cut'[v].has
    BY <1>5, <2>1, <2>2 DEF Held, HeldAfter
  <2>3. CASE owner = r /\ cut'[v].has = cut[v].has \ {u}
    <3>1. cut[v].by = r => u \notin plan.dependsOn[v]
      BY <1>3, <2>1, <2>3 DEF Held, Final
    <3> QED BY <1>5, <2>1, <2>3, <3>1 DEF Held, HeldAfter
  <2> QED BY <1>5, <2>2, <2>3
<1>7. StepOnly /\ lane' = [lane EXCEPT ![r][u] = pc]
  BY <1>2, StepFrame
<1> QED BY <1>1, <1>3, <1>4, <1>5, <1>6, <1>7, MoveBranches DEF StepOnly

-----------------------------------------------------------------------------
(* Launches and retakes.                                                   *)

LEMMA LaunchBranches ==
  ASSUME Sound, Branches, NEW r \in AllRuns, Launch(r)
  PROVE  Branches'
<1> DEFINE omitted == {u \in note : row[u] # "MERGED"}
           lanes   == [u \in Units |-> IF row[u] = "MERGED" THEN "MERGED" ELSE "none"]
           fresh   == [Idle EXCEPT !.mode = autonomy]
           start   == CASE plan.skeleton = Off -> [fresh EXCEPT !.at = "fanout"]
                        [] plan.skeleton # Off /\ lanes[plan.skeleton] # "MERGED" ->
                             Round(fresh, {plan.skeleton}, omitted, 0)
                        [] OTHER -> [fresh EXCEPT !.at =
                             IF autonomy = "none" THEN "review" ELSE "fanout"]
           opened  == IF start.at = "round" THEN Opened(lanes, start.todo) ELSE lanes
<1>1. /\ sec' = [sec EXCEPT ![r] = start] /\ lane' = [lane EXCEPT ![r] = opened]
      /\ UNCHANGED <<plan, cut>> /\ owner' = r /\ sec[r].at = "none"
  BY Zenon DEF Launch, git
<1>2. fresh \in Sections /\ fresh.phase = "skeleton"
  BY DEF Idle, Sections, Places, Sound, TypeOK
<1>3. /\ start.at # "none" /\ start.phase = "skeleton"
      /\ start.at \in {"round", "halt"} => start.todo \subseteq {plan.skeleton}
  <2>1. CASE plan.skeleton = Off
    BY <2>1, <1>2 DEF Sections
  <2>2. CASE plan.skeleton # Off /\ lanes[plan.skeleton] # "MERGED"
    BY <2>2, <1>2 DEF Round, Sections
  <2>3. CASE plan.skeleton # Off /\ lanes[plan.skeleton] = "MERGED"
    BY <2>3, <1>2 DEF Sections
  <2> QED BY <2>1, <2>2, <2>3
<1>4. \A u \in Units : opened[u] \notin {"queued"} \cup Working
  BY DEF Opened, Working
<1> HIDE DEF start, opened
<1>5. \A q \in AllRuns : /\ sec'[q] = IF q = r THEN start ELSE sec[q]
                         /\ lane'[q] = IF q = r THEN opened ELSE lane[q]
  BY <1>1 DEF Sound, TypeOK
<1>6. ASSUME NEW q \in AllRuns PROVE Phased(sec[q])'
  BY <1>1, <1>3, <1>5 DEF Branches, Phased
<1>7. ASSUME NEW q \in AllRuns, NEW u \in Units PROVE Admitted(q, u)'
  <2>1. CASE q = r
    BY <1>4, <1>5, <2>1 DEF Admitted
  <2>2. CASE q # r
    <3>1. Admitted(q, u) /\ lane'[q] = lane[q]
      BY <1>5, <2>2 DEF Branches
    <3> QED BY <1>1, <3>1 DEF Admitted
  <2> QED BY <2>1, <2>2
<1>8. ASSUME NEW q \in AllRuns, NEW u \in Units, sec'[q].at = "none" PROVE cut'[u].by # q
  <2>1. sec[q].at = "none"
    BY <1>3, <1>5, <1>8
  <2> QED BY <1>1, <2>1 DEF Branches
<1>9. ASSUME NEW u \in Units PROVE Held(r, u)'
  <2>1. cut[u].by # r
    BY <1>1 DEF Branches
  <2> QED BY <1>1, <2>1 DEF Held
<1>10. owner' # NoRun => \A u \in Units : Held(owner, u)'
  BY <1>1, <1>9 DEF Held
<1> QED BY <1>6, <1>7, <1>8, <1>10 DEF Branches

LEMMA StillBranches ==
  ASSUME Branches, UNCHANGED <<plan, cut, sec, lane>>, owner' \in {owner, NoRun}
  PROVE  Branches'
<1>1. \A r \in AllRuns : /\ Phased(sec[r])' /\ \A u \in Units : Admitted(r, u)'
                         /\ sec'[r].at = "none" => \A u \in Units : cut'[u].by # r
  BY DEF Branches, Phased, Admitted
<1>2. ASSUME owner' # NoRun, NEW u \in Units PROVE Held(owner, u)'
  <2>1. owner' = owner /\ Held(owner, u)
    BY <1>2 DEF Branches
  <2> QED BY <2>1 DEF Held, Final
<1> QED BY <1>1, <1>2 DEF Branches

LEMMA StopBranches ==
  ASSUME Sound, Branches, NEW r \in AllRuns, StopWalk(r)
  PROVE  Branches'
<1> DEFINE t == [sec[r] EXCEPT !.at = "stopped"]
<1>1. /\ sec' = [sec EXCEPT ![r] = t] /\ sec[r].at # "none"
      /\ UNCHANGED <<plan, owner, cut, lane>>
  BY DEF StopWalk, meta, git
<1>2. t \in Sections /\ t.at = "stopped"
  BY Placed DEF Sections, Places, Ended
<1>3. Go(r, t)
  BY <1>1, <1>2 DEF Go, Sound, TypeOK
<1> HIDE DEF t
<1>4. Advances(r)
  BY <1>1, <1>3, LeavingAdvances DEF t
<1> QED BY <1>1, <1>4, AdvancesKeeps

-----------------------------------------------------------------------------
(* The branches in every behaviour.                                        *)

LEMMA InitBranches == Init => Branches
<1> SUFFICES ASSUME Init PROVE Branches
  OBVIOUS
<1>1. \A u \in Units : cut[u].by = NoRun
  BY DEF Init
<1>2. \A r \in AllRuns : Phased(sec[r]) /\ \A u \in Units : Admitted(r, u)
  BY DEF Init, Idle, Phased, Admitted, Working
<1> QED BY <1>1, <1>2, RunsAreNumbered DEF Init, Branches

LEMMA NextBranches ==
  ASSUME Sound, RowsInv, Branches, [Next]_vars
  PROVE  Branches'
<1>1. CASE Retaking
  <2>1. CASE \E r \in AllRuns : StopWalk(r)
    BY <2>1, StopBranches
  <2>2. CASE Cancel \/ Rewind \/ Repair \/ Relaunch \/ \E u \in Units : ResetRow(u)
    <3>1. UNCHANGED <<plan, cut, sec, lane>> /\ owner' \in {owner, NoRun}
      BY <2>2 DEF Cancel, Rewind, Repair, Relaunch, ResetRow, BeginRetake, meta, git
    <3> QED BY <3>1, StillBranches
  <2> QED BY <1>1, <2>1, <2>2 DEF Retaking
<1>2. ASSUME NEW r \in AllRuns, Answer(r) \/ Walk(r)
      PROVE  Branches'
  <2>1. Advances(r)
    BY <1>2, AnswerAdvances, WalkAdvances, RecordSkipAdvances DEF Walk
  <2>2. CASE Answer(r)
    <3>1. UNCHANGED <<plan, owner, cut>>
      BY <2>2 DEF Answer, Retry, Skip, Approve, RequestChanges, AnswerHalt, ChooseMode, WalkOnly,
                  meta, git
    <3> QED BY <2>1, <3>1, AdvancesKeeps
  <2>3. CASE Walk(r)
    <3>1. UNCHANGED <<plan, owner, cut>>
      BY <2>3 DEF Walk, EndRound, FanOut, Check, Retire, RecordSkip, WalkOnly, meta, git
    <3> QED BY <2>1, <3>1, AdvancesKeeps
  <2> QED BY <1>2, <2>2, <2>3
<1>3. ASSUME NEW r \in AllRuns, Replay(r) \/ \E u \in sec[r].todo : Readmit(r, u)
      PROVE  Branches'
  BY <1>3, StillBranches DEF Replay, Readmit, meta, git
<1>4. ASSUME NEW r \in AllRuns, NEW u \in sec[r].todo, LaneStep(r, u) \/ Unanswered(r, u)
      PROVE  Branches'
  <2>1. InPlan
    BY DEF RowsInv
  <2>2. CASE InitLane(r, u) \/ StagesSucceed(r, u) \/ ResolveConflict(r, u)
    BY <2>2, InitLaneBranches, StagesBranches
  <2>3. CASE \E taken \in SUBSET Repos, answered \in BOOLEAN : MergeLane(r, u, taken, answered)
    BY <2>1, <2>3, QuietBranches
  <2> QED BY <1>3, <1>4, <2>1, <2>2, <2>3, QuietBranches DEF LaneStep, Unanswered
<1>5. CASE UNCHANGED vars
  BY <1>5, StillBranches DEF vars
<1>6. ASSUME NEW r \in AllRuns, Launch(r) PROVE Branches'
  BY <1>6, LaunchBranches
<1> QED BY <1>1, <1>2, <1>3, <1>4, <1>5, <1>6 DEF Next

THEOREM BranchesAreRight == Spec => []Branches
<1>1. Init => Branches
  BY InitBranches
<1>2. Sound /\ RowsInv /\ Branches /\ [Next]_vars => Branches'
  BY NextBranches
<1> QED BY <1>1, <1>2, WalksAreSound, RowsAreRight, PTL DEF Spec

\* "A lane starts only when the lanes it depends on have merged": the branch the
\* run cut for a lane holds the heads its dependencies have, revised or not.
THEOREM LanesBuildOnDependencies == Spec => []BuildsOnDependencies
<1>1. Sound /\ Branches => BuildsOnDependencies
  <2> SUFFICES ASSUME Sound, Branches PROVE BuildsOnDependencies
    OBVIOUS
  <2>1. plan.units \subseteq Units
    BY PlanFits DEF Sound, TypeOK
  <2> QED BY <2>1 DEF Branches, Held, BuildsOnDependencies
<1> QED BY <1>1, WalksAreSound, BranchesAreRight, PTL

=============================================================================
