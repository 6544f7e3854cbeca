----------------------------- MODULE LanesProofs -----------------------------
(***************************************************************************)
(* Proofs about Lanes, for every plan, number of lanes, repositories, runs *)
(* and retries: the rows and the walks stay well formed, units enter the   *)
(* intent branch in dependency order, and a retry keeps what is merged.    *)
(***************************************************************************)
EXTENDS Lanes, FiniteSetTheorems, TLAPS

AtRest == {"none", "MERGED", "FAILED", "BLOCKED"}
InRound == {"round", "halt", "skipping", "review"}

Unmerged(lanes, S) == \A u \in S : lanes[u] # "MERGED"

\* Only the lanes of the round are at work, and no lane of an earlier round has
\* ended the run; nothing was begun before the run was launched.
LanesSettled(s, lanes) ==
  /\ s.at = "none" => \A u \in Units : lanes[u] = "none"
  /\ s.at \notin {"retired", "stopped"} =>
       \A u \in Units : lanes[u] \in AtRest \/ (s.at = "round" /\ u \in s.todo)

\* The lanes a gate is about to run again, or to omit, are not merged.
OpenAtGates(s, lanes) ==
  /\ s.at \in {"halt", "skipping"} => Unmerged(lanes, s.todo)
  /\ s.at = "skipping" => s.omit \subseteq s.todo
  /\ s.at = "ladder" => Unmerged(lanes, s.rest)

\* The lanes of the batches to come are not merged.
BatchesToCome(s, lanes) ==
  s.phase = "batch" /\ s.at \in InRound =>
    /\ s.wave \in DOMAIN plan.waves
    /\ s.at \in {"round", "halt"} => s.todo \subseteq plan.waves[s.wave]
    /\ \A i \in DOMAIN plan.waves : s.wave < i => Unmerged(lanes, Batch(s, i))

\* A skeleton round has a skeleton, and only it or a batch is reviewed.
PhaseFits(s) ==
  /\ s.phase = "skeleton" /\ s.at \in InRound => plan.skeleton \in Units
  /\ s.at = "review" => s.phase # "free"

Walking(s, lanes) ==
  LanesSettled(s, lanes) /\ OpenAtGates(s, lanes) /\ BatchesToCome(s, lanes) /\ PhaseFits(s)

Walks == \A r \in AllRuns : Walking(sec[r], lane[r])
Sound == TypeOK /\ Walks

-----------------------------------------------------------------------------
(* Facts about the constants.                                              *)

LEMMA RunsAreNumbered == AllRuns \subseteq Nat \ {NoRun}
  BY PlansAssumption DEF AllRuns, NoRun

LEMMA PlanFits ==
  ASSUME plan \in Plans
  PROVE  /\ plan.units \subseteq Units
         /\ plan.dependsOn \in [Units -> SUBSET plan.units]
         /\ plan.waves \in Seq(SUBSET Units)
         /\ DOMAIN plan.waves = 1 .. Len(plan.waves) /\ Len(plan.waves) \in Nat
         /\ plan.skeleton # Off => plan.skeleton \in Units
         /\ \A i, j \in DOMAIN plan.waves : i # j => plan.waves[i] \cap plan.waves[j] = {}
<1>1. PlanOK(plan) /\ plan.waves \in Seq(SUBSET Units)
  BY PlansAssumption
<1>2. ASSUME NEW i \in DOMAIN plan.waves, NEW j \in DOMAIN plan.waves, i # j
      PROVE  plan.waves[i] \cap plan.waves[j] = {}
  BY <1>1, <1>2, Zenon DEF PlanOK
<1> QED BY <1>1, <1>2 DEF PlanOK

LEMMA PermitAdded ==
  ASSUME NEW S \in SUBSET Units, NEW u \in Units, Cardinality(S) < Limit
  PROVE  Cardinality(S \cup {u}) <= Limit
<1>1. IsFiniteSet(S)
  BY FiniteAssumption, FS_Subset
<1>2. Cardinality(S) \in Nat
  BY <1>1, FS_CardinalityType
<1>3. Cardinality(S \cup {u}) = IF u \in S THEN Cardinality(S) ELSE Cardinality(S) + 1
  BY <1>1, FS_AddElement
<1>4. Cardinality(S \cup {u}) \in Nat
  BY <1>1, FS_AddElement, FS_CardinalityType
<1> QED BY <1>2, <1>3, <1>4, BoundsAssumption

LEMMA PermitRemoved ==
  ASSUME NEW S \in SUBSET Units, NEW u, Cardinality(S) <= Limit
  PROVE  Cardinality(S \ {u}) <= Limit
<1>1. IsFiniteSet(S)
  BY FiniteAssumption, FS_Subset
<1>2. IsFiniteSet(S \ {u}) /\ Cardinality(S \ {u}) <= Cardinality(S)
  BY <1>1, FS_Subset
<1>3. Cardinality(S \ {u}) \in Nat /\ Cardinality(S) \in Nat
  BY <1>1, <1>2, FS_CardinalityType
<1> QED BY <1>2, <1>3, BoundsAssumption

LEMMA NoPermits == {} \in {S \in SUBSET Units : Cardinality(S) <= Limit}
  BY FS_EmptySet, BoundsAssumption

-----------------------------------------------------------------------------
(* The steps of a walk. *)

\* The lanes of run r once its walk is at s.
Lanes(r, s) == IF s.at = "round" THEN Opened(lane[r], s.todo) ELSE lane[r]

WalkTyped == sec \in [AllRuns -> Sections] /\ lane \in [AllRuns -> [Units -> LanePcs]]

\* A walk that goes to a place fit for its lanes leaves every walk well formed.
LEMMA GoKeeps ==
  ASSUME Sound, NEW r \in AllRuns, NEW s \in Sections, Go(r, s), plan' = plan,
         Walking(s, Lanes(r, s))
  PROVE  WalkTyped' /\ Walks'
<1>1. sec' = [sec EXCEPT ![r] = s] /\ lane' = [lane EXCEPT ![r] = Lanes(r, s)]
  BY DEF Go, Lanes
<1>2. Lanes(r, s) \in [Units -> LanePcs]
  BY DEF Lanes, Opened, Sound, TypeOK, LanePcs
<1>3. WalkTyped'
  BY <1>1, <1>2 DEF WalkTyped, Sound, TypeOK
<1>4. ASSUME NEW q \in AllRuns PROVE Walking(sec[q], lane[q])'
  <2>1. CASE q = r
    <3>1. sec'[q] = s /\ lane'[q] = Lanes(r, s)
      BY <1>1, <2>1 DEF Sound, TypeOK
    <3> QED BY <3>1 DEF Walking, LanesSettled, OpenAtGates, BatchesToCome, PhaseFits,
                        Unmerged, Batch
  <2>2. CASE q # r
    <3>1. sec'[q] = sec[q] /\ lane'[q] = lane[q]
      BY <1>1, <2>2 DEF Sound, TypeOK
    <3>2. Walking(sec[q], lane[q])
      BY DEF Sound, Walks
    <3> QED BY <3>1, <3>2 DEF Walking, LanesSettled, OpenAtGates, BatchesToCome, PhaseFits,
                              Unmerged, Batch
  <2> QED BY <2>1, <2>2
<1> QED BY <1>3, <1>4 DEF Walks

\* What a walk keeps of the types when it goes on by itself.
LEMMA WalkOnlyKeeps ==
  ASSUME Sound, WalkTyped', WalkOnly, Extra \/ Plain,
         row' \in [Units -> RowStates], note' \in SUBSET Units,
         autonomy' \in Modes \cup {"none"}, skipped' \in [AllRuns -> SUBSET Units]
  PROVE  TypeOK'
<1>1. extras' \in Nat
  BY DEF Extra, Plain, Sound, TypeOK
<1> QED BY <1>1 DEF Sound, TypeOK, WalkTyped, WalkOnly, meta, git

\* The ways a walk goes on that leave its lanes alone.
LEMMA RestKeeps ==
  ASSUME Sound, NEW r \in AllRuns, NEW s \in Sections, Go(r, s), plan' = plan,
         sec[r].at \notin {"retired", "stopped"},
         s.at \in {"retired", "failed", "resolved", "check", "fanout"},
         s.at = "retired" \/ \A u \in Units : lane[r][u] \in AtRest
  PROVE  WalkTyped' /\ Walks'
<1>1. Walking(s, Lanes(r, s))
  BY DEF Walking, Lanes, LanesSettled, OpenAtGates, BatchesToCome, PhaseFits, InRound
<1> QED BY <1>1, GoKeeps

\* Outside a round the lanes of a walk are at rest.
LEMMA RestOutsideRound ==
  ASSUME Sound, NEW r \in AllRuns, sec[r].at \notin {"round", "retired", "stopped"}
  PROVE  \A u \in Units : lane[r][u] \in AtRest
BY DEF Sound, Walks, Walking, LanesSettled

\* A round of unmerged lanes, or of revised ones, in a phase that has them.
LEMMA RoundKeeps ==
  ASSUME Sound, NEW r \in AllRuns, NEW s \in Sections, NEW todo \in SUBSET Units,
         NEW round \in Nat, plan' = plan,
         Go(r, Round(s, todo, skipped[r], round)),
         \A u \in Units : lane[r][u] \in AtRest,
         s.phase = "skeleton" => plan.skeleton \in Units,
         s.phase = "batch" =>
           /\ s.wave \in DOMAIN plan.waves /\ todo \subseteq plan.waves[s.wave]
           /\ \A i \in DOMAIN plan.waves : s.wave < i => Unmerged(lane[r], Batch(s, i))
  PROVE  WalkTyped' /\ Walks'
<1> DEFINE t == Round(s, todo, skipped[r], round)
<1>1. t \in Sections /\ t.at = "round" /\ t.todo = todo \ skipped[r]
      /\ t.phase = s.phase /\ t.wave = s.wave /\ t.rest = s.rest
  BY DEF Round, Sections, Places
<1>2. \A u \in Units : Lanes(r, t)[u] = IF u \in t.todo THEN "waiting" ELSE lane[r][u]
  BY <1>1 DEF Lanes, Opened
<1>3. \A i \in DOMAIN plan.waves : Batch(t, i) = Batch(s, i)
  BY <1>1 DEF Batch
<1>4. \A S \in SUBSET Units : Unmerged(lane[r], S) => Unmerged(Lanes(r, t), S)
  BY <1>2 DEF Unmerged
<1>5. s.rest \subseteq Units
  BY DEF Sections
<1>6. LanesSettled(t, Lanes(r, t))
  BY <1>1, <1>2 DEF LanesSettled
<1>7. BatchesToCome(t, Lanes(r, t))
  <2>1. \A i \in DOMAIN plan.waves : Batch(s, i) \in SUBSET Units
    BY <1>5 DEF Batch
  <2> QED BY <1>1, <1>3, <1>4, <2>1 DEF BatchesToCome
<1>8. OpenAtGates(t, Lanes(r, t)) /\ PhaseFits(t)
  BY <1>1 DEF OpenAtGates, PhaseFits
<1>9. Walking(t, Lanes(r, t))
  BY <1>6, <1>7, <1>8 DEF Walking
<1> QED BY <1>1, <1>9, GoKeeps

\* The next batch is one of unmerged lanes, as are those after it.
LEMMA GoBatchKeeps ==
  ASSUME Sound, NEW r \in AllRuns, NEW s \in Sections, NEW w \in Nat \ {0}, plan' = plan,
         GoBatch(r, s, w), sec[r].at \notin {"round", "retired", "stopped"},
         \A i \in DOMAIN plan.waves : w <= i => Unmerged(lane[r], Batch(s, i))
  PROVE  WalkTyped' /\ Walks'
<1> DEFINE full == {i \in w .. Len(plan.waves) : Batch(s, i) # {}}
<1>1. \A u \in Units : lane[r][u] \in AtRest
  BY RestOutsideRound
<1>2. plan \in Plans
  BY DEF Sound, TypeOK
<1>3. CASE full = {} /\ Go(r, [s EXCEPT !.at = "check"])
  <2>1. [s EXCEPT !.at = "check"] \in Sections
    BY DEF Sections, Places
  <2>2. [s EXCEPT !.at = "check"].at = "check"
    BY DEF Sections
  <2> QED BY <1>1, <1>3, <2>1, <2>2, RestKeeps
<1>4. ASSUME NEW next \in full,
             Go(r, Round([s EXCEPT !.phase = "batch", !.wave = next, !.rev = 0],
                         Batch(s, next), skipped[r], 0))
      PROVE  WalkTyped' /\ Walks'
  <2> DEFINE b == [s EXCEPT !.phase = "batch", !.wave = next, !.rev = 0]
  <2>1. next \in DOMAIN plan.waves /\ next \in Nat /\ w <= next
    BY <1>2, PlanFits
  <2>2. b \in Sections /\ b.phase = "batch" /\ b.wave = next /\ b.rest = s.rest
    BY <2>1 DEF Sections
  <2>3. \A i \in DOMAIN plan.waves : Batch(b, i) = Batch(s, i)
    BY <2>2 DEF Batch
  <2>4. \A i \in DOMAIN plan.waves : next < i => Unmerged(lane[r], Batch(b, i))
    BY <1>2, <2>1, <2>3, PlanFits
  <2>5. Batch(s, next) \subseteq plan.waves[next] /\ Batch(s, next) \in SUBSET Units
    BY DEF Batch, Sections
  <2> QED BY <1>1, <1>4, <2>1, <2>2, <2>4, <2>5, RoundKeeps
<1> QED BY <1>3, <1>4 DEF GoBatch

LEMMA GoRemainingKeeps ==
  ASSUME Sound, NEW r \in AllRuns, NEW s \in Sections, plan' = plan,
         GoRemaining(r, s), sec[r].at \notin {"round", "retired", "stopped"},
         Unmerged(lane[r], s.rest)
  PROVE  WalkTyped' /\ Walks'
<1>1. \A u \in Units : lane[r][u] \in AtRest
  BY RestOutsideRound
<1>2. CASE s.mode = "autonomous"
  <2>1. Go(r, Round([s EXCEPT !.phase = "free"], s.rest, skipped[r], 0))
    BY <1>2 DEF GoRemaining
  <2>2. /\ [s EXCEPT !.phase = "free"] \in Sections
        /\ [s EXCEPT !.phase = "free"].phase = "free" /\ s.rest \in SUBSET Units
    BY DEF Sections
  <2> QED BY <1>1, <2>1, <2>2, RoundKeeps
<1>3. CASE s.mode # "autonomous"
  <2>1. GoBatch(r, s, 1)
    BY <1>3 DEF GoRemaining
  <2>2. \A i \in DOMAIN plan.waves : Unmerged(lane[r], Batch(s, i))
    BY DEF Batch, Unmerged
  <2> QED BY <2>1, <2>2, GoBatchKeeps
<1> QED BY <1>2, <1>3

-----------------------------------------------------------------------------
(* The actions of a walk.                                                  *)

\* The walk of run r, in the place it is.
LEMMA PlaceTyped ==
  ASSUME Sound, NEW r \in AllRuns
  PROVE  /\ sec[r] \in Sections /\ Walking(sec[r], lane[r])
         /\ lane[r] \in [Units -> LanePcs]
         /\ skipped[r] \in SUBSET Units
         /\ plan \in Plans
BY DEF Sound, TypeOK, Walks

LEMMA LaunchKeeps ==
  ASSUME Sound, NEW r \in AllRuns, Launch(r)
  PROVE  Sound'
<1> DEFINE omitted == {u \in note : row[u] # "MERGED"}
           lanes   == [u \in Units |-> IF row[u] = "MERGED" THEN "MERGED" ELSE "none"]
           fresh   == [Idle EXCEPT !.mode = autonomy]
           start   == CASE plan.skeleton = Off -> [fresh EXCEPT !.at = "fanout"]
                        [] plan.skeleton # Off /\ lanes[plan.skeleton] # "MERGED" ->
                             Round(fresh, {plan.skeleton}, omitted, 0)
                        [] OTHER -> [fresh EXCEPT !.at =
                             IF autonomy = "none" THEN "review" ELSE "fanout"]
           opened  == IF start.at = "round" THEN Opened(lanes, start.todo) ELSE lanes
<1>1. /\ sec' = [sec EXCEPT ![r] = start] /\ lane' = [lane EXCEPT ![r] = opened]
      /\ UNCHANGED <<plan, rows, git, permits, extras>>
      /\ skipped' = [skipped EXCEPT ![r] = omitted]
      /\ owner' = r /\ cancelled' = FALSE /\ retake' = [retake EXCEPT !.step = "none"]
  BY Zenon DEF Launch
<1>2. plan.skeleton # Off => plan.skeleton \in Units
  BY PlanFits, PlaceTyped
<1>3. omitted \in SUBSET Units
  BY DEF Sound, TypeOK
<1>4. fresh \in Sections /\ fresh.phase = "skeleton"
  BY DEF Idle, Sections, Places, Sound, TypeOK
<1>5. start \in Sections
  <2>1. CASE plan.skeleton = Off
    BY <2>1, <1>4 DEF Sections, Places
  <2>2. CASE plan.skeleton # Off /\ lanes[plan.skeleton] # "MERGED"
    BY <2>2, <1>2, <1>4 DEF Round, Sections, Places
  <2>3. CASE plan.skeleton # Off /\ lanes[plan.skeleton] = "MERGED"
    BY <2>3, <1>4 DEF Sections, Places, Gates
  <2> QED BY <2>1, <2>2, <2>3
<1>6. start.phase = "skeleton" /\ start.at \in {"round", "fanout", "review"}
  <2>1. CASE plan.skeleton = Off
    BY <2>1, <1>4 DEF Sections
  <2>2. CASE plan.skeleton # Off /\ lanes[plan.skeleton] # "MERGED"
    BY <2>2, <1>4 DEF Round, Sections
  <2>3. CASE plan.skeleton # Off /\ lanes[plan.skeleton] = "MERGED"
    BY <2>3, <1>4 DEF Sections
  <2> QED BY <2>1, <2>2, <2>3
<1>7. start.at \in InRound => plan.skeleton \in Units
  BY <1>2, <1>4, <1>6 DEF InRound, Sections
<1>8. opened \in [Units -> LanePcs]
      /\ \A u \in Units : opened[u] \in AtRest \/ (start.at = "round" /\ u \in start.todo)
  BY DEF Opened, LanePcs, Outcomes, AtRest
<1>9. Walking(start, opened)
  BY <1>6, <1>7, <1>8 DEF Walking, LanesSettled, OpenAtGates, BatchesToCome, PhaseFits
<1>10. ASSUME NEW q \in AllRuns PROVE Walking(sec[q], lane[q])'
  <2>1. CASE q = r
    <3>1. sec'[q] = start /\ lane'[q] = opened
      BY <1>1, <2>1 DEF Sound, TypeOK
    <3> HIDE DEF start, opened
    <3> QED BY <1>1, <3>1, <1>9 DEF Walking, LanesSettled, OpenAtGates, BatchesToCome, PhaseFits,
                        Unmerged, Batch
  <2>2. CASE q # r
    <3>1. sec'[q] = sec[q] /\ lane'[q] = lane[q]
      BY <1>1, <2>2 DEF Sound, TypeOK
    <3> HIDE DEF start, opened
    <3> QED BY <1>1, <3>1, PlaceTyped DEF Walking, LanesSettled, OpenAtGates, BatchesToCome,
                        PhaseFits, Unmerged, Batch
  <2> QED BY <2>1, <2>2
<1>11. TypeOK'
  <2> HIDE DEF start, opened, omitted, fresh
  <2>1. sec' \in [AllRuns -> Sections] /\ lane' \in [AllRuns -> [Units -> LanePcs]]
        /\ skipped' \in [AllRuns -> SUBSET Units]
    BY <1>1, <1>3, <1>5, <1>8 DEF Sound, TypeOK
  <2>2. owner' \in AllRuns \cup {NoRun} /\ cancelled' \in BOOLEAN
    BY <1>1
  <2>3. retake' \in [step : {"created", "stopping", "resetting", "none"}, keep : BOOLEAN,
                     left : SUBSET Units]
    BY <1>1 DEF Sound, TypeOK
  <2> QED BY <1>1, <2>1, <2>2, <2>3 DEF Sound, TypeOK, rows, git
<1> QED BY <1>10, <1>11 DEF Sound, Walks

\* Nothing of a walk but its place and its lanes.
LEMMA PlaceOnlyKeeps ==
  ASSUME Sound, WalkTyped', Walks', WalkOnly, Extra \/ Plain, UNCHANGED <<rows, skipped>>
  PROVE  Sound'
BY WalkOnlyKeeps DEF Sound, TypeOK, rows

\* A round that needs no more rounds leads to a review, or on.
LEMMA AfterRoundKeeps ==
  ASSUME Sound, NEW r \in AllRuns, plan' = plan,
         sec[r].at \in {"round", "skipping"}, \A u \in Units : lane[r][u] \in AtRest,
         Go(r, AfterRound(sec[r], lane[r]))
  PROVE  WalkTyped' /\ Walks'
<1> DEFINE s == sec[r]
           t == AfterRound(s, lane[r])
<1>1. s \in Sections /\ Walking(s, lane[r]) /\ s.phase \in {"skeleton", "free", "batch"}
  BY PlaceTyped DEF Sections
<1>2. t.at \in {"review", "fanout", "check"}
  BY <1>1 DEF AfterRound, Sections
<1>3. t \in Sections
  BY <1>1, <1>2 DEF AfterRound, Sections, Places, Gates
<1>4. t.phase = s.phase /\ t.wave = s.wave /\ t.rest = s.rest
  BY <1>1 DEF AfterRound, Sections
<1>5. t.at = "review" => t.phase # "free"
  BY <1>1, <1>4 DEF AfterRound, Sections
<1>6. Lanes(r, t) = lane[r]
  BY <1>2 DEF Lanes
<1>7. s.phase = "skeleton" => plan.skeleton \in Units
  BY <1>1 DEF Walking, PhaseFits, InRound
<1>8. BatchesToCome(t, lane[r])
  <2>1. s.at \in InRound
    BY DEF InRound
  <2>2. \A i \in DOMAIN plan.waves : Batch(t, i) = Batch(s, i)
    BY <1>4 DEF Batch
  <2> QED BY <1>1, <1>2, <1>4, <2>1, <2>2 DEF Walking, BatchesToCome
<1>9. Walking(t, lane[r])
  <2> HIDE DEF t
  <2> QED BY <1>2, <1>4, <1>5, <1>7, <1>8
          DEF Walking, LanesSettled, OpenAtGates, PhaseFits
<1> QED BY <1>3, <1>6, <1>9, GoKeeps

LEMMA EndRoundKeeps ==
  ASSUME Sound, NEW r \in AllRuns, EndRound(r)
  PROVE  Sound'
<1> DEFINE s    == sec[r]
           open == {u \in s.todo \ skipped[r] : lane[r][u] # "MERGED"}
           ask  == [s EXCEPT !.at = "halt", !.todo = open, !.asks = 0]
           over == [s EXCEPT !.at = "retired"]
<1>1. /\ s.at = "round" /\ \A u \in s.todo : lane[r][u] \in Outcomes
      /\ WalkOnly /\ Plain /\ UNCHANGED <<rows, skipped>>
  BY DEF EndRound
<1>2. s \in Sections /\ Walking(s, lane[r]) /\ plan' = plan
  BY <1>1, PlaceTyped DEF WalkOnly
<1>3. CASE \E u \in s.todo : lane[r][u] = "TERMINAL"
  <2>1. Go(r, over)
    BY <1>3 DEF EndRound
  <2>2. over \in Sections /\ over.at = "retired"
    BY <1>2 DEF Sections, Places, Ended
  <2>3. WalkTyped' /\ Walks'
    BY <1>1, <1>2, <2>1, <2>2, RestKeeps
  <2> QED BY <1>1, <2>3, PlaceOnlyKeeps
<1>4. CASE \A u \in s.todo : lane[r][u] # "TERMINAL"
  <2>1. \A u \in Units : lane[r][u] \in AtRest
    BY <1>1, <1>2, <1>4 DEF Walking, LanesSettled, Outcomes, AtRest
  <2>2. CASE open # {}
    <3>1. Go(r, ask)
      BY <1>4, <2>2 DEF EndRound
    <3>2. /\ ask \in Sections /\ ask.at = "halt" /\ ask.todo = open /\ ask.phase = s.phase
          /\ ask.wave = s.wave /\ ask.rest = s.rest /\ ask.omit = s.omit
      BY <1>2 DEF Sections, Places, Gates
    <3>3. Walking(ask, lane[r])
      <4>1. Unmerged(lane[r], open) /\ open \subseteq s.todo
        BY DEF Unmerged
      <4> QED BY <1>1, <1>2, <2>1, <3>2, <4>1
              DEF Walking, LanesSettled, OpenAtGates, BatchesToCome, PhaseFits, Batch, InRound
    <3>4. WalkTyped' /\ Walks'
      BY <1>2, <3>1, <3>2, <3>3, GoKeeps DEF Lanes
    <3> QED BY <1>1, <3>4, PlaceOnlyKeeps
  <2>3. CASE open = {}
    <3>1. Go(r, AfterRound(s, lane[r]))
      BY <1>4, <2>3 DEF EndRound
    <3>2. WalkTyped' /\ Walks'
      BY <1>1, <1>2, <2>1, <3>1, AfterRoundKeeps
    <3> QED BY <1>1, <3>2, PlaceOnlyKeeps
  <2> QED BY <2>2, <2>3
<1> QED BY <1>3, <1>4

LEMMA RetryKeeps ==
  ASSUME Sound, NEW r \in AllRuns, Retry(r)
  PROVE  Sound'
<1> DEFINE s == sec[r]
<1>1. /\ s.at = "halt" /\ WalkOnly /\ Extra /\ UNCHANGED <<rows, skipped>>
      /\ Go(r, Round(s, s.todo, skipped[r], s.round + 1))
  BY DEF Retry
<1>2. s \in Sections /\ Walking(s, lane[r]) /\ plan' = plan
  BY <1>1, PlaceTyped DEF WalkOnly
<1>3. s.todo \in SUBSET Units /\ s.round + 1 \in Nat
  BY <1>2 DEF Sections
<1>4. \A u \in Units : lane[r][u] \in AtRest
  BY <1>1, RestOutsideRound
<1>5. WalkTyped' /\ Walks'
  BY <1>1, <1>2, <1>3, <1>4, RoundKeeps DEF Walking, BatchesToCome, PhaseFits, InRound
<1> QED BY <1>1, <1>5, PlaceOnlyKeeps

LEMMA SkipKeeps ==
  ASSUME Sound, NEW r \in AllRuns, Skip(r)
  PROVE  Sound'
<1> DEFINE s == sec[r]
           t == [s EXCEPT !.at = "skipping", !.todo = ToOmit(r), !.omit = ToOmit(r)]
<1>1. /\ s.at = "halt" /\ WalkOnly /\ Plain /\ UNCHANGED <<rows, skipped>> /\ Go(r, t)
  BY DEF Skip
<1>2. s \in Sections /\ Walking(s, lane[r]) /\ plan' = plan
  BY <1>1, PlaceTyped DEF WalkOnly
<1>3. ToOmit(r) \in SUBSET Units /\ Unmerged(lane[r], ToOmit(r))
  BY PlaceTyped, PlanFits DEF ToOmit, Dependents, Unmerged
<1>4. /\ t \in Sections /\ t.at = "skipping" /\ t.todo = ToOmit(r) /\ t.omit = ToOmit(r)
      /\ t.phase = s.phase /\ t.wave = s.wave /\ t.rest = s.rest
  BY <1>2, <1>3 DEF Sections, Places
<1>5. Walking(t, lane[r])
  <2> HIDE DEF t
  <2> QED BY <1>1, <1>2, <1>3, <1>4
          DEF Walking, LanesSettled, OpenAtGates, BatchesToCome, PhaseFits, Batch, InRound
<1>6. WalkTyped' /\ Walks'
  BY <1>1, <1>2, <1>4, <1>5, GoKeeps DEF Lanes
<1> QED BY <1>1, <1>6, PlaceOnlyKeeps

LEMMA RecordSkipKeeps ==
  ASSUME Sound, NEW r \in AllRuns, NEW u \in sec[r].omit, RecordSkip(r, u)
  PROVE  Sound'
<1> DEFINE s == sec[r]
           t == [s EXCEPT !.omit = @ \ {u}]
<1>1. /\ s.at = "skipping" /\ WalkOnly /\ Plain /\ note' = note \cup {u}
      /\ row' = [row EXCEPT ![u] = IF lane[r][u] = "none" THEN "BLOCKED" ELSE lane[r][u]]
      /\ UNCHANGED autonomy
  BY DEF RecordSkip
<1>2. s \in Sections /\ Walking(s, lane[r]) /\ plan' = plan /\ u \in Units
  BY <1>1, PlaceTyped DEF WalkOnly, Sections
<1>3. \A v \in Units : lane[r][v] \in AtRest
  BY <1>1, RestOutsideRound
<1>4. row' \in [Units -> RowStates] /\ note' \in SUBSET Units /\ autonomy' \in Modes \cup {"none"}
  <2>1. lane[r][u] # "MERGED"
    BY <1>1, <1>2 DEF Walking, OpenAtGates, Unmerged
  <2> QED BY <1>1, <1>2, <1>3, <2>1 DEF Sound, TypeOK, RowStates, AtRest
<1>5. CASE s.omit = {u}
  <2>1. Go(r, AfterRound(s, lane[r])) /\ skipped' = [skipped EXCEPT ![r] = @ \cup s.todo]
    BY <1>5 DEF RecordSkip
  <2>2. WalkTyped' /\ Walks'
    BY <1>1, <1>2, <1>3, <2>1, AfterRoundKeeps
  <2>3. skipped' \in [AllRuns -> SUBSET Units]
    BY <1>2, <2>1 DEF Sections, Sound, TypeOK
  <2> QED BY <1>1, <1>4, <2>2, <2>3, WalkOnlyKeeps DEF Sound
<1>6. CASE s.omit # {u}
  <2>1. Go(r, t) /\ UNCHANGED skipped
    BY <1>6 DEF RecordSkip
  <2>2. /\ t \in Sections /\ t.at = "skipping" /\ t.omit \subseteq s.omit
        /\ t.todo = s.todo /\ t.phase = s.phase /\ t.wave = s.wave /\ t.rest = s.rest
    BY <1>1, <1>2 DEF Sections
  <2>3. Walking(t, lane[r])
    <3> HIDE DEF t
    <3> QED BY <1>1, <1>2, <2>2
            DEF Walking, LanesSettled, OpenAtGates, BatchesToCome, PhaseFits, Batch, InRound
  <2>4. WalkTyped' /\ Walks'
    BY <1>1, <1>2, <2>1, <2>2, <2>3, GoKeeps DEF Lanes
  <2>5. skipped' \in [AllRuns -> SUBSET Units]
    BY <2>1 DEF Sound, TypeOK
  <2> QED BY <1>1, <1>4, <2>4, <2>5, WalkOnlyKeeps DEF Sound
<1> QED BY <1>5, <1>6

LEMMA AnswerHaltKeeps ==
  ASSUME Sound, NEW r \in AllRuns, NEW parsed \in BOOLEAN, AnswerHalt(r, parsed)
  PROVE  Sound'
<1> DEFINE s == sec[r]
           again == [s EXCEPT !.asks = @ + 1]
           stop  == [s EXCEPT !.at = "failed"]
<1>1. s.at = "halt" /\ WalkOnly /\ (Extra \/ Plain) /\ UNCHANGED <<rows, skipped>>
  BY DEF AnswerHalt
<1>2. s \in Sections /\ Walking(s, lane[r]) /\ plan' = plan
  BY <1>1, PlaceTyped DEF WalkOnly
<1>3. CASE Go(r, again)
  <2>1. /\ again \in Sections /\ again.at = "halt" /\ again.omit = s.omit
        /\ again.todo = s.todo /\ again.phase = s.phase /\ again.wave = s.wave
        /\ again.rest = s.rest
    BY <1>1, <1>2 DEF Sections
  <2>2. Walking(again, lane[r])
    <3> HIDE DEF again
    <3> QED BY <1>1, <1>2, <2>1
            DEF Walking, LanesSettled, OpenAtGates, BatchesToCome, PhaseFits, Batch, InRound
  <2>3. WalkTyped' /\ Walks'
    BY <1>2, <1>3, <2>1, <2>2, GoKeeps DEF Lanes
  <2> QED BY <1>1, <2>3, PlaceOnlyKeeps
<1>4. CASE Go(r, stop)
  <2>1. stop \in Sections /\ stop.at = "failed"
    BY <1>2 DEF Sections, Places, Ended
  <2>2. \A u \in Units : lane[r][u] \in AtRest
    BY <1>1, RestOutsideRound
  <2>3. WalkTyped' /\ Walks'
    BY <1>1, <1>2, <1>4, <2>1, <2>2, RestKeeps
  <2> QED BY <1>1, <2>3, PlaceOnlyKeeps
<1> QED BY <1>3, <1>4 DEF AnswerHalt

LEMMA ApproveKeeps ==
  ASSUME Sound, NEW r \in AllRuns, Approve(r)
  PROVE  Sound'
<1> DEFINE s == sec[r]
           t == [s EXCEPT !.at = "fanout"]
<1>1. s.at = "review" /\ WalkOnly /\ Plain /\ UNCHANGED <<rows, skipped>>
  BY DEF Approve
<1>2. s \in Sections /\ Walking(s, lane[r]) /\ plan' = plan
  BY <1>1, PlaceTyped DEF WalkOnly
<1>3. CASE s.phase = "skeleton"
  <2>1. Go(r, t)
    BY <1>3 DEF Approve
  <2>2. t \in Sections /\ t.at = "fanout" /\ \A u \in Units : lane[r][u] \in AtRest
    BY <1>1, <1>2, RestOutsideRound DEF Sections, Places
  <2>3. WalkTyped' /\ Walks'
    BY <1>1, <1>2, <2>1, <2>2, RestKeeps
  <2> QED BY <1>1, <2>3, PlaceOnlyKeeps
<1>4. CASE s.phase # "skeleton"
  <2>1. GoBatch(r, s, s.wave + 1)
    BY <1>4 DEF Approve
  <2>2. s.phase = "batch" /\ s.wave + 1 \in Nat \ {0}
    BY <1>1, <1>2, <1>4 DEF Walking, PhaseFits, Sections
  <2>3. \A i \in DOMAIN plan.waves : s.wave + 1 <= i => Unmerged(lane[r], Batch(s, i))
    BY <1>1, <1>2, <2>2, PlaceTyped, PlanFits DEF Walking, BatchesToCome, InRound, Sections
  <2>4. WalkTyped' /\ Walks'
    BY <1>1, <1>2, <2>1, <2>2, <2>3, GoBatchKeeps
  <2> QED BY <1>1, <2>4, PlaceOnlyKeeps
<1> QED BY <1>3, <1>4

LEMMA RequestChangesKeeps ==
  ASSUME Sound, NEW r \in AllRuns, RequestChanges(r)
  PROVE  Sound'
<1> DEFINE s == sec[r]
           t == [s EXCEPT !.rev = @ + 1]
<1>1. /\ s.at = "review" /\ WalkOnly /\ Extra /\ UNCHANGED <<rows, skipped>>
      /\ Go(r, Round(t, Revisable(r), skipped[r], 0))
  BY DEF RequestChanges
<1>2. s \in Sections /\ Walking(s, lane[r]) /\ plan' = plan
  BY <1>1, PlaceTyped DEF WalkOnly
<1>3. t \in Sections /\ t.phase = s.phase /\ t.wave = s.wave /\ t.rest = s.rest
  BY <1>2 DEF Sections
<1>4. \A u \in Units : lane[r][u] \in AtRest
  BY <1>1, RestOutsideRound
<1>5. s.phase = "skeleton" => plan.skeleton \in Units
  BY <1>1, <1>2 DEF Walking, PhaseFits, InRound
<1>6. Revisable(r) \in SUBSET Units
      /\ (s.phase = "batch" => Revisable(r) \subseteq plan.waves[s.wave])
  BY <1>2, <1>5 DEF Revisable, Reviewed, Batch, Sections
<1>7. s.phase = "batch" =>
        /\ t.wave \in DOMAIN plan.waves
        /\ \A i \in DOMAIN plan.waves : t.wave < i => Unmerged(lane[r], Batch(t, i))
  BY <1>1, <1>2, <1>3 DEF Walking, BatchesToCome, InRound, Batch
<1>8. WalkTyped' /\ Walks'
  <2> HIDE DEF t
  <2> QED BY <1>1, <1>2, <1>3, <1>4, <1>5, <1>6, <1>7, RoundKeeps
<1> QED BY <1>1, <1>8, PlaceOnlyKeeps

LEMMA FanOutKeeps ==
  ASSUME Sound, NEW r \in AllRuns, FanOut(r)
  PROVE  Sound'
<1> DEFINE rest == {u \in plan.units \ (skipped[r] \cup {plan.skeleton}) : lane[r][u] # "MERGED"}
           s    == [sec[r] EXCEPT !.rest = rest, !.rev = 0]
           none == [s EXCEPT !.at = "check"]
           ask  == [s EXCEPT !.at = "ladder"]
<1>1. sec[r].at = "fanout" /\ WalkOnly /\ Plain /\ UNCHANGED <<rows, skipped>>
  BY DEF FanOut
<1>2. sec[r] \in Sections /\ Walking(sec[r], lane[r]) /\ plan' = plan
  BY <1>1, PlaceTyped DEF WalkOnly
<1>3. rest \in SUBSET Units /\ Unmerged(lane[r], rest)
  BY PlaceTyped, PlanFits DEF Unmerged
<1>4. s \in Sections /\ s.rest = rest /\ s.at = "fanout"
  <2> HIDE DEF rest
  <2> QED BY <1>1, <1>2, <1>3 DEF Sections
<1>5. \A u \in Units : lane[r][u] \in AtRest
  BY <1>1, RestOutsideRound
<1>6. Go(r, none) \/ Go(r, ask) \/ GoRemaining(r, s)
  BY DEF FanOut
<1> HIDE DEF s, rest
<1>7. CASE Go(r, none)
  <2>1. none \in Sections /\ none.at = "check"
    BY <1>4 DEF Sections, Places
  <2>2. WalkTyped' /\ Walks'
    BY <1>1, <1>2, <1>5, <1>7, <2>1, RestKeeps
  <2> QED BY <1>1, <2>2, PlaceOnlyKeeps
<1>8. CASE Go(r, ask)
  <2>1. ask \in Sections /\ ask.at = "ladder" /\ ask.rest = rest
    BY <1>4 DEF Sections, Places, Gates
  <2>2. Walking(ask, Lanes(r, ask))
    <3> HIDE DEF ask
    <3> QED BY <1>3, <1>5, <2>1
            DEF Walking, Lanes, LanesSettled, OpenAtGates, BatchesToCome, PhaseFits, InRound
  <2>3. WalkTyped' /\ Walks'
    BY <1>2, <1>8, <2>1, <2>2, GoKeeps
  <2> QED BY <1>1, <2>3, PlaceOnlyKeeps
<1>9. CASE GoRemaining(r, s)
  <2>1. WalkTyped' /\ Walks'
    BY <1>1, <1>2, <1>3, <1>4, <1>9, GoRemainingKeeps
  <2> QED BY <1>1, <2>1, PlaceOnlyKeeps
<1> QED BY <1>6, <1>7, <1>8, <1>9

LEMMA ChooseModeKeeps ==
  ASSUME Sound, NEW r \in AllRuns, NEW mode \in Modes, ChooseMode(r, mode)
  PROVE  Sound'
<1> DEFINE s == [sec[r] EXCEPT !.mode = mode]
<1>1. /\ sec[r].at = "ladder" /\ WalkOnly /\ Plain /\ UNCHANGED <<row, note, skipped>>
      /\ autonomy' = mode /\ GoRemaining(r, s)
  BY DEF ChooseMode
<1>2. sec[r] \in Sections /\ Walking(sec[r], lane[r]) /\ plan' = plan
  BY <1>1, PlaceTyped DEF WalkOnly
<1>3. s \in Sections /\ s.rest = sec[r].rest
  BY <1>2 DEF Sections
<1>4. Unmerged(lane[r], s.rest)
  BY <1>1, <1>2, <1>3 DEF Walking, OpenAtGates
<1>5. WalkTyped' /\ Walks'
  <2> HIDE DEF s
  <2> QED BY <1>1, <1>2, <1>3, <1>4, GoRemainingKeeps
<1> QED BY <1>1, <1>5, WalkOnlyKeeps DEF Sound, TypeOK

LEMMA CheckKeeps ==
  ASSUME Sound, NEW r \in AllRuns, Check(r)
  PROVE  Sound'
<1>1. sec[r].at = "check" /\ WalkOnly /\ Plain /\ UNCHANGED <<rows, skipped>>
  BY DEF Check
<1>2. PICK at \in {"retired", "resolved", "failed"} : Go(r, [sec[r] EXCEPT !.at = at])
  BY DEF Check
<1>3. [sec[r] EXCEPT !.at = at] \in Sections /\ [sec[r] EXCEPT !.at = at].at = at
  BY PlaceTyped DEF Sections, Places, Ended
<1>4. plan' = plan /\ \A u \in Units : lane[r][u] \in AtRest
  BY <1>1, RestOutsideRound DEF WalkOnly
<1>5. WalkTyped' /\ Walks'
  BY <1>1, <1>2, <1>3, <1>4, RestKeeps
<1> QED BY <1>1, <1>5, PlaceOnlyKeeps

LEMMA RetireKeeps ==
  ASSUME Sound, NEW r \in AllRuns, Retire(r)
  PROVE  Sound'
<1> DEFINE t == [sec[r] EXCEPT !.at = "retired"]
<1>1. sec[r].at \in Gates \cup {"skipping"} /\ Go(r, t)
      /\ WalkOnly /\ Plain /\ UNCHANGED <<rows, skipped>>
  BY DEF Retire
<1>2. t \in Sections /\ t.at = "retired" /\ plan' = plan
  BY <1>1, PlaceTyped DEF Sections, Places, Ended, WalkOnly
<1>3. WalkTyped' /\ Walks'
  BY <1>1, <1>2, RestKeeps DEF Gates
<1> QED BY <1>1, <1>3, PlaceOnlyKeeps

-----------------------------------------------------------------------------
(* The actions of a lane.                                                  *)

\* A lane of the round moves: the batches to come do not contain it.
LEMMA MoveKeeps ==
  ASSUME Sound, NEW r \in AllRuns, NEW u \in sec[r].todo, NEW pc \in LanePcs,
         sec[r].at = "round", lane' = [lane EXCEPT ![r][u] = pc], UNCHANGED <<sec, plan>>
  PROVE  WalkTyped' /\ Walks'
<1>1. u \in Units
  BY PlaceTyped DEF Sections
<1>2. WalkTyped'
  BY <1>1 DEF WalkTyped, Sound, TypeOK
<1>3. ASSUME NEW q \in AllRuns PROVE Walking(sec[q], lane[q])'
  <2>1. CASE q = r
    <3>1. \A v \in Units : lane'[r][v] = IF v = u THEN pc ELSE lane[r][v]
      BY <1>1 DEF Sound, TypeOK
    <3>2. LanesSettled(sec[r], lane'[r])
      BY <3>1, PlaceTyped DEF Walking, LanesSettled
    <3>3. BatchesToCome(sec[r], lane'[r])
      <4>1. ASSUME sec[r].phase = "batch", NEW i \in DOMAIN plan.waves, sec[r].wave < i
            PROVE  Unmerged(lane'[r], Batch(sec[r], i))
        <5>1. /\ sec[r].wave \in DOMAIN plan.waves /\ u \in plan.waves[sec[r].wave]
              /\ Unmerged(lane[r], Batch(sec[r], i))
          BY <4>1, PlaceTyped DEF Walking, BatchesToCome, InRound
        <5>2. u \notin Batch(sec[r], i)
          BY <4>1, <5>1, PlaceTyped, PlanFits DEF Batch, Sections
        <5>3. Batch(sec[r], i) \subseteq Units
          BY PlaceTyped DEF Batch, Sections
        <5> QED BY <3>1, <5>1, <5>2, <5>3 DEF Unmerged
      <4> QED BY <4>1, PlaceTyped DEF Walking, BatchesToCome, InRound
    <3> QED BY <2>1, <3>2, <3>3, PlaceTyped
            DEF Walking, LanesSettled, OpenAtGates, BatchesToCome, PhaseFits, Unmerged, Batch
  <2>2. CASE q # r
    <3>1. lane'[q] = lane[q]
      BY <2>2 DEF Sound, TypeOK
    <3> QED BY <3>1, PlaceTyped
            DEF Walking, LanesSettled, OpenAtGates, BatchesToCome, PhaseFits, Unmerged, Batch
  <2> QED BY <2>1, <2>2
<1> QED BY <1>2, <1>3 DEF Walks

LEMMA WriteTyped ==
  ASSUME Sound, NEW u, NEW from, NEW to \in RowStates, Write(u, from, to)
  PROVE  row' \in [Units -> RowStates]
BY DEF Write, Sound, TypeOK

\* A step of a lane that touches its row and its branch as the types allow.
LEMMA StepKeeps ==
  ASSUME Sound, NEW r \in AllRuns, NEW u \in sec[r].todo, NEW pc \in LanePcs,
         sec[r].at = "round", Step(r, u, pc),
         row' \in [Units -> RowStates], landed' \in [Units -> SUBSET Repos],
         delivered' \in SUBSET Units,
         cut' \in [Units -> [by : AllRuns \cup {NoRun}, has : SUBSET Units]]
  PROVE  Sound'
<1>1. WalkTyped' /\ Walks'
  BY MoveKeeps DEF Step
<1>2. permits' \in [AllRuns -> {S \in SUBSET Units : Cardinality(S) <= Limit}]
  <2>1. permits[r] \in SUBSET Units /\ Cardinality(permits[r]) <= Limit
    BY DEF Sound, TypeOK
  <2>2. Cardinality(permits[r] \ {u}) <= Limit
    BY <2>1, PermitRemoved
  <2>3. permits' = [permits EXCEPT ![r] = IF pc \in Outcomes THEN @ \ {u} ELSE @]
    BY DEF Step
  <2> QED BY <2>1, <2>2, <2>3 DEF Sound, TypeOK
<1> QED BY <1>1, <1>2 DEF Step, Sound, TypeOK, WalkTyped, meta

LEMMA RowOnlyKeeps ==
  ASSUME Sound, NEW r \in AllRuns, NEW u \in sec[r].todo, NEW pc \in LanePcs,
         sec[r].at = "round", Step(r, u, pc), row' \in [Units -> RowStates], UNCHANGED git
  PROVE  Sound'
BY StepKeeps DEF git, Sound, TypeOK

LEMMA LaneRowKeeps ==
  ASSUME Sound, NEW r \in AllRuns, NEW u \in sec[r].todo,
         \/ LaneBlocked(r, u) \/ LaneRetired(r, u) \/ LaneReady(r, u) \/ LaneFails(r, u)
         \/ NothingToBuild(r, u) \/ BeginMerge(r, u) \/ RecordMerged(r, u)
  PROVE  Sound'
<1>1. row \in [Units -> RowStates]
  BY DEF Sound, TypeOK
<1>2. PICK pc \in LanePcs : Step(r, u, pc)
  BY DEF LaneBlocked, LaneRetired, LaneReady, LaneFails, NothingToBuild, BeginMerge,
         RecordMerged, LanePcs, Working, Outcomes
<1>3. sec[r].at = "round" /\ UNCHANGED git
  BY DEF LaneBlocked, LaneRetired, LaneReady, LaneFails, NothingToBuild, BeginMerge,
         RecordMerged, At
<1>4. \/ UNCHANGED row
      \/ \E to \in RowStates, from \in SUBSET RowStates : Write(u, from, to)
  BY DEF LaneBlocked, LaneRetired, LaneReady, LaneFails, NothingToBuild, BeginMerge,
         RecordMerged, RowStates
<1>5. row' \in [Units -> RowStates]
  BY <1>1, <1>4, WriteTyped
<1> QED BY <1>2, <1>3, <1>5, RowOnlyKeeps

LEMMA StartLaneKeeps ==
  ASSUME Sound, NEW r \in AllRuns, NEW u \in sec[r].todo, StartLane(r, u)
  PROVE  Sound'
<1>1. u \in Units /\ sec[r].at = "round"
  BY PlaceTyped DEF Sections, StartLane, At
<1>2. WalkTyped' /\ Walks'
  BY <1>1, MoveKeeps DEF StartLane, LanePcs, Working
<1>3. row' \in [Units -> RowStates]
  BY WriteTyped DEF StartLane, RowStates
<1>4. permits' \in [AllRuns -> {S \in SUBSET Units : Cardinality(S) <= Limit}]
  <2>1. permits[r] \in SUBSET Units
    BY DEF Sound, TypeOK
  <2>2. Cardinality(permits[r] \cup {u}) <= Limit
    BY <1>1, <2>1, PermitAdded DEF StartLane
  <2> QED BY <1>1, <2>1, <2>2 DEF StartLane, Sound, TypeOK
<1> QED BY <1>2, <1>3, <1>4 DEF StartLane, Sound, TypeOK, WalkTyped, meta, git

LEMMA BranchKeeps ==
  ASSUME Sound, NEW r \in AllRuns, NEW u \in sec[r].todo,
         InitLane(r, u) \/ StagesSucceed(r, u) \/ ResolveConflict(r, u)
  PROVE  Sound'
<1>1. u \in Units /\ sec[r].at = "round"
  BY PlaceTyped DEF Sections, InitLane, StagesSucceed, ResolveConflict, At
<1>2. PICK pc \in LanePcs : Step(r, u, pc)
  BY DEF InitLane, StagesSucceed, ResolveConflict, LanePcs, Working
<1>3. Integrated \in SUBSET Units
  BY DEF Integrated
<1>4. cut' \in [Units -> [by : AllRuns \cup {NoRun}, has : SUBSET Units]]
  <2>1. CASE InitLane(r, u)
    BY <1>1, <1>3, <2>1 DEF InitLane, Sound, TypeOK
  <2>2. CASE StagesSucceed(r, u)
    <3>1. ASSUME NEW v \in Units
          PROVE  [cut[v] EXCEPT !.has = @ \ {u}] \in
                   [by : AllRuns \cup {NoRun}, has : SUBSET Units]
      <4>1. cut[v] \in [by : AllRuns \cup {NoRun}, has : SUBSET Units]
        BY DEF Sound, TypeOK
      <4>2. cut[v].has \ {u} \in SUBSET Units
        BY <4>1
      <4> QED BY <4>1, <4>2
    <3>2. cut' = [v \in Units |-> [cut[v] EXCEPT !.has = @ \ {u}]]
      BY <2>2 DEF StagesSucceed
    <3> QED BY <3>1, <3>2
  <2>3. CASE ResolveConflict(r, u)
    <3>1. [cut[u] EXCEPT !.has = @ \cup Integrated] \in
            [by : AllRuns \cup {NoRun}, has : SUBSET Units]
      BY <1>1, <1>3 DEF Sound, TypeOK
    <3>2. cut' = [cut EXCEPT ![u] = [cut[u] EXCEPT !.has = @ \cup Integrated]]
      BY <2>3 DEF ResolveConflict, Sound, TypeOK
    <3> QED BY <3>1, <3>2 DEF Sound, TypeOK
  <2> QED BY <2>1, <2>2, <2>3
<1>5. landed' \in [Units -> SUBSET Repos] /\ UNCHANGED <<row, delivered>>
  BY <1>1 DEF InitLane, StagesSucceed, ResolveConflict, Sound, TypeOK
<1>6. row' \in [Units -> RowStates] /\ delivered' \in SUBSET Units
  BY <1>5 DEF Sound, TypeOK
<1> QED BY <1>1, <1>2, <1>4, <1>5, <1>6, StepKeeps

\* How a lane goes on from a merge.
Verdict(r, u, answered) ==
  CASE ~answered -> lane[r][u]
    [] answered /\ landed'[u] = Repos -> "merged"
    [] OTHER -> IF lane[r][u] = "merging" THEN "conflict" ELSE "FAILED"

LEMMA MergeLaneSteps ==
  ASSUME NEW r, NEW u, NEW taken, NEW answered \in BOOLEAN, MergeLane(r, u, taken, answered)
  PROVE  /\ Step(r, u, Verdict(r, u, answered)) /\ lane[r][u] \in {"merging", "remerging"}
         /\ Verdict(r, u, answered) \in {"merging", "remerging", "merged", "conflict", "FAILED"}
         /\ Verdict(r, u, answered) = "merged" => landed'[u] = Repos
         /\ sec[r].at = "round"
<1>1. Step(r, u, Verdict(r, u, answered))
  BY Zenon DEF MergeLane, Verdict
<1>2. lane[r][u] \in {"merging", "remerging"} /\ sec[r].at = "round"
  BY DEF MergeLane, At
<1> QED BY <1>1, <1>2 DEF Verdict

LEMMA MergeLaneKeeps ==
  ASSUME Sound, NEW r \in AllRuns, NEW u \in sec[r].todo, NEW taken \in SUBSET Repos,
         NEW answered \in BOOLEAN, MergeLane(r, u, taken, answered)
  PROVE  Sound'
<1>1. u \in Units /\ sec[r].at = "round" /\ lane[r][u] \in {"merging", "remerging"}
  BY PlaceTyped DEF Sections, MergeLane, At
<1>2. PICK pc \in LanePcs : Step(r, u, pc)
  BY MergeLaneSteps DEF LanePcs, Working, Outcomes
<1>3. row' \in [Units -> RowStates]
  BY WriteTyped DEF MergeLane, RowStates
<1>4. landed' \in [Units -> SUBSET Repos]
  BY <1>1 DEF MergeLane, Sound, TypeOK
<1>5. delivered' \in SUBSET Units /\ UNCHANGED cut
  BY <1>1 DEF MergeLane, Sound, TypeOK
<1>6. cut' \in [Units -> [by : AllRuns \cup {NoRun}, has : SUBSET Units]]
  BY <1>5 DEF Sound, TypeOK
<1> QED BY <1>1, <1>2, <1>3, <1>4, <1>5, <1>6, StepKeeps

\* Everything of a walk but its permits stands still.
LEMMA ReplayKeeps ==
  ASSUME Sound, NEW r \in AllRuns, Replay(r)
  PROVE  Sound'
<1>1. permits' \in [AllRuns -> {S \in SUBSET Units : Cardinality(S) <= Limit}]
  BY NoPermits DEF Replay, Sound, TypeOK
<1>2. UNCHANGED <<plan, meta, retake, rows, git, sec, lane, skipped>> /\ extras' \in Nat
  BY DEF Replay, Extra, Sound, TypeOK
<1>3. TypeOK'
  BY <1>1, <1>2 DEF Sound, TypeOK, meta, rows, git
<1>4. Walks'
  BY <1>2 DEF Sound, Walks, Walking, LanesSettled, OpenAtGates, BatchesToCome, PhaseFits,
              Unmerged, Batch
<1> QED BY <1>3, <1>4 DEF Sound

LEMMA ReadmitKeeps ==
  ASSUME Sound, NEW r \in AllRuns, NEW u \in sec[r].todo, Readmit(r, u)
  PROVE  Sound'
<1>1. permits[r] \in SUBSET Units /\ u \in Units
  BY PlaceTyped DEF Sections, Sound, TypeOK
<1>2. Cardinality(permits[r] \cup {u}) <= Limit
  BY <1>1, PermitAdded DEF Readmit
<1>3. permits' \in [AllRuns -> {S \in SUBSET Units : Cardinality(S) <= Limit}]
  BY <1>1, <1>2 DEF Readmit, Sound, TypeOK
<1>4. UNCHANGED <<plan, meta, retake, rows, git, sec, lane, skipped, extras>>
  BY DEF Readmit
<1>5. TypeOK'
  BY <1>3, <1>4 DEF Sound, TypeOK, meta, rows, git
<1>6. Walks'
  BY <1>4 DEF Sound, Walks, Walking, LanesSettled, OpenAtGates, BatchesToCome, PhaseFits,
              Unmerged, Batch
<1> QED BY <1>5, <1>6 DEF Sound

-----------------------------------------------------------------------------
(* The intents API.                                                        *)

LEMMA RetakingKeeps ==
  ASSUME Sound, Retaking
  PROVE  Sound'
<1>1. CASE \E r \in AllRuns : StopWalk(r)
  <2>1. PICK r \in AllRuns : StopWalk(r)
    BY <1>1
  <2>2. sec' = [sec EXCEPT ![r].at = "stopped"] /\ UNCHANGED <<plan, lane>>
    BY <2>1 DEF StopWalk
  <2>3. sec' \in [AllRuns -> Sections]
    <3>1. [sec[r] EXCEPT !.at = "stopped"] \in Sections
      BY PlaceTyped DEF Sections, Places, Ended
    <3>2. sec' = [sec EXCEPT ![r] = [sec[r] EXCEPT !.at = "stopped"]]
      BY <2>2 DEF Sound, TypeOK
    <3> QED BY <3>1, <3>2 DEF Sound, TypeOK
  <2>4. retake' = [retake EXCEPT !.step = "resetting"]
        /\ UNCHANGED <<meta, rows, git, skipped, permits, extras>>
    BY <2>1 DEF StopWalk
  <2>5. retake' \in [step : {"created", "stopping", "resetting", "none"}, keep : BOOLEAN,
                     left : SUBSET Units]
    BY <2>4 DEF Sound, TypeOK
  <2>6. TypeOK'
    BY <2>2, <2>3, <2>4, <2>5 DEF Sound, TypeOK, meta, rows, git
  <2>7. ASSUME NEW q \in AllRuns PROVE Walking(sec[q], lane[q])'
    <3>1. CASE q = r
      <4>1. sec'[q] = [sec[q] EXCEPT !.at = "stopped"]
        BY <2>2, <3>1 DEF Sound, TypeOK
      <4>2. sec'[q].at = "stopped"
        BY <4>1, PlaceTyped DEF Sections
      <4> QED BY <4>2 DEF Walking, LanesSettled, OpenAtGates, BatchesToCome, PhaseFits, InRound
    <3>2. CASE q # r
      <4>1. sec'[q] = sec[q] /\ lane'[q] = lane[q] /\ plan' = plan
        BY <2>2, <3>2 DEF Sound, TypeOK
      <4> QED BY <4>1, PlaceTyped
              DEF Walking, LanesSettled, OpenAtGates, BatchesToCome, PhaseFits, Unmerged, Batch
    <3> QED BY <3>1, <3>2
  <2> QED BY <2>6, <2>7 DEF Sound, Walks
<1>2. CASE Cancel \/ Rewind \/ Repair \/ Relaunch \/ \E u \in Units : ResetRow(u)
  <2>1. UNCHANGED <<plan, autonomy, git, sec, lane, skipped, permits, extras>>
    BY <1>2 DEF Cancel, Rewind, Repair, Relaunch, ResetRow, BeginRetake, meta, rows
  <2>2. owner' \in AllRuns \cup {NoRun} /\ cancelled' \in BOOLEAN
    BY <1>2 DEF Cancel, Rewind, Repair, Relaunch, ResetRow, BeginRetake, meta, Sound, TypeOK
  <2>3. row' \in [Units -> RowStates] /\ note' \in SUBSET Units
    BY <1>2 DEF Cancel, Rewind, Repair, Relaunch, ResetRow, BeginRetake, rows, RowStates,
                Sound, TypeOK
  <2>4. plan.units \subseteq Units
    BY PlanFits DEF Sound, TypeOK
  <2>5. retake' \in [step : {"created", "stopping", "resetting", "none"}, keep : BOOLEAN,
                     left : SUBSET Units]
    <3>1. CASE Cancel
      BY <3>1 DEF Cancel, Sound, TypeOK
    <3>2. CASE Rewind
      BY <2>4, <3>2 DEF Rewind, BeginRetake
    <3>3. CASE Repair
      BY <2>4, <3>3 DEF Repair, BeginRetake
    <3>4. CASE Relaunch
      BY <3>4 DEF Relaunch, Sound, TypeOK
    <3>5. ASSUME NEW u \in Units, ResetRow(u)
          PROVE  retake' = [retake EXCEPT !.left = @ \ {u}]
      BY <3>5 DEF ResetRow
    <3> QED BY <1>2, <3>1, <3>2, <3>3, <3>4, <3>5 DEF Sound, TypeOK
  <2>6. TypeOK'
    BY <2>1, <2>2, <2>3, <2>5 DEF Sound, TypeOK, git
  <2>7. Walks'
    BY <2>1 DEF Sound, Walks, Walking, LanesSettled, OpenAtGates, BatchesToCome, PhaseFits,
                Unmerged, Batch
  <2> QED BY <2>6, <2>7 DEF Sound
<1> QED BY <1>1, <1>2 DEF Retaking

-----------------------------------------------------------------------------
(* Types.                                                                  *)

LEMMA InitSound == Init => Sound
<1> SUFFICES ASSUME Init PROVE Sound
  OBVIOUS
<1>1. Idle \in Sections /\ Idle.at = "none" /\ Idle.phase = "skeleton"
  BY DEF Idle, Sections, Places
<1>2. TypeOK
  <2>1. permits \in [AllRuns -> {S \in SUBSET Units : Cardinality(S) <= Limit}]
    BY NoPermits DEF Init
  <2>2. sec \in [AllRuns -> Sections]
    BY <1>1 DEF Init
  <2> QED BY <2>1, <2>2 DEF Init, TypeOK, RowStates, LanePcs
<1>3. Walks
  BY <1>1 DEF Init, Walks, Walking, LanesSettled, OpenAtGates, BatchesToCome, PhaseFits,
              InRound, AtRest
<1> QED BY <1>2, <1>3 DEF Sound

LEMMA StutterKeeps ==
  ASSUME Sound, UNCHANGED vars
  PROVE  Sound'
<1>1. TypeOK'
  BY DEF Sound, TypeOK, vars, meta, rows, git
<1>2. UNCHANGED <<plan, sec, lane>>
  BY DEF vars
<1>3. Walks'
  BY <1>2 DEF Sound, Walks, Walking, LanesSettled, OpenAtGates, BatchesToCome, PhaseFits,
              Unmerged, Batch
<1> QED BY <1>1, <1>3 DEF Sound

LEMMA NextKeeps ==
  ASSUME Sound, [Next]_vars
  PROVE  Sound'
<1>1. CASE Retaking
  BY <1>1, RetakingKeeps
<1>2. ASSUME NEW r \in AllRuns, Launch(r) \/ Replay(r)
      PROVE  Sound'
  BY <1>2, LaunchKeeps, ReplayKeeps
<1>3. ASSUME NEW r \in AllRuns, Answer(r)
      PROVE  Sound'
  BY <1>3, RetryKeeps, SkipKeeps, ApproveKeeps, RequestChangesKeeps, AnswerHaltKeeps,
     ChooseModeKeeps DEF Answer
<1>4. ASSUME NEW r \in AllRuns, Walk(r)
      PROVE  Sound'
  BY <1>4, EndRoundKeeps, FanOutKeeps, CheckKeeps, RetireKeeps, RecordSkipKeeps DEF Walk
<1>5. ASSUME NEW r \in AllRuns, NEW u \in sec[r].todo, LaneStep(r, u)
      PROVE  Sound'
  BY <1>5, LaneRowKeeps, StartLaneKeeps, BranchKeeps, MergeLaneKeeps, ReadmitKeeps
     DEF LaneStep
<1>6. ASSUME NEW r \in AllRuns, NEW u \in sec[r].todo, Unanswered(r, u)
      PROVE  Sound'
  BY <1>6, MergeLaneKeeps DEF Unanswered
<1> QED BY <1>1, <1>2, <1>3, <1>4, <1>5, <1>6, StutterKeeps DEF Next

THEOREM WalksAreSound == Spec => []Sound
<1>1. Init => Sound
  BY InitSound
<1>2. Sound /\ [Next]_vars => Sound'
  BY NextKeeps
<1> QED BY <1>1, <1>2, PTL DEF Spec

\* Every row, branch and lane is in a state the code knows, and a walk never
\* hands out more permits than maxParallelUnits, also after a replay.
THEOREM TypeCorrect == Spec => []TypeOK
<1>1. Sound => TypeOK
  BY DEF Sound
<1> QED BY <1>1, WalksAreSound, PTL

-----------------------------------------------------------------------------
(* A retry keeps what is merged.                                           *)

KeepsMerged ==
  \A r \in AllRuns, u \in Units :
    lane[r][u] = "MERGED" /\ lane'[r][u] # "MERGED" => sec[r].at = "review"

\* A walk reopens only the lanes of the round it goes to.
LEMMA GoReopens ==
  ASSUME Sound, NEW r \in AllRuns, NEW s, Go(r, s),
         s.at = "round" => Unmerged(lane[r], s.todo) \/ sec[r].at = "review"
  PROVE  KeepsMerged
<1>1. lane' = [lane EXCEPT ![r] = Lanes(r, s)]
  BY DEF Go, Lanes
<1>2. ASSUME NEW q \in AllRuns, NEW u \in Units, lane[q][u] = "MERGED", lane'[q][u] # "MERGED"
      PROVE  sec[q].at = "review"
  <2>1. q = r /\ lane'[q] = Lanes(r, s)
    BY <1>1, <1>2 DEF Sound, TypeOK
  <2>2. s.at = "round" /\ u \in s.todo
    BY <1>2, <2>1 DEF Lanes, Opened
  <2> QED BY <1>2, <2>1, <2>2 DEF Unmerged
<1> QED BY <1>2 DEF KeepsMerged

LEMMA RoundReopens ==
  ASSUME Sound, NEW r \in AllRuns, NEW s \in Sections, NEW todo \in SUBSET Units,
         NEW round \in Nat, Go(r, Round(s, todo, skipped[r], round)),
         Unmerged(lane[r], todo) \/ sec[r].at = "review"
  PROVE  KeepsMerged
<1>1. Round(s, todo, skipped[r], round).todo = todo \ skipped[r]
  BY DEF Round, Sections
<1> QED BY <1>1, GoReopens DEF Unmerged

LEMMA RemainingReopens ==
  ASSUME Sound, NEW r \in AllRuns, NEW s \in Sections, GoRemaining(r, s),
         Unmerged(lane[r], s.rest)
  PROVE  KeepsMerged
<1>1. s.rest \in SUBSET Units
  BY DEF Sections
<1>2. CASE Go(r, Round([s EXCEPT !.phase = "free"], s.rest, skipped[r], 0))
  <2>1. [s EXCEPT !.phase = "free"] \in Sections
    BY DEF Sections
  <2> QED BY <1>1, <1>2, <2>1, RoundReopens
<1>3. CASE Go(r, [s EXCEPT !.at = "check"])
  <2>1. [s EXCEPT !.at = "check"].at = "check"
    BY DEF Sections
  <2> QED BY <1>3, <2>1, GoReopens
<1>4. ASSUME NEW w \in 1 .. Len(plan.waves),
             Go(r, Round([s EXCEPT !.phase = "batch", !.wave = w, !.rev = 0],
                         Batch(s, w), skipped[r], 0))
      PROVE  KeepsMerged
  <2>1. [s EXCEPT !.phase = "batch", !.wave = w, !.rev = 0] \in Sections
    <3>1. Len(plan.waves) \in Nat
      BY PlaceTyped, PlanFits
    <3>2. w \in Nat
      BY <3>1
    <3> QED BY <3>2 DEF Sections
  <2>2. Batch(s, w) \in SUBSET Units /\ Unmerged(lane[r], Batch(s, w))
    BY <1>1 DEF Batch, Unmerged
  <2> QED BY <1>4, <2>1, <2>2, RoundReopens
<1> QED BY <1>2, <1>3, <1>4 DEF GoRemaining, GoBatch

\* A lane that moves was not settled as merged.
LEMMA MoveReopens ==
  ASSUME Sound, NEW r \in AllRuns, NEW u, NEW pc,
         lane' = [lane EXCEPT ![r][u] = pc], lane[r][u] # "MERGED"
  PROVE  KeepsMerged
BY DEF KeepsMerged, Sound, TypeOK

LEMMA NextKeepsMerged ==
  ASSUME Sound, [Next]_vars
  PROVE  KeepsMerged
<1>1. CASE UNCHANGED lane
  BY <1>1 DEF KeepsMerged
<1>2. ASSUME NEW r \in AllRuns, Launch(r) PROVE KeepsMerged
  <2>1. \A u \in Units : lane[r][u] = "none"
    BY <1>2, PlaceTyped DEF Launch, Walking, LanesSettled
  <2>2. \A q \in AllRuns : q # r => lane'[q] = lane[q]
    BY <1>2 DEF Launch, Sound, TypeOK
  <2> QED BY <2>1, <2>2 DEF KeepsMerged
<1>3. ASSUME NEW r \in AllRuns, Retry(r) PROVE KeepsMerged
  <2>1. Unmerged(lane[r], sec[r].todo) /\ sec[r].todo \in SUBSET Units /\ sec[r].round + 1 \in Nat
    BY <1>3, PlaceTyped DEF Retry, Walking, OpenAtGates, Sections
  <2> QED BY <1>3, <2>1, RoundReopens, PlaceTyped DEF Retry
<1>4. ASSUME NEW r \in AllRuns, sec[r].at = "review", Approve(r) \/ RequestChanges(r)
      PROVE  KeepsMerged
  <2>1. PICK s : Go(r, s)
    BY <1>4, Zenon DEF Approve, RequestChanges, GoBatch
  <2> QED BY <1>4, <2>1, GoReopens
<1>5. ASSUME NEW r \in AllRuns, Skip(r) PROVE KeepsMerged
  <2>1. [sec[r] EXCEPT !.at = "skipping", !.todo = ToOmit(r), !.omit = ToOmit(r)].at = "skipping"
    BY PlaceTyped DEF Sections
  <2> QED BY <1>5, <2>1, GoReopens DEF Skip
<1>6. ASSUME NEW r \in AllRuns, NEW parsed \in BOOLEAN, AnswerHalt(r, parsed)
      PROVE  KeepsMerged
  <2>1. /\ [sec[r] EXCEPT !.asks = @ + 1].at = sec[r].at
        /\ [sec[r] EXCEPT !.at = "failed"].at = "failed"
    BY PlaceTyped DEF Sections
  <2> QED BY <1>6, <2>1, GoReopens DEF AnswerHalt
<1>7. ASSUME NEW r \in AllRuns, NEW mode \in Modes, ChooseMode(r, mode)
      PROVE  KeepsMerged
  <2>1. /\ [sec[r] EXCEPT !.mode = mode] \in Sections
        /\ [sec[r] EXCEPT !.mode = mode].rest = sec[r].rest
    BY PlaceTyped DEF Sections
  <2>2. Unmerged(lane[r], sec[r].rest)
    BY <1>7, PlaceTyped DEF ChooseMode, Walking, OpenAtGates
  <2> QED BY <1>7, <2>1, <2>2, RemainingReopens DEF ChooseMode
<1>8. ASSUME NEW r \in AllRuns, FanOut(r) PROVE KeepsMerged
  <2> DEFINE rest == {u \in plan.units \ (skipped[r] \cup {plan.skeleton}) :
                        lane[r][u] # "MERGED"}
             s    == [sec[r] EXCEPT !.rest = rest, !.rev = 0]
  <2>1. rest \in SUBSET Units /\ Unmerged(lane[r], rest)
    BY PlaceTyped, PlanFits DEF Unmerged
  <2>2. \/ Go(r, [s EXCEPT !.at = "check"]) \/ Go(r, [s EXCEPT !.at = "ladder"])
        \/ GoRemaining(r, s)
    BY <1>8 DEF FanOut
  <2> HIDE DEF rest
  <2>3. s \in Sections /\ s.rest = rest
    BY <2>1, PlaceTyped DEF Sections
  <2> HIDE DEF s
  <2>4. [s EXCEPT !.at = "check"].at = "check" /\ [s EXCEPT !.at = "ladder"].at = "ladder"
    BY <2>3 DEF Sections
  <2> QED BY <2>1, <2>2, <2>3, <2>4, GoReopens, RemainingReopens
<1>9. ASSUME NEW r \in AllRuns, EndRound(r) \/ Check(r) \/ Retire(r) PROVE KeepsMerged
  <2>1. PICK s : Go(r, s) /\ s.at # "round"
    <3>1. CASE Check(r) \/ Retire(r)
      <4>1. \A at : [sec[r] EXCEPT !.at = at].at = at
        BY PlaceTyped DEF Sections
      <4>2. \E at \in {"retired", "resolved", "failed"} : Go(r, [sec[r] EXCEPT !.at = at])
        BY <3>1 DEF Check, Retire
      <4> QED BY <4>1, <4>2
    <3>2. CASE EndRound(r)
      <4> DEFINE ask  == [sec[r] EXCEPT !.at = "halt", !.asks = 0, !.todo =
                            {u \in sec[r].todo \ skipped[r] : lane[r][u] # "MERGED"}]
      <4>1. /\ ask.at = "halt" /\ [sec[r] EXCEPT !.at = "retired"].at = "retired"
            /\ AfterRound(sec[r], lane[r]).at # "round"
        BY PlaceTyped DEF AfterRound, Sections
      <4>2. \/ Go(r, [sec[r] EXCEPT !.at = "retired"]) \/ Go(r, AfterRound(sec[r], lane[r]))
            \/ Go(r, [sec[r] EXCEPT !.at = "halt", !.todo =
                        {u \in sec[r].todo \ skipped[r] : lane[r][u] # "MERGED"}, !.asks = 0])
        BY <3>2 DEF EndRound
      <4> QED BY <4>1, <4>2
    <3> QED BY <1>9, <3>1, <3>2
  <2> QED BY <2>1, GoReopens
<1>10. ASSUME NEW r \in AllRuns, NEW u \in sec[r].omit, RecordSkip(r, u)
       PROVE  KeepsMerged
  <2>1. /\ [sec[r] EXCEPT !.omit = @ \ {u}].at = sec[r].at
        /\ AfterRound(sec[r], lane[r]).at # "round"
    BY PlaceTyped DEF AfterRound, Sections
  <2> QED BY <1>10, <2>1, GoReopens DEF RecordSkip
<1>11. ASSUME NEW r \in AllRuns, NEW u \in sec[r].todo, LaneStep(r, u) \/ Unanswered(r, u)
       PROVE  KeepsMerged
  <2>1. CASE \E taken \in SUBSET Repos, answered \in BOOLEAN : MergeLane(r, u, taken, answered)
    <3>1. PICK taken \in SUBSET Repos, answered \in BOOLEAN : MergeLane(r, u, taken, answered)
      BY <2>1
    <3> QED BY <3>1, MergeLaneSteps, MoveReopens DEF Step
  <2>2. CASE LaneStep(r, u) /\ ~ \E taken \in SUBSET Repos : MergeLane(r, u, taken, TRUE)
    <3>1. \/ UNCHANGED lane
          \/ \E pc \in LanePcs : lane' = [lane EXCEPT ![r][u] = pc] /\ lane[r][u] # "MERGED"
      BY <2>2 DEF LaneStep, LaneBlocked, LaneRetired, LaneReady, StartLane, InitLane, LaneFails,
                  StagesSucceed, NothingToBuild, BeginMerge, ResolveConflict, RecordMerged,
                  Readmit, Step, At, LanePcs, Working, Outcomes
    <3> QED BY <1>1, <3>1, MoveReopens
  <2> QED BY <1>11, <2>1, <2>2 DEF Unanswered
<1>12. CASE Retaking \/ UNCHANGED vars \/ \E r \in AllRuns : Replay(r)
  BY <1>1, <1>12 DEF Retaking, Cancel, Rewind, Repair, BeginRetake, Relaunch, StopWalk, ResetRow,
                     Replay, vars
<1> QED BY <1>2, <1>3, <1>4, <1>5, <1>6, <1>7, <1>8, <1>9, <1>10, <1>11, <1>12
        DEF Next, Answer, Walk, Approve, RequestChanges

\* "Retry preserves integration": no step of the code takes a merged lane back
\* into construction, but the changes a human asks for at a review gate.
THEOREM RetryKeepsWhatIsMerged == Spec => RetryKeepsIntegration
<1>1. Sound /\ [Next]_vars =>
        [\A r \in AllRuns, u \in Units :
           lane[r][u] = "MERGED" /\ lane'[r][u] # "MERGED" => sec[r].at = "review"]_vars
  BY NextKeepsMerged DEF KeepsMerged
<1> QED BY <1>1, WalksAreSound, PTL DEF Spec, RetryKeepsIntegration

=============================================================================
