-------------------------------- MODULE Lanes --------------------------------
(***************************************************************************)
(* A parallel section of an execution: the units of work of its plan run   *)
(* as lanes, each on its own git branch, in dependency order and under a   *)
(* concurrency cap, and are merged back into the intent branch. The walk   *)
(* of the section is a durable execution: it is suspended and replayed,    *)
(* and a rewind leaves it running beside the run that replaces it.         *)
(*                                                                         *)
(* Every action is one durable step, one runtime command or one write of   *)
(* a UNIT row; a run between two human answers needs no other input.       *)
(***************************************************************************)
EXTENDS Integers, FiniteSets, Sequences

CONSTANTS
  Units,        \* names of units of work
  Repos,        \* repositories of the project
  Plans,        \* unit plans the execution may have promoted
  Limit,        \* maxParallelUnits
  ReaskLimit,   \* HALT_REASK_LIMIT
  MaxRuns,      \* bound, by plan: runs of the section (a retake starts another)
  MaxExtras     \* bound, by plan: retries, revisions, repeated questions and
                \* extras of a behaviour, together

Off   == "off"      \* the scope authors skeleton: off
NoRun == 0

AllRuns == UNION {1 .. MaxRuns[p] : p \in Plans}

\* A promoted plan is a DAG whose waves hold every unit once, dependencies
\* first; its walking skeleton depends on nothing.
PlanOK(p) ==
  /\ p.units \subseteq Units
  /\ p.dependsOn \in [Units -> SUBSET p.units]
  /\ \A i \in DOMAIN p.waves : p.waves[i] \subseteq p.units
  /\ \A u \in p.units : \E i \in DOMAIN p.waves :
       /\ u \in p.waves[i]
       /\ \A j \in DOMAIN p.waves : u \in p.waves[j] => i = j
       /\ p.dependsOn[u] \subseteq UNION {p.waves[j] : j \in 1 .. i - 1}
  /\ p.skeleton \in p.units \cup {Off}
  /\ p.skeleton # Off => p.dependsOn[p.skeleton] = {}

ASSUME PlansAssumption ==
  /\ Off \notin Units
  /\ \A p \in Plans : PlanOK(p) /\ p.waves \in Seq(SUBSET Units)
  /\ MaxRuns \in [Plans -> Nat] /\ MaxExtras \in [Plans -> Nat]
ASSUME BoundsAssumption ==
  Limit \in Nat \ {0} /\ ReaskLimit \in Nat
ASSUME FiniteAssumption == IsFiniteSet(Units) /\ IsFiniteSet(Repos)

VARIABLES
  plan,      \* the UNITPLAN row
  owner,     \* the run META names, or NoRun once it is retired
  cancelled, \* whether META is CANCELLED; the owner stays on it
  retake,    \* where a relaunch of the execution is
  row,       \* the state of each UNIT row
  note,      \* the units whose row records a human skip
  autonomy,  \* the autonomy mode on the UNITPLAN row
  landed,    \* of each unit, the repositories its branch head is merged in
  delivered, \* the units once merged in every repository
  cut,       \* of each unit branch, the run that cut it and the heads it holds
  sec,       \* of each run, where its walk of the section is
  lane,      \* of each run, where each lane body is, or how it settled
  skipped,   \* of each run, the lanes a human chose to omit
  permits,   \* of each run, the lanes that hold a construction permit
  extras     \* how many of the bounded extras the behaviour took

vars == <<plan, owner, cancelled, retake, row, note, autonomy, landed, delivered,
          cut, sec, lane, skipped, permits, extras>>
git  == <<landed, delivered, cut>>
rows == <<row, note, autonomy>>
meta == <<owner, cancelled>>

Outcomes == {"MERGED", "FAILED", "BLOCKED", "TERMINAL"}
\* A lane in construction holds a permit, unless a replay took it back.
Working  == {"starting", "building", "built", "merging", "conflict", "remerging",
             "merged"}
LanePcs  == {"none", "waiting", "queued"} \cup Working \cup Outcomes
RowStates == {"PENDING", "RUNNING", "MERGING", "MERGED", "FAILED", "BLOCKED"}
Gates     == {"halt", "review", "ladder"}
Modes     == {"autonomous", "gated"}
Ended     == {"resolved", "failed", "retired", "stopped"}
Places    == {"none", "round", "skipping", "fanout", "check"} \cup Gates \cup Ended

Sections ==
  [at : Places, phase : {"skeleton", "free", "batch"}, wave : Nat,
   todo : SUBSET Units, round : Nat, rev : Nat, asks : Nat,
   rest : SUBSET Units, omit : SUBSET Units, mode : Modes \cup {"none"}]
Idle == [at |-> "none", phase |-> "skeleton", wave |-> 0, todo |-> {},
         round |-> 0, rev |-> 0, asks |-> 0, rest |-> {}, omit |-> {},
         mode |-> "none"]

\* Every row, branch and lane is in a state the code knows, and no walk hands out
\* more permits than it has.
TypeOK ==
  /\ plan \in Plans
  /\ owner \in AllRuns \cup {NoRun} /\ cancelled \in BOOLEAN
  /\ retake \in [step : {"created", "stopping", "resetting", "none"}, keep : BOOLEAN,
                 left : SUBSET Units]
  /\ row \in [Units -> RowStates] /\ note \in SUBSET Units
  /\ autonomy \in Modes \cup {"none"}
  /\ landed \in [Units -> SUBSET Repos] /\ delivered \in SUBSET Units
  /\ cut \in [Units -> [by : AllRuns \cup {NoRun}, has : SUBSET Units]]
  /\ sec \in [AllRuns -> Sections]
  /\ lane \in [AllRuns -> [Units -> LanePcs]]
  /\ skipped \in [AllRuns -> SUBSET Units]
  /\ permits \in [AllRuns -> {S \in SUBSET Units : Cardinality(S) <= Limit}]
  /\ extras \in Nat

Init ==
  /\ plan \in Plans
  /\ owner = NoRun /\ cancelled = FALSE
  /\ retake = [step |-> "created", keep |-> FALSE, left |-> {}]
  /\ row = [u \in Units |-> "PENDING"] /\ note = {} /\ autonomy = "none"
  /\ landed = [u \in Units |-> {}] /\ delivered = {}
  /\ cut = [u \in Units |-> [by |-> NoRun, has |-> {}]]
  /\ sec = [r \in AllRuns |-> Idle]
  /\ lane = [r \in AllRuns |-> [u \in Units |-> "none"]]
  /\ skipped = [r \in AllRuns |-> {}] /\ permits = [r \in AllRuns |-> {}]
  /\ extras = 0

-----------------------------------------------------------------------------
(* The section: rounds of lanes, human gates, the check at the end.        *)

\* Run r still owns an execution nobody cancelled: its questions can be answered
\* and its workers may finish. Writes of the walk ask for the owner only.
Active(r) == owner = r /\ ~cancelled

Integrated == {u \in Units : landed[u] = Repos}

\* The units that depend, directly or not, on one of S.
Dependents(S) ==
  {u \in plan.units : \A C \in SUBSET plan.units :
     S \subseteq C /\ (\A v \in plan.units : plan.dependsOn[v] \cap C # {} => v \in C)
       => u \in C}

\* A round runs the lanes of todo that no human omitted.
Round(s, todo, omitted, round) ==
  [s EXCEPT !.at = "round", !.todo = todo \ omitted, !.round = round, !.omit = {}]

\* Every lane of a round starts with its dependency wait.
Opened(lanes, todo) == [u \in Units |-> IF u \in todo THEN "waiting" ELSE lanes[u]]

\* Where the walk goes once the lanes of a round need no more rounds.
AfterRound(s, lanes) ==
  [s EXCEPT !.omit = {}, !.todo = {}, !.asks = 0, !.at =
     CASE s.phase = "skeleton" ->
            IF lanes[plan.skeleton] = "MERGED" THEN "review" ELSE "fanout"
       [] s.phase = "batch" -> "review"
       [] s.phase = "free" -> "check"]

\* The lanes of the next batch, a wave without what earlier runs merged.
Batch(s, w) == plan.waves[w] \cap s.rest

\* The walk of run r goes to s; the lanes of a new round open.
Go(r, s) ==
  /\ sec' = [sec EXCEPT ![r] = s]
  /\ lane' = [lane EXCEPT ![r] = IF s.at = "round" THEN Opened(@, s.todo) ELSE @]

\* From wave w on, the next batch that has lanes, or the end of the section.
GoBatch(r, s, w) ==
  LET full == {i \in w .. Len(plan.waves) : Batch(s, i) # {}}
  IN \/ full = {} /\ Go(r, [s EXCEPT !.at = "check"])
     \/ \E next \in full :
          /\ \A i \in full : next <= i
          /\ Go(r, Round([s EXCEPT !.phase = "batch", !.wave = next, !.rev = 0],
                         Batch(s, next), skipped[r], 0))

\* The autonomy mode decides how the remaining lanes run.
GoRemaining(r, s) ==
  IF s.mode = "autonomous"
  THEN Go(r, Round([s EXCEPT !.phase = "free"], s.rest, skipped[r], 0))
  ELSE GoBatch(r, s, 1)

\* The run loads the plan and the rows: merged and skipped units are settled.
Launch(r) ==
  LET omitted == {u \in note : row[u] # "MERGED"}
      lanes   == [u \in Units |-> IF row[u] = "MERGED" THEN "MERGED" ELSE "none"]
      fresh   == [Idle EXCEPT !.mode = autonomy]
      start   == CASE plan.skeleton = Off -> [fresh EXCEPT !.at = "fanout"]
                   [] plan.skeleton # Off /\ lanes[plan.skeleton] # "MERGED" ->
                        Round(fresh, {plan.skeleton}, omitted, 0)
                   [] OTHER -> [fresh EXCEPT !.at =
                        IF autonomy = "none" THEN "review" ELSE "fanout"]
  IN /\ retake.step = "created"
     /\ r \in 1 .. MaxRuns[plan] /\ sec[r].at = "none"
     /\ \A q \in 1 .. r - 1 : sec[q].at # "none"
     /\ owner' = r /\ cancelled' = FALSE
     /\ retake' = [retake EXCEPT !.step = "none"]
     /\ sec' = [sec EXCEPT ![r] = start]
     /\ lane' = [lane EXCEPT ![r] = IF start.at = "round" THEN Opened(lanes, start.todo)
                                                          ELSE lanes]
     /\ skipped' = [skipped EXCEPT ![r] = omitted]
     /\ UNCHANGED <<plan, rows, git, permits, extras>>

\* Everything of the section outside the walks stands still.
WalkOnly == UNCHANGED <<plan, meta, retake, git, permits>>

\* A step that the bound counts, and one that it does not.
Extra == extras < MaxExtras[plan] /\ extras' = extras + 1
Plain == UNCHANGED extras

\* Mutant: a retry runs all lanes of the round again.
EndRoundKeepsAll(r) ==
  LET s    == sec[r]
      open == {u \in s.todo \ skipped[r] : lane[r][u] # "MERGED"}
  IN /\ s.at = "round"
     /\ \A u \in s.todo : lane[r][u] \in Outcomes
     /\ Go(r, CASE \E u \in s.todo : lane[r][u] = "TERMINAL" -> [s EXCEPT !.at = "retired"]
                [] (\A u \in s.todo : lane[r][u] # "TERMINAL") /\ open # {} ->
                     [s EXCEPT !.at = "halt", !.asks = 0]
                [] OTHER -> AfterRound(s, lane[r]))
     /\ WalkOnly /\ Plain /\ UNCHANGED <<rows, skipped>>

\* All lanes of the round settled: end the run, ask about the rest, or go on.
EndRound(r) ==
  LET s    == sec[r]
      open == {u \in s.todo \ skipped[r] : lane[r][u] # "MERGED"}
  IN /\ s.at = "round"
     /\ \A u \in s.todo : lane[r][u] \in Outcomes
     /\ Go(r, CASE \E u \in s.todo : lane[r][u] = "TERMINAL" -> [s EXCEPT !.at = "retired"]
                [] (\A u \in s.todo : lane[r][u] # "TERMINAL") /\ open # {} ->
                     [s EXCEPT !.at = "halt", !.todo = open, !.asks = 0]
                [] OTHER -> AfterRound(s, lane[r]))
     /\ WalkOnly /\ Plain /\ UNCHANGED <<rows, skipped>>

\* Retry runs again what is not merged; what is merged is not touched.
Retry(r) ==
  /\ sec[r].at = "halt" /\ Active(r)
  /\ Extra
  /\ Go(r, Round(sec[r], sec[r].todo, skipped[r], sec[r].round + 1))
  /\ WalkOnly /\ UNCHANGED <<rows, skipped>>

\* Skip omits the unresolved lanes with everything that depends on them.
ToOmit(r) ==
  {u \in Dependents(sec[r].todo) : lane[r][u] # "MERGED"} \ skipped[r]

Skip(r) ==
  /\ sec[r].at = "halt" /\ Active(r)
  /\ Go(r, [sec[r] EXCEPT !.at = "skipping", !.todo = ToOmit(r), !.omit = ToOmit(r)])
  /\ WalkOnly /\ Plain /\ UNCHANGED <<rows, skipped>>

\* The decision is recorded row by row; the lanes count as omitted after the last.
RecordSkip(r, u) ==
  LET s == sec[r]
  IN /\ s.at = "skipping" /\ owner = r /\ u \in s.omit
     /\ row' = [row EXCEPT ![u] = IF lane[r][u] = "none" THEN "BLOCKED" ELSE lane[r][u]]
     /\ note' = note \cup {u}
     /\ IF s.omit = {u}
        THEN /\ skipped' = [skipped EXCEPT ![r] = @ \cup s.todo]
             /\ Go(r, AfterRound(s, lane[r]))
        ELSE /\ Go(r, [s EXCEPT !.omit = @ \ {u}])
             /\ UNCHANGED skipped
     /\ WalkOnly /\ Plain /\ UNCHANGED autonomy

\* Abort fails the run, also after too many answers nobody could interpret.
AnswerHalt(r, parsed) ==
  /\ sec[r].at = "halt" /\ Active(r)
  /\ IF ~parsed /\ sec[r].asks < ReaskLimit
     THEN Extra /\ Go(r, [sec[r] EXCEPT !.asks = @ + 1])
     ELSE Plain /\ Go(r, [sec[r] EXCEPT !.at = "failed"])
  /\ WalkOnly /\ UNCHANGED <<rows, skipped>>

\* Mutant: the changes requested on a batch revise every lane merged so far.
ReviewedSoFar(r) == plan.units

\* The lanes a review gate is about, and of them those that changes can revise.
Reviewed(r) == IF sec[r].phase = "skeleton" THEN {plan.skeleton}
                                             ELSE Batch(sec[r], sec[r].wave)

Revisable(r) == {u \in Reviewed(r) : lane[r][u] = "MERGED"}

\* Approve, or request-changes on a batch that merged nothing.
Approve(r) ==
  /\ sec[r].at = "review" /\ Active(r)
  /\ IF sec[r].phase = "skeleton"
     THEN Go(r, [sec[r] EXCEPT !.at = "fanout"])
     ELSE GoBatch(r, sec[r], sec[r].wave + 1)
  /\ WalkOnly /\ Plain /\ UNCHANGED <<rows, skipped>>

\* Request-changes revives the merged lanes with the human's feedback.
RequestChanges(r) ==
  /\ sec[r].at = "review" /\ Active(r)
  /\ Revisable(r) # {} /\ Extra
  /\ Go(r, Round([sec[r] EXCEPT !.rev = @ + 1], Revisable(r), skipped[r], 0))
  /\ WalkOnly /\ UNCHANGED <<rows, skipped>>

\* After the skeleton: what remains, and whether its mode is known already.
FanOut(r) ==
  LET rest == {u \in plan.units \ (skipped[r] \cup {plan.skeleton}) : lane[r][u] # "MERGED"}
      s    == [sec[r] EXCEPT !.rest = rest, !.rev = 0]
  IN /\ sec[r].at = "fanout"
     /\ \/ rest = {} /\ Go(r, [s EXCEPT !.at = "check"])
        \/ rest # {} /\ s.mode = "none" /\ Go(r, [s EXCEPT !.at = "ladder"])
        \/ rest # {} /\ s.mode # "none" /\ GoRemaining(r, s)
     /\ WalkOnly /\ Plain /\ UNCHANGED <<rows, skipped>>

\* An answer that names no mode means gated.
ChooseMode(r, mode) ==
  /\ sec[r].at = "ladder" /\ Active(r)
  /\ autonomy' = mode
  /\ GoRemaining(r, [sec[r] EXCEPT !.mode = mode])
  /\ WalkOnly /\ Plain /\ UNCHANGED <<row, note, skipped>>

\* Every unit is integrated, with evidence, or omitted by a recorded decision.
Accounted(u) == row[u] = "MERGED" \/ u \in note

Check(r) ==
  /\ sec[r].at = "check"
  /\ Go(r, [sec[r] EXCEPT !.at =
       CASE owner # r -> "retired"
         [] owner = r /\ (\A u \in plan.units : Accounted(u)) -> "resolved"
         [] OTHER -> "failed"])
  /\ WalkOnly /\ Plain /\ UNCHANGED <<rows, skipped>>

\* The gates of a retired run are superseded, its fenced writes refused.
Retire(r) ==
  /\ \/ sec[r].at \in Gates /\ ~Active(r)
     \/ sec[r].at = "skipping" /\ owner # r
  /\ Go(r, [sec[r] EXCEPT !.at = "retired"])
  /\ WalkOnly /\ Plain /\ UNCHANGED <<rows, skipped>>

-----------------------------------------------------------------------------
(* One lane.                                                               *)

\* Mutant: only a merged lane gives its permit back.
StepKeepsPermit(r, u, pc) ==
  /\ lane' = [lane EXCEPT ![r][u] = pc]
  /\ permits' = [permits EXCEPT ![r] = IF pc = "MERGED" THEN @ \ {u} ELSE @]
  /\ UNCHANGED <<plan, meta, retake, note, autonomy, sec, skipped, extras>>

\* The lane u of run r goes on to pc, and gives its permit back once settled.
Step(r, u, pc) ==
  /\ lane' = [lane EXCEPT ![r][u] = pc]
  /\ permits' = [permits EXCEPT ![r] = IF pc \in Outcomes THEN @ \ {u} ELSE @]
  /\ UNCHANGED <<plan, meta, retake, note, autonomy, sec, skipped, extras>>

\* Lane u of run r is at pc, and may run.
At(r, u, pc) ==
  /\ sec[r].at = "round" /\ u \in sec[r].todo /\ lane[r][u] = pc
  /\ pc \in Working => u \in permits[r]

\* A UNIT row moves only from the states expected of it; a lost race is tolerated.
Write(u, from, to) == row' = [row EXCEPT ![u] = IF @ \in from THEN to ELSE @]

\* A dependency is waited for while its lane runs in the same round.
SettledFor(r, d) == d \in sec[r].todo => lane[r][d] \in Outcomes

LaneBlocked(r, u) ==
  /\ At(r, u, "waiting")
  /\ \E d \in plan.dependsOn[u] :
       /\ SettledFor(r, d) /\ lane[r][d] # "MERGED"
       /\ d \in sec[r].todo => lane[r][d] # "TERMINAL"
  /\ Write(u, RowStates, "BLOCKED")
  /\ Step(r, u, "BLOCKED") /\ UNCHANGED git

LaneRetired(r, u) ==
  /\ \/ /\ At(r, u, "waiting")
        /\ \E d \in plan.dependsOn[u] \cap sec[r].todo : lane[r][d] = "TERMINAL"
     \/ At(r, u, "building") /\ ~Active(r)
  /\ Step(r, u, "TERMINAL") /\ UNCHANGED <<row, git>>

\* Mutant: a dependency counts unless it is known to have failed.
ReadyUnlessFailed(r, u) ==
  /\ At(r, u, "waiting")
  /\ \A d \in plan.dependsOn[u] : lane[r][d] \notin {"FAILED", "BLOCKED", "TERMINAL"}
  /\ Step(r, u, "queued") /\ UNCHANGED <<row, git>>

LaneReady(r, u) ==
  /\ At(r, u, "waiting")
  /\ \A d \in plan.dependsOn[u] : SettledFor(r, d) /\ lane[r][d] = "MERGED"
  /\ Step(r, u, "queued") /\ UNCHANGED <<row, git>>

\* The states a lane may start from: fresh, revived by a retry, by a revision.
StartsFrom(r) ==
  {"PENDING"} \cup (IF sec[r].round > 0 \/ sec[r].rev > 0 THEN {"FAILED", "BLOCKED"} ELSE {})
              \cup (IF sec[r].rev > 0 THEN {"MERGED"} ELSE {})

StartLane(r, u) ==
  /\ At(r, u, "queued")
  /\ Cardinality(permits[r]) < Limit
  /\ lane' = [lane EXCEPT ![r][u] = "starting"]
  /\ permits' = [permits EXCEPT ![r] = @ \cup {u}]
  /\ Write(u, StartsFrom(r), "RUNNING")
  /\ UNCHANGED <<plan, meta, retake, note, autonomy, git, sec, skipped, extras>>

\* The unit branch is cut from the intent branch, or found and kept as it is.
InitLane(r, u) ==
  /\ At(r, u, "starting")
  /\ cut' = IF cut[u].by = NoRun
            THEN [cut EXCEPT ![u] = [by |-> r, has |-> Integrated]] ELSE cut
  /\ Step(r, u, "building") /\ UNCHANGED <<row, landed, delivered>>

\* Whatever fails in a lane settles it; the verdict is written by the owner only.
LaneFails(r, u) ==
  /\ \E pc \in Working \ {"built"} : At(r, u, pc)
  /\ lane[r][u] = "merged" => owner = r /\ row[u] \notin {"RUNNING", "MERGING", "MERGED"}
  /\ Write(u, IF owner = r THEN RowStates ELSE {}, "FAILED")
  /\ Step(r, u, "FAILED") /\ UNCHANGED git

\* The stages move the head of the unit branch; their worker is fenced.
StagesSucceed(r, u) ==
  /\ At(r, u, "building") /\ Active(r)
  /\ landed' = [landed EXCEPT ![u] = {}]
  /\ cut' = [v \in Units |-> [cut[v] EXCEPT !.has = @ \ {u}]]
  /\ Step(r, u, "built") /\ UNCHANGED <<row, delivered>>

\* All stages of the unit are skipped, or were completed before a repair.
NothingToBuild(r, u) ==
  At(r, u, "building") /\ Step(r, u, "built") /\ UNCHANGED <<row, git>>

BeginMerge(r, u) ==
  /\ At(r, u, "built")
  /\ Write(u, {"RUNNING"}, "MERGING")
  /\ Step(r, u, "merging") /\ UNCHANGED git

\* Mutant: a lane counts as merged once one repository took its head.
MergedSomewhere(r, u, taken, answered) ==
  /\ At(r, u, "merging") \/ At(r, u, "remerging")
  /\ landed' = [landed EXCEPT ![u] = @ \cup taken]
  /\ delivered' = IF landed'[u] = Repos THEN delivered \cup {u} ELSE delivered
  /\ Step(r, u, CASE ~answered -> lane[r][u]
                  [] answered /\ landed'[u] # {} -> "merged"
                  [] OTHER -> IF lane[r][u] = "merging" THEN "conflict" ELSE "FAILED")
  /\ Write(u, IF lane'[r][u] = "FAILED" /\ owner = r THEN RowStates ELSE {}, "FAILED")
  /\ UNCHANGED cut

\* Mutant: after the conflict resolution the merge is taken to have worked.
RemergeTrusted(r, u, taken, answered) ==
  /\ At(r, u, "merging") \/ At(r, u, "remerging")
  /\ landed' = [landed EXCEPT ![u] = @ \cup taken]
  /\ delivered' = IF landed'[u] = Repos THEN delivered \cup {u} ELSE delivered
  /\ Step(r, u, CASE ~answered -> lane[r][u]
                  [] answered /\ (landed'[u] = Repos \/ lane[r][u] = "remerging") -> "merged"
                  [] OTHER -> "conflict")
  /\ UNCHANGED <<row, cut>>

\* merge-lane: each repository takes the head, or fails, on its own. The answer
\* may be lost, and the step runs again.
MergeLane(r, u, taken, answered) ==
  /\ At(r, u, "merging") \/ At(r, u, "remerging")
  /\ landed' = [landed EXCEPT ![u] = @ \cup taken]
  /\ delivered' = IF landed'[u] = Repos THEN delivered \cup {u} ELSE delivered
  /\ Step(r, u, CASE ~answered -> lane[r][u]
                  [] answered /\ landed'[u] = Repos -> "merged"
                  [] OTHER -> IF lane[r][u] = "merging" THEN "conflict" ELSE "FAILED")
  /\ Write(u, IF lane'[r][u] = "FAILED" /\ owner = r THEN RowStates ELSE {}, "FAILED")
  /\ UNCHANGED cut

\* One attempt: the intent branch is merged into the unit branch.
ResolveConflict(r, u) ==
  /\ At(r, u, "conflict")
  /\ cut' = [cut EXCEPT ![u].has = @ \cup Integrated]
  /\ Step(r, u, "remerging") /\ UNCHANGED <<row, landed, delivered>>

RecordMerged(r, u) ==
  /\ At(r, u, "merged") /\ (owner = r => row[u] \in {"RUNNING", "MERGING", "MERGED"})
  /\ Write(u, IF owner = r THEN {"RUNNING", "MERGING"} ELSE {}, "MERGED")
  /\ Step(r, u, IF owner = r THEN "MERGED" ELSE "TERMINAL") /\ UNCHANGED git

\* A suspended walk is replayed with a new semaphore: the lanes that wait for
\* their stages ask for their permits again, in any order with those queued.
Replay(r) ==
  /\ sec[r].at = "round" /\ permits[r] # {}
  /\ \A u \in permits[r] : lane[r][u] = "building"
  /\ Extra
  /\ permits' = [permits EXCEPT ![r] = {}]
  /\ UNCHANGED <<plan, meta, retake, rows, git, sec, lane, skipped>>

\* Mutant: a replayed lane takes its permit back without asking for it.
ReadmitAtOnce(r, u) ==
  /\ sec[r].at = "round" /\ u \in sec[r].todo
  /\ lane[r][u] = "building" /\ u \notin permits[r]
  /\ permits' = [permits EXCEPT ![r] = @ \cup {u}]
  /\ UNCHANGED <<plan, meta, retake, rows, git, sec, lane, skipped, extras>>

Readmit(r, u) ==
  /\ sec[r].at = "round" /\ u \in sec[r].todo
  /\ lane[r][u] = "building" /\ u \notin permits[r]
  /\ Cardinality(permits[r]) < Limit
  /\ permits' = [permits EXCEPT ![r] = @ \cup {u}]
  /\ UNCHANGED <<plan, meta, retake, rows, git, sec, lane, skipped, extras>>

-----------------------------------------------------------------------------
(* The intents API.                                                        *)

\* A cancel leaves the run on META: its walk goes on until it notices.
Cancel ==
  /\ owner # NoRun /\ ~cancelled /\ sec[owner].at \notin Ended
  /\ cancelled' = TRUE
  /\ UNCHANGED <<plan, owner, retake, rows, git, sec, lane, skipped, permits, extras>>

\* The execution is parked on a question or has failed.
Parked ==
  \/ sec[owner].at \in Gates \cup {"failed"}
  \/ sec[owner].at = "round" /\ \E u \in Units : lane[owner][u] = "building"

Retakable ==
  /\ retake.step = "none" /\ owner # NoRun
  /\ \E r \in 1 .. MaxRuns[plan] : sec[r].at = "none"

\* The owner is retired before anything else is touched.
BeginRetake(step, keep, left) ==
  /\ Retakable
  /\ owner' = NoRun /\ cancelled' = FALSE
  /\ retake' = [step |-> step, keep |-> keep, left |-> left]
  /\ UNCHANGED <<plan, rows, git, sec, lane, skipped, permits, extras>>

\* A rewind into the section resets every unit. The walk of the owner is left
\* to find out by itself.
Rewind ==
  /\ owner # NoRun => cancelled \/ Parked \/ sec[owner].at = "resolved"
  /\ BeginRetake("resetting", FALSE, plan.units)

\* A repair resets only the units that are neither merged nor omitted.
Repair ==
  LET broken == {u \in plan.units : row[u] \notin {"PENDING", "MERGED"}} \ note
  IN /\ owner # NoRun => ~cancelled /\ Parked
     /\ broken # {}
     /\ BeginRetake("stopping", TRUE, broken)

\* A repair goes on only after the durable execution it replaces was stopped.
StopWalk(r) ==
  /\ retake.step = "stopping"
  /\ sec[r].at # "none" /\ \A q \in AllRuns : q > r => sec[q].at = "none"
  /\ sec' = [sec EXCEPT ![r].at = "stopped"]
  /\ retake' = [retake EXCEPT !.step = "resetting"]
  /\ UNCHANGED <<plan, meta, rows, git, lane, skipped, permits, extras>>

\* The rows are reset one by one, whatever they hold by now. A rewind goes on when
\* a reset fails.
ResetRow(u) ==
  /\ retake.step = "resetting" /\ u \in retake.left
  /\ \/ /\ row' = [row EXCEPT ![u] = "PENDING"]
        /\ note' = IF retake.keep THEN note ELSE note \ {u}
     \/ ~retake.keep /\ UNCHANGED <<row, note>>
  /\ retake' = [retake EXCEPT !.left = @ \ {u}]
  /\ UNCHANGED <<plan, meta, autonomy, git, sec, lane, skipped, permits, extras>>

Relaunch ==
  /\ retake.step = "resetting" /\ retake.left = {}
  /\ retake' = [retake EXCEPT !.step = "created"]
  /\ UNCHANGED <<plan, meta, rows, git, sec, lane, skipped, permits, extras>>

-----------------------------------------------------------------------------
Retaking ==
  \/ Cancel \/ Rewind \/ Repair \/ Relaunch
  \/ \E r \in AllRuns : StopWalk(r)
  \/ \E u \in Units : ResetRow(u)

Answer(r) ==
  \/ Retry(r) \/ Skip(r) \/ Approve(r) \/ RequestChanges(r)
  \/ \E parsed \in BOOLEAN : AnswerHalt(r, parsed)
  \/ \E mode \in Modes : ChooseMode(r, mode)

\* What the walk does by itself between two answers.
Walk(r) ==
  \/ EndRound(r) \/ FanOut(r) \/ Check(r) \/ Retire(r)
  \/ \E u \in sec[r].omit : RecordSkip(r, u)

LaneStep(r, u) ==
  \/ LaneBlocked(r, u) \/ LaneRetired(r, u) \/ LaneReady(r, u) \/ StartLane(r, u)
  \/ InitLane(r, u) \/ LaneFails(r, u) \/ StagesSucceed(r, u) \/ NothingToBuild(r, u)
  \/ BeginMerge(r, u) \/ ResolveConflict(r, u) \/ RecordMerged(r, u) \/ Readmit(r, u)
  \/ \E taken \in SUBSET Repos : MergeLane(r, u, taken, TRUE)

\* A merge-lane call whose answer is lost.
Unanswered(r, u) == \E taken \in SUBSET Repos : MergeLane(r, u, taken, FALSE)

Next ==
  \/ Retaking
  \/ \E r \in AllRuns :
       \/ Launch(r) \/ Answer(r) \/ Walk(r) \/ Replay(r)
       \/ \E u \in sec[r].todo : LaneStep(r, u) \/ Unanswered(r, u)

Spec == Init /\ [][Next]_vars

\* A durable execution goes on as long as it can, and every wait of a lane for
\* its worker ends: a stage callback has a timeout, a command is a bounded call.
Progress(r) ==
  /\ sec[r].at \notin {"none"} \cup Ended
  /\ Walk(r) \/ \E u \in sec[r].todo : LaneStep(r, u)

FairSpec == Spec /\ \A r \in AllRuns : WF_vars(Progress(r))

-----------------------------------------------------------------------------
(* Properties.                                                             *)

\* A unit enters the intent branch after the units it depends on, across
\* retries, revisions, rewinds and the runs a rewind leaves behind.
DeliveredInOrder ==
  \A u \in delivered : plan.dependsOn[u] \subseteq delivered

\* "A lane starts only when the lanes it depends on have merged": the branch a
\* run cuts for a lane holds the heads its dependencies have in that run, the
\* revised ones included, for as long as the lane builds on it.
BuildsOnDependencies ==
  owner # NoRun => \A u \in plan.units :
    cut[u].by = owner /\ lane[owner][u] \in Working \ {"starting"}
      => plan.dependsOn[u] \subseteq cut[u].has

\* "MERGED means integrated into the intent branch": of every repository, with
\* the head the last stages of the unit left.
MergedMeansIntegrated ==
  \A u \in plan.units : row[u] = "MERGED" => landed[u] = Repos

\* A section is resolved only with every unit integrated or omitted by a human.
ResolvedIsAccounted ==
  owner # NoRun /\ sec[owner].at = "resolved"
    => \A u \in plan.units : landed[u] = Repos \/ u \in note

\* "Retry preserves integration": a lane that settled as merged runs again only
\* because a human asked for changes at a review gate.
RetryKeepsIntegration ==
  [][\A r \in AllRuns, u \in Units :
       lane[r][u] = "MERGED" /\ lane'[r][u] # "MERGED" => sec[r].at = "review"]_vars

\* Every round of lanes ends, also one of a run that was retired in it: no lane
\* waits for ever for a dependency or for a permit.
RoundEnds == \A r \in AllRuns : sec[r].at = "round" ~> sec[r].at # "round"

\* The section keeps the promise of UnitDelivery.
Delivery == INSTANCE UnitDelivery WITH
  dependsOn  <- [u \in plan.units |-> plan.dependsOn[u]],
  integrated <- delivered,
  omitted    <- IF owner = NoRun THEN {} ELSE skipped[owner] \cap plan.units,
  resolved   <- owner # NoRun /\ sec[owner].at = "resolved"

DeliverySpec == Delivery!Spec

=============================================================================
