------------------------------ MODULE GateProofs ------------------------------
(***************************************************************************)
(* Proofs about Execution, for every set of runs, attempts, gates and      *)
(* requests: the questions of an execution. An answer enters one           *)
(* conversation, a pending question that META shows can be answered, a run *)
(* that waits on an answer is woken or owed it, and the gates implement    *)
(* HumanGate.                                                              *)
(***************************************************************************)
EXTENDS ExecutionProofs

NotYet == {"unused", "queued", "claimed", "start", "marked"}
AtTurn == {"marked", "turn", "grace", "inline", "exit"}

Asked(g) == gate[g].status # "none"

\* Attempt c asked g, and its conversation does not hold the answer.
Unspent(c, g) == gate[g].cb = c /\ g \notin worker[c].got

\* Attempt c has parked on its gate, or is about to report that it has.
Parks(c) ==
  (worker[c].pc = "report" /\ worker[c].out = "WAITING") \/ worker[c].verdict = "WAITING"

\* Attempt c is the leg that resumes from g, the question of an earlier one.
Resumes(c, g) ==
  (worker[c].from = g \/ g \in worker[c].got) /\ gate[g].cb # c

\* Run r may resume from g: the attempt that asked g for it has parked.
Resumable(r, g) ==
  /\ gate[g].run = r /\ Asked(g)
  /\ worker[gate[g].cb].verdict = "WAITING" /\ g \notin worker[gate[g].cb].got

-----------------------------------------------------------------------------
(* What holds of the questions.                                            *)

\* A question has the attempt that asked it, whose turn has begun, and its run.
Askers ==
  \A g \in Gates :
    IF Asked(g)
    THEN /\ gate[g].cb \in Attempts /\ gate[g].run \in Runs
         /\ worker[gate[g].cb].run = gate[g].run
         /\ worker[gate[g].cb].pc \notin NotYet
    ELSE gate[g].cb = None /\ gate[g].run = None

\* What a conversation holds, or is about to, has been answered, to its own run.
AnswersGiven ==
  \A c \in Attempts :
    /\ \A g \in worker[c].got : gate[g].status = Answered /\ gate[g].run = worker[c].run
    /\ worker[c].pc = "start" /\ worker[c].from # None
         => gate[worker[c].from].status = Answered
    /\ worker[c].pc = "inline" => gate[worker[c].gate].status = Answered

\* META shows no question but that of the owner's attempt at work, not yet used.
MetaShows ==
  /\ meta.gate # None => meta.status \in Active /\ Asked(meta.gate)
  /\ \A r \in Runs : HoldsToken(r) /\ run[r].pc = "dispatch" => meta.gate = None
  /\ \A c \in Attempts :
       worker[c].run \in Runs /\ HoldsToken(worker[c].run) /\ meta.gate # None =>
         /\ worker[c].verdict # "WAITING" => Unspent(c, meta.gate)
         /\ worker[c].pc # "inline"

\* The row shows its attempt no question but the attempt's own, not yet used, and that
\* is what the attempt parks on.
RowShows ==
  \A c \in Attempts :
    /\ stage.cb = c /\ worker[c].pc \in AtTurn /\ stage.gate # None
         => Unspent(c, stage.gate)
    /\ stage.cb = c /\ worker[c].pc = "park" /\ HoldsToken(worker[c].run)
         => Unspent(c, worker[c].gate)
    /\ worker[c].pc \in {"grace", "inline"} \/ Parks(c) => Unspent(c, worker[c].gate)

\* A leg resumes from a question of its own run, whose asker has parked.
LegsResume ==
  \A c \in Attempts :
    /\ worker[c].from # None => gate[worker[c].from].cb # c
    /\ \A g \in Gates : Resumes(c, g) => Resumable(worker[c].run, g)

\* One leg at most resumes from a question, and none before its run dispatches it.
ResumedOnce ==
  /\ \A c, d \in Attempts, g \in Gates : Resumes(c, g) /\ Resumes(d, g) => c = d
  /\ \A r \in Runs : run[r].pc \in Before => run[r].from = None
  /\ \A r \in Runs : run[r].pc \in Holding \cup {"dispatch"} /\ run[r].from # None =>
       /\ Resumable(r, run[r].from)
       /\ \A c \in Attempts : ~Resumes(c, run[r].from)
  /\ \A r \in Runs, c \in Attempts, g \in Gates :
       run[r].pc = "await" /\ gate[g].cb = run[r].attempt => ~Resumes(c, g)

QuestionsInOrder ==
  Askers /\ AnswersGiven /\ MetaShows /\ RowShows /\ LegsResume /\ ResumedOnce

-----------------------------------------------------------------------------
(* What the steps do that neither ask, dispatch nor decide on a verdict.   *)

GateStays(g) ==
  /\ gate'[g].cb = gate[g].cb /\ gate'[g].run = gate[g].run
  /\ Asked(g)' <=> Asked(g)
  /\ gate[g].status = Answered => gate'[g].status = Answered

\* An attempt keeps its run and its origin; it comes to the tool's answer, to a park
\* and to its report by the code's own way.
WorkerStays(c) ==
  /\ worker'[c].run = worker[c].run /\ worker'[c].from \in {worker[c].from, None}
  /\ worker[c].verdict = "WAITING" => worker'[c].verdict = "WAITING"
  /\ worker'[c].pc \in NotYet => worker[c].pc \in NotYet
  /\ worker[c].pc = "marked" /\ worker'[c].pc \in AtTurn \ {"marked"}
       => meta'.status = "RUNNING"
  /\ worker'[c].pc = "start" =>
       worker[c].pc = "start" \/ (worker[c].from # None
                                    => gate[worker[c].from].status = Answered)
  /\ worker'[c].pc \in {"grace", "inline"} =>
       worker[c].pc \in {"grace", "inline"} /\ worker'[c].gate = worker[c].gate
  /\ worker'[c].pc = "inline" =>
       \/ worker[c].pc = "inline"
       \/ gate[worker[c].gate].status = Answered /\ meta'.gate = None
  /\ worker'[c].pc = "park" =>
       \/ worker[c].pc = "park" /\ worker'[c].gate = worker[c].gate
       \/ worker[c].pc = "exit" /\ worker'[c].gate \in {stage.gate, meta.gate} \ {None}
  /\ Parks(c)' => /\ Parks(c) \/ (worker[c].pc = "park" /\ Owns(c))
                  /\ worker'[c].gate = worker[c].gate

RowStays ==
  \A c \in Attempts :
    stage'.cb = c /\ worker'[c].pc \in AtTurn \cup {"park"} =>
      /\ stage.cb = c
      /\ worker'[c].pc \in AtTurn /\ stage'.gate # None =>
           stage'.gate = stage.gate /\ worker[c].pc \in AtTurn

RunStays(r) ==
  /\ run'[r].pc \in Before => run[r].pc \in Before
  /\ run'[r].pc \in Before \cup Holding \cup {"dispatch"} =>
       /\ run[r].pc \in Before \cup Holding \cup {"dispatch"}
       /\ run'[r].from = run[r].from
  /\ run'[r].pc \in Holding => run[r].pc \in Holding
  /\ run'[r].pc = "dispatch" => run[r].pc = "dispatch" \/ meta'.gate = None
  /\ run'[r].pc = "await" => run[r].pc = "await" /\ run'[r].attempt = run[r].attempt

Moves ==
  /\ \A g \in Gates : GateStays(g)
  /\ \A c \in Attempts : WorkerStays(c)
  /\ \A r \in Runs : RunStays(r)
  /\ RowStays
  /\ meta'.gate # None => meta'.gate = meta.gate /\ meta'.status \in Active

\* No conversation takes an answer; or attempt c takes that of g, the gate it resumes
\* from or the one its tool has polled.
NoneTaken == \A c \in Attempts : worker'[c].got = worker[c].got

Taken(c, g) ==
  /\ Owns(c)
  /\ \/ worker[c].pc = "start" /\ worker[c].from = g
     \/ worker[c].pc = "inline" /\ worker[c].gate = g
  /\ worker'[c].got = worker[c].got \cup {g} /\ worker'[c].pc \in {"marked", "turn"}
  /\ stage'.gate = None /\ UNCHANGED <<meta, gate>>
  /\ \A d \in Attempts : d # c => worker'[d].got = worker[d].got

\* A step of one worker that leaves the others and the runs alone.
LEMMA OneWorkerMoves ==
  ASSUME NEW c \in Attempts, UNCHANGED run,
         \A g \in Gates : GateStays(g),
         \A d \in Attempts : d # c => worker'[d] = worker[d],
         WorkerStays(c), RowStays,
         meta'.gate # None => meta'.gate = meta.gate /\ meta'.status \in Active
  PROVE  Moves
<1>1. ASSUME NEW d \in Attempts, d # c PROVE WorkerStays(d)
  BY <1>1 DEF WorkerStays, Parks
<1>2. \A r \in Runs : RunStays(r)
  BY DEF RunStays
<1>3. QED BY <1>1, <1>2 DEF Moves

LEMMA WorkerStepMoves ==
  ASSUME TypeOK, Settles, MetaShows, NEW c \in Attempts, Worker(c) \/ Timeout(c) \/ Crash(c),
         \A g \in Gates : ~Ask(c, g)
  PROVE  Moves /\ (NoneTaken \/ \E g \in Gates : Taken(c, g))
<1>w. /\ worker \in [Attempts -> WorkerStates] /\ worker[c] \in WorkerStates
      /\ meta \in MetaRows /\ stage \in StageRows /\ gate \in [Gates -> GateRows]
      /\ meta.gate # None => meta.status \in Active
  BY DEF TypeOK, WorkersOK, MetaShows
<1> DEFINE Others == \A d \in Attempts : d # c => worker'[d] = worker[d]
           Same   == worker'[c].run = worker[c].run /\ worker'[c].from = worker[c].from
           Kept   == Same /\ worker'[c].got = worker[c].got
           Quietly == worker'[c].out = worker[c].out /\ worker'[c].verdict = worker[c].verdict
           MetaOK == meta'.gate # None => meta'.gate = meta.gate /\ meta'.status \in Active
<1>q. UNCHANGED run
  BY DEF Worker, Timeout, Crash, Claim, LoadGate, StartTurn, MarkExecutionRunning, Ask,
     PollAnswered, LeaveGrace, InlineResume, StopTurn, Exit, Park, RetireQuestion,
     ClearPointer, FailStage, CompleteStage, ClassifyConflict, Report
<1>k. UNCHANGED gate => \A g \in Gates : GateStays(g)
  BY DEF GateStays, Asked
<1>n. Others /\ worker'[c].got = worker[c].got => NoneTaken
  BY DEF NoneTaken
<1>g. ASSUME NEW pc, Goto(c, pc)
      PROVE  Others /\ Kept /\ Quietly /\ worker'[c].pc = pc /\ worker'[c].gate = worker[c].gate
  BY <1>g, <1>w DEF Goto, WorkerStates
<1>r. ASSUME NEW out, Return(c, out)
      PROVE  /\ Others /\ Kept /\ worker'[c].pc = "report" /\ worker'[c].out = out
             /\ worker'[c].gate = worker[c].gate /\ worker'[c].verdict = worker[c].verdict
  BY <1>r, <1>w DEF Return, WorkerStates
<1>d. /\ Dead(worker[c]).pc = "gone" /\ Dead(worker[c]).run = worker[c].run
      /\ Dead(worker[c]).from = None /\ Dead(worker[c]).gate = worker[c].gate
      /\ Dead(worker[c]).got = worker[c].got /\ Dead(worker[c]).out = "none"
      /\ Dead(worker[c]).verdict = worker[c].verdict
  BY <1>w DEF Dead, WorkerStates
<1> HIDE DEF Others, Same, Kept, Quietly, MetaOK
<1>u. ASSUME NEW pc, Goto(c, pc), pc \in {"turn", "exit", "finish", "fail", "conflict", "clear",
                                         "failpark", "claimed"},
             worker[c].pc # "unused", pc = "claimed" => worker[c].pc = "queued",
             worker[c].pc = "marked" => pc = "conflict" \/ meta'.status = "RUNNING"
      PROVE  Others /\ WorkerStays(c) /\ NoneTaken
  <2>1. Others /\ Kept /\ Quietly /\ worker'[c].pc = pc /\ worker'[c].gate = worker[c].gate
    BY <1>u, <1>g
  <2>2. WorkerStays(c)
    BY <2>1, <1>u DEF WorkerStays, Parks, NotYet, AtTurn, Kept, Same, Quietly
  <2>3. QED BY <2>1, <2>2, <1>n DEF Kept
<1>v. ASSUME NEW out, Return(c, out), out # "WAITING" \/ (worker[c].pc = "park" /\ Owns(c))
      PROVE  Others /\ WorkerStays(c) /\ NoneTaken
  <2>1. /\ Others /\ Kept /\ worker'[c].pc = "report" /\ worker'[c].out = out
        /\ worker'[c].gate = worker[c].gate /\ worker'[c].verdict = worker[c].verdict
    BY <1>v, <1>r
  <2>2. WorkerStays(c)
    BY <2>1, <1>v DEF WorkerStays, Parks, NotYet, AtTurn, Kept, Same
  <2>3. QED BY <2>1, <2>2, <1>n DEF Kept
<1>s. ASSUME Others, UNCHANGED stage, worker'[c].pc \in AtTurn \cup {"park"} =>
               worker[c].pc \in AtTurn \/ worker'[c].pc = "park"
      PROVE  RowStays
  BY <1>s DEF RowStays, Others, AtTurn
<1>m. UNCHANGED meta => MetaOK
  BY <1>w DEF MetaOK
<1>1. CASE Claim(c)
  <2>1. Others /\ WorkerStays(c) /\ NoneTaken
    BY <1>1, <1>u DEF Claim
  <2>2. worker'[c].pc \in {"claimed", "conflict"} /\ UNCHANGED <<meta, gate>>
    BY <1>1, <1>g DEF Claim
  <2>3. stage' = stage \/ stage'.cb = c
    BY <1>1, <1>w DEF Claim, StageRows
  <2>4. RowStays
    BY <2>1, <2>2, <2>3 DEF RowStays, Others, AtTurn
  <2>5. QED BY <2>1, <2>2, <2>4, <1>k, <1>m, <1>q, OneWorkerMoves DEF Others, MetaOK
<1>2. CASE LoadGate(c)
  <2>1. UNCHANGED <<stage, gate>> /\ worker[c].pc = "claimed"
    BY <1>2 DEF LoadGate
  <2>2. MetaOK
    BY <1>2, <1>m, <1>w DEF LoadGate, MetaOK, MetaRows
  <2>3. Others /\ WorkerStays(c) /\ NoneTaken /\ worker'[c].pc \in {"start", "report", "fail"}
    <3>1. CASE Return(c, "retired") \/ Goto(c, "fail")
      BY <3>1, <2>1, <1>u, <1>v, <1>g, <1>r
    <3>2. CASE Goto(c, "start") /\ (worker[c].from # None
                                     => gate[worker[c].from].status = Answered)
      <4>1. Others /\ Kept /\ Quietly /\ worker'[c].pc = "start"
            /\ worker'[c].gate = worker[c].gate
        BY <3>2, <1>g
      <4>2. WorkerStays(c)
        BY <4>1, <3>2, <2>1 DEF WorkerStays, Parks, NotYet, AtTurn, Kept, Same, Quietly
      <4>3. QED BY <4>1, <4>2, <1>n DEF Kept
    <3>3. QED BY <1>2, <3>1, <3>2 DEF LoadGate
  <2>4. RowStays
    BY <2>1, <2>3, <1>s DEF AtTurn
  <2>5. QED BY <2>1, <2>2, <2>3, <2>4, <1>k, <1>q, OneWorkerMoves DEF Others, MetaOK
<1>3. CASE StartTurn(c)
  <2>1. UNCHANGED <<meta, gate>> /\ worker[c].pc = "start"
    BY <1>3 DEF StartTurn
  <2>2. CASE Goto(c, "conflict") /\ UNCHANGED stage
    <3>1. Others /\ WorkerStays(c) /\ NoneTaken
      BY <2>1, <2>2, <1>u
    <3>2. RowStays
      BY <2>2, <3>1, <1>g, <1>s DEF AtTurn
    <3>3. QED BY <2>1, <3>1, <3>2, <1>k, <1>m, <1>q, OneWorkerMoves DEF Others, MetaOK
  <2>3. CASE /\ Owns(c) /\ stage' = [stage EXCEPT !.state = "RUNNING", !.gate = None]
             /\ worker' = [worker EXCEPT ![c].pc = "marked",
                                         ![c].got = @ \cup ({worker[c].from} \ {None})]
    <3> DEFINE g == worker[c].from
    <3>1. Others /\ Same /\ Quietly /\ worker'[c].pc = "marked"
          /\ worker'[c].gate = worker[c].gate
          /\ worker'[c].got = worker[c].got \cup ({g} \ {None})
      BY <2>3, <1>w DEF Others, Same, Quietly, WorkerStates
    <3>2. stage'.cb = stage.cb /\ stage'.gate = None
      BY <2>3, <1>w DEF StageRows
    <3> HIDE DEF g
    <3>3. WorkerStays(c)
      BY <2>1, <3>1 DEF WorkerStays, Parks, NotYet, AtTurn, Same, Quietly
    <3>4. stage.cb = c
      BY <2>3 DEF Owns
    <3>5. RowStays
      BY <3>1, <3>2, <3>4 DEF RowStays, Others, AtTurn
    <3>6. Moves
      BY <2>1, <3>1, <3>3, <3>5, <1>k, <1>m, <1>q, OneWorkerMoves DEF Others, MetaOK
    <3>7. CASE g = None
      BY <3>1, <3>6, <3>7, <1>n
    <3>8. CASE g # None
      <4>1. g \in Gates /\ worker'[c].got = worker[c].got \cup {g}
        BY <3>1, <3>8, <1>w DEF g, WorkerStates
      <4>2. Taken(c, g)
        BY <2>1, <2>3, <3>1, <3>2, <4>1 DEF Taken, Others, g
      <4>3. QED BY <3>6, <4>1, <4>2
    <3>9. QED BY <3>7, <3>8
  <2>4. QED BY <1>3, <2>2, <2>3 DEF StartTurn
<1>4. CASE MarkExecutionRunning(c) \/ ClearPointer(c)
  <2>1. /\ UNCHANGED <<stage, gate>> /\ worker[c].pc \in {"marked", "clear"}
        /\ Goto(c, "turn") \/ Goto(c, "conflict") \/ Goto(c, "failpark")
        /\ worker[c].pc = "clear" => Goto(c, "failpark")
        /\ worker[c].pc = "marked" =>
             Goto(c, "conflict") \/ (Goto(c, "turn") /\ meta' = [meta EXCEPT !.status = "RUNNING"])
    BY <1>4 DEF MarkExecutionRunning, ClearPointer
  <2>2. MetaOK
    BY <1>4, <1>m, <1>w DEF MarkExecutionRunning, ClearPointer, MetaOK, MetaRows, Active
  <2>3. Others /\ WorkerStays(c) /\ NoneTaken
    <3>1. [meta EXCEPT !.status = "RUNNING"].status = "RUNNING"
      BY <1>w DEF MetaRows
    <3>2. QED BY <2>1, <3>1, <1>u
  <2>4. RowStays
    BY <2>1, <2>3, <1>g, <1>s DEF AtTurn
  <2>5. QED BY <2>1, <2>2, <2>3, <2>4, <1>k, <1>q, OneWorkerMoves DEF Others, MetaOK
<1>5. CASE PollAnswered(c)
  <2>1. UNCHANGED <<stage, gate>> /\ worker[c].pc = "grace"
        /\ gate[worker[c].gate].status = Answered
    BY <1>5 DEF PollAnswered
  <2>2. MetaOK
    BY <1>5, <1>m, <1>w DEF PollAnswered, MetaOK, MetaRows
  <2>3. Others /\ WorkerStays(c) /\ NoneTaken
    <3>1. CASE Goto(c, "turn")
      BY <2>1, <3>1, <1>u
    <3>2. CASE Goto(c, "inline") /\ meta'.gate = None
      <4>1. Others /\ Kept /\ Quietly /\ worker'[c].pc = "inline"
            /\ worker'[c].gate = worker[c].gate
        BY <3>2, <1>g
      <4>2. WorkerStays(c)
        BY <2>1, <3>2, <4>1 DEF WorkerStays, Parks, NotYet, AtTurn, Kept, Same, Quietly
      <4>3. QED BY <4>1, <4>2, <1>n DEF Kept
    <3>3. QED BY <1>5, <3>1, <3>2, <1>w DEF PollAnswered, MetaRows
  <2>4. RowStays
    BY <2>1, <2>3, <1>s DEF AtTurn
  <2>5. QED BY <2>1, <2>2, <2>3, <2>4, <1>k, <1>q, OneWorkerMoves DEF Others, MetaOK
<1>6. CASE LeaveGrace(c) \/ StopTurn(c)
  <2>1. /\ UNCHANGED <<meta, stage, gate>> /\ worker[c].pc \in {"grace", "turn"}
        /\ Goto(c, "turn") \/ Goto(c, "exit")
    BY <1>6 DEF LeaveGrace, StopTurn
  <2>2. Others /\ WorkerStays(c) /\ NoneTaken
    BY <2>1, <1>u
  <2>3. RowStays
    BY <2>1, <2>2, <1>s DEF AtTurn
  <2>4. QED BY <2>1, <2>2, <2>3, <1>k, <1>m, <1>q, OneWorkerMoves DEF Others, MetaOK
<1>7. CASE InlineResume(c)
  <2>1. UNCHANGED <<meta, gate>> /\ worker[c].pc = "inline" /\ worker[c].gate \in Gates
    BY <1>7 DEF InlineResume, TypeOK, WorkersOK
  <2>2. CASE Goto(c, "turn") /\ UNCHANGED stage
    <3>1. Others /\ WorkerStays(c) /\ NoneTaken
      BY <2>1, <2>2, <1>u
    <3>2. RowStays
      BY <2>1, <2>2, <3>1, <1>s DEF AtTurn
    <3>3. QED BY <2>1, <3>1, <3>2, <1>k, <1>m, <1>q, OneWorkerMoves DEF Others, MetaOK
  <2>3. CASE /\ Owns(c) /\ stage' = [stage EXCEPT !.state = "RUNNING", !.gate = None]
             /\ worker' = [worker EXCEPT ![c].pc = "turn",
                                         ![c].got = @ \cup {worker[c].gate}]
    <3> DEFINE g == worker[c].gate
    <3>1. Others /\ Same /\ Quietly /\ worker'[c].pc = "turn" /\ worker'[c].gate = g
          /\ worker'[c].got = worker[c].got \cup {g}
      BY <2>3, <1>w DEF Others, Same, Quietly, WorkerStates
    <3>2. stage'.cb = stage.cb /\ stage'.gate = None
      BY <2>3, <1>w DEF StageRows
    <3>3. WorkerStays(c)
      BY <2>1, <3>1 DEF WorkerStays, Parks, NotYet, AtTurn, Same, Quietly
    <3>4. RowStays
      BY <3>1, <3>2 DEF RowStays, Others, AtTurn
    <3>5. Moves
      BY <2>1, <3>1, <3>3, <3>4, <1>k, <1>m, <1>q, OneWorkerMoves DEF Others, MetaOK
    <3>6. Taken(c, g)
      BY <2>1, <2>3, <3>1, <3>2 DEF Taken, Others
    <3>7. QED BY <2>1, <3>5, <3>6
  <2>4. QED BY <1>7, <2>2, <2>3 DEF InlineResume
<1>8. CASE Exit(c)
  <2>1. UNCHANGED <<meta, stage, gate>> /\ worker[c].pc = "exit" /\ worker[c].verdict # "WAITING"
    BY <1>8 DEF Exit, Settles
  <2>2. Others /\ WorkerStays(c) /\ NoneTaken /\ worker'[c].pc \notin AtTurn
    <3>1. CASE Goto(c, "finish") \/ Goto(c, "fail")
      BY <2>1, <3>1, <1>u, <1>g DEF AtTurn
    <3>2. ASSUME NEW g \in {stage.gate, meta.gate} \ {None}, NEW pc \in {"park", "retire", "fail"},
                 worker' = [worker EXCEPT ![c].pc = pc, ![c].gate = g]
          PROVE  Others /\ WorkerStays(c) /\ NoneTaken /\ worker'[c].pc \notin AtTurn
      <4>1. Others /\ Kept /\ Quietly /\ worker'[c].pc = pc /\ worker'[c].gate = g
        BY <3>2, <1>w DEF Others, Kept, Same, Quietly, WorkerStates
      <4>2. /\ worker'[c].pc \in {"park", "retire", "fail"}
            /\ worker'[c].gate \in {stage.gate, meta.gate} \ {None}
        BY <3>2, <4>1
      <4>3. WorkerStays(c)
        BY <2>1, <4>1, <4>2 DEF WorkerStays, Parks, NotYet, AtTurn, Kept, Same, Quietly
      <4>4. QED BY <4>1, <4>2, <4>3, <1>n DEF Kept, AtTurn
    <3>3. QED BY <1>8, <3>1, <3>2 DEF Exit
  <2>3. RowStays
    BY <2>1, <2>2, <1>s
  <2>4. QED BY <2>1, <2>2, <2>3, <1>k, <1>m, <1>q, OneWorkerMoves DEF Others, MetaOK
<1>9. CASE Park(c)
  <2>1. UNCHANGED <<meta, gate>> /\ worker[c].pc = "park"
    BY <1>9 DEF Park
  <2>2. /\ Others /\ WorkerStays(c) /\ NoneTaken
        /\ worker'[c].pc \in {"report", "fail", "conflict"}
    BY <1>9, <2>1, <1>u, <1>v, <1>g, <1>r DEF Park
  <2>3. stage' = stage \/ (stage.cb = c /\ stage'.cb = c)
    BY <1>9, <1>w DEF Park, Owns, StageRows
  <2>4. RowStays
    BY <2>2, <2>3 DEF RowStays, Others, AtTurn
  <2>5. QED BY <2>1, <2>2, <2>4, <1>k, <1>m, <1>q, OneWorkerMoves DEF Others, MetaOK
<1>10. CASE RetireQuestion(c)
  <2>1. UNCHANGED <<meta, stage>> /\ worker[c].pc = "retire" /\ Goto(c, "clear")
    BY <1>10 DEF RetireQuestion
  <2>2. \A g \in Gates : GateStays(g)
    BY <1>10, <1>k, <1>w DEF RetireQuestion, Wake, GateStays, Asked, GateRows, Settled, Answered
  <2>3. Others /\ WorkerStays(c) /\ NoneTaken
    BY <2>1, <1>u
  <2>4. RowStays
    BY <2>1, <2>3, <1>g, <1>s DEF AtTurn
  <2>5. QED BY <2>1, <2>2, <2>3, <2>4, <1>m, <1>q, OneWorkerMoves DEF Others, MetaOK
<1>11. CASE FailStage(c) \/ CompleteStage(c) \/ ClassifyConflict(c)
  <2>1. UNCHANGED <<meta, gate>> /\ worker[c].pc \in {"fail", "failpark", "finish", "conflict"}
        /\ stage'.cb = stage.cb /\ stage'.gate \in {stage.gate, None}
    BY <1>11, <1>w DEF FailStage, CompleteStage, ClassifyConflict, StageRows
  <2>2. Others /\ WorkerStays(c) /\ NoneTaken /\ worker'[c].pc \notin AtTurn \cup {"park"}
    BY <1>11, <2>1, <1>u, <1>v, <1>g, <1>r
    DEF FailStage, CompleteStage, ClassifyConflict, AtTurn
  <2>3. RowStays
    BY <2>1, <2>2 DEF RowStays, Others
  <2>4. QED BY <2>1, <2>2, <2>3, <1>k, <1>m, <1>q, OneWorkerMoves DEF Others, MetaOK
<1>12. CASE Report(c) \/ Crash(c) \/ Timeout(c)
  <2>1. UNCHANGED <<meta, stage, gate>>
    BY <1>12 DEF Report, Crash, Timeout
  <2>2. Others /\ WorkerStays(c) /\ NoneTaken
        /\ worker'[c].pc \in {"gone", worker[c].pc}
    <3>1. CASE Timeout(c)
      <4>1. Others /\ Kept /\ worker'[c].pc = worker[c].pc /\ worker'[c].out = worker[c].out
            /\ worker'[c].gate = worker[c].gate /\ worker'[c].verdict = "FAILED"
            /\ worker[c].verdict = "open"
        BY <3>1, <1>w DEF Timeout, Others, Kept, Same, WorkerStates
      <4>2. WorkerStays(c)
        BY <4>1 DEF WorkerStays, Parks, AtTurn, Kept, Same
      <4>3. QED BY <4>1, <4>2, <1>n DEF Kept
    <3>2. CASE Crash(c)
      <4>1. Others /\ worker'[c] = Dead(worker[c])
        BY <3>2, <1>w DEF Crash, Others
      <4>2. WorkerStays(c)
        BY <4>1, <1>d DEF WorkerStays, Parks, NotYet, AtTurn
      <4>3. QED BY <4>1, <4>2, <1>d, <1>n
    <3>3. CASE Report(c)
      <4> DEFINE v == IF worker[c].verdict = "open" THEN worker[c].out ELSE worker[c].verdict
                 w == [Dead(worker[c]) EXCEPT !.verdict = v]
      <4>1. Others /\ worker'[c] = w /\ worker[c].pc = "report"
        BY <3>3, <1>w DEF Report, Others
      <4>2. /\ w.pc = "gone" /\ w.run = worker[c].run /\ w.from = None
            /\ w.gate = worker[c].gate /\ w.got = worker[c].got /\ w.verdict = v
        BY <1>d, <1>w DEF Dead, WorkerStates
      <4> HIDE DEF w
      <4>3. WorkerStays(c)
        BY <4>1, <4>2 DEF WorkerStays, Parks, NotYet, AtTurn
      <4>4. QED BY <4>1, <4>2, <4>3, <1>n
    <3>4. QED BY <1>12, <3>1, <3>2, <3>3
  <2>3. RowStays
    BY <2>1, <2>2, <1>s DEF AtTurn
  <2>4. QED BY <2>1, <2>2, <2>3, <1>k, <1>m, <1>q, OneWorkerMoves DEF Others, MetaOK
<1>13. QED
  BY <1>1, <1>2, <1>3, <1>4, <1>5, <1>6, <1>7, <1>8, <1>9, <1>10, <1>11, <1>12 DEF Worker

\* A step that moves no worker but may end some.
LEMMA DeathsMove ==
  ASSUME TypeOK, stage'.cb = stage.cb, stage'.gate \in {stage.gate, None},
         \A c \in Attempts :
           worker'[c] = worker[c] \/ (Live(c) /\ worker'[c] = Dead(worker[c]))
  PROVE  RowStays /\ NoneTaken /\ \A c \in Attempts : WorkerStays(c)
<1>1. ASSUME NEW c \in Attempts
      PROVE  /\ WorkerStays(c) /\ worker'[c].got = worker[c].got
             /\ worker'[c].pc \in {worker[c].pc, "gone"}
  <2>1. CASE worker'[c] = worker[c]
    BY <2>1 DEF WorkerStays, Parks
  <2>2. CASE worker'[c] = Dead(worker[c])
    <3>1. worker[c] \in WorkerStates
      BY DEF TypeOK, WorkersOK
    <3>2. /\ Dead(worker[c]).pc = "gone" /\ Dead(worker[c]).run = worker[c].run
          /\ Dead(worker[c]).from = None /\ Dead(worker[c]).gate = worker[c].gate
          /\ Dead(worker[c]).got = worker[c].got
          /\ Dead(worker[c]).verdict = worker[c].verdict
      BY <3>1 DEF WorkerStates, Dead
    <3>3. QED BY <2>2, <3>2 DEF WorkerStays, Parks, NotYet, AtTurn
  <2>3. QED BY <2>1, <2>2
<1>2. QED BY <1>1 DEF RowStays, NoneTaken, AtTurn

LEMMA RunStepMoves ==
  ASSUME TypeOK, MetaShows, NEW r \in Runs, Orchestrator(r) \/ ReleaseTimer(r) \/ DurableEnds(r),
         ~Await(r), \A c \in Attempts : ~Dispatch(r, c)
  PROVE  Moves /\ NoneTaken
<1>m. /\ run \in [Runs -> RunStates] /\ run[r] \in RunStates /\ meta \in MetaRows
      /\ stage \in StageRows /\ gate \in [Gates -> GateRows]
      /\ meta.gate # None => meta.status \in Active
  BY DEF TypeOK, RunsOK, MetaShows
<1>s. ASSUME NEW pc, Step(r, pc)
      PROVE  /\ run'[r].pc = pc /\ \A s \in Runs : s # r => run'[s] = run[s]
             /\ pc \notin {"done", "dead"} => run'[r].from = run[r].from
  BY <1>s, <1>m DEF Step, RunStates
<1>t. ASSUME NEW pc, Step(r, pc), pc \notin Before \cup {"await"} \/ (pc \in {"init", "mark"} /\ run[r].pc \in Before),
             pc \in Holding => run[r].pc \in Holding,
             pc = "dispatch" => run[r].pc \in Before \cup Holding /\ meta'.gate = None
      PROVE  \A s \in Runs : RunStays(s)
  BY <1>t, <1>s DEF RunStays, Before, Holding
<1>w. UNCHANGED <<stage, worker>> => RowStays /\ NoneTaken /\ \A c \in Attempts : WorkerStays(c)
  BY DeathsMove
<1>k. UNCHANGED gate => \A g \in Gates : GateStays(g)
  BY DEF GateStays, Asked
<1> DEFINE MetaOK == meta'.gate # None => meta'.gate = meta.gate /\ meta'.status \in Active
<1>n. UNCHANGED meta => MetaOK
  BY <1>m
<1>1. CASE Mint(r) \/ InitWorkspace(r)
  <2>1. UNCHANGED <<stage, gate, worker>> /\ MetaOK
    BY <1>1, <1>m DEF Mint, InitWorkspace, MetaRows
  <2>2. \A s \in Runs : RunStays(s)
    BY <1>1, <1>t DEF Mint, InitWorkspace, Before, Holding
  <2>3. QED BY <2>1, <2>2, <1>w, <1>k DEF Moves
<1>2. CASE MarkRunning(r)
  <2>1. UNCHANGED <<stage, gate, worker>> /\ MetaOK
    BY <1>2, <1>m DEF MarkRunning, MetaRows, Active
  <2>2. run[r].pc = "mark" /\ (Step(r, "failing") \/ (Step(r, "dispatch") /\ meta'.gate = None))
    BY <1>2, <1>m DEF MarkRunning, MetaRows, Active
  <2>3. \A s \in Runs : RunStays(s)
    BY <2>2, <1>t DEF Before, Holding
  <2>4. QED BY <2>1, <2>3, <1>w, <1>k DEF Moves
<1>3. CASE DeadlineTooClose(r) \/ BindCallback(r)
  <2>1. UNCHANGED <<meta, stage, worker>> /\ run[r].pc = "bind"
        /\ (Step(r, "failing") \/ Step(r, "reread"))
    BY <1>3 DEF DeadlineTooClose, BindCallback
  <2>2. \A g \in Gates : GateStays(g)
    BY <1>3, <1>k, <1>m DEF DeadlineTooClose, BindCallback, Wake, GateStays, Asked, GateRows,
       Settled, Answered
  <2>3. \A s \in Runs : RunStays(s)
    BY <2>1, <1>t DEF Before, Holding
  <2>4. QED BY <2>1, <2>2, <2>3, <1>w, <1>n DEF Moves
<1>4. CASE RereadGate(r) \/ Woken(r) \/ AfterGate(r) \/ ReleaseTimer(r) \/ DurableEnds(r)
  <2>1. UNCHANGED <<meta, stage, gate, worker>>
    BY <1>4 DEF RereadGate, Woken, AfterGate, ReleaseTimer, DurableEnds
  <2>2. PICK pc \in {"after", "wait", "release", "unpark", "done", "dead"} :
          Step(r, pc) /\ (pc \in Holding => run[r].pc \in Holding)
    BY <1>4 DEF RereadGate, Woken, AfterGate, ReleaseTimer, DurableEnds, Holding
  <2>3. \A s \in Runs : RunStays(s)
    BY <2>2, <1>t DEF Before
  <2>4. QED BY <2>1, <2>3, <1>w, <1>k, <1>n DEF Moves
<1>5. CASE ReleaseSession(r)
  <2>1. /\ UNCHANGED <<meta, stage, gate>> /\ run[r].pc = "release" /\ Step(r, "parked")
        /\ \A c \in Attempts :
              worker'[c] = worker[c] \/ (Live(c) /\ worker'[c] = Dead(worker[c]))
    BY <1>5, StopSessionMoves DEF ReleaseSession
  <2>2. \A s \in Runs : RunStays(s)
    BY <2>1, <1>t DEF Before, Holding
  <2>3. QED BY <2>1, <2>2, <1>k, <1>n, DeathsMove DEF Moves
<1>6. CASE Unpark(r)
  <2>1. UNCHANGED <<stage, gate, worker>> /\ MetaOK
    BY <1>6, <1>n, <1>m DEF Unpark, MetaRows
  <2>2. run[r].pc = "unpark" /\ (Step(r, "done") \/ (Step(r, "dispatch") /\ meta'.gate = None))
    BY <1>6, <1>m DEF Unpark, MetaRows
  <2>3. \A s \in Runs : RunStays(s)
    BY <2>2, <1>t DEF Before, Holding
  <2>4. QED BY <2>1, <2>3, <1>w, <1>k DEF Moves
<1>7. CASE Reconcile(r)
  <2>1. /\ UNCHANGED <<meta, gate, worker>> /\ (Step(r, "done") \/ Step(r, "failing"))
        /\ stage'.cb = stage.cb /\ stage'.gate = stage.gate
    BY <1>7, <1>m DEF Reconcile, StageRows
  <2>2. \A s \in Runs : RunStays(s)
    BY <2>1, <1>t DEF Before, Holding
  <2>3. QED BY <2>1, <2>2, <1>k, <1>n, DeathsMove DEF Moves
<1>8. CASE FinishSucceeded(r) \/ Fail(r)
  <2>1. UNCHANGED <<stage, gate, worker>> /\ (Step(r, "done") \/ Step(r, "failing"))
    BY <1>8 DEF FinishSucceeded, Fail
  <2>2. MetaOK
    BY <1>8, <1>n, <1>m DEF FinishSucceeded, Fail, MetaRows
  <2>3. \A s \in Runs : RunStays(s)
    BY <2>1, <1>t DEF Before, Holding
  <2>4. QED BY <2>1, <2>2, <2>3, <1>w, <1>k DEF Moves
<1>9. QED
  BY <1>1, <1>2, <1>3, <1>4, <1>5, <1>6, <1>7, <1>8 DEF Orchestrator

\* A request or a sweep leaves the questions where they are: it may answer or
\* supersede one, clear META's or the row's pointer, and end workers.
LEMMA RequestStepMoves ==
  ASSUME TypeOK, RequestsInTurn, MetaShows, NEW q \in Requests,
         Begin(q) \/ Handle(q) \/ RequestDies(q)
  PROVE  Moves /\ NoneTaken
<1>m. /\ run \in [Runs -> RunStates] /\ meta \in MetaRows /\ req[q] \in RequestStates
      /\ stage \in StageRows /\ gate \in [Gates -> GateRows] /\ q \in Requests \cup Watchdogs
      /\ meta.gate # None => meta.status \in Active
  BY DEF TypeOK, RunsOK, RequestsOK, MetaShows
<1> DEFINE MetaOK == meta'.gate # None => meta'.gate = meta.gate /\ meta'.status \in Active
           RunsOn == \A r \in Runs : run'[r] = run[r]
                       \/ (run[r].pc \in Before /\ run'[r].pc \in Before \ {"init"}
                           /\ run'[r].from = run[r].from)
<1>n. UNCHANGED meta \/ meta' = Repaired(q) => MetaOK
  BY <1>m DEF Repaired, MetaRows
<1>k. UNCHANGED gate => \A g \in Gates : GateStays(g)
  BY DEF GateStays, Asked
<1>d. stage'.cb = stage.cb /\ \A c \in Attempts :
        worker'[c] = worker[c] \/ (Live(c) /\ worker'[c] = Dead(worker[c]))
  BY RequestIsQuiet DEF Quiet
<1>1. RunsOn
  <2>1. ASSUME NEW r \in Runs, run[r].pc = "unused", run' = [run EXCEPT ![r].pc = "named"]
        PROVE  RunsOn
    BY <2>1, <1>m DEF Before, RunStates
  <2>2. ASSUME NEW r \in Runs, Start(q, r) \/ RetireRun(q, r) PROVE RunsOn
    BY <2>1, <2>2 DEF Start, RetireRun, FreshRun
  <2>3. CASE Invoke(q)
    BY <2>3, <1>m DEF Invoke, Before, RequestsInTurn, NamedOnce, Launches, Launching,
       TypeOK, RequestsOK, RunStates
  <2>4. CASE UNCHANGED run
    BY <2>4
  <2>5. (\E r \in Runs : Start(q, r) \/ RetireRun(q, r)) \/ Invoke(q) \/ UNCHANGED run
    BY DEF Begin, Handle, RequestDies, ReadForAnswer, ReadForResume, ReadForStart,
       ReadForCancel, ReadForRewind, Answer, SendAnswer, MarkConsumed, Resend, Consume,
       ClearMarker, StampArn, Rollback, ReadRecords, Supersede, StopSessions, Cancel,
       ResetStage, Relaunch
  <2>6. QED BY <2>2, <2>3, <2>4, <2>5
<1>2. \A r \in Runs : RunStays(r)
  BY <1>1 DEF RunStays, Before, Holding
<1>3. stage'.gate \in {stage.gate, None}
  BY <1>m DEF Begin, Handle, RequestDies, ReadForAnswer, ReadForResume, ReadForStart,
     ReadForCancel, ReadForRewind, Answer, SendAnswer, MarkConsumed, Resend, Consume,
     ClearMarker, Start, Invoke, StampArn, Rollback, RetireRun, ReadRecords, Supersede,
     StopSessions, Cancel, ResetStage, Relaunch, StageRows
<1>4. \A g \in Gates : GateStays(g)
  <2>w. ASSUME NEW g \in Gates, NEW status \in Settled, NEW wake, gate[g].status = "pending",
               Wake(g, status, wake)
        PROVE  \A h \in Gates : GateStays(h)
    BY <2>w, <1>m DEF Wake, GateStays, Asked, GateRows, Settled, Answered
  <2>d. ASSUME NEW g \in Gates, Deliver(g) PROVE \A h \in Gates : GateStays(h)
    BY <2>d, <1>m DEF Deliver, GateStays, Asked, GateRows
  <2>1. CASE Answer(q) \/ \E g \in Gates : Supersede(q, g)
    <3>1. req[q].pc = "answer" => req[q].gate \in Gates
      BY <1>m DEF TypeOK, RequestsOK
    <3>2. QED BY <2>1, <2>w, <3>1, <1>k DEF Answer, Supersede, Settled
  <2>2. CASE SendAnswer(q) \/ MarkConsumed(q) \/ Consume(q) \/ \E g \in Gates : Resend(q, g)
    <3>1. req[q].pc = "send" => req[q].gate \in Gates
      BY <1>m DEF TypeOK, RequestsOK
    <3>2. CASE SendAnswer(q) \/ \E g \in Gates : Resend(q, g)
      BY <2>d, <3>1, <3>2, <1>k DEF SendAnswer, Resend
    <3>3. CASE MarkConsumed(q) \/ Consume(q)
      BY <3>3, <1>m DEF MarkConsumed, Consume, GateStays, Asked, GateRows
    <3>4. QED BY <2>2, <3>2, <3>3
  <2>3. CASE UNCHANGED gate
    BY <2>3, <1>k
  <2>4. \/ UNCHANGED gate \/ Answer(q) \/ (\E g \in Gates : Supersede(q, g) \/ Resend(q, g))
        \/ SendAnswer(q) \/ MarkConsumed(q) \/ Consume(q)
    BY DEF Begin, Handle, RequestDies, ReadForAnswer, ReadForResume, ReadForStart,
       ReadForCancel, ReadForRewind, ClearMarker, Start, Invoke, StampArn, Rollback,
       RetireRun, ReadRecords, StopSessions, Cancel, ResetStage, Relaunch
  <2>5. QED BY <2>1, <2>2, <2>3, <2>4
<1>5. MetaOK
  <2>1. CASE SendAnswer(q) \/ \E g \in Gates : Resend(q, g)
    BY <2>1, <1>n, <1>m DEF SendAnswer, Resend, MetaRows
  <2>2. CASE \/ \E r \in Runs : Start(q, r) \/ RetireRun(q, r)
             \/ StampArn(q) \/ ClearMarker(q)
    <3>1. req[q].pc = "start" => req[q].status \notin Active
      BY <1>m DEF RequestsInTurn, StartSaw, Active
    <3>2. CASE \E r \in Runs : Start(q, r)
      BY <3>1, <3>2, <1>n, <1>m DEF Start, SameStatus, MetaRows
    <3>3. CASE StampArn(q) \/ ClearMarker(q) \/ \E r \in Runs : RetireRun(q, r)
      BY <3>3, <1>n, <1>m DEF StampArn, ClearMarker, RetireRun, MetaRows
    <3>4. QED BY <2>2, <3>2, <3>3
  <2>3. CASE Rollback(q) \/ Cancel(q) \/ Relaunch(q)
    BY <2>3, <1>n, <1>m DEF Rollback, Cancel, Relaunch, MetaRows, Active
  <2>4. \/ UNCHANGED meta \/ SendAnswer(q) \/ StampArn(q) \/ ClearMarker(q)
        \/ (\E g \in Gates : Resend(q, g)) \/ (\E r \in Runs : Start(q, r) \/ RetireRun(q, r))
        \/ Rollback(q) \/ Cancel(q) \/ Relaunch(q)
    BY DEF Begin, Handle, RequestDies, ReadForAnswer, ReadForResume, ReadForStart,
       ReadForCancel, ReadForRewind, Answer, MarkConsumed, Consume, Invoke, ReadRecords,
       Supersede, StopSessions, ResetStage
  <2>5. QED BY <2>1, <2>2, <2>3, <2>4, <1>n
<1>6. QED BY <1>d, <1>2, <1>3, <1>4, <1>5, DeathsMove DEF Moves

LEMMA WatchdogStepMoves ==
  ASSUME TypeOK, MetaShows, NEW w \in Watchdogs, Watchdog(w)
  PROVE  Moves /\ NoneTaken
<1>1. UNCHANGED <<stage, gate, run, worker>> /\ (UNCHANGED meta \/ meta' = Repaired(w))
  BY DEF Watchdog, ListActive, Sweep
<1>2. meta'.gate # None => meta'.gate = meta.gate /\ meta'.status \in Active
  BY <1>1 DEF Repaired, TypeOK, MetaRows, MetaShows
<1>3. (\A g \in Gates : GateStays(g)) /\ (\A r \in Runs : RunStays(r))
  BY <1>1 DEF GateStays, RunStays, Asked
<1>4. QED BY <1>1, <1>2, <1>3, DeathsMove DEF Moves

-----------------------------------------------------------------------------
(* The questions stay in order.                                            *)

LEMMA InitQuestions == Init => QuestionsInOrder
BY NoneAssumption
DEF Init, QuestionsInOrder, Askers, Asked, AnswersGiven, MetaShows, RowShows, Unspent, Parks,
    LegsResume, Resumes, ResumedOnce, Holding, Before, UnusedWorker, AtTurn, Answered

\* A run that gets the token has no attempt yet.
LEMMA AttemptKeepsToken ==
  ASSUME InTurn, Next, NEW c \in Attempts, worker[c].run \in Runs,
         worker'[c].run = worker[c].run, HoldsToken(worker[c].run)'
  PROVE  HoldsToken(worker[c].run)
<1>1. PICK x \in Runs : x = worker[c].run
  OBVIOUS
<1>2. HoldsToken(x)' /\ run[x].pc \notin Before
  BY <1>1 DEF HoldsToken, InTurn, LegsInTurn, OneAfterTheOther
<1>3. HoldsToken(x)
  BY <1>2, TokenIsMinted DEF InTurn, Before
<1>4. QED BY <1>1, <1>3

\* The attempt that takes an answer has asked the question itself, and polls it, or is
\* the leg that resumes from it.
LEMMA TakersMayTake ==
  ASSUME InTurn, QuestionsInOrder, NEW c \in Attempts, NEW g \in Gates, Taken(c, g)
  PROVE  /\ gate[g].status = Answered /\ gate[g].run = worker[c].run
         /\ worker[c].verdict # "WAITING" /\ worker[c].run \in Runs
         /\ \/ worker[c].pc = "start" /\ Resumes(c, g)
            \/ worker[c].pc = "inline" /\ Unspent(c, g) /\ meta.gate = None
<1>1. /\ worker[c].verdict # "WAITING" /\ worker[c].run \in Runs
      /\ HoldsToken(worker[c].run) /\ g # None
  BY NoneAssumption
  DEF Taken, InTurn, LegsInTurn, Settles, TypeOK, WorkersOK, Live, LivePcs, Owns, OwnsRun
<1>2. CASE worker[c].pc = "start" /\ worker[c].from = g
  <2>1. Resumes(c, g)
    BY <1>1, <1>2 DEF QuestionsInOrder, LegsResume, Resumes
  <2>2. gate[g].run = worker[c].run
    BY <2>1 DEF QuestionsInOrder, LegsResume, Resumable
  <2>3. QED BY <1>1, <1>2, <2>1, <2>2 DEF QuestionsInOrder, AnswersGiven
<1>3. CASE worker[c].pc = "inline" /\ worker[c].gate = g
  <2>1. Unspent(c, g) /\ gate[g].status = Answered
    BY <1>3 DEF QuestionsInOrder, RowShows, AnswersGiven
  <2>2. gate[g].run = worker[c].run
    BY <2>1 DEF QuestionsInOrder, Askers, Asked, Unspent, Answered
  <2>3. meta.gate = None
    BY <1>1, <1>3 DEF QuestionsInOrder, MetaShows
  <2>4. QED BY <1>1, <1>3, <2>1, <2>2, <2>3
<1>4. QED BY <1>2, <1>3 DEF Taken

\* No step but a dispatch gives a question another leg, and none takes the answer out
\* of reach of the run that may resume from it.
LEMMA ResumesStay ==
  ASSUME InTurn, QuestionsInOrder, Moves,
         NoneTaken \/ \E c \in Attempts, g \in Gates : Taken(c, g)
  PROVE  /\ \A d \in Attempts, h \in Gates : Resumes(d, h)' => Resumes(d, h)
         /\ \A r \in Runs, h \in Gates : Resumable(r, h) => Resumable(r, h)'
<1>g. \A g \in Gates : /\ gate'[g].cb = gate[g].cb /\ gate'[g].run = gate[g].run
                       /\ g # None /\ (gate[g].status # "none" => gate'[g].status # "none")
  BY NoneAssumption DEF Moves, GateStays, Asked
<1>w. \A d \in Attempts : /\ worker'[d].from \in {worker[d].from, None}
                          /\ worker[d].verdict = "WAITING" => worker'[d].verdict = "WAITING"
  BY DEF Moves, WorkerStays
<1>c. \A h \in Gates : gate[h].status # "none" => gate[h].cb \in Attempts
  BY DEF QuestionsInOrder, Askers, Asked
<1>1. CASE NoneTaken
  <2>1. ASSUME NEW d \in Attempts, NEW h \in Gates, Resumes(d, h)' PROVE Resumes(d, h)
    BY <1>1, <2>1, <1>g, <1>w DEF Resumes, NoneTaken
  <2>2. ASSUME NEW r \in Runs, NEW h \in Gates, Resumable(r, h) PROVE Resumable(r, h)'
    BY <1>1, <2>2, <1>g, <1>w, <1>c DEF Resumable, NoneTaken, Asked
  <2>3. QED BY <2>1, <2>2
<1>2. ASSUME NEW c \in Attempts, NEW g \in Gates, Taken(c, g)
      PROVE  /\ \A d \in Attempts, h \in Gates : Resumes(d, h)' => Resumes(d, h)
             /\ \A r \in Runs, h \in Gates : Resumable(r, h) => Resumable(r, h)'
  <2>t. /\ worker[c].verdict # "WAITING" /\ (Resumes(c, g) \/ gate[g].cb = c)
        /\ worker'[c].got = worker[c].got \cup {g}
        /\ \A d \in Attempts : d # c => worker'[d].got = worker[d].got
    BY <1>2, TakersMayTake DEF Taken, Unspent
  <2>1. ASSUME NEW d \in Attempts, NEW h \in Gates, Resumes(d, h)' PROVE Resumes(d, h)
    BY <2>t, <2>1, <1>g, <1>w DEF Resumes
  <2>2. ASSUME NEW r \in Runs, NEW h \in Gates, Resumable(r, h) PROVE Resumable(r, h)'
    <3>1. gate[h].cb \in Attempts /\ gate[h].cb # c
      BY <2>t, <2>2, <1>c DEF Resumable, Asked
    <3>2. QED BY <2>t, <2>2, <3>1, <1>g, <1>w DEF Resumable, Asked
  <2>3. QED BY <2>1, <2>2
<1>3. QED BY <1>1, <1>2

LEMMA MovesKeepQuestions ==
  ASSUME InTurn, TypeOK', Settles', Next, QuestionsInOrder, Moves,
         NoneTaken \/ \E c \in Attempts, g \in Gates : Taken(c, g)
  PROVE  QuestionsInOrder'
<1>g. \A g \in Gates : /\ gate'[g].cb = gate[g].cb /\ gate'[g].run = gate[g].run
                       /\ (gate[g].status = "none" <=> gate'[g].status = "none")
                       /\ g # None
                       /\ gate[g].status = Answered => gate'[g].status = Answered
  BY NoneAssumption DEF Moves, GateStays, Asked
<1>w. ASSUME NEW c \in Attempts PROVE WorkerStays(c)
  BY DEF Moves
<1>m. meta'.gate # None => meta'.gate = meta.gate /\ meta'.status \in Active
  BY DEF Moves
<1>r. ASSUME NEW r \in Runs PROVE RunStays(r)
  BY DEF Moves
<1>t. meta \in MetaRows /\ worker \in [Attempts -> WorkerStates] /\ worker' \in [Attempts -> WorkerStates]
      /\ stage \in StageRows
  BY DEF InTurn, TypeOK, WorkersOK
<1>k. ASSUME NEW c \in Attempts, worker[c].run \in Runs, HoldsToken(worker[c].run)'
      PROVE  HoldsToken(worker[c].run)
  BY <1>k, <1>w, AttemptKeepsToken DEF WorkerStays
<1>u. ASSUME NEW c \in Attempts, NEW g \in Gates, Unspent(c, g)
      PROVE  Unspent(c, g)' \/ Taken(c, g)
  <2>1. gate'[g].cb = c
    BY <1>u, <1>g DEF Unspent
  <2>2. CASE NoneTaken
    BY <1>u, <2>1, <2>2 DEF Unspent, NoneTaken
  <2>3. ASSUME NEW d \in Attempts, NEW h \in Gates, Taken(d, h)
        PROVE  Unspent(c, g)' \/ Taken(c, g)
    <3>1. (c = d /\ g = h) \/ g \notin worker'[c].got
      BY <1>u, <2>3 DEF Unspent, Taken
    <3>2. QED BY <2>1, <2>3, <3>1 DEF Unspent
  <2>4. QED BY <2>2, <2>3
<1>1. Askers'
  <2>1. \A c \in Attempts : /\ worker'[c].run = worker[c].run
                            /\ worker'[c].pc \in NotYet => worker[c].pc \in NotYet
    BY <1>w DEF WorkerStays
  <2>2. QED BY <2>1, <1>g DEF QuestionsInOrder, Askers, Asked
<1>2. AnswersGiven'
  <2> SUFFICES ASSUME NEW c \in Attempts
               PROVE  /\ \A g \in worker'[c].got : /\ gate'[g].status = Answered
                                                   /\ gate'[g].run = worker'[c].run
                      /\ worker'[c].pc = "start" /\ worker'[c].from # None
                           => gate'[worker'[c].from].status = Answered
                      /\ worker'[c].pc = "inline" => gate'[worker'[c].gate].status = Answered
    BY DEF AnswersGiven, Answered
  <2>1. ASSUME NEW g \in worker'[c].got
        PROVE  gate'[g].status = Answered /\ gate'[g].run = worker'[c].run
    <3>1. g \in Gates /\ worker'[c].run = worker[c].run
      BY <2>1, <1>t, <1>w DEF WorkerStates, WorkerStays
    <3>2. CASE g \in worker[c].got
      BY <3>1, <3>2, <1>g DEF QuestionsInOrder, AnswersGiven
    <3>3. CASE g \notin worker[c].got
      <4>1. Taken(c, g)
        BY <2>1, <3>1, <3>3 DEF NoneTaken, Taken
      <4>2. QED BY <3>1, <4>1, <1>g, TakersMayTake
    <3>4. QED BY <3>2, <3>3
  <2>2. ASSUME worker'[c].pc = "start", worker'[c].from # None
        PROVE  gate'[worker'[c].from].status = Answered
    <3>1. worker'[c].from = worker[c].from /\ worker[c].from \in Gates
      BY <2>2, <1>w, <1>t DEF WorkerStays, WorkerStates
    <3>2. gate[worker[c].from].status = Answered
      BY <2>2, <3>1, <1>w, NoneAssumption DEF WorkerStays, QuestionsInOrder, AnswersGiven
    <3>3. QED BY <3>1, <3>2, <1>g
  <2>3. ASSUME worker'[c].pc = "inline" PROVE gate'[worker'[c].gate].status = Answered
    <3>1. worker'[c].gate = worker[c].gate /\ worker'[c].gate \in Gates
      BY <2>3, <1>w DEF WorkerStays, TypeOK, WorkersOK
    <3>2. gate[worker[c].gate].status = Answered
      BY <2>3, <1>w DEF WorkerStays, QuestionsInOrder, AnswersGiven
    <3>3. QED BY <3>1, <3>2, <1>g
  <2>4. QED BY <2>1, <2>2, <2>3
<1>3. MetaShows'
  <2>1. meta'.gate # None => meta'.status \in Active /\ Asked(meta.gate)'
    <3>1. meta.gate # None => meta.gate \in Gates
      BY <1>t DEF MetaRows
    <3>2. meta.gate # None => gate[meta.gate].status # "none"
      BY DEF QuestionsInOrder, MetaShows, Asked
    <3>3. meta'.gate # None => gate'[meta'.gate].status # "none"
      BY <3>1, <3>2, <1>m, <1>g
    <3>4. QED BY <3>1, <3>3, <1>m DEF Asked
  <2>2. ASSUME NEW r \in Runs, HoldsToken(r)', run'[r].pc = "dispatch" PROVE meta'.gate = None
    <3>1. CASE run[r].pc = "dispatch"
      <4>1. HoldsToken(r)
        BY <2>2, <3>1, TokenIsMinted DEF InTurn
      <4>2. QED BY <3>1, <4>1, <1>m DEF QuestionsInOrder, MetaShows
    <3>2. QED BY <2>2, <3>1, <1>r DEF RunStays
  <2>3. ASSUME NEW c \in Attempts, worker'[c].run \in Runs, HoldsToken(worker[c].run)',
               meta'.gate # None
        PROVE  /\ worker'[c].verdict # "WAITING" => Unspent(c, meta.gate)'
               /\ worker'[c].pc # "inline"
    <3>1. HoldsToken(worker[c].run) /\ worker[c].run \in Runs /\ meta.gate # None
      BY <2>3, <1>k, <1>w, <1>m DEF WorkerStays
    <3>2. worker[c].pc # "inline" /\ worker'[c].pc # "inline"
      BY <2>3, <3>1, <1>w DEF QuestionsInOrder, MetaShows, WorkerStays
    <3>3. ASSUME worker'[c].verdict # "WAITING" PROVE Unspent(c, meta.gate)'
      <4>1. Unspent(c, meta.gate) /\ meta.gate \in Gates
        BY <3>1, <3>3, <1>w, <1>t DEF WorkerStays, QuestionsInOrder, MetaShows, MetaRows
      <4>2. PICK g \in Gates : g = meta.gate /\ g = meta'.gate
        BY <2>3, <4>1, <1>m
      <4>3. Unspent(c, g)
        BY <4>1, <4>2
      <4>4. ~Taken(c, g)
        BY <3>1, <3>2, <4>2, <4>3, TakersMayTake DEF Unspent, Resumes
      <4>5. QED BY <4>2, <4>3, <4>4, <1>u DEF Unspent
    <3>4. QED BY <3>2, <3>3
  <2>4. QED BY <2>1, <2>2, <2>3 DEF MetaShows
<1>4. RowShows'
  <2> SUFFICES ASSUME NEW c \in Attempts
               PROVE  /\ stage'.cb = c /\ worker'[c].pc \in AtTurn /\ stage'.gate # None
                           => Unspent(c, stage.gate)'
                      /\ stage'.cb = c /\ worker'[c].pc = "park" /\ HoldsToken(worker[c].run)'
                           => Unspent(c, worker[c].gate)'
                      /\ worker'[c].pc \in {"grace", "inline"} \/ Parks(c)'
                           => Unspent(c, worker[c].gate)'
    BY DEF RowShows
  <2>s. ASSUME NEW g \in Gates, Unspent(c, g), stage'.gate # None \/ worker'[c].pc \notin {"marked", "turn"}
        PROVE  Unspent(c, g)'
    BY <2>s, <1>u DEF Taken
  <2>1. ASSUME stage'.cb = c, worker'[c].pc \in AtTurn, stage'.gate # None
        PROVE  Unspent(c, stage.gate)'
    <3>1. stage.cb = c /\ worker[c].pc \in AtTurn /\ stage'.gate = stage.gate
      BY <2>1 DEF Moves, RowStays
    <3>2. PICK g \in Gates : g = stage.gate /\ g = stage'.gate
      BY <2>1, <3>1, <1>t DEF StageRows
    <3>3. Unspent(c, g)
      BY <2>1, <3>1, <3>2 DEF QuestionsInOrder, RowShows
    <3>4. QED BY <2>1, <2>s, <3>2, <3>3 DEF Unspent
  <2>2. ASSUME stage'.cb = c, worker'[c].pc = "park", HoldsToken(worker[c].run)'
        PROVE  Unspent(c, worker[c].gate)'
    <3>1. worker'[c].gate \in Gates /\ worker[c].pc \in {"park", "exit"} /\ stage.cb = c
      BY <2>2, <1>w DEF WorkerStays, TypeOK, WorkersOK, Moves, RowStays
    <3>2. worker[c].run \in Runs /\ worker[c].verdict # "WAITING"
      BY <3>1 DEF InTurn, TypeOK, WorkersOK, Live, LivePcs, LegsInTurn, Settles
    <3>3. HoldsToken(worker[c].run)
      BY <2>2, <3>2, <1>k
    <3>4. PICK g \in Gates : g = worker'[c].gate
      BY <3>1
    <3>5. Unspent(c, g)
      <4>1. CASE worker[c].pc = "park" /\ worker'[c].gate = worker[c].gate
        BY <3>1, <3>3, <3>4, <4>1 DEF QuestionsInOrder, RowShows
      <4>2. CASE worker[c].pc = "exit" /\ g = stage.gate /\ g # None
        BY <3>1, <4>2 DEF QuestionsInOrder, RowShows, AtTurn
      <4>3. CASE g = meta.gate /\ g # None
        BY <3>2, <3>3, <4>3 DEF QuestionsInOrder, MetaShows
      <4>4. QED BY <2>2, <3>4, <4>1, <4>2, <4>3, <1>w DEF WorkerStays
    <3>6. QED BY <2>2, <2>s, <3>4, <3>5 DEF Unspent
  <2>3. ASSUME worker'[c].pc \in {"grace", "inline"} \/ Parks(c)'
        PROVE  Unspent(c, worker[c].gate)'
    <3>1. worker'[c].gate = worker[c].gate /\ worker'[c].gate \in Gates
      BY <2>3, <1>w DEF WorkerStays, TypeOK, WorkersOK, Parks
    <3>2. PICK g \in Gates : g = worker[c].gate /\ g = worker'[c].gate
      BY <3>1
    <3>3. Unspent(c, g)
      BY <2>3, <3>2, <1>w DEF WorkerStays, QuestionsInOrder, RowShows, Owns, OwnsRun
    <3>4. worker'[c].pc \notin {"marked", "turn"}
      BY <2>3 DEF Parks, Settles
    <3>5. QED BY <2>s, <3>2, <3>3, <3>4 DEF Unspent
  <2>4. QED BY <2>1, <2>2, <2>3
<1>5. LegsResume'
  <2>1. ASSUME NEW c \in Attempts, worker'[c].from # None
        PROVE  gate'[worker'[c].from].cb # c
    <3>1. worker'[c].from = worker[c].from /\ worker[c].from \in Gates
      BY <2>1, <1>w, <1>t DEF WorkerStays, WorkerStates
    <3>2. QED BY <2>1, <3>1, <1>g DEF QuestionsInOrder, LegsResume
  <2>2. ASSUME NEW c \in Attempts, NEW g \in Gates, Resumes(c, g)'
        PROVE  Resumable(worker[c].run, g)'
    <3>1. Resumes(c, g) /\ Resumable(worker[c].run, g)
      BY <2>2, ResumesStay DEF QuestionsInOrder, LegsResume
    <3>2. worker[c].run \in Runs
      BY <3>1 DEF QuestionsInOrder, Resumable, Askers
    <3>3. PICK r \in Runs : r = worker[c].run /\ r = worker'[c].run
      BY <3>2, <1>w DEF WorkerStays
    <3>4. Resumable(r, g)'
      BY <3>1, <3>3, ResumesStay
    <3>5. QED BY <3>3, <3>4 DEF Resumable
  <2>3. QED BY <2>1, <2>2 DEF LegsResume
<1>6. ResumedOnce'
  <2>1. \A c, d \in Attempts, g \in Gates : Resumes(c, g)' /\ Resumes(d, g)' => c = d
    BY ResumesStay DEF QuestionsInOrder, ResumedOnce
  <2>2. ASSUME NEW r \in Runs, run'[r].pc \in Before PROVE run'[r].from = None
    BY <2>2, <1>r DEF RunStays, QuestionsInOrder, ResumedOnce
  <2>3. ASSUME NEW r \in Runs, run'[r].pc \in Holding \cup {"dispatch"}, run'[r].from # None
        PROVE  /\ Resumable(r, run[r].from)'
               /\ \A c \in Attempts : ~Resumes(c, run[r].from)'
    <3>1. run'[r].from = run[r].from /\ run[r].pc \in Holding \cup {"dispatch"}
      BY <2>3, <1>r DEF RunStays, QuestionsInOrder, ResumedOnce
    <3>2. PICK g \in Gates : g = run[r].from /\ g = run'[r].from
      BY <2>3, <3>1 DEF InTurn, TypeOK, RunsOK, RunStates
    <3>3. Resumable(r, g) /\ \A c \in Attempts : ~Resumes(c, g)
      BY <2>3, <3>1, <3>2 DEF QuestionsInOrder, ResumedOnce
    <3>4. Resumable(r, g)' /\ \A c \in Attempts : ~Resumes(c, g)'
      BY <3>3, ResumesStay
    <3>5. QED BY <3>2, <3>4 DEF Resumable, Resumes
  <2>4. ASSUME NEW r \in Runs, NEW c \in Attempts, NEW g \in Gates,
               run'[r].pc = "await", gate'[g].cb = run'[r].attempt
        PROVE  ~Resumes(c, g)'
    <3>1. run[r].pc = "await" /\ gate[g].cb = run[r].attempt
      BY <2>4, <1>r, <1>g DEF RunStays
    <3>2. ~Resumes(c, g)
      BY <3>1 DEF QuestionsInOrder, ResumedOnce
    <3>3. QED BY <3>2, ResumesStay
  <2>5. QED BY <2>1, <2>2, <2>3, <2>4 DEF ResumedOnce
<1>7. QED BY <1>1, <1>2, <1>3, <1>4, <1>5, <1>6 DEF QuestionsInOrder

\* The run that takes a WAITING verdict may resume from the question its attempt parked on.
LEMMA AwaitKeepsQuestions ==
  ASSUME InTurn, QuestionsInOrder, NEW r \in Runs, Await(r)
  PROVE  QuestionsInOrder'
<1> DEFINE a == run[r].attempt
<1>1. /\ UNCHANGED <<meta, stage, gate, worker>> /\ run[r].pc = "await"
      /\ \A s \in Runs : s # r => run'[s] = run[s]
      /\ run'[r].attempt = a
      /\ \/ run'[r].pc = "bind" /\ worker[a].verdict = "WAITING" /\ run'[r].from = worker[a].gate
         \/ run'[r].pc \in {"finish", "reconcile"}
  BY DEF Await, InTurn, TypeOK, RunsOK, RunStates
<1>2. a \in Attempts /\ worker[a].run = r
  BY <1>1 DEF InTurn, LegsInTurn, Awaited, Deciding
<1> HIDE DEF a
<1>3. Askers' /\ AnswersGiven' /\ RowShows' /\ LegsResume'
  BY <1>1 DEF QuestionsInOrder, Askers, Asked, AnswersGiven, RowShows, Unspent, Parks, Owns,
     OwnsRun, HoldsToken, LegsResume, Resumes, Resumable
<1>4. MetaShows'
  BY <1>1 DEF QuestionsInOrder, MetaShows, HoldsToken, Unspent, Asked
<1>5. ASSUME run'[r].pc = "bind"
      PROVE  /\ Resumable(r, run[r].from)'
             /\ \A c \in Attempts : ~Resumes(c, run[r].from)'
  <2>1. PICK g \in Gates : g = worker[a].gate /\ g = run'[r].from
    BY <1>1, <1>2, <1>5 DEF InTurn, TypeOK, WorkersOK
  <2>2. Unspent(a, g) /\ worker[a].verdict = "WAITING"
    BY <1>1, <1>2, <1>5, <2>1 DEF QuestionsInOrder, RowShows, Parks
  <2>3. Resumable(r, g)
    BY <1>2, <2>2, NoneAssumption DEF Unspent, QuestionsInOrder, Askers, Resumable
  <2>4. \A c \in Attempts : ~Resumes(c, g)
    BY <1>1, <2>2 DEF QuestionsInOrder, ResumedOnce, Unspent, a
  <2>5. QED BY <1>1, <2>1, <2>3, <2>4 DEF Resumable, Asked, Resumes
<1>6. ResumedOnce'
  <2>1. \A c, d \in Attempts, g \in Gates : Resumes(c, g)' /\ Resumes(d, g)' => c = d
    BY <1>1 DEF QuestionsInOrder, ResumedOnce, Resumes
  <2>2. \A s \in Runs : run'[s].pc \in Before => run'[s].from = None
    BY <1>1 DEF QuestionsInOrder, ResumedOnce, Before
  <2>3. ASSUME NEW s \in Runs, run'[s].pc \in Holding \cup {"dispatch"}, run'[s].from # None
        PROVE  /\ Resumable(s, run[s].from)'
               /\ \A c \in Attempts : ~Resumes(c, run[s].from)'
    <3>1. CASE s = r
      BY <1>1, <1>5, <2>3, <3>1 DEF Holding
    <3>2. CASE s # r
      BY <1>1, <2>3, <3>2 DEF QuestionsInOrder, ResumedOnce, Resumable, Resumes, Asked
    <3>3. QED BY <3>1, <3>2
  <2>4. \A s \in Runs, c \in Attempts, g \in Gates :
          run'[s].pc = "await" /\ gate'[g].cb = run'[s].attempt => ~Resumes(c, g)'
    BY <1>1 DEF QuestionsInOrder, ResumedOnce, Resumes
  <2>5. QED BY <2>1, <2>2, <2>3, <2>4 DEF ResumedOnce
<1>7. QED BY <1>3, <1>4, <1>6 DEF QuestionsInOrder

\* A dispatch makes a fresh attempt the only leg that resumes from the run's question.
LEMMA DispatchKeepsQuestions ==
  ASSUME InTurn, QuestionsInOrder, NEW r \in Runs, NEW c \in Attempts, Dispatch(r, c)
  PROVE  QuestionsInOrder'
<1> DEFINE f == run[r].from
<1>1. /\ UNCHANGED <<meta, stage, gate>> /\ run[r].pc = "dispatch"
      /\ run'[r].pc = "await" /\ run'[r].attempt = c
      /\ \A s \in Runs : s # r => run'[s] = run[s]
  BY DEF Dispatch, InTurn, TypeOK, RunsOK, RunStates
<1>2. /\ worker[c].pc = "unused" /\ worker'[c].run = r
      /\ worker'[c].pc \in {"queued", "gone"} /\ worker'[c].verdict # "WAITING"
      /\ worker'[c].from = f /\ worker'[c].got = {}
      /\ \A d \in Attempts : d # c => worker'[d] = worker[d]
  <2> DEFINE leg == [UnusedWorker EXCEPT !.run = r, !.from = f]
             queued == [leg EXCEPT !.pc = "queued", !.verdict = "open"]
             refused == [leg EXCEPT !.pc = "gone", !.verdict = "FAILED"]
  <2>1. worker' = [worker EXCEPT ![c] = queued] \/ worker' = [worker EXCEPT ![c] = refused]
    BY DEF Dispatch
  <2>2. queued.from = f /\ queued.got = {} /\ refused.from = f /\ refused.got = {}
    BY DEF UnusedWorker
  <2>3. worker \in [Attempts -> WorkerStates]
    BY DEF InTurn, TypeOK, WorkersOK
  <2> HIDE DEF queued, refused
  <2>4. worker'[c].from = f /\ worker'[c].got = {}
    BY <2>1, <2>2, <2>3
  <2>5. QED BY <2>4, DispatchMoves DEF InTurn
<1>3. \A g \in Gates : gate[g].cb # c /\ g # None
  BY <1>2, NoneAssumption DEF QuestionsInOrder, Askers, NotYet
<1>4. f # None => f \in Gates /\ Resumable(r, f) /\ \A d \in Attempts : ~Resumes(d, f)
  BY <1>1 DEF QuestionsInOrder, ResumedOnce, InTurn, TypeOK, RunsOK, RunStates
<1> HIDE DEF f
<1>5. \A d \in Attempts, g \in Gates :
        Resumes(d, g)' => IF d = c THEN g = f ELSE Resumes(d, g)
  BY <1>1, <1>2 DEF Resumes
<1>6. \A s \in Runs, g \in Gates : Resumable(s, g) => Resumable(s, g)'
  <2> SUFFICES ASSUME NEW s \in Runs, NEW g \in Gates, Resumable(s, g) PROVE Resumable(s, g)'
    OBVIOUS
  <2>1. gate[g].cb \in Attempts /\ gate[g].cb # c
    BY <1>3 DEF Resumable, QuestionsInOrder, Askers
  <2>2. QED BY <1>1, <1>2, <2>1 DEF Resumable, Asked
<1>7. Askers'
  <2>1. \A g \in Gates : Asked(g)' <=> Asked(g)
    BY <1>1 DEF Asked
  <2>2. \A g \in Gates : Asked(g) => worker'[gate[g].cb] = worker[gate[g].cb]
    BY <1>2, <1>3 DEF QuestionsInOrder, Askers
  <2>3. QED BY <1>1, <2>1, <2>2 DEF QuestionsInOrder, Askers
<1>8. AnswersGiven'
  BY <1>1, <1>2 DEF QuestionsInOrder, AnswersGiven
<1>9. MetaShows'
  <2>1. meta'.gate # None => meta'.status \in Active /\ Asked(meta.gate)'
    BY <1>1 DEF QuestionsInOrder, MetaShows, Asked
  <2>2. ASSUME NEW s \in Runs, HoldsToken(s)', run'[s].pc = "dispatch" PROVE meta'.gate = None
    BY <1>1, <2>2 DEF QuestionsInOrder, MetaShows, HoldsToken
  <2>3. ASSUME NEW d \in Attempts, worker'[d].run \in Runs, HoldsToken(worker[d].run)',
               meta'.gate # None
        PROVE  /\ worker'[d].verdict # "WAITING" => Unspent(d, meta.gate)'
               /\ worker'[d].pc # "inline"
    <3>1. d # c
      BY <1>1, <1>2, <2>3 DEF QuestionsInOrder, MetaShows, HoldsToken
    <3>2. QED BY <1>1, <1>2, <2>3, <3>1 DEF QuestionsInOrder, MetaShows, HoldsToken, Unspent
  <2>4. QED BY <2>1, <2>2, <2>3 DEF MetaShows
<1>10. RowShows'
  <2> SUFFICES ASSUME NEW d \in Attempts
               PROVE  /\ stage'.cb = d /\ worker'[d].pc \in AtTurn /\ stage'.gate # None
                           => Unspent(d, stage.gate)'
                      /\ stage'.cb = d /\ worker'[d].pc = "park" /\ HoldsToken(worker[d].run)'
                           => Unspent(d, worker[d].gate)'
                      /\ worker'[d].pc \in {"grace", "inline"} \/ Parks(d)'
                           => Unspent(d, worker[d].gate)'
    BY DEF RowShows
  <2>1. CASE d = c
    BY <1>2, <2>1 DEF AtTurn, Parks
  <2>2. CASE d # c
    BY <1>1, <1>2, <2>2 DEF QuestionsInOrder, RowShows, Unspent, Parks, HoldsToken
  <2>3. QED BY <2>1, <2>2
<1>11. LegsResume'
  <2>1. ASSUME NEW d \in Attempts, worker'[d].from # None PROVE gate'[worker'[d].from].cb # d
    BY <1>1, <1>2, <1>3, <1>4, <2>1 DEF QuestionsInOrder, LegsResume
  <2>2. ASSUME NEW d \in Attempts, NEW g \in Gates, Resumes(d, g)'
        PROVE  Resumable(worker[d].run, g)'
    <3>1. CASE d = c
      <4>1. Resumable(r, g)'
        BY <1>3, <1>4, <1>5, <1>6, <2>2, <3>1
      <4>2. QED BY <1>2, <3>1, <4>1 DEF Resumable
    <3>2. CASE d # c
      <4>1. Resumable(worker[d].run, g)
        BY <1>5, <2>2, <3>2 DEF QuestionsInOrder, LegsResume
      <4>2. PICK s \in Runs : s = worker[d].run /\ s = worker'[d].run
        BY <1>2, <3>2, <4>1 DEF QuestionsInOrder, Resumable, Askers
      <4>3. Resumable(s, g)'
        BY <1>6, <4>1, <4>2
      <4>4. QED BY <4>2, <4>3 DEF Resumable
    <3>3. QED BY <3>1, <3>2
  <2>3. QED BY <2>1, <2>2 DEF LegsResume
<1>12. ResumedOnce'
  <2>1. \A d, e \in Attempts, g \in Gates : Resumes(d, g)' /\ Resumes(e, g)' => d = e
    BY <1>3, <1>4, <1>5 DEF QuestionsInOrder, ResumedOnce
  <2>2. \A s \in Runs : run'[s].pc \in Before => run'[s].from = None
    BY <1>1 DEF QuestionsInOrder, ResumedOnce, Before
  <2>3. ASSUME NEW s \in Runs, run'[s].pc \in Holding \cup {"dispatch"}, run'[s].from # None
        PROVE  /\ Resumable(s, run[s].from)'
               /\ \A d \in Attempts : ~Resumes(d, run[s].from)'
    <3>1. s # r /\ run'[s] = run[s]
      BY <1>1, <2>3 DEF Holding
    <3>2. PICK g \in Gates : g = run[s].from /\ g = run'[s].from
      BY <2>3, <3>1 DEF InTurn, TypeOK, RunsOK, RunStates
    <3>3. Resumable(s, g) /\ \A d \in Attempts : ~Resumes(d, g)
      BY <2>3, <3>1, <3>2 DEF QuestionsInOrder, ResumedOnce
    <3>4. g # f
      BY <1>3, <1>4, <3>1, <3>3 DEF Resumable
    <3>5. Resumable(s, g)' /\ \A d \in Attempts : ~Resumes(d, g)'
      BY <1>5, <1>6, <3>3, <3>4
    <3>6. QED BY <3>2, <3>5 DEF Resumable, Resumes
  <2>4. ASSUME NEW s \in Runs, NEW d \in Attempts, NEW g \in Gates,
               run'[s].pc = "await", gate'[g].cb = run'[s].attempt, Resumes(d, g)'
        PROVE  FALSE
    <3>1. s # r /\ run[s].pc = "await" /\ gate[g].cb = run[s].attempt
      BY <1>1, <1>3, <2>4
    <3>2. ~Resumes(d, g)
      BY <3>1 DEF QuestionsInOrder, ResumedOnce
    <3>3. d = c /\ g = f
      BY <1>5, <2>4, <3>2
    <3>4. gate[g].run = r /\ Asked(g)
      BY <1>3, <1>4, <3>3 DEF Resumable
    <3>5. worker[gate[g].cb].run = r
      BY <3>4 DEF QuestionsInOrder, Askers
    <3>6. worker[run[s].attempt].run = s
      BY <3>1 DEF InTurn, LegsInTurn, Awaited, Deciding
    <3>7. QED BY <3>1, <3>5, <3>6
  <2>5. QED BY <2>1, <2>2, <2>3, <2>4 DEF ResumedOnce
<1>13. QED BY <1>7, <1>8, <1>9, <1>10, <1>11, <1>12 DEF QuestionsInOrder

\* What an ask finds: a gate nobody knows, and no other attempt of the owner at work.
LEMMA AskFinds ==
  ASSUME InTurn, QuestionsInOrder, NEW c \in Attempts, NEW g \in Gates, Ask(c, g)
  PROVE  /\ gate[g].status = "none" /\ gate[g].cb = None /\ gate[g].run = None /\ g # None
         /\ worker[c].run \in Runs /\ HoldsToken(worker[c].run) /\ worker[c].verdict # "WAITING"
         /\ stage.cb = c
         /\ \A d \in Attempts : worker[d].from # g /\ g \notin worker[d].got
         /\ \A d \in Attempts : d # c /\ worker[d].run = worker[c].run
                                  => worker[d].verdict = "WAITING" /\ worker[d].pc = "gone"
         /\ run[worker[c].run].pc # "dispatch"
         /\ run[worker[c].run].pc \notin Holding
<1>1. /\ gate[g].status = "none" /\ worker[c].pc = "turn" /\ stage.cb = c
      /\ HoldsToken(worker[c].run)
  BY DEF Ask, FreshGate, Owns, OwnsRun
<1>2. gate[g].cb = None /\ gate[g].run = None /\ g # None /\ ~Asked(g)
  BY <1>1, NoneAssumption DEF QuestionsInOrder, Askers, Asked
<1>3. worker[c].run \in Runs /\ worker[c].verdict # "WAITING"
  BY <1>1 DEF InTurn, TypeOK, WorkersOK, Live, LivePcs, LegsInTurn, Settles
<1>4. ASSUME NEW d \in Attempts PROVE worker[d].from # g /\ g \notin worker[d].got
  <2>1. ~Resumes(d, g)
    BY <1>2 DEF QuestionsInOrder, LegsResume, Resumable
  <2>2. gate[g].cb # d
    BY <1>2, NoneAssumption
  <2>3. QED BY <2>1, <2>2 DEF Resumes
<1>5. ASSUME NEW d \in Attempts, d # c, worker[d].run = worker[c].run
      PROVE  worker[d].verdict = "WAITING" /\ worker[d].pc = "gone"
  BY <1>3, <1>5 DEF InTurn, LegsInTurn, OneOpen, Settles
<1>6. run[worker[c].run].pc # "dispatch" /\ run[worker[c].run].pc \notin Holding
  BY <1>3 DEF InTurn, LegsInTurn, OneAfterTheOther, Deciding, Ending, Holding
<1>7. QED BY <1>1, <1>2, <1>3, <1>4, <1>5, <1>6

\* What an ask does: META and the row show the new question to the attempt that asks.
LEMMA AskMoves ==
  ASSUME TypeOK, NEW c \in Attempts, NEW g \in Gates, Ask(c, g)
  PROVE  /\ UNCHANGED <<run, req>>
         /\ meta'.owner = meta.owner /\ meta'.retired = meta.retired
         /\ meta'.status = "WAITING" /\ meta'.gate = g
         /\ stage'.cb = stage.cb /\ stage'.gate = g
         /\ gate'[g].status = "pending" /\ gate'[g].run = worker[c].run /\ gate'[g].cb = c
         /\ \A h \in Gates : h # g => gate'[h] = gate[h]
         /\ worker'[c].pc = "grace" /\ worker'[c].gate = g /\ worker'[c].run = worker[c].run
         /\ worker'[c].from = worker[c].from /\ worker'[c].got = worker[c].got
         /\ worker'[c].verdict = worker[c].verdict
         /\ \A d \in Attempts : d # c => worker'[d] = worker[d]
<1>1. /\ worker \in [Attempts -> WorkerStates] /\ worker[c] \in WorkerStates
      /\ gate \in [Gates -> GateRows] /\ gate[g] \in GateRows
      /\ meta \in MetaRows /\ stage \in StageRows
  BY DEF TypeOK, WorkersOK
<1>2. /\ meta'.owner = meta.owner /\ meta'.retired = meta.retired
      /\ meta'.status = "WAITING" /\ meta'.gate = g
      /\ stage'.cb = stage.cb /\ stage'.gate = g /\ UNCHANGED <<run, req>>
  BY <1>1 DEF Ask, MetaRows, StageRows
<1>3. /\ gate'[g].status = "pending" /\ gate'[g].run = worker[c].run /\ gate'[g].cb = c
      /\ \A h \in Gates : h # g => gate'[h] = gate[h]
  BY <1>1 DEF Ask, GateRows
<1>4. /\ worker'[c].pc = "grace" /\ worker'[c].gate = g /\ worker'[c].run = worker[c].run
      /\ worker'[c].from = worker[c].from /\ worker'[c].got = worker[c].got
      /\ worker'[c].verdict = worker[c].verdict
      /\ \A d \in Attempts : d # c => worker'[d] = worker[d]
  BY <1>1 DEF Ask, WorkerStates
<1>5. QED BY <1>2, <1>3, <1>4

LEMMA AskKeepsQuestions ==
  ASSUME InTurn, QuestionsInOrder, NEW c \in Attempts, NEW g \in Gates, Ask(c, g)
  PROVE  QuestionsInOrder'
<1>f. /\ gate[g].status = "none" /\ gate[g].cb = None /\ gate[g].run = None /\ g # None
      /\ worker[c].run \in Runs /\ HoldsToken(worker[c].run) /\ worker[c].verdict # "WAITING"
      /\ stage.cb = c
      /\ \A d \in Attempts : worker[d].from # g /\ g \notin worker[d].got
      /\ \A d \in Attempts : d # c /\ worker[d].run = worker[c].run
                               => worker[d].verdict = "WAITING" /\ worker[d].pc = "gone"
      /\ run[worker[c].run].pc # "dispatch"
  BY AskFinds
<1>m. /\ UNCHANGED run
      /\ meta'.owner = meta.owner /\ meta'.retired = meta.retired
      /\ meta'.status = "WAITING" /\ meta'.gate = g
      /\ stage'.cb = stage.cb /\ stage'.gate = g
      /\ gate'[g].status = "pending" /\ gate'[g].run = worker[c].run /\ gate'[g].cb = c
      /\ \A h \in Gates : h # g => gate'[h] = gate[h]
      /\ worker'[c].pc = "grace" /\ worker'[c].gate = g /\ worker'[c].run = worker[c].run
      /\ worker'[c].from = worker[c].from /\ worker'[c].got = worker[c].got
      /\ worker'[c].verdict = worker[c].verdict
      /\ \A d \in Attempts : d # c => worker'[d] = worker[d]
  BY AskMoves DEF InTurn
<1>w. \A d \in Attempts : /\ worker'[d].from = worker[d].from /\ worker'[d].got = worker[d].got
                          /\ worker'[d].verdict = worker[d].verdict
                          /\ worker'[d].run = worker[d].run
  BY <1>m
<1>u. Unspent(c, g)'
  BY <1>f, <1>m DEF Unspent
<1>n. \A d \in Attempts : None # d
  BY NoneAssumption
<1>s. \A d \in Attempts, h \in Gates : Resumes(d, h)' => h # g /\ Resumes(d, h)
  BY <1>f, <1>m, <1>w DEF Resumes
<1>a. \A r \in Runs, h \in Gates : Resumable(r, h) => h # g /\ Resumable(r, h)'
  BY <1>f, <1>m, <1>w DEF Resumable, Asked, QuestionsInOrder, Askers
<1>1. Askers'
  <2> SUFFICES ASSUME NEW h \in Gates
               PROVE  IF Asked(h)'
                      THEN /\ gate'[h].cb \in Attempts /\ gate'[h].run \in Runs
                           /\ worker'[gate'[h].cb].run = gate'[h].run
                           /\ worker'[gate'[h].cb].pc \notin NotYet
                      ELSE gate'[h].cb = None /\ gate'[h].run = None
    BY DEF Askers, NotYet
  <2>1. CASE h = g
    BY <2>1, <1>f, <1>m DEF Asked, NotYet
  <2>2. CASE h # g
    BY <2>2, <1>m, <1>w DEF Asked, NotYet, QuestionsInOrder, Askers
  <2>3. QED BY <2>1, <2>2
<1>2. AnswersGiven'
  <2>1. ASSUME NEW d \in Attempts, NEW h \in worker'[d].got
        PROVE  gate'[h].status = Answered /\ gate'[h].run = worker'[d].run
    <3>1. h \in Gates /\ h \in worker[d].got /\ h # g
      BY <2>1, <1>f, <1>w DEF InTurn, TypeOK, WorkersOK, WorkerStates
    <3>2. QED BY <3>1, <1>m, <1>w DEF QuestionsInOrder, AnswersGiven
  <2>2. ASSUME NEW d \in Attempts, worker'[d].pc = "start", worker'[d].from # None
        PROVE  gate'[worker'[d].from].status = Answered
    <3>1. d # c /\ worker[d].from \in Gates /\ worker[d].from # g
      BY <2>2, <1>f, <1>m, <1>w DEF InTurn, TypeOK, WorkersOK, WorkerStates
    <3>2. QED BY <2>2, <3>1, <1>m DEF QuestionsInOrder, AnswersGiven
  <2>3. ASSUME NEW d \in Attempts, worker'[d].pc = "inline"
        PROVE  gate'[worker'[d].gate].status = Answered
    <3>1. d # c /\ worker[d].pc = "inline" /\ worker'[d].gate = worker[d].gate
      BY <2>3, <1>m
    <3>2. worker[d].gate \in Gates /\ gate[worker[d].gate].status = Answered
      BY <3>1 DEF InTurn, TypeOK, WorkersOK, QuestionsInOrder, AnswersGiven
    <3>3. QED BY <3>1, <3>2, <1>f, <1>m DEF Answered
  <2>4. QED BY <2>1, <2>2, <2>3 DEF AnswersGiven, Answered
<1>3. MetaShows'
  <2>1. meta'.status \in Active /\ Asked(meta.gate)'
    BY <1>m DEF Active, Asked
  <2>2. ASSUME NEW r \in Runs, HoldsToken(r)', run'[r].pc = "dispatch" PROVE meta'.gate = None
    BY <2>2, <1>f, <1>m DEF HoldsToken
  <2>3. ASSUME NEW d \in Attempts, worker'[d].run \in Runs, HoldsToken(worker[d].run)'
        PROVE  /\ worker'[d].verdict # "WAITING" => Unspent(d, meta.gate)'
               /\ worker'[d].pc # "inline"
    <3>1. worker[d].run = worker[c].run
      BY <2>3, <1>f, <1>m, <1>w DEF HoldsToken
    <3>2. CASE d = c
      BY <3>2, <1>m, <1>u DEF Unspent
    <3>3. CASE d # c
      BY <3>1, <3>3, <1>f, <1>m
    <3>4. QED BY <3>2, <3>3
  <2>4. QED BY <2>1, <2>2, <2>3 DEF MetaShows
<1>4. RowShows'
  <2> SUFFICES ASSUME NEW d \in Attempts
               PROVE  /\ stage'.cb = d /\ worker'[d].pc \in AtTurn /\ stage'.gate # None
                           => Unspent(d, stage.gate)'
                      /\ stage'.cb = d /\ worker'[d].pc = "park" /\ HoldsToken(worker[d].run)'
                           => Unspent(d, worker[d].gate)'
                      /\ worker'[d].pc \in {"grace", "inline"} \/ Parks(d)'
                           => Unspent(d, worker[d].gate)'
    BY DEF RowShows
  <2>1. CASE d = c
    BY <2>1, <1>m, <1>u DEF Unspent
  <2>2. CASE d # c
    <3>1. ASSUME worker'[d].pc \in {"grace", "inline"} \/ Parks(d)'
          PROVE  Unspent(d, worker[d].gate)'
      <4>1. worker'[d] = worker[d]
        BY <2>2, <1>m
      <4>2. Unspent(d, worker[d].gate) /\ worker[d].gate \in Gates
        BY <3>1, <4>1
        DEF Parks, QuestionsInOrder, RowShows, InTurn, TypeOK, WorkersOK
      <4>3. worker[d].gate # g
        BY <4>2, <1>f, <1>n DEF Unspent
      <4>4. QED BY <4>1, <4>2, <4>3, <1>m DEF Unspent
    <3>2. QED BY <2>2, <3>1, <1>f, <1>m
  <2>3. QED BY <2>1, <2>2
<1>5. LegsResume'
  <2>1. ASSUME NEW d \in Attempts, worker'[d].from # None PROVE gate'[worker'[d].from].cb # d
    <3>1. worker[d].from \in Gates /\ worker[d].from # g
      BY <2>1, <1>f, <1>w DEF InTurn, TypeOK, WorkersOK, WorkerStates
    <3>2. QED BY <2>1, <3>1, <1>m, <1>w DEF QuestionsInOrder, LegsResume
  <2>2. ASSUME NEW d \in Attempts, NEW h \in Gates, Resumes(d, h)'
        PROVE  Resumable(worker[d].run, h)'
    <3>1. Resumable(worker[d].run, h)
      BY <2>2, <1>s DEF QuestionsInOrder, LegsResume
    <3>2. PICK s \in Runs : s = worker[d].run /\ s = worker'[d].run
      BY <3>1, <1>w DEF QuestionsInOrder, Resumable, Askers
    <3>3. Resumable(s, h)'
      BY <3>1, <3>2, <1>a
    <3>4. QED BY <3>2, <3>3 DEF Resumable
  <2>3. QED BY <2>1, <2>2 DEF LegsResume
<1>6. ResumedOnce'
  <2>1. \A d, e \in Attempts, h \in Gates : Resumes(d, h)' /\ Resumes(e, h)' => d = e
    BY <1>s DEF QuestionsInOrder, ResumedOnce
  <2>2. \A r \in Runs : run'[r].pc \in Before => run'[r].from = None
    BY <1>m DEF QuestionsInOrder, ResumedOnce
  <2>3. ASSUME NEW r \in Runs, run'[r].pc \in Holding \cup {"dispatch"}, run'[r].from # None
        PROVE  /\ Resumable(r, run[r].from)'
               /\ \A d \in Attempts : ~Resumes(d, run[r].from)'
    <3>1. PICK h \in Gates : h = run[r].from /\ h = run'[r].from
      BY <2>3, <1>m DEF InTurn, TypeOK, RunsOK, RunStates
    <3>2. Resumable(r, h) /\ \A d \in Attempts : ~Resumes(d, h)
      BY <2>3, <3>1, <1>m DEF QuestionsInOrder, ResumedOnce
    <3>3. Resumable(r, h)' /\ \A d \in Attempts : ~Resumes(d, h)'
      BY <3>2, <1>s, <1>a
    <3>4. QED BY <3>1, <3>3 DEF Resumable, Resumes
  <2>4. ASSUME NEW r \in Runs, NEW d \in Attempts, NEW h \in Gates,
               run'[r].pc = "await", gate'[h].cb = run'[r].attempt, Resumes(d, h)'
        PROVE  FALSE
    <3>1. h # g /\ Resumes(d, h)
      BY <2>4, <1>s
    <3>2. QED BY <2>4, <3>1, <1>m DEF QuestionsInOrder, ResumedOnce
  <2>5. QED BY <2>1, <2>2, <2>3, <2>4 DEF ResumedOnce
<1>7. QED BY <1>1, <1>2, <1>3, <1>4, <1>5, <1>6 DEF QuestionsInOrder

\* Every step asks, dispatches, awaits a verdict, or moves as above.
LEMMA NextMoves ==
  ASSUME InTurn, QuestionsInOrder, Next
  PROVE  \/ \E c \in Attempts, g \in Gates : Ask(c, g)
         \/ \E r \in Runs, c \in Attempts : Dispatch(r, c)
         \/ \E r \in Runs : Await(r)
         \/ Moves /\ (NoneTaken \/ \E c \in Attempts, g \in Gates : Taken(c, g))
<1> USE DEF InTurn, LegsInTurn, QuestionsInOrder
<1>1. ASSUME NEW c \in Attempts, Worker(c) \/ Timeout(c) \/ Crash(c), \A g \in Gates : ~Ask(c, g)
      PROVE  Moves /\ (NoneTaken \/ \E g \in Gates : Taken(c, g))
  BY <1>1, WorkerStepMoves
<1>2. ASSUME NEW r \in Runs, Orchestrator(r) \/ ReleaseTimer(r) \/ DurableEnds(r),
             ~Await(r), \A c \in Attempts : ~Dispatch(r, c)
      PROVE  Moves /\ NoneTaken
  BY <1>2, RunStepMoves
<1>3. ASSUME NEW q \in Requests, Begin(q) \/ Handle(q) \/ RequestDies(q) PROVE Moves /\ NoneTaken
  BY <1>3, RequestStepMoves
<1>4. ASSUME NEW w \in Watchdogs, Watchdog(w) PROVE Moves /\ NoneTaken
  BY <1>4, WatchdogStepMoves
<1>5. QED BY <1>1, <1>2, <1>3, <1>4 DEF Next

\* The questions stay in order: each belongs to the attempt that asked it, META and the
\* row show the owner only the unused question of its own attempt at work, and one leg at
\* most, of the run that asked, resumes from a question (askQuestion, runStage,
\* unparkGate).
THEOREM QuestionsKeepOrder == Spec => []QuestionsInOrder
<1>1. Init => QuestionsInOrder
  BY InitQuestions
<1>2. QuestionsInOrder /\ InTurn /\ InTurn' /\ [Next]_vars => QuestionsInOrder'
  <2> SUFFICES ASSUME QuestionsInOrder, InTurn, InTurn', [Next]_vars PROVE QuestionsInOrder'
    OBVIOUS
  <2>1. CASE Next
    BY <2>1, NextMoves, AskKeepsQuestions, DispatchKeepsQuestions, AwaitKeepsQuestions,
       MovesKeepQuestions DEF InTurn, LegsInTurn
  <2>2. CASE UNCHANGED vars
    BY <2>2 DEF vars, QuestionsInOrder, Askers, Asked, AnswersGiven, MetaShows, HoldsToken,
       RowShows, Unspent, Parks, LegsResume, Resumes, Resumable, ResumedOnce
  <2>3. QED BY <2>1, <2>2
<1>3. QED BY <1>1, <1>2, TurnsAreKept, PTL DEF Spec

\* An answer enters one conversation at most, and only once it has been given: whichever
\* of the inline poll, the early re-read, the callback and a resend brings it.
THEOREM AnswersAreUsedOnce == Spec => []AnswerUsedOnce
<1>1. QuestionsInOrder => AnswerUsedOnce
  <2> SUFFICES ASSUME QuestionsInOrder, NEW g \in Gates, NEW c \in Attempts, NEW d \in Attempts,
                      g \in worker[c].got, g \in worker[d].got
               PROVE  c = d /\ gate[g].status = Answered
    BY DEF AnswerUsedOnce
  <2>1. gate[g].status = Answered
    BY DEF QuestionsInOrder, AnswersGiven
  <2>2. \A e \in Attempts : Resumes(e, g) => g \notin worker[gate[g].cb].got
    BY DEF QuestionsInOrder, LegsResume, Resumable
  <2>3. c = d
    BY <2>2 DEF QuestionsInOrder, ResumedOnce, Resumes
  <2>4. QED BY <2>1, <2>3
<1>2. QED BY <1>1, QuestionsKeepOrder, PTL

-----------------------------------------------------------------------------
(* What the steps do to the status of a question, and to META and the row  *)
(* that wait on it.                                                        *)

GatesKeep == \A g \in Gates : gate'[g].status = gate[g].status /\ gate'[g].run = gate[g].run

SettledAs(g, status) ==
  /\ gate[g].status = "pending" /\ gate'[g].status = status /\ gate'[g].run = gate[g].run
  /\ \A h \in Gates : h # g => gate'[h].status = gate[h].status /\ gate'[h].run = gate[h].run

\* A question is answered for the owner alone, or superseded; the token stays meanwhile.
GatesSettle ==
  \/ GatesKeep
  \/ /\ UNCHANGED <<meta.owner, meta.retired>>
     /\ \E g \in Gates : \/ SettledAs(g, Answered) /\ OwnsRun(gate[g].run)
                         \/ SettledAs(g, "superseded")

\* META comes to wait by an ask alone, and loses its pointer while it waits only to the
\* attempt that retires its question; the row reads RUNNING for an attempt of the owner
\* that starts its turn or hands its tool's answer over.
WaitsKeep ==
  /\ meta'.status = "WAITING" =>
       /\ meta.status = "WAITING"
       /\ \/ meta'.gate = meta.gate
          \/ \E c \in Attempts : Owns(c) /\ worker[c].pc = "clear"
  /\ stage'.state = "RUNNING" =>
       \/ stage.state = "RUNNING"
       \/ \E c \in Attempts : Owns(c) /\ worker[c].pc \in {"start", "inline"}

LEMMA WorkerSettles ==
  ASSUME TypeOK, NEW c \in Attempts, Worker(c) \/ Timeout(c) \/ Crash(c),
         \A g \in Gates : ~Ask(c, g)
  PROVE  GatesSettle /\ WaitsKeep
<1>w. meta \in MetaRows /\ stage \in StageRows /\ gate \in [Gates -> GateRows]
  BY DEF TypeOK
<1>1. CASE RetireQuestion(c)
  <2>1. UNCHANGED <<meta, stage>>
    BY <1>1 DEF RetireQuestion
  <2>2. UNCHANGED gate => GatesKeep
    BY DEF GatesKeep
  <2>3. ASSUME NEW g \in Gates, gate[g].status = "pending", Wake(g, "superseded", FALSE)
        PROVE  SettledAs(g, "superseded")
    BY <2>3, <1>w DEF Wake, SettledAs, GateRows
  <2>4. worker[c].gate \in Gates
    BY <1>1 DEF RetireQuestion, TypeOK, WorkersOK
  <2>5. UNCHANGED gate \/ (gate[worker[c].gate].status = "pending"
                            /\ Wake(worker[c].gate, "superseded", FALSE))
    BY <1>1 DEF RetireQuestion
  <2>6. GatesSettle
    BY <2>1, <2>2, <2>3, <2>4, <2>5 DEF GatesSettle
  <2>7. QED BY <2>1, <2>6 DEF WaitsKeep
<1>2. CASE ~RetireQuestion(c)
  <2>1. UNCHANGED gate
    BY <1>2 DEF Worker, Timeout, Crash, Claim, LoadGate, StartTurn, MarkExecutionRunning,
       PollAnswered, LeaveGrace, InlineResume, StopTurn, Exit, Park, ClearPointer, FailStage,
       CompleteStage, ClassifyConflict, Report
  <2>2. meta'.status = "WAITING" =>
          /\ meta.status = "WAITING"
          /\ meta'.gate = meta.gate \/ (Owns(c) /\ worker[c].pc = "clear")
    BY <1>2, <1>w DEF MetaRows, Worker, Timeout, Crash, Claim, LoadGate, StartTurn,
       MarkExecutionRunning, PollAnswered, LeaveGrace, InlineResume, StopTurn, Exit, Park,
       ClearPointer, FailStage, CompleteStage, ClassifyConflict, Report
  <2>3. stage'.state = "RUNNING" =>
          stage.state = "RUNNING" \/ (Owns(c) /\ worker[c].pc \in {"start", "inline"})
    BY <1>2, <1>w DEF StageRows, Worker, Timeout, Crash, Claim, LoadGate, StartTurn,
       MarkExecutionRunning, PollAnswered, LeaveGrace, InlineResume, StopTurn, Exit, Park,
       ClearPointer, FailStage, CompleteStage, ClassifyConflict, Report
  <2>4. QED BY <2>1, <2>2, <2>3 DEF GatesSettle, GatesKeep, WaitsKeep
<1>3. QED BY <1>1, <1>2

LEMMA RunSettles ==
  ASSUME TypeOK, NEW r \in Runs, Orchestrator(r) \/ ReleaseTimer(r) \/ DurableEnds(r)
  PROVE  GatesSettle /\ WaitsKeep
<1>w. meta \in MetaRows /\ stage \in StageRows /\ gate \in [Gates -> GateRows]
  BY DEF TypeOK
<1>1. GatesSettle
  <2>1. CASE DeadlineTooClose(r)
    <3>1. run[r].from \in Gates /\ UNCHANGED meta
      BY <2>1 DEF DeadlineTooClose, TypeOK, RunsOK, Holding
    <3>2. UNCHANGED gate \/ SettledAs(run[r].from, "superseded")
      BY <2>1, <3>1, <1>w DEF DeadlineTooClose, Wake, SettledAs, GateRows
    <3>3. QED BY <3>1, <3>2 DEF GatesSettle, GatesKeep
  <2>2. CASE BindCallback(r)
    BY <2>2, <1>w DEF BindCallback, GatesSettle, GatesKeep, GateRows
  <2>3. CASE ~DeadlineTooClose(r) /\ ~BindCallback(r)
    <3>1. UNCHANGED gate
      BY <2>3 DEF Orchestrator, ReleaseTimer, DurableEnds, Mint, InitWorkspace, MarkRunning,
         Dispatch, Await, Reconcile, RereadGate, Woken, ReleaseSession, AfterGate, Unpark,
         FinishSucceeded, Fail
    <3>2. QED BY <3>1 DEF GatesSettle, GatesKeep
  <2>4. QED BY <2>1, <2>2, <2>3
<1>2. meta'.status = "WAITING" => meta.status = "WAITING" /\ meta'.gate = meta.gate
  BY <1>w DEF MetaRows, Orchestrator, ReleaseTimer, DurableEnds, Mint, InitWorkspace,
     MarkRunning, Dispatch, Await, Reconcile, DeadlineTooClose, BindCallback, RereadGate, Woken,
     ReleaseSession, AfterGate, Unpark, FinishSucceeded, Fail
<1>3. stage'.state = "RUNNING" => stage.state = "RUNNING"
  BY <1>w DEF StageRows, Orchestrator, ReleaseTimer, DurableEnds, Mint, InitWorkspace,
     MarkRunning, Dispatch, Await, Reconcile, DeadlineTooClose, BindCallback, RereadGate, Woken,
     ReleaseSession, AfterGate, Unpark, FinishSucceeded, Fail
<1>4. QED BY <1>1, <1>2, <1>3 DEF WaitsKeep

LEMMA RequestSettles ==
  ASSUME TypeOK, RequestsInTurn, NEW q \in Requests, Begin(q) \/ Handle(q) \/ RequestDies(q)
  PROVE  GatesSettle /\ WaitsKeep
<1>w. /\ meta \in MetaRows /\ stage \in StageRows /\ gate \in [Gates -> GateRows]
      /\ q \in Requests \cup Watchdogs
  BY DEF TypeOK
<1>p. meta' = Repaired(q) => (meta'.status = "WAITING" => meta.status = "WAITING" /\ meta'.gate = meta.gate)
  BY <1>w DEF Repaired, MetaRows
<1>k. (UNCHANGED gate \/ \E g \in Gates : Deliver(g)) => GatesKeep
  BY <1>w DEF GatesKeep, Deliver, GateRows
<1>s. ASSUME NEW g \in Gates, NEW status \in Settled, NEW wake, gate[g].status = "pending",
             Wake(g, status, wake)
      PROVE  SettledAs(g, status)
  BY <1>s, <1>w DEF Wake, SettledAs, GateRows
<1>1. CASE Answer(q)
  <2>1. req[q].gate \in Gates /\ UNCHANGED <<meta, stage>>
    BY <1>1, <1>w DEF Answer, TypeOK, RequestsOK
  <2>2. \/ UNCHANGED gate
        \/ /\ gate[req[q].gate].status = "pending" /\ OwnsRun(gate[req[q].gate].run)
           /\ Wake(req[q].gate, Answered, FALSE)
    BY <1>1 DEF Answer
  <2>3. GatesSettle
    BY <2>1, <2>2, <1>k, <1>s DEF GatesSettle, Settled
  <2>4. QED BY <2>1, <2>3 DEF WaitsKeep
<1>2. ASSUME NEW g \in Gates, Supersede(q, g) PROVE GatesSettle /\ WaitsKeep
  <2>1. UNCHANGED <<meta, stage>>
    BY <1>2 DEF Supersede
  <2>2. UNCHANGED gate \/ (gate[g].status = "pending"
                            /\ \E wake \in BOOLEAN : Wake(g, "superseded", wake))
    BY <1>2 DEF Supersede
  <2>3. GatesSettle
    BY <2>1, <2>2, <1>k, <1>s DEF GatesSettle, Settled
  <2>4. QED BY <2>1, <2>3 DEF WaitsKeep
<1>3. CASE SendAnswer(q) \/ \E g \in Gates : Resend(q, g)
  <2>1. UNCHANGED stage /\ (UNCHANGED gate \/ \E g \in Gates : Deliver(g))
    BY <1>3 DEF SendAnswer, Resend, TypeOK, RequestsOK
  <2>2. meta'.status = "WAITING" => meta.status = "WAITING" /\ meta'.gate = meta.gate
    BY <1>3, <1>w, <1>p DEF SendAnswer, Resend, MetaRows
  <2>3. QED BY <2>1, <2>2, <1>k DEF GatesSettle, WaitsKeep
<1>4. CASE MarkConsumed(q) \/ Consume(q)
  BY <1>4, <1>w DEF MarkConsumed, Consume, GatesSettle, GatesKeep, WaitsKeep, GateRows
<1>5. CASE \/ Begin(q) \/ RequestDies(q) \/ ClearMarker(q) \/ Invoke(q) \/ StampArn(q)
           \/ (\E r \in Runs : Start(q, r) \/ RetireRun(q, r)) \/ Rollback(q)
           \/ ReadRecords(q) \/ StopSessions(q) \/ Cancel(q) \/ ResetStage(q) \/ Relaunch(q)
  <2>1. UNCHANGED gate
    BY <1>5 DEF Begin, RequestDies, ReadForAnswer, ReadForResume, ReadForStart, ReadForCancel,
       ReadForRewind, ClearMarker, Start, Invoke, StampArn, Rollback, RetireRun, ReadRecords,
       StopSessions, Cancel, ResetStage, Relaunch
  <2>2. stage'.state = "RUNNING" => stage.state = "RUNNING"
    BY <1>5, <1>w DEF StageRows, Begin, RequestDies, ReadForAnswer, ReadForResume,
       ReadForStart, ReadForCancel, ReadForRewind, ClearMarker, Start, Invoke, StampArn,
       Rollback, RetireRun, ReadRecords, StopSessions, Cancel, ResetStage, Relaunch
  <2>3. CASE Rollback(q)
    BY <2>1, <2>2, <2>3, <1>k, <1>w
    DEF Rollback, RequestsInTurn, StartSaw, MetaRows, GatesSettle, WaitsKeep
  <2>4. CASE ~Rollback(q)
    <3>1. meta'.status = "WAITING" => meta.status = "WAITING" /\ meta'.gate = meta.gate
      BY <1>5, <1>w, <2>4 DEF MetaRows, Begin, RequestDies, ReadForAnswer, ReadForResume,
         ReadForStart, ReadForCancel, ReadForRewind, ClearMarker, Start, Invoke, StampArn,
         RetireRun, ReadRecords, StopSessions, Cancel, ResetStage, Relaunch
    <3>2. QED BY <2>1, <2>2, <3>1, <1>k DEF GatesSettle, WaitsKeep
  <2>5. QED BY <2>3, <2>4
<1>6. QED BY <1>1, <1>2, <1>3, <1>4, <1>5 DEF Handle

LEMMA QuestionsSettle ==
  ASSUME InTurn, Next, \A c \in Attempts, g \in Gates : ~Ask(c, g)
  PROVE  GatesSettle /\ WaitsKeep
<1>1. ASSUME NEW w \in Watchdogs, Watchdog(w) PROVE GatesSettle /\ WaitsKeep
  BY <1>1 DEF Watchdog, ListActive, Sweep, Repaired, GatesSettle, GatesKeep, WaitsKeep, InTurn,
     TypeOK, MetaRows
<1>2. QED BY <1>1, WorkerSettles, RunSettles, RequestSettles DEF Next, InTurn

-----------------------------------------------------------------------------
(* The pending question META shows can be answered.                        *)

LEMMA PendingStaysAnswerable ==
  ASSUME InTurn, QuestionsInOrder, PendingQuestionAnswerable, Next,
         \A c \in Attempts, g \in Gates : ~Ask(c, g),
         meta'.status = "WAITING", meta'.gate # None, gate'[meta'.gate].status = "pending",
         HoldsToken(gate[meta.gate].run)'
  PROVE  /\ stage'.cb = gate'[meta'.gate].cb /\ stage'.state # "RUNNING"
<1>1. meta.status = "WAITING" /\ meta.gate # None /\ meta'.gate = meta.gate
  <2>1. meta'.gate = meta.gate
    BY NextMoves DEF Moves, Dispatch, Await
  <2>2. QED BY <2>1, QuestionsSettle DEF WaitsKeep
<1>2. PICK g \in Gates : g = meta.gate /\ g = meta'.gate
  BY <1>1 DEF InTurn, TypeOK, MetaRows
<1>3. gate[g].status = "pending"
  BY <1>2, QuestionsSettle DEF GatesSettle, GatesKeep, SettledAs, Answered
<1>4. gate'[g].cb = gate[g].cb /\ gate'[g].run = gate[g].run
  BY NextMoves DEF Moves, GateStays, Dispatch, Await
<1>5. PICK c \in Attempts : c = gate[g].cb
  BY <1>3 DEF QuestionsInOrder, Askers, Asked
<1>6. /\ worker[c].run = gate[g].run /\ gate[g].run \in Runs
      /\ worker[c].pc \notin NotYet
  BY <1>3, <1>5 DEF QuestionsInOrder, Askers, Asked
<1>7. HoldsToken(gate[g].run)
  <2>1. PICK x \in Runs : x = gate[g].run
    BY <1>6
  <2>2. HoldsToken(x)' /\ run[x].pc \notin Before
    BY <1>2, <1>4, <1>6, <2>1 DEF HoldsToken, InTurn, LegsInTurn, OneAfterTheOther
  <2>3. QED BY <2>1, <2>2, TokenIsMinted DEF InTurn, Before
<1>8. stage.cb = c /\ stage.state # "RUNNING"
  BY <1>1, <1>2, <1>3, <1>5, <1>7 DEF PendingQuestionAnswerable
<1>9. stage'.cb = c
  <2>1. ASSUME NEW d \in Attempts, Claimed(d) PROVE FALSE
    <3>1. worker[d].pc = "queued" /\ HoldsToken(worker[d].run) /\ worker[d].verdict # "WAITING"
      BY <2>1 DEF Claimed, OwnsRun, InTurn, LegsInTurn, Settles
    <3>2. worker[d].run \in Runs
      BY <3>1 DEF InTurn, TypeOK, WorkersOK, Live, LivePcs
    <3>3. Unspent(d, meta.gate)
      BY <1>1, <3>1, <3>2 DEF QuestionsInOrder, MetaShows
    <3>4. d = c
      BY <1>2, <1>5, <3>3 DEF Unspent
    <3>5. QED BY <1>6, <3>1, <3>4 DEF NotYet
  <2>2. QED BY <1>8, <2>1, RowMoves DEF HoldsStay
<1>10. stage'.state # "RUNNING"
  <2>1. ASSUME NEW d \in Attempts, Owns(d), worker[d].pc \in {"start", "inline"} PROVE FALSE
    <3>1. d = c /\ HoldsToken(worker[d].run) /\ worker[d].run \in Runs
      BY <1>6, <1>8, <2>1 DEF Owns, OwnsRun
    <3>2. QED BY <1>1, <1>6, <2>1, <3>1 DEF QuestionsInOrder, MetaShows, NotYet
  <2>2. QED BY <1>8, <2>1, QuestionsSettle DEF WaitsKeep
<1>11. QED BY <1>2, <1>4, <1>5, <1>9, <1>10

\* While META shows a pending question of its owner, answerHumanTask will commit the
\* answer: the attempt that asked still has the stage row, and no leg has started on it.
THEOREM PendingIsAnswerable == Spec => []PendingQuestionAnswerable
<1>1. Init => PendingQuestionAnswerable
  BY DEF Init, PendingQuestionAnswerable
<1>2. /\ PendingQuestionAnswerable /\ QuestionsInOrder /\ InTurn /\ [Next]_vars
      => PendingQuestionAnswerable'
  <2> SUFFICES ASSUME PendingQuestionAnswerable, QuestionsInOrder, InTurn, [Next]_vars
               PROVE  PendingQuestionAnswerable'
    OBVIOUS
  <2>1. ASSUME NEW c \in Attempts, NEW g \in Gates, Ask(c, g)
        PROVE  PendingQuestionAnswerable'
    <3>1. stage'.cb = c /\ meta'.gate = g /\ gate'[g].cb = c
      BY <2>1, AskFinds, AskMoves DEF InTurn
    <3>2. stage'.state = "WAITING"
      BY <2>1 DEF Ask, InTurn, TypeOK, StageRows
    <3>3. QED BY <3>1, <3>2 DEF PendingQuestionAnswerable
  <2>2. CASE Next /\ \A c \in Attempts, g \in Gates : ~Ask(c, g)
    BY <2>2, PendingStaysAnswerable DEF PendingQuestionAnswerable, HoldsToken
  <2>3. CASE UNCHANGED vars
    BY <2>3 DEF vars, PendingQuestionAnswerable, HoldsToken
  <2>4. QED BY <2>1, <2>2, <2>3
<1>3. QED BY <1>1, <1>2, TurnsAreKept, QuestionsKeepOrder, PTL DEF Spec

-----------------------------------------------------------------------------
(* The gates implement HumanGate.                                          *)

GateOwner == IF meta.retired THEN None ELSE meta.owner
GateQuestion == [g \in Gates |-> [status |-> gate[g].status, run |-> gate[g].run]]
GateUsed == [g \in Gates |->
              {<<worker[c].run, c>> : c \in {d \in Attempts : g \in worker[d].got}}]

LEMMA UsedStays ==
  ASSUME \A c \in Attempts : worker'[c].got = worker[c].got,
         \A c \in Attempts : worker[c].got # {} => worker'[c].run = worker[c].run
  PROVE  GateUsed' = GateUsed
<1>1. ASSUME NEW g \in Gates
      PROVE  {<<worker'[c].run, c>> : c \in {d \in Attempts : g \in worker'[d].got}}
               = {<<worker[c].run, c>> : c \in {d \in Attempts : g \in worker[d].got}}
  OBVIOUS
<1>2. QED BY <1>1 DEF GateUsed

LEMMA QuestionStays ==
  ASSUME GatesKeep PROVE GateQuestion' = GateQuestion
BY DEF GatesKeep, GateQuestion

\* A step that leaves the questions and the conversations alone at most moves the token.
LEMMA QuietTakesOver ==
  ASSUME TypeOK', GateQuestion' = GateQuestion, GateUsed' = GateUsed
  PROVE  Gate!TakeOver
<1>1. GateOwner' \in Runs \cup {None}
  BY DEF GateOwner, TypeOK, MetaRows
<1>2. QED BY <1>1 DEF Gate!TakeOver, GateOwner, GateQuestion, GateUsed

LEMMA AskAsks ==
  ASSUME InTurn, QuestionsInOrder, NEW c \in Attempts, NEW g \in Gates, Ask(c, g)
  PROVE  Gate!Ask(g)
<1>1. /\ gate[g].status = "none" /\ worker[c].run \in Runs /\ HoldsToken(worker[c].run)
      /\ meta'.owner = meta.owner /\ meta'.retired = meta.retired
      /\ gate'[g].status = "pending" /\ gate'[g].run = worker[c].run
      /\ \A h \in Gates : h # g => gate'[h] = gate[h]
      /\ \A d \in Attempts : worker'[d].got = worker[d].got /\ worker'[d].run = worker[d].run
  BY AskFinds, AskMoves DEF InTurn
<1>2. GateOwner = worker[c].run /\ GateOwner # None /\ GateOwner' = GateOwner
  BY <1>1, NoneAssumption DEF GateOwner, HoldsToken
<1>3. GateQuestion' = [GateQuestion EXCEPT ![g] = [status |-> "pending", run |-> GateOwner]]
  BY <1>1, <1>2 DEF GateQuestion
<1>4. GateUsed' = GateUsed
  BY <1>1, UsedStays
<1>5. GateQuestion[g].status = "none"
  BY <1>1 DEF GateQuestion
<1>6. QED BY <1>2, <1>3, <1>4, <1>5 DEF Gate!Ask, GateOwner, GateQuestion, GateUsed

LEMMA SettledMaps ==
  ASSUME NEW g \in Gates, NEW status, SettledAs(g, status)
  PROVE  /\ GateQuestion[g] = [status |-> "pending", run |-> gate[g].run]
         /\ GateQuestion' = [GateQuestion EXCEPT ![g].status = status]
<1>1. /\ gate[g].status = "pending" /\ gate'[g].status = status /\ gate'[g].run = gate[g].run
      /\ \A h \in Gates : h # g => gate'[h].status = gate[h].status /\ gate'[h].run = gate[h].run
  BY DEF SettledAs
<1>2. GateQuestion[g] = [status |-> "pending", run |-> gate[g].run]
  BY <1>1 DEF GateQuestion
<1>3. GateQuestion' = [GateQuestion EXCEPT ![g].status = status]
  BY <1>1 DEF GateQuestion
<1>4. QED BY <1>2, <1>3

\* A step that changes no conversation answers a question of the owner, supersedes one,
\* or at most moves the token.
LEMMA SettleSettles ==
  ASSUME TypeOK', GatesSettle, GateUsed' = GateUsed
  PROVE  Gate!Next
<1>1. CASE GatesKeep
  BY <1>1, QuestionStays, QuietTakesOver DEF Gate!Next
<1>2. ASSUME NEW g \in Gates, SettledAs(g, Answered), OwnsRun(gate[g].run),
             UNCHANGED <<meta.owner, meta.retired>>
      PROVE  Gate!Answer(g)
  <2>1. GateOwner = gate[g].run /\ GateOwner' = GateOwner
    BY <1>2 DEF GateOwner, OwnsRun, HoldsToken
  <2>2. /\ GateQuestion[g] = [status |-> "pending", run |-> GateOwner]
        /\ GateQuestion' = [GateQuestion EXCEPT ![g].status = "answered"]
    BY <1>2, <2>1, SettledMaps DEF Answered
  <2>3. QED BY <2>1, <2>2 DEF Gate!Answer, GateOwner, GateQuestion, GateUsed
<1>3. ASSUME NEW g \in Gates, SettledAs(g, "superseded"), UNCHANGED <<meta.owner, meta.retired>>
      PROVE  Gate!Supersede(g)
  <2>1. GateOwner' = GateOwner
    BY <1>3 DEF GateOwner
  <2>2. /\ GateQuestion[g] = [status |-> "pending", run |-> gate[g].run]
        /\ GateQuestion' = [GateQuestion EXCEPT ![g].status = "superseded"]
    BY <1>3, SettledMaps
  <2>3. QED BY <2>1, <2>2 DEF Gate!Supersede, GateOwner, GateQuestion, GateUsed
<1>4. QED BY <1>1, <1>2, <1>3 DEF GatesSettle, Gate!Next

LEMMA TakenUses ==
  ASSUME InTurn, QuestionsInOrder, Moves, NEW c \in Attempts, NEW g \in Gates, Taken(c, g),
         g \notin worker[c].got
  PROVE  Gate!Use(g, c)
<1>1. gate[g].status = Answered /\ gate[g].run = worker[c].run
  BY TakersMayTake
<1>2. \A d \in Attempts : g \notin worker[d].got
  <2> SUFFICES ASSUME NEW d \in Attempts, g \in worker[d].got PROVE FALSE
    OBVIOUS
  <2>1. d # c /\ g # None
    BY NoneAssumption
  <2>2. CASE Resumes(c, g)
    <3>1. gate[g].cb # d
      BY <2>2 DEF QuestionsInOrder, LegsResume, Resumable
    <3>2. Resumes(d, g)
      BY <3>1 DEF Resumes
    <3>3. QED BY <2>1, <2>2, <3>2 DEF QuestionsInOrder, ResumedOnce
  <2>3. CASE Unspent(c, g)
    <3>1. Resumes(d, g)
      BY <2>1, <2>3 DEF Unspent, Resumes
    <3>2. worker[gate[g].cb].verdict = "WAITING"
      BY <3>1 DEF QuestionsInOrder, LegsResume, Resumable
    <3>3. QED BY <2>3, <3>2, TakersMayTake DEF Unspent
  <2>4. QED BY <2>2, <2>3, TakersMayTake
<1>3. /\ UNCHANGED <<meta, gate>> /\ worker'[c].got = worker[c].got \cup {g}
      /\ \A d \in Attempts : d # c => worker'[d].got = worker[d].got
      /\ \A d \in Attempts : worker'[d].run = worker[d].run
  BY DEF Taken, Moves, WorkerStays
<1>4. GateUsed' = [GateUsed EXCEPT ![g] = {<<gate[g].run, c>>}] /\ GateUsed[g] = {}
  <2>1. ASSUME NEW h \in Gates, h # g
        PROVE  {<<worker'[d].run, d>> : d \in {e \in Attempts : h \in worker'[e].got}}
                 = {<<worker[d].run, d>> : d \in {e \in Attempts : h \in worker[e].got}}
    BY <1>3, <2>1
  <2>2. {<<worker'[d].run, d>> : d \in {e \in Attempts : g \in worker'[e].got}}
          = {<<gate[g].run, c>>}
    <3>1. {e \in Attempts : g \in worker'[e].got} = {c}
      BY <1>2, <1>3
    <3>2. QED BY <1>1, <1>3, <3>1
  <2>3. {<<worker[d].run, d>> : d \in {e \in Attempts : g \in worker[e].got}} = {}
    BY <1>2
  <2>4. QED BY <2>1, <2>2, <2>3 DEF GateUsed
<1>5. /\ GateQuestion[g].status = "answered" /\ GateQuestion[g].run = gate[g].run
      /\ GateQuestion' = GateQuestion /\ GateOwner' = GateOwner
  BY <1>1, <1>3 DEF GateQuestion, GateOwner, Answered
<1>6. QED BY <1>4, <1>5 DEF Gate!Use, GateOwner, GateQuestion, GateUsed

\* The gates implement HumanGate: a question is asked for the owner, answered while that
\* owner holds META (the condition of answerHumanTask), superseded only while pending,
\* and its answer enters one conversation, a leg of the run that asked.
THEOREM GatesKeepProtocol == Spec => GateProtocol
<1>1. Init => Gate!Init
  BY DEF Init, Gate!Init, UnusedWorker
<1>2. InTurn /\ InTurn' /\ QuestionsInOrder /\ [Next]_vars => [Gate!Next]_(Gate!vars)
  <2> SUFFICES ASSUME InTurn, InTurn', QuestionsInOrder, [Next]_vars
               PROVE  Gate!Next \/ UNCHANGED Gate!vars
    OBVIOUS
  <2>t. TypeOK'
    BY DEF InTurn
  <2>1. ASSUME NEW c \in Attempts, NEW g \in Gates, Ask(c, g) PROVE Gate!Next
    BY <2>1, AskAsks DEF Gate!Next
  <2>2. ASSUME NEW c \in Attempts, NEW g \in Gates, Moves, Taken(c, g) PROVE NoneTaken \/ Gate!Next
    <3>1. CASE g \in worker[c].got
      BY <2>2, <3>1 DEF Taken, NoneTaken
    <3>2. CASE g \notin worker[c].got
      BY <2>2, <3>2, TakenUses DEF Gate!Next
    <3>3. QED BY <3>1, <3>2
  <2>3. CASE Next /\ \A c \in Attempts, g \in Gates : ~Ask(c, g)
    <3>1. CASE Moves /\ NoneTaken
      <4>1. GateUsed' = GateUsed
        BY <3>1, UsedStays DEF Moves, WorkerStays, NoneTaken
      <4>2. QED BY <2>3, <2>t, <4>1, QuestionsSettle, SettleSettles
    <3>2. ASSUME NEW r \in Runs, NEW c \in Attempts, Dispatch(r, c) PROVE Gate!Next
      <4>1. worker[c].got = {} /\ worker'[c].got = {}
        <5> DEFINE leg == [UnusedWorker EXCEPT !.run = r, !.from = run[r].from]
                   queued == [leg EXCEPT !.pc = "queued", !.verdict = "open"]
                   refused == [leg EXCEPT !.pc = "gone", !.verdict = "FAILED"]
        <5>1. worker' = [worker EXCEPT ![c] = queued] \/ worker' = [worker EXCEPT ![c] = refused]
          BY <3>2 DEF Dispatch
        <5>2. queued.got = {} /\ refused.got = {}
          BY DEF UnusedWorker
        <5>3. worker \in [Attempts -> WorkerStates]
          BY DEF InTurn, TypeOK, WorkersOK
        <5> HIDE DEF queued, refused
        <5>4. worker'[c].got = {}
          BY <5>1, <5>2, <5>3
        <5>5. worker[c] = UnusedWorker
          BY <3>2, DispatchMoves DEF InTurn, LegsInTurn, Settles
        <5>6. QED BY <5>4, <5>5 DEF UnusedWorker
      <4>2. \A d \in Attempts : d # c => worker'[d] = worker[d]
        BY <3>2, DispatchMoves DEF InTurn
      <4>3. GateUsed' = GateUsed
        BY <4>1, <4>2, UsedStays
      <4>4. QED BY <2>3, <2>t, <4>3, QuestionsSettle, SettleSettles
    <3>3. ASSUME NEW r \in Runs, Await(r) PROVE Gate!Next
      <4>1. GateUsed' = GateUsed
        BY <3>3 DEF Await, GateUsed
      <4>2. QED BY <2>3, <2>t, <4>1, QuestionsSettle, SettleSettles
    <3>4. QED BY <2>2, <2>3, <3>1, <3>2, <3>3, NextMoves
  <2>4. CASE UNCHANGED vars
    BY <2>4 DEF vars, Gate!vars
  <2>5. QED BY <2>1, <2>3, <2>4
<1>3. QED BY <1>1, <1>2, TurnsAreKept, QuestionsKeepOrder, PTL DEF Spec, GateProtocol, Gate!Spec

-----------------------------------------------------------------------------
(* An answered wait is woken or owed.                                      *)

\* An answer counts as delivered only after its callback has been completed.
WokenFirst ==
  /\ \A g \in Gates : gate[g].consumed => gate[g].woken
  /\ \A q \in Requests :
       /\ req[q].pc = "mark" => gate[req[q].gate].woken
       /\ req[q].pc = "consume" => \A g \in req[q].bound : gate[g].woken

\* The gate a run waits on is bound to the run's own callback.
BoundToWaiter ==
  \A r \in Runs :
    /\ run[r].pc \in Parked => gate[run[r].from].bound = r
    /\ run[r].pc = "reread" /\ gate[run[r].from].status = "pending"
         => gate[run[r].from].bound = r

\* META waits for the owner's question.
Waiting(r) == HoldsToken(r) /\ meta.status = "WAITING"

\* META shows the question on which the owner parks: while its attempt can still come to
\* park, while the run awaits the attempt, and while it acts on the gate.
WaitsInView ==
  /\ \A r \in Runs : run[r].pc \in Holding /\ Waiting(r) => meta.gate = run[r].from
  /\ \A c \in Attempts : worker[c].run \in Runs /\ Waiting(worker[c].run) =>
       /\ stage.cb = c /\ worker[c].pc \in AtTurn \ {"marked"} /\ stage.gate # None
            => stage.gate = meta.gate
       /\ stage.cb = c /\ worker[c].pc = "park" => worker[c].gate = meta.gate
       /\ Parks(c) /\ run[worker[c].run].pc = "await" /\ run[worker[c].run].attempt = c
            => worker[c].gate = meta.gate

AnswersReach == WokenFirst /\ BoundToWaiter /\ WaitsInView

LEMMA InitAnswersReach == Init => AnswersReach
BY DEF Init, AnswersReach, WokenFirst, BoundToWaiter, WaitsInView, Waiting, HoldsToken, Parked,
   Holding, IdleRequest, UnusedWorker, Parks, AtTurn

\* A completed callback stays so, and a gate stays bound to its run.
BindsStay ==
  \A g \in Gates : /\ gate[g].woken => gate'[g].woken
                   /\ \A r \in Runs : gate[g].bound = r => gate'[g].bound = r

LEMMA GatesStayBound ==
  ASSUME TypeOK, Next
  PROVE  BindsStay
<1>w. gate \in [Gates -> GateRows]
  BY DEF TypeOK
<1>u. UNCHANGED gate => BindsStay
  BY DEF BindsStay
<1>k. ASSUME NEW g \in Gates, NEW status, NEW wake \in BOOLEAN, Wake(g, status, wake)
      PROVE  BindsStay
  BY <1>k, <1>w DEF Wake, BindsStay, GateRows
<1>d. ASSUME NEW g \in Gates, Deliver(g) PROVE BindsStay
  BY <1>d, <1>w DEF Deliver, BindsStay, GateRows
<1>1. ASSUME NEW c \in Attempts, Worker(c) \/ Timeout(c) \/ Crash(c) PROVE BindsStay
  <2>1. ASSUME NEW g \in Gates, Ask(c, g) PROVE BindsStay
    BY <2>1, <1>w DEF Ask, BindsStay, GateRows
  <2>2. CASE RetireQuestion(c)
    <3>1. worker[c].gate \in Gates
      BY <2>2 DEF RetireQuestion, TypeOK, WorkersOK
    <3>2. QED BY <2>2, <3>1, <1>u, <1>k DEF RetireQuestion
  <2>3. CASE ~RetireQuestion(c) /\ \A g \in Gates : ~Ask(c, g)
    <3>1. UNCHANGED gate
      BY <1>1, <2>3 DEF Worker, Timeout, Crash, Claim, LoadGate, StartTurn,
         MarkExecutionRunning, PollAnswered, LeaveGrace, InlineResume, StopTurn, Exit, Park,
         ClearPointer, FailStage, CompleteStage, ClassifyConflict, Report
    <3>2. QED BY <3>1, <1>u
  <2>4. QED BY <2>1, <2>2, <2>3
<1>2. ASSUME NEW r \in Runs, Orchestrator(r) \/ ReleaseTimer(r) \/ DurableEnds(r)
      PROVE  BindsStay
  <2>1. run[r].pc = "bind" => run[r].from \in Gates
    BY DEF TypeOK, RunsOK, Holding
  <2>2. CASE DeadlineTooClose(r)
    BY <2>1, <2>2, <1>u, <1>k DEF DeadlineTooClose
  <2>3. CASE BindCallback(r)
    <3>1. UNCHANGED gate \/ (gate[run[r].from].bound \in {None, r}
                              /\ gate' = [gate EXCEPT ![run[r].from].bound = r])
      BY <2>3 DEF BindCallback
    <3>2. QED BY <2>1, <2>3, <3>1, <1>w, <1>u, NoneAssumption DEF BindCallback, BindsStay, GateRows
  <2>4. CASE ~DeadlineTooClose(r) /\ ~BindCallback(r)
    <3>1. UNCHANGED gate
      BY <1>2, <2>4 DEF Orchestrator, ReleaseTimer, DurableEnds, Mint, InitWorkspace,
         MarkRunning, Dispatch, Await, Reconcile, RereadGate, Woken, ReleaseSession, AfterGate,
         Unpark, FinishSucceeded, Fail
    <3>2. QED BY <3>1, <1>u
  <2>5. QED BY <2>2, <2>3, <2>4
<1>3. ASSUME NEW q \in Requests, Begin(q) \/ Handle(q) \/ RequestDies(q) PROVE BindsStay
  <2>1. CASE Answer(q)
    <3>1. req[q].gate \in Gates
      BY <2>1 DEF Answer, TypeOK, RequestsOK
    <3>2. QED BY <2>1, <3>1, <1>u, <1>k DEF Answer
  <2>2. ASSUME NEW g \in Gates, Supersede(q, g) PROVE BindsStay
    BY <2>2, <1>u, <1>k DEF Supersede
  <2>3. CASE SendAnswer(q) \/ \E g \in Gates : Resend(q, g)
    <3>1. UNCHANGED gate \/ \E g \in Gates : Deliver(g)
      BY <2>3 DEF SendAnswer, Resend, TypeOK, RequestsOK
    <3>2. QED BY <3>1, <1>u, <1>d
  <2>4. CASE MarkConsumed(q) \/ Consume(q)
    BY <2>4, <1>w DEF MarkConsumed, Consume, BindsStay, GateRows
  <2>5. CASE UNCHANGED gate
    BY <2>5, <1>u
  <2>6. \/ UNCHANGED gate \/ Answer(q) \/ (\E g \in Gates : Supersede(q, g) \/ Resend(q, g))
        \/ SendAnswer(q) \/ MarkConsumed(q) \/ Consume(q)
    BY <1>3 DEF Begin, Handle, RequestDies, ReadForAnswer, ReadForResume, ReadForStart,
       ReadForCancel, ReadForRewind, ClearMarker, Start, Invoke, StampArn, Rollback,
       RetireRun, ReadRecords, StopSessions, Cancel, ResetStage, Relaunch
  <2>7. QED BY <2>1, <2>2, <2>3, <2>4, <2>5, <2>6
<1>4. ASSUME NEW w \in Watchdogs, Watchdog(w) PROVE BindsStay
  BY <1>4, <1>u DEF Watchdog, ListActive, Sweep
<1>5. QED BY <1>1, <1>2, <1>3, <1>4 DEF Next

LEMMA WokenStaysFirst ==
  ASSUME TypeOK, WokenFirst, Next
  PROVE  WokenFirst'
<1>w. gate \in [Gates -> GateRows] /\ req \in [Requests \cup Watchdogs -> RequestStates]
  BY DEF TypeOK, RequestsOK
<1>b. \A g \in Gates : gate[g].woken => gate'[g].woken
  BY GatesStayBound DEF BindsStay
<1>g. \A q \in Requests : /\ req[q].pc = "mark" => req[q].gate \in Gates
                          /\ req[q].bound \in SUBSET Gates
  BY <1>w DEF TypeOK, RequestsOK, RequestStates
<1>i. IdleRequest.pc = "idle"
  BY DEF IdleRequest
<1> DEFINE Kept(q) == req'[q].pc \in {"mark", "consume"} =>
                        /\ req'[q].pc = req[q].pc
                        /\ req'[q].gate = req[q].gate /\ req'[q].bound = req[q].bound
           NoneNew == \A g \in Gates : gate'[g].consumed = gate[g].consumed
<1>k. ASSUME NoneNew, \A q \in Requests : Kept(q) PROVE WokenFirst'
  BY <1>k, <1>b, <1>g DEF WokenFirst
<1>u. UNCHANGED req => \A q \in Requests : Kept(q)
  OBVIOUS
<1>n. UNCHANGED gate => NoneNew
  OBVIOUS
<1>a. ASSUME NEW g \in Gates, NEW status, NEW wake \in BOOLEAN, Wake(g, status, wake)
      PROVE  NoneNew
  BY <1>a, <1>w DEF Wake, GateRows
<1>1. ASSUME NEW c \in Attempts, Worker(c) \/ Timeout(c) \/ Crash(c) PROVE WokenFirst'
  <2>1. UNCHANGED req
    BY <1>1 DEF Worker, Timeout, Crash, Claim, LoadGate, StartTurn, MarkExecutionRunning, Ask,
       PollAnswered, LeaveGrace, InlineResume, StopTurn, Exit, Park, RetireQuestion,
       ClearPointer, FailStage, CompleteStage, ClassifyConflict, Report
  <2>2. NoneNew
    <3>1. ASSUME NEW g \in Gates, Ask(c, g) PROVE NoneNew
      BY <3>1, <1>w DEF Ask, GateRows
    <3>2. CASE RetireQuestion(c)
      <4>1. worker[c].gate \in Gates
        BY <3>2 DEF RetireQuestion, TypeOK, WorkersOK
      <4>2. QED BY <3>2, <4>1, <1>n, <1>a DEF RetireQuestion
    <3>3. CASE ~RetireQuestion(c) /\ \A g \in Gates : ~Ask(c, g)
      BY <1>1, <3>3, <1>n DEF Worker, Timeout, Crash, Claim, LoadGate, StartTurn,
         MarkExecutionRunning, PollAnswered, LeaveGrace, InlineResume, StopTurn, Exit, Park,
         ClearPointer, FailStage, CompleteStage, ClassifyConflict, Report
    <3>4. QED BY <3>1, <3>2, <3>3
  <2>3. QED BY <2>1, <2>2, <1>k, <1>u
<1>2. ASSUME NEW r \in Runs, Orchestrator(r) \/ ReleaseTimer(r) \/ DurableEnds(r)
      PROVE  WokenFirst'
  <2>1. UNCHANGED req
    BY <1>2, RunMoves
  <2>2. NoneNew
    BY <1>2, <1>w DEF GateRows, Wake, Orchestrator, ReleaseTimer, DurableEnds, Mint,
       InitWorkspace, MarkRunning, Dispatch, Await, Reconcile, DeadlineTooClose, BindCallback,
       RereadGate, Woken, ReleaseSession, AfterGate, Unpark, FinishSucceeded, Fail
  <2>3. QED BY <2>1, <2>2, <1>k, <1>u
<1>3. ASSUME NEW q \in Requests, Begin(q) \/ Handle(q) \/ RequestDies(q) PROVE WokenFirst'
  <2>e. ASSUME NEW x, req' = [req EXCEPT ![q] = x], x.pc \notin {"mark", "consume"}
        PROVE  \A p \in Requests : Kept(p)
    BY <2>e, <1>w
  <2>f. Finish(q) => \A p \in Requests : Kept(p)
    BY <2>e, <1>i DEF Finish
  <2>t. ASSUME NEW pc, GotoReq(q, pc), pc \notin {"mark", "consume"}
        PROVE  \A p \in Requests : Kept(p)
    <3>1. req' = [req EXCEPT ![q] = [req[q] EXCEPT !.pc = pc]]
      BY <2>t DEF GotoReq
    <3>2. [req[q] EXCEPT !.pc = pc].pc = pc
      BY <1>w DEF RequestStates
    <3>3. QED BY <2>e, <2>t, <3>1, <3>2
  <2>1. CASE MarkConsumed(q)
    <3>1. \A p \in Requests : Kept(p)
      BY <2>1, <2>f DEF MarkConsumed
    <3>2. /\ gate' = [gate EXCEPT ![req[q].gate].consumed = TRUE] /\ req[q].pc = "mark"
      BY <2>1 DEF MarkConsumed
    <3>3. \A g \in Gates : gate'[g].consumed => gate[g].consumed \/ g = req[q].gate
      BY <3>2, <1>w DEF GateRows
    <3>4. QED BY <3>1, <3>2, <3>3, <1>b, <1>g DEF WokenFirst
  <2>2. CASE Consume(q)
    <3>1. \A p \in Requests : Kept(p)
      BY <2>2, <2>t DEF Consume
    <3>2. \A g \in Gates : gate'[g].consumed => gate[g].consumed \/ g \in req[q].bound
      BY <2>2, <1>w DEF Consume, GateRows
    <3>3. req[q].pc = "consume"
      BY <2>2 DEF Consume
    <3>4. QED BY <3>1, <3>2, <3>3, <1>b, <1>g DEF WokenFirst
  <2>3. CASE SendAnswer(q)
    <3>1. req[q].gate \in Gates /\ NoneNew
      BY <2>3, <1>w DEF SendAnswer, Deliver, TypeOK, RequestsOK, GateRows
    <3>2. CASE Deliver(req[q].gate) /\ GotoReq(q, "mark")
      <4>1. gate'[req[q].gate].woken
        BY <3>1, <3>2, <1>w DEF Deliver, GateRows
      <4>2. req'[q].gate = req[q].gate /\ req'[q].pc = "mark"
            /\ \A p \in Requests : p # q => req'[p] = req[p]
        BY <3>2, <1>w DEF GotoReq, RequestStates
      <4>3. QED BY <3>1, <4>1, <4>2, <1>b, <1>g DEF WokenFirst
    <3>3. CASE Finish(q)
      BY <3>1, <3>3, <2>f, <1>k
    <3>4. QED BY <2>3, <3>2, <3>3 DEF SendAnswer
  <2>4. ASSUME NEW g \in Gates, Resend(q, g) PROVE WokenFirst'
    <3> DEFINE x == [req[q] EXCEPT !.pc = "consume", !.bound = {g}, !.todo = @ \ {g}]
               y == [[req[q] EXCEPT !.pc = "resend", !.bound = {g}, !.todo = @ \ {g}]
                       EXCEPT !.gate = None]
    <3>1. NoneNew
      BY <2>4, <1>w DEF Resend, Deliver, GateRows
    <3>2. x.pc = "consume" /\ x.bound = {g} /\ y.pc = "resend"
      BY <1>w DEF RequestStates
    <3>3. \/ req' = [req EXCEPT ![q] = x] /\ (gate[g].woken \/ Deliver(g))
          \/ req' = [req EXCEPT ![q] = y]
          \/ GotoReq(q, "clear")
      BY <2>4 DEF Resend
    <3> HIDE DEF x, y
    <3>4. CASE req' = [req EXCEPT ![q] = x] /\ (gate[g].woken \/ Deliver(g))
      <4>1. gate'[g].woken
        BY <3>4, <1>w, <1>b DEF Deliver, GateRows
      <4>2. req'[q].pc = "consume" /\ req'[q].bound = {g}
            /\ \A p \in Requests : p # q => req'[p] = req[p]
        BY <3>2, <3>4, <1>w
      <4>3. QED BY <3>1, <4>1, <4>2, <1>b, <1>g DEF WokenFirst
    <3>5. CASE req' = [req EXCEPT ![q] = y]
      BY <3>1, <3>2, <3>5, <2>e, <1>k
    <3>6. CASE GotoReq(q, "clear")
      BY <3>1, <3>6, <2>t, <1>k
    <3>7. QED BY <3>3, <3>4, <3>5, <3>6
  <2>5. CASE Begin(q)
    <3>1. \A op, pc : SeenStatus(op, pc).pc = pc /\ Seen(op, pc).pc = pc
      BY DEF SeenStatus, Seen, IdleRequest
    <3>2. ASSUME NEW g \in Gates, ReadForAnswer(q, g) PROVE \A p \in Requests : Kept(p)
      <4>1. [Seen("answer", "answer") EXCEPT !.gate = g].pc = "answer"
        BY DEF SeenStatus, Seen, IdleRequest
      <4>2. QED BY <3>2, <4>1, <2>e DEF ReadForAnswer
    <3>3. ASSUME ReadForResume(q) PROVE \A p \in Requests : Kept(p)
      <4> DEFINE seen == [Seen("resume", "resend") EXCEPT
                            !.gate = meta.owed, !.todo = {g \in Gates : ResumeOwed(g)}]
      <4>1. seen.pc = "resend"
        BY DEF SeenStatus, Seen, IdleRequest
      <4>2. req' = [req EXCEPT ![q] = seen]
        BY <3>3 DEF ReadForResume
      <4> HIDE DEF seen
      <4>3. req'[q].pc = "resend" /\ \A p \in Requests : p # q => req'[p] = req[p]
        BY <4>1, <4>2, <1>w
      <4>4. QED BY <4>3
    <3>4. ASSUME ReadForStart(q) \/ ReadForCancel(q) \/ ReadForRewind(q)
          PROVE  \A p \in Requests : Kept(p)
      <4>1. /\ SeenStatus("start", "start").pc = "start"
            /\ SeenStatus("cancel", "records").pc = "records"
            /\ Seen("rewind", "rewind").pc = "rewind"
        BY <3>1
      <4>2. \/ req' = [req EXCEPT ![q] = SeenStatus("start", "start")]
            \/ req' = [req EXCEPT ![q] = SeenStatus("cancel", "records")]
            \/ req' = [req EXCEPT ![q] = Seen("rewind", "rewind")]
        BY <3>4 DEF ReadForStart, ReadForCancel, ReadForRewind
      <4>3. /\ req'[q].pc \in {"start", "records", "rewind"}
            /\ \A p \in Requests : p # q => req'[p] = req[p]
        BY <4>1, <4>2, <1>w
      <4>4. QED BY <4>3
    <3>5. UNCHANGED gate
      BY <2>5 DEF Begin, ReadForAnswer, ReadForResume, ReadForStart, ReadForCancel,
         ReadForRewind
    <3>6. QED BY <2>5, <3>2, <3>3, <3>4, <3>5, <1>n, <1>k DEF Begin
  <2>6. CASE \/ Answer(q) \/ (\E g \in Gates : Supersede(q, g)) \/ ReadRecords(q)
    <3>1. CASE Answer(q)
      <4>1. req[q].gate \in Gates
        BY <3>1 DEF Answer, TypeOK, RequestsOK
      <4>2. NoneNew
        BY <3>1, <4>1, <1>n, <1>a DEF Answer
      <4>3. QED BY <3>1, <4>2, <2>f, <2>t, <1>k DEF Answer
    <3>2. ASSUME NEW g \in Gates, Supersede(q, g) PROVE WokenFirst'
      <4>1. NoneNew
        BY <3>2, <1>n, <1>a DEF Supersede
      <4>2. req'[q].pc = "supersede" /\ \A p \in Requests : p # q => req'[p] = req[p]
        BY <3>2, <1>w DEF Supersede, RequestStates
      <4>3. QED BY <4>1, <4>2, <1>k
    <3>3. CASE ReadRecords(q)
      <4>1. req'[q].pc = "supersede" /\ \A p \in Requests : p # q => req'[p] = req[p]
        BY <3>3, <1>w DEF ReadRecords, RequestStates
      <4>2. NoneNew
        BY <3>3, <1>n DEF ReadRecords
      <4>3. QED BY <4>1, <4>2, <1>k
    <3>4. QED BY <2>6, <3>1, <3>2, <3>3
  <2>7. CASE \/ RequestDies(q) \/ ClearMarker(q) \/ StampArn(q) \/ Rollback(q)
             \/ Cancel(q) \/ ResetStage(q) \/ Relaunch(q) \/ StopSessions(q) \/ Invoke(q)
    <3>1. UNCHANGED gate
      BY <2>7 DEF RequestDies, ClearMarker, StampArn, Rollback, Cancel, ResetStage, Relaunch,
         StopSessions, Invoke
    <3>2. \A p \in Requests : Kept(p)
      BY <2>7, <2>f, <2>t DEF RequestDies, ClearMarker, StampArn, Rollback, Cancel, ResetStage,
         Relaunch, StopSessions, Invoke
    <3>3. QED BY <3>1, <3>2, <1>n, <1>k
  <2>8. ASSUME NEW r \in Runs, Start(q, r) \/ RetireRun(q, r) PROVE WokenFirst'
    <3>1. UNCHANGED gate
      BY <2>8 DEF Start, RetireRun
    <3>2. CASE Finish(q)
      BY <3>1, <3>2, <2>f, <1>n, <1>k
    <3>3. CASE Start(q, r) /\ ~Finish(q)
      BY <3>1, <3>3, <1>w, <1>n, <1>k DEF Start, RequestStates
    <3>4. CASE RetireRun(q, r) /\ ~Finish(q)
      <4> DEFINE x == [IdleRequest EXCEPT !.op = "rewind", !.pc = "records", !.run = r]
      <4>1. x.pc = "records"
        BY DEF IdleRequest
      <4>2. req' = [req EXCEPT ![q] = x]
        BY <3>4 DEF RetireRun
      <4> HIDE DEF x
      <4>3. QED BY <3>1, <4>1, <4>2, <2>e, <1>n, <1>k
    <3>5. QED BY <2>8, <3>2, <3>3, <3>4
  <2>9. QED BY <1>3, <2>1, <2>2, <2>3, <2>4, <2>5, <2>6, <2>7, <2>8 DEF Handle
<1>4. ASSUME NEW w \in Watchdogs, Watchdog(w) PROVE WokenFirst'
  <2>1. UNCHANGED gate /\ \E x : req' = [req EXCEPT ![w] = x]
    BY <1>4 DEF Watchdog, ListActive, Sweep, Finish
  <2>2. \A q \in Requests : req'[q] = req[q]
    BY <2>1, <1>w, SlotAssumption
  <2>3. QED BY <2>1, <2>2, <1>n, <1>k
<1>5. QED BY <1>1, <1>2, <1>3, <1>4 DEF Next

\* A run comes to wait on its gate by way of the bind and the re-read.
LEMMA WaitersMove ==
  ASSUME InTurn, Next, NEW r \in Runs, run'[r].pc \in Parked \cup {"reread"}
  PROVE  /\ run[r].pc \in Holding /\ run'[r].from = run[r].from
         /\ \/ run[r].pc \in Parked
            \/ run[r].pc = "reread" /\ run'[r].pc = "reread"
            \/ run[r].pc = "reread" /\ gate[run[r].from].status \notin Settled
            \/ /\ run[r].pc = "bind" /\ run'[r].pc = "reread"
               /\ gate'[run[r].from].bound = r \/ gate'[run[r].from].status # "pending"
<1>m. run \in [Runs -> RunStates] /\ run[r] \in RunStates /\ gate \in [Gates -> GateRows]
  BY DEF InTurn, TypeOK, RunsOK
<1>k. run'[r] = run[r] => (run'[r].pc = run[r].pc /\ run'[r].from = run[r].from)
  OBVIOUS
<1>u. ASSUME run'[r] = run[r]
      PROVE  /\ run[r].pc \in Holding /\ run'[r].from = run[r].from
             /\ run[r].pc \in Parked \/ (run[r].pc = "reread" /\ run'[r].pc = "reread")
  BY <1>u, <1>k DEF Parked, Holding
<1>s. ASSUME NEW pc, Step(r, pc), pc \notin {"done", "dead"}
      PROVE  run'[r].pc = pc /\ run'[r].from = run[r].from
  BY <1>s, <1>m DEF Step, RunStates
<1>d. ASSUME NEW pc, Step(r, pc) PROVE run'[r].pc = pc
  BY <1>d, <1>m DEF Step, RunStates
<1>1. ASSUME NEW c \in Attempts, Worker(c) \/ Timeout(c) \/ Crash(c) PROVE run'[r] = run[r]
  BY <1>1, WorkerMoves DEF InTurn, LegsInTurn
<1>2. ASSUME NEW q \in Requests, Begin(q) \/ Handle(q) \/ RequestDies(q) PROVE run'[r] = run[r]
  BY <1>2, RequestIsQuiet DEF InTurn, Quiet, Before, Parked
<1>3. ASSUME NEW w \in Watchdogs, Watchdog(w) PROVE run'[r] = run[r]
  BY <1>3, WatchdogIsQuiet DEF InTurn, Quiet, Before, Parked
<1>4. ASSUME NEW s \in Runs, s # r, Orchestrator(s) \/ ReleaseTimer(s) \/ DurableEnds(s)
      PROVE  run'[r] = run[r]
  BY <1>4, RunMoves DEF InTurn
<1>5. CASE BindCallback(r)
  <2>1. run[r].from \in Gates /\ run[r].pc = "bind"
    BY <1>5 DEF BindCallback, InTurn, TypeOK, RunsOK, Holding
  <2>2. \/ Step(r, "failing")
        \/ /\ Step(r, "reread")
           /\ \/ gate' = [gate EXCEPT ![run[r].from].bound = r]
              \/ UNCHANGED gate /\ gate[run[r].from].status \in Settled
    BY <1>5 DEF BindCallback, Settled
  <2>3. Step(r, "reread")
    BY <2>2, <1>d DEF Parked
  <2>4. run'[r].pc = "reread" /\ run'[r].from = run[r].from
    BY <2>3, <1>s
  <2>5. gate'[run[r].from].bound = r \/ gate'[run[r].from].status # "pending"
    BY <2>1, <2>2, <2>3, <2>4, <1>d, <1>m DEF GateRows, Settled, Answered
  <2>6. QED BY <2>1, <2>4, <2>5 DEF Holding
<1>6. CASE RereadGate(r)
  <2>1. /\ run[r].pc = "reread"
        /\ Step(r, IF gate[run[r].from].status \in Settled THEN "after" ELSE "wait")
    BY <1>6 DEF RereadGate
  <2>2. gate[run[r].from].status \notin Settled
    BY <2>1, <1>d DEF Parked
  <2>3. QED BY <2>1, <2>2, <1>s DEF Holding
<1>7. CASE ReleaseTimer(r) \/ ReleaseSession(r)
  <2>1. run[r].pc \in Parked /\ run[r].pc \in Holding
    BY <1>7 DEF ReleaseTimer, ReleaseSession, Parked, Holding
  <2>2. Step(r, "release") \/ Step(r, "after") \/ Step(r, "parked")
    BY <1>7 DEF ReleaseTimer, ReleaseSession
  <2>3. QED BY <2>1, <2>2, <1>s
<1>8. CASE Orchestrator(r) /\ ~BindCallback(r) /\ ~RereadGate(r) /\ ~ReleaseSession(r)
  <2>1. \A c \in Attempts : Dispatch(r, c) => run'[r].pc = "await"
    BY <1>m DEF Dispatch, RunStates
  <2>2. Await(r) => run'[r].pc \in {"finish", "bind", "reconcile"}
    BY <1>m DEF Await, RunStates
  <2>3. \/ \E pc \in {"init", "mark", "dispatch", "failing", "done", "after", "unpark"} :
             Step(r, pc)
        \/ Await(r) \/ \E c \in Attempts : Dispatch(r, c)
    BY <1>8 DEF Orchestrator, Mint, InitWorkspace, MarkRunning, Reconcile, DeadlineTooClose,
       Woken, AfterGate, Unpark, FinishSucceeded, Fail
  <2>4. QED BY <2>1, <2>2, <2>3, <1>d DEF Parked
<1>9. CASE DurableEnds(r)
  BY <1>9, <1>d DEF DurableEnds, Parked
<1>10. QED
  BY <1>u, <1>1, <1>2, <1>3, <1>4, <1>5, <1>6, <1>7, <1>8, <1>9 DEF Next

\* A question that is pending was pending, or has just been asked.
LEMMA PendingWas ==
  ASSUME InTurn, QuestionsInOrder, Next, NEW g \in Gates, Asked(g), gate'[g].status = "pending"
  PROVE  gate[g].status = "pending"
<1>1. ASSUME NEW c \in Attempts, NEW h \in Gates, Ask(c, h) PROVE gate[g].status = "pending"
  BY <1>1, AskFinds, AskMoves DEF Asked, InTurn
<1>2. CASE \A c \in Attempts, h \in Gates : ~Ask(c, h)
  BY <1>2, QuestionsSettle DEF GatesSettle, GatesKeep, SettledAs, Answered
<1>3. QED BY <1>1, <1>2

\* A run waits on a gate it has bound: bind-callback binds it, and the re-read lets the
\* run wait only while the gate is still pending.
LEMMA WaitersStayBound ==
  ASSUME InTurn, QuestionsInOrder, BoundToWaiter, Next
  PROVE  BoundToWaiter'
<1> SUFFICES ASSUME NEW r \in Runs, run'[r].pc \in Parked \cup {"reread"}
             PROVE  \/ gate'[run'[r].from].bound = r
                    \/ run'[r].pc = "reread" /\ gate'[run'[r].from].status # "pending"
  BY DEF BoundToWaiter, Parked
<1>1. PICK g \in Gates : g = run[r].from /\ g = run'[r].from
  BY WaitersMove DEF InTurn, TypeOK, RunsOK
<1>2. Asked(g)
  BY <1>1, WaitersMove, NoneAssumption DEF QuestionsInOrder, ResumedOnce, Resumable
<1>3. gate'[g].status = "pending" => gate[g].status = "pending"
  BY <1>2, PendingWas
<1>4. gate[g].bound = r => gate'[g].bound = r
  BY GatesStayBound DEF BindsStay, InTurn
<1>5. CASE run[r].pc \in Parked
  BY <1>1, <1>4, <1>5 DEF BoundToWaiter
<1>6. CASE run[r].pc = "reread" /\ run'[r].pc = "reread"
  BY <1>1, <1>3, <1>4, <1>6 DEF BoundToWaiter
<1>7. CASE run[r].pc = "reread" /\ gate[g].status \notin Settled
  <2>1. gate[g].status = "pending"
    BY <1>2, <1>7 DEF Asked, InTurn, TypeOK, GateRows, Settled
  <2>2. QED BY <1>1, <1>4, <1>7, <2>1 DEF BoundToWaiter
<1>8. QED BY <1>1, <1>5, <1>6, <1>7, WaitersMove

\* Two runs do not hold the token at once.
LEMMA OneOwner ==
  ASSUME NEW r, NEW s, HoldsToken(r), HoldsToken(s)
  PROVE  r = s
BY DEF HoldsToken

\* While an attempt of the owner is at work, its run acts on no gate, the run awaits no
\* other attempt, and the attempt itself has not parked.
LEMMA OwnerAtWork ==
  ASSUME InTurn, NEW e \in Attempts, worker[e].run \in Runs, worker[e].pc \in {"turn", "clear"}
  PROVE  /\ run[worker[e].run].pc \notin Holding /\ ~Parks(e)
         /\ run[worker[e].run].pc = "await" => run[worker[e].run].attempt = e
<1>1. worker[e].verdict # "WAITING"
  BY DEF InTurn, LegsInTurn, Settles
<1>2. /\ run[worker[e].run].pc \in Deciding \cup Ending
      /\ run[worker[e].run].pc \in Deciding => run[worker[e].run].attempt = e
  BY <1>1 DEF InTurn, LegsInTurn, OneAfterTheOther
<1>3. QED BY <1>1, <1>2 DEF Parks, Deciding, Ending, Holding

LEMMA AskShows ==
  ASSUME InTurn, QuestionsInOrder, NEW c \in Attempts, NEW g \in Gates, Ask(c, g)
  PROVE  WaitsInView'
<1>f. /\ worker[c].run \in Runs /\ HoldsToken(worker[c].run) /\ worker[c].verdict # "WAITING"
      /\ \A d \in Attempts : d # c /\ worker[d].run = worker[c].run
                               => worker[d].verdict = "WAITING" /\ worker[d].pc = "gone"
  BY AskFinds
<1>m. /\ UNCHANGED run
      /\ meta'.owner = meta.owner /\ meta'.retired = meta.retired /\ meta'.gate = g
      /\ stage'.gate = g
      /\ worker'[c].pc = "grace" /\ worker'[c].gate = g /\ worker'[c].run = worker[c].run
      /\ worker'[c].verdict = worker[c].verdict
      /\ \A d \in Attempts : d # c => worker'[d] = worker[d]
  BY AskMoves DEF InTurn
<1>t. \A r : HoldsToken(r)' => r = worker[c].run
  BY <1>f, <1>m DEF HoldsToken
<1>w. /\ run[worker[c].run].pc \notin Holding
      /\ run[worker[c].run].pc = "await" => run[worker[c].run].attempt = c
  BY <1>f, OwnerAtWork DEF Ask
<1>1. ASSUME NEW r \in Runs, run'[r].pc \in Holding, Waiting(r)' PROVE FALSE
  BY <1>1, <1>m, <1>t, <1>w DEF Waiting
<1>2. ASSUME NEW d \in Attempts, Waiting(worker[d].run)'
      PROVE  /\ stage'.cb = d /\ worker'[d].pc \in AtTurn \ {"marked"} /\ stage'.gate # None
                  => stage'.gate = meta'.gate
             /\ stage'.cb = d /\ worker'[d].pc = "park" => worker'[d].gate = meta'.gate
             /\ Parks(d)' /\ run'[worker'[d].run].pc = "await"
                  /\ run'[worker'[d].run].attempt = d
                  => worker'[d].gate = meta'.gate
  <2>1. worker'[d].run = worker[c].run
    BY <1>2, <1>t DEF Waiting
  <2>2. CASE d = c
    BY <2>2, <1>m
  <2>3. CASE d # c
    BY <2>1, <2>3, <1>f, <1>m, <1>w DEF AtTurn
  <2>4. QED BY <2>2, <2>3
<1>3. QED BY <1>1, <1>2 DEF WaitsInView

LEMMA DispatchShows ==
  ASSUME InTurn, WaitsInView, NEW r \in Runs, NEW c \in Attempts, Dispatch(r, c)
  PROVE  WaitsInView'
<1>1. /\ UNCHANGED <<meta, stage>> /\ run'[r].pc = "await" /\ run'[r].attempt = c
      /\ \A s \in Runs : s # r => run'[s] = run[s]
  BY DEF Dispatch, InTurn, TypeOK, RunsOK, RunStates
<1>2. /\ worker'[c].pc \in {"queued", "gone"} /\ worker'[c].verdict # "WAITING"
      /\ \A d \in Attempts : d # c => worker'[d] = worker[d]
  BY DispatchMoves DEF InTurn
<1>3. \A x : Waiting(x)' <=> Waiting(x)
  BY <1>1 DEF Waiting, HoldsToken
<1>4. ASSUME NEW s \in Runs, run'[s].pc \in Holding, Waiting(s)' PROVE meta'.gate = run'[s].from
  <2>1. s # r
    BY <1>1, <1>4 DEF Holding
  <2>2. QED BY <1>1, <1>3, <1>4, <2>1 DEF WaitsInView
<1>5. ASSUME NEW d \in Attempts, worker'[d].run \in Runs, Waiting(worker[d].run)'
      PROVE  /\ stage'.cb = d /\ worker'[d].pc \in AtTurn \ {"marked"} /\ stage'.gate # None
                  => stage'.gate = meta'.gate
             /\ stage'.cb = d /\ worker'[d].pc = "park" => worker'[d].gate = meta'.gate
             /\ Parks(d)' /\ run'[worker'[d].run].pc = "await"
                  /\ run'[worker'[d].run].attempt = d
                  => worker'[d].gate = meta'.gate
  <2>1. CASE d = c
    BY <2>1, <1>2 DEF AtTurn, Parks
  <2>2. CASE d # c
    <3>1. worker'[d] = worker[d] /\ worker[d].run \in Runs /\ Waiting(worker[d].run)
      BY <2>2, <1>1, <1>2, <1>5 DEF Waiting, HoldsToken
    <3>2. Parks(d)' <=> Parks(d)
      BY <3>1 DEF Parks
    <3>3. run'[worker[d].run].pc = "await" /\ run'[worker[d].run].attempt = d
            => run'[worker[d].run] = run[worker[d].run]
      BY <2>2, <3>1, <1>1
    <3>4. QED BY <3>1, <3>2, <3>3, <1>1 DEF WaitsInView
  <2>3. QED BY <2>1, <2>2
<1>6. QED BY <1>4, <1>5 DEF WaitsInView

LEMMA AwaitShows ==
  ASSUME InTurn, WaitsInView, NEW r \in Runs, Await(r)
  PROVE  WaitsInView'
<1> DEFINE a == run[r].attempt
<1>1. /\ UNCHANGED <<meta, stage, worker>> /\ run[r].pc = "await"
      /\ \A s \in Runs : s # r => run'[s] = run[s]
      /\ \/ run'[r].pc = "bind" /\ worker[a].verdict = "WAITING" /\ run'[r].from = worker[a].gate
         \/ run'[r].pc \in {"finish", "reconcile"}
  BY DEF Await, InTurn, TypeOK, RunsOK, RunStates
<1>2. a \in Attempts /\ worker[a].run = r
  BY <1>1 DEF InTurn, LegsInTurn, Awaited, Deciding
<1> HIDE DEF a
<1>3. \A x : Waiting(x)' <=> Waiting(x)
  BY <1>1 DEF Waiting, HoldsToken
<1>4. ASSUME NEW s \in Runs, run'[s].pc \in Holding, Waiting(s)' PROVE meta'.gate = run'[s].from
  <2>1. CASE s # r
    BY <1>1, <1>3, <1>4, <2>1 DEF WaitsInView
  <2>2. CASE s = r
    <3>1. worker[a].verdict = "WAITING" /\ run'[r].from = worker[a].gate /\ Waiting(r)
      BY <1>1, <1>3, <1>4, <2>2 DEF Holding
    <3>2. worker[a].gate = meta.gate
      BY <1>1, <1>2, <3>1 DEF WaitsInView, Parks, a
    <3>3. QED BY <1>1, <2>2, <3>1, <3>2
  <2>3. QED BY <2>1, <2>2
<1>5. ASSUME NEW d \in Attempts, worker'[d].run \in Runs, Waiting(worker[d].run)'
      PROVE  /\ stage'.cb = d /\ worker'[d].pc \in AtTurn \ {"marked"} /\ stage'.gate # None
                  => stage'.gate = meta'.gate
             /\ stage'.cb = d /\ worker'[d].pc = "park" => worker'[d].gate = meta'.gate
             /\ Parks(d)' /\ run'[worker'[d].run].pc = "await"
                  /\ run'[worker'[d].run].attempt = d
                  => worker'[d].gate = meta'.gate
  <2>1. worker'[d] = worker[d] /\ worker[d].run \in Runs /\ Waiting(worker[d].run)
    BY <1>1, <1>5 DEF Waiting, HoldsToken
  <2>2. Parks(d)' <=> Parks(d)
    BY <1>1 DEF Parks
  <2>3. run'[worker[d].run].pc = "await" => run'[worker[d].run] = run[worker[d].run]
    BY <2>1, <1>1
  <2>4. QED BY <2>1, <2>2, <2>3, <1>1 DEF WaitsInView
<1>6. QED BY <1>4, <1>5 DEF WaitsInView

\* No other step brings META to wait, and only the owner's attempt that retires its
\* question takes it out of META's view.
LEMMA MovesShow ==
  ASSUME InTurn, QuestionsInOrder, WaitsInView, Moves, Next,
         \A c \in Attempts, g \in Gates : ~Ask(c, g)
  PROVE  WaitsInView'
<1>r. ASSUME NEW r \in Runs, run'[r].pc \in Holding, Waiting(r)'
      PROVE  /\ run[r].pc \in Holding /\ run'[r].from = run[r].from /\ Waiting(r)
  <2>1. run[r].pc \in Holding /\ run'[r].from = run[r].from
    BY <1>r DEF Moves, RunStays
  <2>2. HoldsToken(r) /\ meta.status = "WAITING"
    BY <1>r, <2>1, TokenIsMinted, QuestionsSettle DEF Waiting, WaitsKeep, InTurn, Holding
  <2>3. QED BY <2>1, <2>2 DEF Waiting
<1>c. ASSUME NEW c \in Attempts, worker'[c].run \in Runs, Waiting(worker[c].run)'
      PROVE  /\ WorkerStays(c) /\ worker'[c].run = worker[c].run
             /\ worker[c].run \in Runs /\ Waiting(worker[c].run) /\ meta'.status = "WAITING"
  <2>1. WorkerStays(c) /\ worker'[c].run = worker[c].run /\ worker[c].run \in Runs
    BY <1>c DEF Moves, WorkerStays
  <2>2. meta.status = "WAITING" /\ meta'.status = "WAITING"
    BY <1>c, QuestionsSettle DEF Waiting, WaitsKeep
  <2>3. HoldsToken(worker[c].run)
    BY <1>c, <2>1, AttemptKeepsToken DEF Waiting
  <2>4. QED BY <2>1, <2>2, <2>3 DEF Waiting
<1>a. ASSUME NEW c \in Attempts, Parks(c)',
             run'[worker'[c].run].pc = "await", run'[worker'[c].run].attempt = c,
             worker'[c].run = worker[c].run, worker[c].run \in Runs
      PROVE  run[worker[c].run].pc = "await" /\ run[worker[c].run].attempt = c
  BY <1>a DEF Moves, RunStays
<1>1. CASE meta'.gate = meta.gate
  <2>1. ASSUME NEW r \in Runs, run'[r].pc \in Holding, Waiting(r)'
        PROVE  meta'.gate = run'[r].from
    BY <1>1, <2>1, <1>r DEF WaitsInView
  <2>2. ASSUME NEW c \in Attempts, worker'[c].run \in Runs, Waiting(worker[c].run)'
        PROVE  /\ stage'.cb = c /\ worker'[c].pc \in AtTurn \ {"marked"} /\ stage'.gate # None
                    => stage'.gate = meta'.gate
               /\ stage'.cb = c /\ worker'[c].pc = "park" => worker'[c].gate = meta'.gate
               /\ Parks(c)' /\ run'[worker'[c].run].pc = "await"
                    /\ run'[worker'[c].run].attempt = c
                    => worker'[c].gate = meta'.gate
    <3>1. /\ WorkerStays(c) /\ worker'[c].run = worker[c].run
          /\ worker[c].run \in Runs /\ Waiting(worker[c].run) /\ meta'.status = "WAITING"
      BY <2>2, <1>c
    <3>2. ASSUME stage'.cb = c, worker'[c].pc \in AtTurn \ {"marked"}, stage'.gate # None
          PROVE  stage'.gate = meta'.gate
      <4>1. stage.cb = c /\ stage'.gate = stage.gate /\ worker[c].pc \in AtTurn
        BY <3>2 DEF Moves, RowStays
      <4>2. worker[c].pc # "marked"
        BY <3>1, <3>2 DEF WorkerStays
      <4>3. QED BY <1>1, <3>1, <3>2, <4>1, <4>2 DEF WaitsInView
    <3>3. ASSUME stage'.cb = c, worker'[c].pc = "park" PROVE worker'[c].gate = meta'.gate
      <4>1. stage.cb = c
        BY <3>3 DEF Moves, RowStays
      <4>2. CASE worker[c].pc = "park" /\ worker'[c].gate = worker[c].gate
        BY <1>1, <3>1, <4>1, <4>2 DEF WaitsInView
      <4>3. CASE worker[c].pc = "exit" /\ worker'[c].gate \in {stage.gate, meta.gate} \ {None}
        BY <1>1, <3>1, <4>1, <4>3 DEF WaitsInView, AtTurn
      <4>4. QED BY <3>1, <3>3, <4>2, <4>3 DEF WorkerStays
    <3>4. ASSUME Parks(c)', run'[worker'[c].run].pc = "await", run'[worker'[c].run].attempt = c
          PROVE  worker'[c].gate = meta'.gate
      <4>1. /\ Parks(c) \/ (worker[c].pc = "park" /\ stage.cb = c)
            /\ worker'[c].gate = worker[c].gate
        BY <3>1, <3>4 DEF WorkerStays, Owns
      <4>2. run[worker[c].run].pc = "await" /\ run[worker[c].run].attempt = c
        BY <3>1, <3>4, <1>a
      <4>3. QED BY <1>1, <3>1, <4>1, <4>2 DEF WaitsInView
    <3>5. QED BY <3>2, <3>3, <3>4
  <2>3. QED BY <2>1, <2>2 DEF WaitsInView
<1>2. ASSUME NEW e \in Attempts, Owns(e), worker[e].pc = "clear" PROVE WaitsInView'
  <2>1. stage.cb = e /\ HoldsToken(worker[e].run) /\ worker[e].run \in Runs
    BY <1>2 DEF Owns, OwnsRun, InTurn, TypeOK, WorkersOK, Live, LivePcs
  <2>2. /\ run[worker[e].run].pc \notin Holding /\ ~Parks(e)
        /\ run[worker[e].run].pc = "await" => run[worker[e].run].attempt = e
    BY <1>2, <2>1, OwnerAtWork
  <2>3. ASSUME NEW r \in Runs, run'[r].pc \in Holding, Waiting(r)' PROVE FALSE
    <3>1. r = worker[e].run
      BY <2>1, <2>3, <1>r, OneOwner DEF Waiting
    <3>2. QED BY <2>2, <2>3, <3>1, <1>r
  <2>4. ASSUME NEW c \in Attempts, worker'[c].run \in Runs, Waiting(worker[c].run)'
        PROVE  /\ ~(stage'.cb = c /\ worker'[c].pc \in AtTurn \cup {"park"}
                      /\ (worker'[c].pc \in AtTurn => stage'.gate # None))
               /\ ~(Parks(c)' /\ run'[worker'[c].run].pc = "await"
                      /\ run'[worker'[c].run].attempt = c)
    <3>1. /\ WorkerStays(c) /\ worker'[c].run = worker[c].run /\ worker[c].run = worker[e].run
      BY <2>1, <2>4, <1>c, OneOwner DEF Waiting
    <3>2. ASSUME stage'.cb = c, worker'[c].pc \in AtTurn \cup {"park"},
                 worker'[c].pc \in AtTurn => stage'.gate # None
          PROVE  FALSE
      <4>1. c = e /\ (worker'[c].pc \in AtTurn => worker[c].pc \in AtTurn)
        BY <2>1, <3>2 DEF Moves, RowStays
      <4>2. QED BY <1>2, <3>1, <3>2, <4>1 DEF WorkerStays, AtTurn
    <3>3. ASSUME Parks(c)', run'[worker'[c].run].pc = "await", run'[worker'[c].run].attempt = c
          PROVE  FALSE
      <4>1. run[worker[e].run].pc = "await" /\ run[worker[e].run].attempt = c
        BY <2>1, <3>1, <3>3, <1>a
      <4>2. c = e
        BY <2>2, <4>1
      <4>3. QED BY <1>2, <2>2, <3>1, <3>3, <4>2 DEF WorkerStays
    <3>4. QED BY <3>2, <3>3
  <2>5. ASSUME NEW c \in Attempts, worker'[c].run \in Runs, Waiting(worker[c].run)'
        PROVE  /\ stage'.cb = c /\ worker'[c].pc \in AtTurn \ {"marked"} /\ stage'.gate # None
                    => stage'.gate = meta'.gate
               /\ stage'.cb = c /\ worker'[c].pc = "park" => worker'[c].gate = meta'.gate
               /\ Parks(c)' /\ run'[worker'[c].run].pc = "await"
                    /\ run'[worker'[c].run].attempt = c
                    => worker'[c].gate = meta'.gate
    BY <2>4, <2>5 DEF AtTurn
  <2>6. QED BY <2>3, <2>5 DEF WaitsInView
<1>3. CASE meta'.status # "WAITING"
  BY <1>3 DEF WaitsInView, Waiting
<1>4. QED BY <1>1, <1>2, <1>3, QuestionsSettle DEF WaitsKeep

\* A run that waits on an answered question, while META reads WAITING for it, has been
\* woken, or the intent detail offers to resume it: the bind, the re-read, the answer, a
\* failed callback and the resend leave no wait nobody can see (bind-callback,
\* gate-answered-early, answerHumanTask, resumeOwed).
THEOREM AnsweredWaitsAreOwed == Spec => []AnsweredWaitIsOwed
<1>1. Init => AnswersReach
  BY InitAnswersReach
<1>2. AnswersReach /\ QuestionsInOrder /\ InTurn /\ [Next]_vars => AnswersReach'
  <2> SUFFICES ASSUME AnswersReach, QuestionsInOrder, InTurn, [Next]_vars PROVE AnswersReach'
    OBVIOUS
  <2>1. CASE Next
    <3>1. WokenFirst' /\ BoundToWaiter'
      BY <2>1, WokenStaysFirst, WaitersStayBound DEF AnswersReach, InTurn
    <3>2. WaitsInView'
      BY <2>1, NextMoves, AskShows, DispatchShows, AwaitShows, MovesShow DEF AnswersReach
    <3>3. QED BY <3>1, <3>2 DEF AnswersReach
  <2>2. CASE UNCHANGED vars
    BY <2>2 DEF vars, AnswersReach, WokenFirst, BoundToWaiter, WaitsInView, Waiting,
       HoldsToken, Parks
  <2>3. QED BY <2>1, <2>2
<1>3. AnswersReach /\ InTurn => AnsweredWaitIsOwed
  <2> SUFFICES ASSUME AnswersReach, InTurn, NEW r \in Runs, run[r].pc \in Parked, Waiting(r),
                      gate[run[r].from].status = Answered, ~gate[run[r].from].woken
               PROVE  ResumeOwed(run[r].from)
    BY DEF AnsweredWaitIsOwed, Waiting
  <2>1. run[r].pc \in Holding
    BY DEF Parked, Holding
  <2>2. run[r].from \in Gates
    BY <2>1 DEF InTurn, TypeOK, RunsOK
  <2>3. gate[run[r].from].bound # None
    BY NoneAssumption DEF AnswersReach, BoundToWaiter
  <2>4. ~gate[run[r].from].consumed
    BY <2>2 DEF AnswersReach, WokenFirst
  <2>5. meta.gate = run[r].from /\ meta.status \in Active
    BY <2>1 DEF AnswersReach, WaitsInView, Waiting, Active
  <2>6. QED BY <2>3, <2>4, <2>5 DEF ResumeOwed
<1>4. QED BY <1>1, <1>2, <1>3, TurnsAreKept, QuestionsKeepOrder, PTL DEF Spec

=============================================================================
