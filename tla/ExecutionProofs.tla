--------------------------- MODULE ExecutionProofs ---------------------------
(***************************************************************************)
(* Proofs about Execution, for every set of runs, attempts, gates and      *)
(* requests: the type invariant; what it takes for the ownership token of  *)
(* a run to be lost for good; and that the attempt at work for the run     *)
(* that owns the execution keeps the stage row, so an execution that reads *)
(* SUCCEEDED has earned it.                                                *)
(***************************************************************************)
EXTENDS Execution, TLAPS

\* Init builds rows and idle processes.
LEMMA InitTyped == Init => TypeOK
BY DEF Init, TypeOK, RunsOK, WorkersOK, RequestsOK, MetaRows, StageRows, GateRows,
       RunStates, WorkerStates, RequestStates, Statuses, Active, Settled, Answered,
       Verdicts, RunPcs, ReqPcs, LivePcs, Live, Holding, UnusedWorker, IdleRequest

-----------------------------------------------------------------------------
(* How the helpers keep the type of the variable they write.               *)

\* A step of run r keeps what it needs at its next program point.
LEMMA StepTyped ==
  ASSUME RunsOK, NEW r \in Runs, NEW pc \in RunPcs, Step(r, pc),
         pc \in {"await", "reconcile"} => run[r].attempt \in Attempts,
         pc \in Holding => run[r].from \in Gates
  PROVE  RunsOK'
<1>1. CASE pc \in {"done", "dead"}
  BY <1>1 DEF Step, RunsOK, RunStates, Holding, RunPcs
<1>2. CASE pc \notin {"done", "dead"}
  BY <1>2 DEF Step, RunsOK, RunStates
<1>3. QED BY <1>1, <1>2

\* A worker that is done with its process is well formed.
LEMMA DeadTyped ==
  ASSUME WorkersOK, NEW c \in Attempts
  PROVE  /\ Dead(worker[c]) \in WorkerStates
         /\ Dead(worker[c]).pc = "gone" /\ Dead(worker[c]).out = "none"
         /\ Dead(worker[c]).verdict = worker[c].verdict
         /\ Dead(worker[c]).gate = worker[c].gate
BY DEF Dead, WorkersOK, WorkerStates, Verdicts

\* A worker that goes on to another program point stays well formed.
LEMMA GotoTyped ==
  ASSUME WorkersOK, NEW c \in Attempts, NEW pc \in LivePcs, Live(c), Goto(c, pc),
         pc \in {"grace", "inline", "park", "retire", "clear"} => worker[c].gate \in Gates
  PROVE  WorkersOK'
BY DEF Goto, WorkersOK, WorkerStates, Live, LivePcs

\* One worker takes a new, well-formed state.
LEMMA WorkerTyped ==
  ASSUME WorkersOK, NEW c \in Attempts, NEW w \in WorkerStates,
         worker' = [worker EXCEPT ![c] = w],
         w.pc \in LivePcs => w.run \in Runs,
         w.pc \in {"grace", "inline", "park", "retire", "clear"}
           \/ "WAITING" \in {w.out, w.verdict} => w.gate \in Gates
  PROVE  WorkersOK'
BY DEF WorkersOK, Live

LEMMA ReturnTyped ==
  ASSUME WorkersOK, NEW c \in Attempts, NEW out \in Verdicts, Live(c), Return(c, out),
         out = "WAITING" => worker[c].gate \in Gates
  PROVE  WorkersOK'
<1> DEFINE w == [worker[c] EXCEPT !.pc = "report", !.out = out]
<1>1. worker[c] \in WorkerStates
  BY DEF WorkersOK
<1>2. worker' = [worker EXCEPT ![c] = w]
  BY <1>1 DEF Return
<1>3. w \in WorkerStates /\ w.pc = "report" /\ w.out = out
      /\ w.run = worker[c].run /\ w.gate = worker[c].gate /\ w.verdict = worker[c].verdict
  BY <1>1 DEF WorkerStates, LivePcs
<1> HIDE DEF w
<1>4. QED BY <1>2, <1>3, WorkerTyped DEF WorkersOK, Live

LEMMA StopSessionTyped ==
  ASSUME WorkersOK, StopSession PROVE WorkersOK'
<1>1. CASE UNCHANGED worker
  BY <1>1 DEF WorkersOK, Live
<1>2. CASE worker' = [c \in Attempts |-> IF Live(c) THEN Dead(worker[c]) ELSE worker[c]]
  BY <1>2, DeadTyped DEF WorkersOK, WorkerStates, Live, LivePcs
<1>3. QED BY <1>1, <1>2 DEF StopSession

\* One request or sweep takes a new, well-formed state.
LEMMA RequestTyped ==
  ASSUME RequestsOK, NEW q \in Requests \cup Watchdogs, NEW x \in RequestStates,
         req' = [req EXCEPT ![q] = x],
         x.pc \in {"answer", "send", "mark"} => x.gate \in Gates,
         x.pc \in {"invoke", "stamp", "rollback", "records", "supersede", "reset",
                   "relaunch"} /\ x.op # "cancel" => x.run \in Runs,
         x.pc \in {"start", "invoke", "stamp", "reset", "relaunch"} => x.op # "cancel"
  PROVE  RequestsOK'
BY DEF RequestsOK

LEMMA FinishTyped ==
  ASSUME RequestsOK, NEW q \in Requests \cup Watchdogs, Finish(q)
  PROVE  RequestsOK'
<1>1. IdleRequest \in RequestStates /\ IdleRequest.pc = "idle"
  BY DEF IdleRequest, RequestStates, ReqPcs, Statuses
<1>2. QED BY <1>1, RequestTyped DEF Finish

LEMMA GotoReqTyped ==
  ASSUME RequestsOK, NEW q \in Requests \cup Watchdogs, NEW pc \in ReqPcs,
         GotoReq(q, pc),
         pc \in {"answer", "send", "mark"} => req[q].gate \in Gates,
         pc \in {"invoke", "stamp", "rollback", "records", "supersede", "reset",
                 "relaunch"} /\ req[q].op # "cancel" => req[q].run \in Runs,
         pc \in {"start", "invoke", "stamp", "reset", "relaunch"} => req[q].op # "cancel"
  PROVE  RequestsOK'
BY DEF RequestsOK, RequestStates, GotoReq

\* A request that read META holds a status and an owner META had.
LEMMA SeenTyped ==
  ASSUME meta \in MetaRows,
         NEW op \in {"none", "answer", "resume", "start", "cancel", "rewind", "watchdog"},
         NEW pc \in ReqPcs
  PROVE  /\ SeenStatus(op, pc) \in RequestStates
         /\ SeenStatus(op, pc).op = op /\ SeenStatus(op, pc).pc = pc
         /\ Seen(op, pc) \in RequestStates
         /\ Seen(op, pc).op = op /\ Seen(op, pc).pc = pc
BY DEF SeenStatus, Seen, IdleRequest, RequestStates, MetaRows

-----------------------------------------------------------------------------
(* Each action keeps the type invariant.                                   *)

LEMMA WorkerKeepsType ==
  ASSUME TypeOK, NEW c \in Attempts, Worker(c)
  PROVE  TypeOK'
<1> USE DEF TypeOK
<1>w. worker[c] \in WorkerStates /\ stage \in StageRows /\ meta \in MetaRows
  BY DEF WorkersOK
<1>g. worker[c].gate \in Gates \cup {None} /\ worker[c].from \in Gates \cup {None}
  BY <1>w DEF WorkerStates
<1>r. (UNCHANGED run => RunsOK') /\ (UNCHANGED req => RequestsOK')
  BY DEF RunsOK, RequestsOK
<1> USE DEF LivePcs, Live
<1>1. CASE Claim(c)
  BY <1>1, <1>r, GotoTyped DEF Claim, StageRows
<1>2. CASE LoadGate(c)
  <2>1. meta' \in MetaRows
    BY <1>2 DEF LoadGate, MetaRows
  <2>2. WorkersOK'
    BY <1>2, GotoTyped, ReturnTyped DEF LoadGate, Verdicts
  <2>3. QED BY <1>2, <1>r, <2>1, <2>2 DEF LoadGate
<1>3. CASE StartTurn(c)
  <2>1. CASE Owns(c)
    <3> DEFINE w == [worker[c] EXCEPT !.pc = "marked",
                       !.got = @ \cup ({worker[c].from} \ {None})]
    <3>1. worker' = [worker EXCEPT ![c] = w] /\ stage' \in StageRows
      BY <1>3, <1>w, <2>1 DEF StartTurn, StageRows, WorkersOK
    <3>2. w \in WorkerStates /\ w.pc = "marked" /\ w.run = worker[c].run
          /\ w.gate = worker[c].gate /\ w.out = worker[c].out
          /\ w.verdict = worker[c].verdict
      BY <1>w, <1>g DEF WorkerStates
    <3> HIDE DEF w
    <3>3. WorkersOK'
      BY <1>3, <3>1, <3>2, WorkerTyped DEF StartTurn, WorkersOK
    <3>4. QED BY <1>3, <1>r, <3>1, <3>3 DEF StartTurn
  <2>2. CASE ~Owns(c)
    BY <1>3, <1>r, <2>2, GotoTyped DEF StartTurn
  <2>3. QED BY <2>1, <2>2
<1>4. CASE MarkExecutionRunning(c)
  BY <1>4, <1>r, GotoTyped DEF MarkExecutionRunning, MetaRows, Statuses, Active
<1>5. ASSUME NEW g \in Gates, Ask(c, g) PROVE TypeOK'
  <2> DEFINE w == [worker[c] EXCEPT !.pc = "grace", !.gate = g]
             row == [gate[g] EXCEPT !.status = "pending", !.run = worker[c].run, !.cb = c]
  <2>1. worker' = [worker EXCEPT ![c] = w] /\ gate' = [gate EXCEPT ![g] = row]
    BY <1>5, <1>w DEF Ask, WorkersOK
  <2>2. worker[c].run \in Runs
    BY <1>5 DEF Ask, WorkersOK
  <2>a. w \in WorkerStates /\ w.pc = "grace" /\ w.run = worker[c].run /\ w.gate = g
    BY <1>w DEF WorkerStates
  <2>b. row \in GateRows
    BY <2>2 DEF GateRows
  <2>3. w \in WorkerStates /\ w.pc = "grace" /\ w.run = worker[c].run /\ w.gate = g
        /\ row \in GateRows
    BY <2>a, <2>b
  <2> HIDE DEF w, row
  <2>4. WorkersOK' /\ gate' \in [Gates -> GateRows]
    BY <2>1, <2>2, <2>3, WorkerTyped
  <2>5. stage' \in StageRows /\ meta' \in MetaRows
    BY <1>5 DEF Ask, StageRows, MetaRows, Statuses, Active
  <2>6. QED BY <1>5, <1>r, <2>4, <2>5 DEF Ask
<1>6. CASE PollAnswered(c)
  <2>1. worker[c].gate \in Gates
    BY <1>6 DEF PollAnswered, WorkersOK
  <2>2. meta' \in MetaRows
    BY <1>6, <1>w DEF PollAnswered, MetaRows, Statuses, Active
  <2>3. WorkersOK'
    BY <1>6, <2>1, GotoTyped DEF PollAnswered
  <2>4. QED BY <1>6, <1>r, <2>2, <2>3 DEF PollAnswered
<1>7. CASE InlineResume(c)
  <2>0. worker[c].gate \in Gates
    BY <1>7 DEF InlineResume, WorkersOK
  <2>1. CASE Goto(c, "turn") /\ UNCHANGED stage
    BY <1>7, <1>r, <2>1, GotoTyped DEF InlineResume
  <2>2. CASE ~(Goto(c, "turn") /\ UNCHANGED stage)
    <3> DEFINE w == [worker[c] EXCEPT !.pc = "turn", !.got = @ \cup {worker[c].gate}]
    <3>1. worker' = [worker EXCEPT ![c] = w] /\ stage' \in StageRows
      BY <1>7, <1>w, <2>2 DEF InlineResume, StageRows, WorkersOK
    <3>2. w \in WorkerStates /\ w.pc = "turn" /\ w.run = worker[c].run
          /\ w.gate = worker[c].gate
      BY <1>w, <2>0 DEF WorkerStates
    <3> HIDE DEF w
    <3>3. WorkersOK'
      BY <1>7, <2>0, <3>1, <3>2, WorkerTyped DEF InlineResume, WorkersOK
    <3>4. QED BY <1>7, <1>r, <3>1, <3>3 DEF InlineResume
  <2>3. QED BY <2>1, <2>2
<1>8. CASE StopTurn(c)
  BY <1>8, <1>r, GotoTyped DEF StopTurn
<1>8a. CASE LeaveGrace(c)
  BY <1>8a, <1>r, GotoTyped DEF LeaveGrace
<1>9. CASE Exit(c)
  <2>1. PICK g \in {IF stage.gate # None THEN stage.gate ELSE meta.gate, meta.gate, None} :
          IF g # None /\ gate[g].status \in {"pending", Answered}
          THEN \E pc \in {"park", "retire", "fail"} :
                 worker' = [worker EXCEPT ![c].pc = pc, ![c].gate = g]
          ELSE \E pc \in {"finish", "fail"} : Goto(c, pc)
    BY <1>9 DEF Exit
  <2>2. CASE g # None /\ gate[g].status \in {"pending", Answered}
    <3>1. g \in Gates
      BY <1>w, <2>1, <2>2 DEF StageRows, MetaRows
    <3>2. PICK pc \in {"park", "retire", "fail"} :
            worker' = [worker EXCEPT ![c].pc = pc, ![c].gate = g]
      BY <2>1, <2>2
    <3> DEFINE w == [worker[c] EXCEPT !.pc = pc, !.gate = g]
    <3>3. worker' = [worker EXCEPT ![c] = w]
      BY <1>w, <3>2 DEF WorkersOK
    <3>4. w \in WorkerStates /\ w.pc = pc /\ w.run = worker[c].run /\ w.gate = g
      BY <1>w, <3>1 DEF WorkerStates
    <3> HIDE DEF w
    <3>5. WorkersOK'
      BY <1>9, <3>1, <3>3, <3>4, WorkerTyped DEF Exit, WorkersOK
    <3>6. QED BY <1>9, <1>r, <3>5 DEF Exit
  <2>3. CASE ~(g # None /\ gate[g].status \in {"pending", Answered})
    <3>1. WorkersOK'
      BY <1>9, <2>1, <2>3, GotoTyped DEF Exit
    <3>2. QED BY <1>9, <1>r, <3>1 DEF Exit
  <2>4. QED BY <2>2, <2>3
<1>10. CASE Park(c)
  <2>1. worker[c].gate \in Gates
    BY <1>10 DEF Park, WorkersOK
  <2>2. stage' \in StageRows
    BY <1>10, <1>w, <2>1 DEF Park, StageRows
  <2>3. WorkersOK'
    BY <1>10, <2>1, GotoTyped, ReturnTyped DEF Park, Verdicts
  <2>4. QED BY <1>10, <1>r, <2>2, <2>3 DEF Park
<1>11. CASE RetireQuestion(c)
  <2>1. worker[c].gate \in Gates
    BY <1>11 DEF RetireQuestion, WorkersOK
  <2>2. gate' \in [Gates -> GateRows]
    BY <1>11, <2>1 DEF RetireQuestion, Wake, GateRows, Settled
  <2>3. QED BY <1>11, <1>r, <2>1, <2>2, GotoTyped DEF RetireQuestion
<1>12. CASE ClearPointer(c)
  <2>1. meta' \in MetaRows
    BY <1>12, <1>w DEF ClearPointer, MetaRows
  <2>2. QED BY <1>12, <1>r, <2>1, GotoTyped DEF ClearPointer
<1>13. CASE FailStage(c)
  <2>1. stage' \in StageRows
    BY <1>13, <1>w DEF FailStage, StageRows
  <2>2. WorkersOK'
    BY <1>13, GotoTyped, ReturnTyped DEF FailStage, Verdicts
  <2>3. QED BY <1>13, <1>r, <2>1, <2>2 DEF FailStage
<1>14. CASE CompleteStage(c)
  BY <1>14, <1>r, GotoTyped, ReturnTyped DEF CompleteStage, StageRows, Verdicts
<1>15. CASE ClassifyConflict(c)
  BY <1>15, <1>r, ReturnTyped DEF ClassifyConflict, Verdicts
<1>16. CASE Report(c)
  <2> DEFINE verdict == IF worker[c].verdict = "open" THEN worker[c].out
                        ELSE worker[c].verdict
             d == Dead(worker[c])
             w == [d EXCEPT !.verdict = verdict]
  <2>1. worker' = [worker EXCEPT ![c] = w]
    BY <1>16, <1>w DEF Report, WorkersOK
  <2>2. d \in WorkerStates /\ d.pc = "gone" /\ d.out = "none"
        /\ d.verdict = worker[c].verdict /\ d.gate = worker[c].gate
    BY DeadTyped
  <2> HIDE DEF d
  <2>3. w \in WorkerStates /\ w.pc = "gone" /\ w.out = "none" /\ w.gate = worker[c].gate
        /\ w.verdict \in {worker[c].out, worker[c].verdict}
    BY <1>w, <2>2 DEF WorkerStates
  <2> HIDE DEF w
  <2>4. WorkersOK'
    BY <2>1, <2>3, WorkerTyped DEF WorkersOK
  <2>5. QED BY <1>16, <1>r, <2>4 DEF Report
<1>17. QED
  BY <1>1, <1>2, <1>3, <1>4, <1>5, <1>6, <1>7, <1>8, <1>8a, <1>9, <1>10, <1>11,
     <1>12, <1>13, <1>14, <1>15, <1>16 DEF Worker

\* A worker's callback expires, or the container dies under it.
LEMMA WorkerLossKeepsType ==
  ASSUME TypeOK, NEW c \in Attempts, Timeout(c) \/ Crash(c)
  PROVE  TypeOK'
<1>1. worker[c] \in WorkerStates
  BY DEF TypeOK, WorkersOK
<1>2. CASE Timeout(c)
  <2> DEFINE w == [worker[c] EXCEPT !.verdict = "FAILED"]
  <2>1. worker' = [worker EXCEPT ![c] = w]
    BY <1>2 DEF Timeout
  <2>2. w \in WorkerStates /\ w.pc = worker[c].pc /\ w.run = worker[c].run
        /\ w.gate = worker[c].gate /\ w.out = worker[c].out /\ w.verdict = "FAILED"
    BY <1>1 DEF WorkerStates, Verdicts
  <2> HIDE DEF w
  <2>3. WorkersOK'
    BY <2>1, <2>2, WorkerTyped DEF TypeOK, WorkersOK, Live
  <2>4. QED BY <1>2, <2>3 DEF Timeout, TypeOK, RunsOK, RequestsOK
<1>3. CASE Crash(c)
  <2>1. WorkersOK'
    BY <1>3, DeadTyped, WorkerTyped DEF Crash, TypeOK, WorkersOK, LivePcs
  <2>2. QED BY <1>3, <2>1 DEF Crash, TypeOK, RunsOK, RequestsOK
<1>4. QED BY <1>2, <1>3

LEMMA OrchestratorKeepsType ==
  ASSUME TypeOK, NEW r \in Runs, Orchestrator(r) \/ ReleaseTimer(r) \/ DurableEnds(r)
  PROVE  TypeOK'
<1> USE DEF TypeOK
<1>r. (UNCHANGED worker => WorkersOK') /\ (UNCHANGED req => RequestsOK')
  BY DEF WorkersOK, RequestsOK, Live
<1>h. run[r] \in RunStates /\ (run[r].pc \in Holding => run[r].from \in Gates)
  BY DEF RunsOK
<1>m. meta \in MetaRows /\ stage \in StageRows
  OBVIOUS
<1> USE DEF Holding, RunPcs
<1>1. CASE Mint(r)
  BY <1>1, <1>r, StepTyped DEF Mint, MetaRows
<1>2. CASE InitWorkspace(r)
  BY <1>2, <1>r, StepTyped DEF InitWorkspace
<1>3. CASE MarkRunning(r)
  BY <1>3, <1>r, StepTyped DEF MarkRunning, MetaRows, Statuses, Active
<1>4. ASSUME NEW c \in Attempts, Dispatch(r, c) PROVE TypeOK'
  <2> DEFINE leg == [UnusedWorker EXCEPT !.run = r, !.from = run[r].from]
             queued == [leg EXCEPT !.pc = "queued", !.verdict = "open"]
             refused == [leg EXCEPT !.pc = "gone", !.verdict = "FAILED"]
  <2>1. worker' = [worker EXCEPT ![c] = queued] \/ worker' = [worker EXCEPT ![c] = refused]
    BY <1>4 DEF Dispatch
  <2>2. /\ queued \in WorkerStates /\ queued.pc = "queued" /\ queued.run = r
        /\ queued.out = "none" /\ queued.verdict = "open"
    BY <1>h DEF UnusedWorker, WorkerStates, Verdicts, LivePcs, RunStates
  <2>3. /\ refused \in WorkerStates /\ refused.pc = "gone" /\ refused.out = "none"
        /\ refused.verdict = "FAILED"
    BY <1>h DEF UnusedWorker, WorkerStates, Verdicts, LivePcs, RunStates
  <2> HIDE DEF queued, refused
  <2>4. WorkersOK'
    BY <2>1, <2>2, <2>3, WorkerTyped DEF LivePcs
  <2>5. RunsOK'
    BY <1>4 DEF Dispatch, RunsOK, RunStates
  <2>6. QED BY <1>4, <1>r, <2>4, <2>5 DEF Dispatch
<1>5. CASE Await(r)
  <2> DEFINE c == run[r].attempt
             pc == CASE worker[c].verdict = "SUCCEEDED" -> "finish"
                     [] worker[c].verdict = "WAITING" -> "bind"
                     [] OTHER -> "reconcile"
             from == IF worker[c].verdict = "WAITING" THEN worker[c].gate ELSE run[r].from
             x == [run[r] EXCEPT !.pc = pc, !.from = from]
  <2>1. run' = [run EXCEPT ![r] = x]
    BY <1>5, <1>h DEF Await, RunsOK
  <2>2. c \in Attempts
    BY <1>5 DEF Await, RunsOK
  <2>3. worker[c].verdict = "WAITING" => worker[c].gate \in Gates
    BY <2>2 DEF WorkersOK
  <2>4. pc \in {"finish", "bind", "reconcile"} /\ (pc = "bind" => from \in Gates)
        /\ from \in Gates \cup {None}
    BY <1>h, <2>3 DEF RunStates
  <2> HIDE DEF pc, from
  <2>5. x \in RunStates /\ x.pc = pc /\ x.from = from /\ x.attempt = c
    BY <1>h, <2>4 DEF RunStates
  <2> HIDE DEF x
  <2>6. RunsOK'
    BY <2>1, <2>2, <2>4, <2>5 DEF RunsOK
  <2>7. QED BY <1>5, <1>r, <2>6 DEF Await
<1>6. CASE Reconcile(r)
  <2>1. stage' \in StageRows
    BY <1>6, <1>m DEF Reconcile, StageRows
  <2>2. QED BY <1>6, <1>r, <2>1, StepTyped DEF Reconcile
<1>7. CASE DeadlineTooClose(r)
  <2>1. gate' \in [Gates -> GateRows]
    BY <1>7, <1>h DEF DeadlineTooClose, Wake, GateRows, Settled
  <2>2. QED BY <1>7, <1>r, <2>1, StepTyped DEF DeadlineTooClose
<1>8. CASE BindCallback(r)
  <2>1. gate' \in [Gates -> GateRows]
    BY <1>8, <1>h DEF BindCallback, GateRows
  <2>2. RunsOK'
    BY <1>8, <1>h, StepTyped DEF BindCallback
  <2>3. QED BY <1>8, <1>r, <2>1, <2>2 DEF BindCallback
<1>9. CASE RereadGate(r)
  BY <1>9, <1>r, <1>h, StepTyped DEF RereadGate
<1>10. CASE Woken(r)
  BY <1>10, <1>r, <1>h, StepTyped DEF Woken
<1>11. CASE ReleaseTimer(r)
  BY <1>11, <1>r, <1>h, StepTyped DEF ReleaseTimer
<1>12. CASE ReleaseSession(r)
  BY <1>12, <1>r, <1>h, StepTyped, StopSessionTyped DEF ReleaseSession
<1>13. CASE AfterGate(r)
  BY <1>13, <1>r, <1>h, StepTyped DEF AfterGate
<1>14. CASE Unpark(r)
  <2>1. meta' \in MetaRows
    BY <1>14 DEF Unpark, MetaRows, Statuses, Active
  <2>2. RunsOK'
    BY <1>14, StepTyped DEF Unpark
  <2>3. QED BY <1>14, <1>r, <2>1, <2>2 DEF Unpark
<1>15. CASE FinishSucceeded(r)
  <2>1. meta' \in MetaRows
    BY <1>15 DEF FinishSucceeded, MetaRows, Statuses
  <2>2. RunsOK'
    BY <1>15, StepTyped DEF FinishSucceeded
  <2>3. QED BY <1>15, <1>r, <2>1, <2>2 DEF FinishSucceeded
<1>16. CASE Fail(r)
  <2>1. meta' \in MetaRows
    BY <1>16, <1>m DEF Fail, MetaRows, Statuses
  <2>2. QED BY <1>16, <1>r, <2>1, StepTyped DEF Fail
<1>17. CASE DurableEnds(r)
  BY <1>17, <1>r, StepTyped DEF DurableEnds
<1>18. QED
  BY <1>1, <1>2, <1>3, <1>4, <1>5, <1>6, <1>7, <1>8, <1>9, <1>10, <1>11, <1>12,
     <1>13, <1>14, <1>15, <1>16, <1>17 DEF Orchestrator

LEMMA RequestKeepsType ==
  ASSUME TypeOK, NEW q \in Requests, Begin(q) \/ Handle(q) \/ RequestDies(q)
  PROVE  TypeOK'
<1> USE DEF TypeOK
<1>u. (UNCHANGED worker => WorkersOK') /\ (UNCHANGED run => RunsOK')
  BY DEF WorkersOK, RunsOK, Live
<1>q. /\ q \in Requests \cup Watchdogs /\ req[q] \in RequestStates
      /\ meta \in MetaRows /\ stage \in StageRows
  BY DEF RequestsOK
<1>o. /\ req[q].pc \in {"answer", "send", "mark"} => req[q].gate \in Gates
      /\ req[q].pc \in {"invoke", "stamp", "rollback", "records", "supersede",
                        "reset", "relaunch"} /\ req[q].op # "cancel"
           => req[q].run \in Runs
      /\ req[q].pc \in {"start", "invoke", "stamp", "reset", "relaunch"}
           => req[q].op # "cancel"
  BY DEF RequestsOK
<1>s. /\ meta.status \in Statuses /\ meta.owner \in Runs \cup {None}
      /\ req[q].status \in Statuses
  BY <1>q DEF MetaRows, RequestStates
<1>p. Repaired(q) \in MetaRows
  BY <1>q DEF Repaired, MetaRows, Statuses
<1>w. ASSUME NEW g \in Gates, Deliver(g) PROVE gate' \in [Gates -> GateRows]
  BY <1>w DEF Deliver, GateRows
<1> USE DEF ReqPcs
<1>1. ASSUME NEW g \in Gates, ReadForAnswer(q, g) PROVE TypeOK'
  <2> DEFINE seen == Seen("answer", "answer")
             x == [seen EXCEPT !.gate = g]
  <2>0. seen \in RequestStates /\ seen.pc = "answer" /\ seen.op = "answer"
    BY <1>q, SeenTyped
  <2>2. req' = [req EXCEPT ![q] = x]
    BY <1>1 DEF ReadForAnswer
  <2> HIDE DEF seen
  <2>1. x \in RequestStates /\ x.pc = "answer" /\ x.gate = g /\ x.op = "answer"
    BY <2>0 DEF RequestStates
  <2> HIDE DEF x
  <2>3. RequestsOK'
    BY <1>q, <2>1, <2>2, RequestTyped
  <2>4. QED BY <1>1, <1>u, <2>3 DEF ReadForAnswer
<1>2. CASE ReadForResume(q)
  <2> DEFINE owed == {g \in Gates : ResumeOwed(g)}
             seen == Seen("resume", "resend")
             x == [seen EXCEPT !.gate = meta.owed, !.todo = owed]
  <2>0. owed \subseteq Gates /\ meta.owed \in Gates \cup {None}
        /\ seen \in RequestStates /\ seen.pc = "resend" /\ seen.op = "resume"
    BY <1>q, SeenTyped DEF MetaRows
  <2>2. req' = [req EXCEPT ![q] = x]
    BY <1>2 DEF ReadForResume
  <2> HIDE DEF owed, seen
  <2>1. x \in RequestStates /\ x.pc = "resend" /\ x.op = "resume"
    BY <2>0 DEF RequestStates
  <2> HIDE DEF x
  <2>3. RequestsOK'
    BY <1>q, <2>1, <2>2, RequestTyped
  <2>4. QED BY <1>2, <1>u, <2>3 DEF ReadForResume
<1>3. CASE ReadForStart(q)
  <2> DEFINE x == SeenStatus("start", "start")
  <2>1. x \in RequestStates /\ x.pc = "start" /\ x.op = "start"
    BY <1>q, SeenTyped
  <2>2. req' = [req EXCEPT ![q] = x]
    BY <1>3 DEF ReadForStart
  <2> HIDE DEF x
  <2>3. RequestsOK'
    BY <1>q, <2>1, <2>2, RequestTyped
  <2>4. QED BY <1>3, <1>u, <2>3 DEF ReadForStart
<1>4. CASE ReadForCancel(q)
  <2> DEFINE x == SeenStatus("cancel", "records")
  <2>1. x \in RequestStates /\ x.pc = "records" /\ x.op = "cancel"
    BY <1>q, SeenTyped
  <2>2. req' = [req EXCEPT ![q] = x]
    BY <1>4 DEF ReadForCancel
  <2> HIDE DEF x
  <2>3. RequestsOK'
    BY <1>q, <2>1, <2>2, RequestTyped
  <2>4. QED BY <1>4, <1>u, <2>3 DEF ReadForCancel
<1>5. CASE ReadForRewind(q)
  <2> DEFINE x == Seen("rewind", "rewind")
  <2>1. x \in RequestStates /\ x.pc = "rewind" /\ x.op = "rewind"
    BY <1>q, SeenTyped
  <2>2. req' = [req EXCEPT ![q] = x]
    BY <1>5 DEF ReadForRewind
  <2> HIDE DEF x
  <2>3. RequestsOK'
    BY <1>q, <2>1, <2>2, RequestTyped
  <2>4. QED BY <1>5, <1>u, <2>3 DEF ReadForRewind
<1>6. CASE Answer(q)
  <2>1. gate' \in [Gates -> GateRows]
    BY <1>6, <1>o DEF Answer, Wake, GateRows, Settled, Answered
  <2>2. RequestsOK'
    BY <1>6, <1>q, <1>o, FinishTyped, GotoReqTyped DEF Answer
  <2>3. QED BY <1>6, <1>u, <2>1, <2>2 DEF Answer
<1>7. CASE SendAnswer(q)
  <2>0. req[q].gate \in Gates
    BY <1>7, <1>o DEF SendAnswer
  <2>1. gate' \in [Gates -> GateRows]
    BY <1>7, <2>0, <1>w DEF SendAnswer
  <2>2. meta' \in MetaRows
    BY <1>7, <1>p, <2>0 DEF SendAnswer, MetaRows
  <2>3. RequestsOK'
    BY <1>7, <1>q, <2>0, FinishTyped, GotoReqTyped DEF SendAnswer
  <2>4. QED BY <1>7, <1>u, <2>1, <2>2, <2>3 DEF SendAnswer
<1>8. CASE MarkConsumed(q)
  BY <1>8, <1>q, <1>o, <1>u, FinishTyped DEF MarkConsumed, GateRows
<1>9. ASSUME NEW g \in Gates, Resend(q, g) PROVE TypeOK'
  <2> DEFINE x == [req[q] EXCEPT !.pc = "consume", !.bound = {g}, !.todo = @ \ {g}]
             y == [[req[q] EXCEPT !.pc = "resend", !.bound = {g}, !.todo = @ \ {g}]
                     EXCEPT !.gate = None]
  <2>1. x \in RequestStates /\ x.pc = "consume" /\ y \in RequestStates /\ y.pc = "resend"
    BY <1>q DEF RequestStates
  <2>2. gate' \in [Gates -> GateRows] /\ meta' \in MetaRows
    BY <1>9, <1>p, <1>w DEF Resend
  <2>3. \/ req' = [req EXCEPT ![q] = x] \/ req' = [req EXCEPT ![q] = y]
        \/ GotoReq(q, "clear")
    BY <1>9 DEF Resend
  <2> HIDE DEF x, y
  <2>4. GotoReq(q, "clear") => RequestsOK'
    BY <1>q, GotoReqTyped
  <2>5. RequestsOK'
    BY <1>q, <2>1, <2>3, <2>4, RequestTyped
  <2>6. QED BY <1>9, <1>u, <2>2, <2>5 DEF Resend
<1>10. CASE Consume(q)
  <2>1. gate' \in [Gates -> GateRows]
    BY <1>10 DEF Consume, GateRows
  <2>2. QED BY <1>10, <1>q, <1>u, <2>1, GotoReqTyped DEF Consume
<1>11. CASE ClearMarker(q)
  <2>1. meta' \in MetaRows
    BY <1>11, <1>q DEF ClearMarker, MetaRows
  <2>2. QED BY <1>11, <1>q, <1>u, <2>1, FinishTyped DEF ClearMarker
<1>12. ASSUME NEW r \in Runs, Start(q, r) PROVE TypeOK'
  <2>1. CASE SameStatus(q)
    <3> DEFINE x == [req[q] EXCEPT !.pc = "invoke", !.run = r]
    <3>1. x \in RequestStates /\ x.pc = "invoke" /\ x.run = r /\ x.op # "cancel"
      BY <1>12, <1>q, <1>o DEF Start, RequestStates
    <3>2. req' = [req EXCEPT ![q] = x]
      BY <1>12, <1>q, <2>1 DEF Start, RequestsOK
    <3> HIDE DEF x
    <3>3. RequestsOK'
      BY <1>q, <3>1, <3>2, RequestTyped
    <3>4. meta' \in MetaRows
      BY <1>12, <1>q, <2>1 DEF Start, MetaRows, Statuses
    <3>5. RunsOK'
      BY <1>12, <2>1 DEF Start, RunsOK, RunStates, RunPcs, Holding
    <3>6. QED BY <1>12, <1>u, <3>3, <3>4, <3>5 DEF Start
  <2>2. CASE ~SameStatus(q)
    BY <1>12, <1>q, <1>u, <2>2, FinishTyped DEF Start
  <2>3. QED BY <2>1, <2>2
<1>13. CASE Invoke(q)
  <2>1. RunsOK'
    BY <1>13 DEF Invoke, RunsOK, RunStates, RunPcs, Holding
  <2>2. RequestsOK'
    BY <1>13, <1>q, <1>o, GotoReqTyped DEF Invoke
  <2>3. QED BY <1>13, <1>u, <2>1, <2>2 DEF Invoke
<1>14. CASE StampArn(q)
  <2>1. meta' \in MetaRows
    BY <1>14, <1>q, <1>o DEF StampArn, MetaRows
  <2>2. QED BY <1>14, <1>q, <1>u, <2>1, FinishTyped DEF StampArn
<1>15. CASE Rollback(q)
  <2>1. meta' \in MetaRows
    BY <1>15, <1>q, <1>s DEF Rollback, MetaRows, Statuses
  <2>2. QED BY <1>15, <1>q, <1>u, <2>1, FinishTyped DEF Rollback
<1>16. ASSUME NEW r \in Runs, RetireRun(q, r) PROVE TypeOK'
  <2>1. CASE SameStatus(q) /\ SameToken(q)
    <3> DEFINE x == [IdleRequest EXCEPT !.op = "rewind", !.pc = "records", !.run = r]
    <3>1. x \in RequestStates /\ x.pc = "records" /\ x.run = r
      BY DEF IdleRequest, RequestStates, Statuses
    <3>2. req' = [req EXCEPT ![q] = x]
      BY <1>16, <2>1 DEF RetireRun
    <3> HIDE DEF x
    <3>3. RequestsOK'
      BY <1>q, <3>1, <3>2, RequestTyped
    <3>4. meta' \in MetaRows
      <4>1. meta' = [meta EXCEPT !.status = "FAILED", !.gate = None, !.owed = None,
                                 !.owner = r, !.retired = TRUE]
        BY <1>16, <2>1 DEF RetireRun
      <4>2. QED BY <1>q, <4>1 DEF MetaRows, Statuses
    <3>5. RunsOK'
      BY <1>16, <2>1 DEF RetireRun, RunsOK, RunStates, RunPcs, Holding
    <3>6. QED BY <1>16, <1>u, <3>3, <3>4, <3>5 DEF RetireRun
  <2>2. CASE ~(SameStatus(q) /\ SameToken(q))
    BY <1>16, <1>q, <1>u, <2>2, FinishTyped DEF RetireRun
  <2>3. QED BY <2>1, <2>2
<1>17. CASE ReadRecords(q)
  <2> DEFINE pending == {g \in Gates : gate[g].status = "pending"}
             bound == {g \in pending : gate[g].bound # None}
             x == [req[q] EXCEPT !.pc = "supersede", !.todo = pending, !.bound = bound]
  <2>1. req' = [req EXCEPT ![q] = x]
    BY <1>17, <1>q DEF ReadRecords, RequestsOK
  <2>2. pending \subseteq Gates /\ bound \subseteq Gates
    OBVIOUS
  <2> HIDE DEF pending, bound
  <2>3. x \in RequestStates /\ x.pc = "supersede" /\ x.op = req[q].op /\ x.run = req[q].run
    BY <1>q, <2>2 DEF RequestStates
  <2> HIDE DEF x
  <2>4. RequestsOK'
    BY <1>17, <1>q, <1>o, <2>1, <2>3, RequestTyped DEF ReadRecords
  <2>5. QED BY <1>17, <1>u, <2>4 DEF ReadRecords
<1>18. ASSUME NEW g \in Gates, Supersede(q, g) PROVE TypeOK'
  <2> DEFINE x == [req[q] EXCEPT !.todo = @ \ {g}]
  <2>1. x \in RequestStates /\ x.pc = "supersede" /\ x.op = req[q].op /\ x.run = req[q].run
    BY <1>18, <1>q DEF Supersede, RequestStates
  <2>2. req' = [req EXCEPT ![q] = x]
    BY <1>18 DEF Supersede
  <2> HIDE DEF x
  <2>3. RequestsOK'
    BY <1>18, <1>q, <1>o, <2>1, <2>2, RequestTyped DEF Supersede
  <2>4. gate' \in [Gates -> GateRows]
    BY <1>18 DEF Supersede, Wake, GateRows, Settled
  <2>5. QED BY <1>18, <1>u, <2>3, <2>4 DEF Supersede
<1>19. CASE StopSessions(q)
  BY <1>19, <1>q, <1>o, <1>u, GotoReqTyped, StopSessionTyped DEF StopSessions
<1>20. CASE Cancel(q)
  <2>1. meta' \in MetaRows
    BY <1>20, <1>q DEF Cancel, MetaRows, Statuses
  <2>2. QED BY <1>20, <1>q, <1>u, <2>1, FinishTyped DEF Cancel
<1>21. CASE ResetStage(q)
  BY <1>21, <1>q, <1>o, <1>u, GotoReqTyped DEF ResetStage, StageRows
<1>22. CASE Relaunch(q)
  <2>1. meta' \in MetaRows
    BY <1>22, <1>q, <1>o DEF Relaunch, MetaRows, Statuses
  <2>2. RequestsOK'
    BY <1>22, <1>q, <1>o, FinishTyped, GotoReqTyped DEF Relaunch
  <2>3. QED BY <1>22, <1>u, <2>1, <2>2 DEF Relaunch
<1>23. CASE RequestDies(q)
  BY <1>23, <1>q, <1>u, FinishTyped DEF RequestDies
<1>24. QED
  BY <1>1, <1>2, <1>3, <1>4, <1>5, <1>6, <1>7, <1>8, <1>9, <1>10, <1>11, <1>12,
     <1>13, <1>14, <1>15, <1>16, <1>17, <1>18, <1>19, <1>20, <1>21, <1>22, <1>23
  DEF Begin, Handle

LEMMA WatchdogKeepsType ==
  ASSUME TypeOK, NEW w \in Watchdogs, Watchdog(w)
  PROVE  TypeOK'
<1> USE DEF TypeOK
<1>1. CASE ListActive(w)
  <2> DEFINE seen == Seen("watchdog", "sweep")
             x == [seen EXCEPT !.run = meta.name]
  <2>0. seen \in RequestStates /\ seen.pc = "sweep" /\ seen.op = "watchdog"
    BY SeenTyped DEF ReqPcs
  <2>2. req' = [req EXCEPT ![w] = x]
    BY <1>1 DEF ListActive
  <2> HIDE DEF seen
  <2>1. x \in RequestStates /\ x.pc = "sweep" /\ x.op = "watchdog"
    BY <2>0 DEF RequestStates, MetaRows
  <2> HIDE DEF x
  <2>3. RequestsOK'
    BY <2>1, <2>2, RequestTyped
  <2>4. QED BY <1>1, <2>3 DEF ListActive, WorkersOK, RunsOK, Live
<1>2. CASE Sweep(w)
  <2>1. meta' \in MetaRows
    BY <1>2 DEF Sweep, Repaired, MetaRows, Statuses
  <2>2. RequestsOK'
    BY <1>2, FinishTyped DEF Sweep
  <2>3. QED BY <1>2, <2>1, <2>2 DEF Sweep, WorkersOK, RunsOK, Live
<1>3. QED BY <1>1, <1>2 DEF Watchdog

LEMMA NextKeepsType == TypeOK /\ [Next]_vars => TypeOK'
<1> SUFFICES ASSUME TypeOK, [Next]_vars PROVE TypeOK'
  OBVIOUS
<1>1. CASE Next
  BY <1>1, WorkerKeepsType, WorkerLossKeepsType, OrchestratorKeepsType,
     RequestKeepsType, WatchdogKeepsType DEF Next
<1>2. CASE UNCHANGED vars
  BY <1>2 DEF vars, TypeOK, RunsOK, WorkersOK, RequestsOK, Live
<1>3. QED BY <1>1, <1>2

\* TypeOK is inductive and holds in every reachable state, whatever the sizes of
\* the constants: rows and processes stay within their states, and every process
\* in the middle of an operation holds the gate, the attempt or the run it needs.
THEOREM TypeCorrect == Spec => []TypeOK
BY InitTyped, NextKeepsType, PTL DEF Spec

-----------------------------------------------------------------------------
(* The ownership token.                                                    *)

\* The token changes hands in two places only: a launched run mints it, a rewind
\* retires it. Every other write of META, by a worker, an orchestrator step, a
\* request or the watchdog, keeps it.
LEMMA TokenMoves ==
  ASSUME TypeOK, Next
  PROVE  \/ UNCHANGED <<meta.owner, meta.retired>>
         \/ meta'.retired
         \/ \E s \in Runs : run[s].pc = "launched" /\ meta'.owner = s
<1> DEFINE Kept == UNCHANGED <<meta.owner, meta.retired>>
<1>m. meta \in MetaRows
  BY DEF TypeOK
<1>p. ASSUME NEW q \in Requests \cup Watchdogs, meta' = Repaired(q) PROVE Kept
  BY <1>m, <1>p DEF Repaired, MetaRows
<1>1. ASSUME NEW c \in Attempts, Worker(c) \/ Timeout(c) \/ Crash(c) PROVE Kept
  BY <1>m, <1>1 DEF Worker, Timeout, Crash, MetaRows, Claim, LoadGate, StartTurn,
     MarkExecutionRunning, Ask, PollAnswered, LeaveGrace, InlineResume, StopTurn, Exit, Park,
     RetireQuestion, ClearPointer, FailStage, CompleteStage, ClassifyConflict, Report
<1>2. ASSUME NEW r \in Runs, Orchestrator(r) \/ ReleaseTimer(r) \/ DurableEnds(r)
      PROVE  Kept \/ (run[r].pc = "launched" /\ meta'.owner = r)
  BY <1>m, <1>2 DEF Orchestrator, ReleaseTimer, DurableEnds, MetaRows, Mint,
     InitWorkspace, MarkRunning, Dispatch, Await, Reconcile, DeadlineTooClose,
     BindCallback, RereadGate, Woken, ReleaseSession, AfterGate, Unpark,
     FinishSucceeded, Fail
<1>3. ASSUME NEW q \in Requests, Begin(q) \/ Handle(q) \/ RequestDies(q)
      PROVE  Kept \/ meta'.retired
  <2>1. CASE Begin(q) \/ RequestDies(q)
    BY <2>1 DEF Begin, RequestDies, ReadForAnswer, ReadForResume, ReadForStart,
       ReadForCancel, ReadForRewind
  <2>2. ASSUME NEW r \in Runs, RetireRun(q, r) PROVE Kept \/ meta'.retired
    BY <1>m, <2>2 DEF RetireRun, MetaRows
  <2>3. CASE Answer(q) \/ SendAnswer(q) \/ MarkConsumed(q) \/ (\E g \in Gates : Resend(q, g))
             \/ Consume(q) \/ ClearMarker(q)
    BY <1>m, <1>p, <2>3 DEF MetaRows, Answer, SendAnswer, MarkConsumed, Resend, Consume,
       ClearMarker
  <2>4. CASE \/ \E r \in Runs : Start(q, r)
             \/ Invoke(q) \/ StampArn(q) \/ Rollback(q)
    BY <1>m, <2>4 DEF MetaRows, Start, Invoke, StampArn, Rollback
  <2>5. CASE \/ ReadRecords(q) \/ (\E g \in Gates : Supersede(q, g)) \/ StopSessions(q)
             \/ Cancel(q) \/ ResetStage(q) \/ Relaunch(q)
    BY <1>m, <2>5 DEF MetaRows, ReadRecords, Supersede, StopSessions, Cancel, ResetStage,
       Relaunch
  <2>6. QED BY <1>3, <2>1, <2>2, <2>3, <2>4, <2>5 DEF Handle
<1>4. ASSUME NEW w \in Watchdogs, Watchdog(w) PROVE Kept
  BY <1>p, <1>4 DEF Watchdog, ListActive, Sweep
<1>5. QED BY <1>1, <1>2, <1>3, <1>4 DEF Next

\* A run that has minted its token and lost it never holds it again, however many
\* runs, rewinds and watchdog sweeps come after it: the fences of the writes it
\* still tries stay closed.
THEOREM Fenced == Spec => FencedForGood
<1> DEFINE Lost(r) == run[r].pc \notin {"unused", "named", "launched"} /\ ~HoldsToken(r)
<1>1. TypeOK /\ [Next]_vars =>
        [\A r \in Runs : Lost(r) => ~HoldsToken(r)']_vars
  <2> SUFFICES ASSUME TypeOK, Next, NEW r \in Runs, Lost(r) PROVE ~HoldsToken(r)'
    BY DEF vars
  <2>1. CASE UNCHANGED <<meta.owner, meta.retired>>
    BY <2>1 DEF HoldsToken
  <2>2. CASE meta'.retired
    BY <2>2 DEF HoldsToken
  <2>3. CASE \E s \in Runs : run[s].pc = "launched" /\ meta'.owner = s
    BY <2>3 DEF HoldsToken
  <2>4. QED BY <2>1, <2>2, <2>3, TokenMoves
<1>2. QED BY <1>1, TypeCorrect, PTL DEF Spec, FencedForGood

-----------------------------------------------------------------------------
(* The attempts of a run, and the stage row of the one at work.            *)

Launching == {"records", "supersede", "reset", "relaunch", "invoke"}
Before    == {"unused", "named", "launched", "init", "mark"}
Deciding  == {"await", "reconcile", "finish"}
Ending    == {"failing", "done", "dead"}

\* Request q will launch the run it named.
Launches(q) == req[q].pc \in Launching /\ req[q].op # "cancel"

\* A run that is to be launched has not been, and one request launches it; a start
\* puts back only a status it could start from.
NamedOnce ==
  /\ \A q \in Requests \cup Watchdogs : Launches(q) => run[req[q].run].pc = "named"
  /\ \A q, p \in Requests \cup Watchdogs :
       q # p /\ Launches(q) /\ Launches(p) => req[q].run # req[p].run
StartSaw ==
  \A q \in Requests \cup Watchdogs :
    /\ req[q].pc = "start" => req[q].op = "start"
    /\ req[q].op = "start" => req[q].status \in {"DRAFT", "FAILED", "CREATED"}
RequestsInTurn == NamedOnce /\ StartSaw

\* Only a worker that has reported, and is gone, has a verdict other than FAILED.
Settles ==
  \A c \in Attempts :
    /\ worker[c].pc = "unused" => worker[c] = UnusedWorker
    /\ worker[c].verdict \notin {"none", "open", "FAILED"} => worker[c].pc = "gone"
    /\ worker[c].pc = "queued" => worker[c].out = "none"

\* The attempts of a run come one after the other: each but the latest has parked.
OneAfterTheOther ==
  \A c \in Attempts, r \in Runs :
    worker[c].run = r =>
      /\ run[r].pc \notin Before
      /\ worker[c].verdict = "WAITING" \/ run[r].pc \in Deciding \cup Ending
      /\ run[r].pc \in Deciding /\ c # run[r].attempt => worker[c].verdict = "WAITING"

\* Of two attempts of a run one has parked, also once the run has ended.
OneOpen ==
  \A c, d \in Attempts :
    c # d /\ worker[c].run \in Runs /\ worker[c].run = worker[d].run
    => "WAITING" \in {worker[c].verdict, worker[d].verdict}

\* A run decides on its own attempt, and finishes on a success.
Awaited ==
  \A r \in Runs :
    /\ run[r].pc \in Deciding =>
         run[r].attempt \in Attempts /\ worker[run[r].attempt].run = r
    /\ run[r].pc = "finish" => worker[run[r].attempt].verdict = "SUCCEEDED"

LegsInTurn == Settles /\ OneAfterTheOther /\ OneOpen /\ Awaited

\* Attempt c has claimed the row and has neither parked, failed nor been refused.
HasRow(c) ==
  \/ worker[c].pc \in Legs
  \/ worker[c].pc = "report" /\ worker[c].out = "SUCCEEDED"
  \/ worker[c].verdict = "SUCCEEDED"

\* Such an attempt of the run that owns the execution is the one the row names.
OwnersHaveRow ==
  \A c \in Attempts : HoldsToken(worker[c].run) /\ HasRow(c) => stage.cb = c

-----------------------------------------------------------------------------
(* What the steps of each kind of process do to the others' state.         *)

\* A session stop ends workers that were alive; their verdicts stay.
LEMMA StopSessionMoves ==
  ASSUME TypeOK, StopSession, NEW c \in Attempts
  PROVE  worker'[c] = worker[c] \/ (Live(c) /\ worker'[c] = Dead(worker[c]))
BY DEF StopSession, TypeOK, WorkersOK

\* A request or a sweep leaves the row's attempt and the workers' verdicts alone, and
\* moves no run that has been launched.
Quiet ==
  /\ stage'.cb = stage.cb
  /\ \A c \in Attempts :
       worker'[c] = worker[c] \/ (Live(c) /\ worker'[c] = Dead(worker[c]))
  /\ \A r \in Runs : run'[r] = run[r] \/ (run[r].pc \in Before /\ run'[r].pc \in Before)
  /\ meta'.status = "SUCCEEDED" => meta.status = "SUCCEEDED"

LEMMA RequestIsQuiet ==
  ASSUME TypeOK, RequestsInTurn, NEW q \in Requests, Begin(q) \/ Handle(q) \/ RequestDies(q)
  PROVE  Quiet
<1>m. meta \in MetaRows /\ stage \in StageRows /\ run \in [Runs -> RunStates]
      /\ req[q] \in RequestStates /\ q \in Requests \cup Watchdogs
  BY DEF TypeOK, RunsOK, RequestsOK
<1>p. ASSUME meta' = Repaired(q) PROVE meta'.status = "SUCCEEDED" => meta.status = "SUCCEEDED"
  BY <1>m, <1>p DEF Repaired, MetaRows
<1>1. CASE Begin(q) \/ RequestDies(q)
  BY <1>1 DEF Quiet, Begin, RequestDies, ReadForAnswer, ReadForResume, ReadForStart,
     ReadForCancel, ReadForRewind
<1>2. CASE MarkConsumed(q) \/ Consume(q) \/ ClearMarker(q) \/ StampArn(q)
  BY <1>2, <1>m DEF Quiet, MetaRows, MarkConsumed, Consume, ClearMarker, StampArn
<1>3. CASE Answer(q) \/ SendAnswer(q) \/ (\E g \in Gates : Resend(q, g))
  BY <1>3, <1>m, <1>p DEF Quiet, MetaRows, Answer, SendAnswer, Resend
<1>r. ASSUME NEW r \in Runs, run[r].pc = "unused", run' = [run EXCEPT ![r].pc = "named"]
      PROVE  \A s \in Runs : run'[s] = run[s]
               \/ (run[s].pc \in Before /\ run'[s].pc \in Before)
  BY <1>r, <1>m DEF Before, RunStates
<1>9. ASSUME NEW r \in Runs, Start(q, r) PROVE Quiet
  BY <1>9, <1>m, <1>r DEF Quiet, Start, FreshRun, MetaRows
<1>10. ASSUME NEW r \in Runs, RetireRun(q, r) PROVE Quiet
  BY <1>10, <1>m, <1>r DEF Quiet, RetireRun, FreshRun, MetaRows
<1>4. CASE Invoke(q)
  BY <1>4, <1>m DEF Quiet, Invoke, Before, RequestsInTurn, NamedOnce, Launches, Launching,
     TypeOK, RequestsOK, RunStates
<1>5. CASE Rollback(q)
  BY <1>5, <1>m DEF Quiet, Rollback, RequestsInTurn, StartSaw, MetaRows
<1>6. CASE StopSessions(q)
  BY <1>6, StopSessionMoves DEF Quiet, StopSessions
<1>7. CASE \/ ReadRecords(q) \/ (\E g \in Gates : Supersede(q, g))
           \/ Cancel(q) \/ ResetStage(q) \/ Relaunch(q)
  BY <1>7, <1>m DEF Quiet, ReadRecords, Supersede, Cancel, ResetStage, Relaunch, MetaRows,
     StageRows
<1>11. QED BY <1>1, <1>2, <1>3, <1>4, <1>5, <1>6, <1>7, <1>9, <1>10 DEF Handle

LEMMA WatchdogIsQuiet ==
  ASSUME TypeOK, NEW w \in Watchdogs, Watchdog(w)
  PROVE  Quiet
BY DEF TypeOK, Quiet, Watchdog, ListActive, Sweep, Repaired, MetaRows

\* A worker's step moves that worker alone: it never starts over, and only an open
\* callback is completed, with FAILED or, as the worker's last act, with its result.
LEMMA WorkerMoves ==
  ASSUME TypeOK, Settles, NEW c \in Attempts, Worker(c) \/ Timeout(c) \/ Crash(c)
  PROVE  /\ UNCHANGED <<run, req>>
         /\ worker[c].pc # "unused"
         /\ \A d \in Attempts : d # c => worker'[d] = worker[d]
         /\ worker'[c].run = worker[c].run
         /\ worker[c].verdict # "open" => worker'[c].verdict = worker[c].verdict
         /\ Settles'
<1>w. worker \in [Attempts -> WorkerStates] /\ worker[c] \in WorkerStates
      /\ UnusedWorker.verdict = "none"
  BY DEF TypeOK, WorkersOK, UnusedWorker
<1> DEFINE Works ==
             /\ UNCHANGED <<run, req>> /\ Live(c)
             /\ \A d \in Attempts : d # c => worker'[d] = worker[d]
             /\ worker'[c].pc \in LivePcs \ {"queued"}
             /\ worker'[c].run = worker[c].run /\ worker'[c].verdict = worker[c].verdict
<1>1. CASE Works
  BY <1>1, <1>w DEF Settles, Live, LivePcs
<1>g. ASSUME NEW pc \in LivePcs \ {"queued"}, Goto(c, pc), Live(c), UNCHANGED <<run, req>>
      PROVE  Works
  BY <1>g, <1>w DEF Goto, WorkerStates
<1>r. ASSUME NEW out, Return(c, out), Live(c), UNCHANGED <<run, req>>
      PROVE  Works
  BY <1>r, <1>w DEF Return, WorkerStates, LivePcs
<1>u. ASSUME NEW pc \in LivePcs \ {"queued"}, NEW got, Live(c), UNCHANGED <<run, req>>,
             worker' = [worker EXCEPT ![c].pc = pc, ![c].got = got]
      PROVE  Works
  BY <1>u, <1>w DEF WorkerStates
<1>v. ASSUME NEW pc \in LivePcs \ {"queued"}, NEW g \in Gates \cup {None}, Live(c),
             worker' = [worker EXCEPT ![c].pc = pc, ![c].gate = g], UNCHANGED <<run, req>>
      PROVE  Works
  BY <1>v, <1>w DEF WorkerStates
<1>2. CASE Worker(c) /\ ~Report(c)
  <2> USE DEF Live, LivePcs
  <2> HIDE DEF Works
  <2>1. CASE Claim(c) \/ MarkExecutionRunning(c) \/ PollAnswered(c) \/ LeaveGrace(c)
             \/ StopTurn(c) \/ RetireQuestion(c) \/ ClearPointer(c)
    <3>1. Works
      BY <2>1, <1>g DEF Claim, MarkExecutionRunning, PollAnswered, LeaveGrace, StopTurn,
         RetireQuestion, ClearPointer
    <3>2. QED BY <1>1, <3>1
  <2>2. CASE LoadGate(c) \/ FailStage(c) \/ CompleteStage(c) \/ ClassifyConflict(c) \/ Park(c)
    <3>1. Works
      BY <2>2, <1>g, <1>r DEF LoadGate, FailStage, CompleteStage, ClassifyConflict, Park
    <3>2. QED BY <1>1, <3>1
  <2>3. CASE StartTurn(c) \/ (\E g \in Gates : Ask(c, g)) \/ InlineResume(c) \/ Exit(c)
    <3>1. StartTurn(c) => Works
      BY <1>g, <1>u DEF StartTurn
    <3>2. ASSUME NEW g \in Gates, Ask(c, g) PROVE Works
      <4>1. /\ worker' = [worker EXCEPT ![c].pc = "grace", ![c].gate = g]
            /\ UNCHANGED <<run, req>> /\ Live(c)
        BY <3>2 DEF Ask
      <4>2. QED BY <4>1, <1>v
    <3>3. InlineResume(c) => Works
      BY <1>g, <1>u DEF InlineResume
    <3>4. Exit(c) => Works
      BY <1>g, <1>v, <1>w DEF Exit, TypeOK, MetaRows, StageRows
    <3>5. QED BY <2>3, <1>1, <3>1, <3>2, <3>3, <3>4
  <2>4. QED BY <1>2, <2>1, <2>2, <2>3 DEF Worker
<1>d. /\ Dead(worker[c]).pc = "gone" /\ Dead(worker[c]).run = worker[c].run
      /\ Dead(worker[c]).verdict = worker[c].verdict
      /\ \A v : LET w == [Dead(worker[c]) EXCEPT !.verdict = v]
               IN  w.pc = "gone" /\ w.run = worker[c].run /\ w.verdict = v
  BY <1>w DEF Dead, WorkerStates
<1>3. CASE Crash(c)
  BY <1>3, <1>w, <1>d DEF Crash, Settles, Live, LivePcs
<1>4. CASE Report(c)
  <2> DEFINE v == IF worker[c].verdict = "open" THEN worker[c].out ELSE worker[c].verdict
             w == [Dead(worker[c]) EXCEPT !.verdict = v]
  <2>1. worker' = [worker EXCEPT ![c] = w] /\ UNCHANGED <<run, req>>
    BY <1>4, <1>w DEF Report
  <2>2. w.pc = "gone" /\ w.run = worker[c].run /\ w.verdict = v
    BY <1>d
  <2> HIDE DEF w
  <2>3. worker[c].pc = "report"
    BY <1>4 DEF Report
  <2>4. QED BY <1>w, <2>1, <2>2, <2>3 DEF Settles
<1>5. CASE Timeout(c)
  BY <1>5, <1>w DEF Timeout, Settles, WorkerStates
<1>6. QED BY <1>2, <1>3, <1>4, <1>5

\* What a worker's step does to the row and to its hold of it: only a claim that the
\* run's ownership allows puts an attempt into the row.
LEMMA WorkerAndRow ==
  ASSUME TypeOK, Settles, NEW c \in Attempts, Worker(c) \/ Timeout(c) \/ Crash(c)
  PROVE  /\ meta'.status = "SUCCEEDED" => meta.status = "SUCCEEDED"
         /\ \/ stage'.cb = stage.cb /\ (HasRow(c)' => HasRow(c))
            \/ worker[c].pc = "queued" /\ OwnsRun(worker[c].run) /\ stage'.cb = c
               /\ UNCHANGED meta
<1>w. worker \in [Attempts -> WorkerStates] /\ worker[c] \in WorkerStates
      /\ meta \in MetaRows /\ stage \in StageRows
  BY DEF TypeOK, WorkersOK
<1> USE DEF HasRow, Legs
<1>0. CASE Claim(c)
  BY <1>0, <1>w DEF Claim, Goto, StageRows, WorkerStates
<1>1. CASE MarkExecutionRunning(c) \/ PollAnswered(c) \/ LeaveGrace(c)
           \/ StopTurn(c) \/ RetireQuestion(c) \/ ClearPointer(c)
  BY <1>1, <1>w DEF MarkExecutionRunning, PollAnswered, LeaveGrace, StopTurn, RetireQuestion,
     ClearPointer, Goto, WorkerStates, MetaRows
<1>1a. CASE LoadGate(c) \/ ClassifyConflict(c)
  BY <1>1a, <1>w DEF LoadGate, ClassifyConflict, Goto, Return, WorkerStates, MetaRows
<1>2. CASE FailStage(c) \/ CompleteStage(c) \/ Park(c)
  BY <1>2, <1>w DEF FailStage, CompleteStage, Park, Goto, Return, StageRows
<1>3. CASE StartTurn(c) \/ (\E g \in Gates : Ask(c, g)) \/ InlineResume(c) \/ Exit(c)
  BY <1>3, <1>w DEF StartTurn, Ask, InlineResume, Exit, Goto, WorkerStates, MetaRows, StageRows
<1>4. CASE Report(c)
  BY <1>4, <1>w DEF Report, Dead, WorkerStates
<1>5. CASE Crash(c)
  BY <1>5, <1>w DEF Crash, Dead, WorkerStates
<1>6. CASE Timeout(c)
  BY <1>6, <1>w DEF Timeout, WorkerStates
<1>7. QED BY <1>0, <1>1, <1>1a, <1>2, <1>3, <1>4, <1>5, <1>6 DEF Worker

\* An orchestrator's step moves its run alone, forward: only a dispatch adds an attempt
\* and only an await can take the run from one decision to another.
Forward(r) ==
  \/ run[r].pc \in Before /\ run'[r].pc \in Before \cup {"dispatch"} \cup Ending
  \/ /\ run[r].pc \notin Before /\ run'[r].pc \notin Before \cup Deciding
     /\ run[r].pc \in Deciding \cup Ending => run'[r].pc \in Ending

LEMMA RunMoves ==
  ASSUME TypeOK, NEW r \in Runs, Orchestrator(r) \/ ReleaseTimer(r) \/ DurableEnds(r)
  PROVE  /\ UNCHANGED req /\ stage'.cb = stage.cb
         /\ \A s \in Runs : s # r => run'[s] = run[s]
         /\ run[r].pc \notin {"unused", "named"}
         /\ meta'.status = "SUCCEEDED" =>
              meta.status = "SUCCEEDED" \/ (run[r].pc = "finish" /\ HoldsToken(r))
         /\ \/ \E c \in Attempts : Dispatch(r, c)
            \/ /\ \A c \in Attempts :
                    worker'[c] = worker[c] \/ (Live(c) /\ worker'[c] = Dead(worker[c]))
               /\ Await(r) \/ Forward(r)
<1>m. run \in [Runs -> RunStates] /\ run[r] \in RunStates /\ meta \in MetaRows
      /\ stage \in StageRows
  BY DEF TypeOK, RunsOK
<1>s. ASSUME NEW pc, Step(r, pc)
      PROVE  run'[r].pc = pc /\ \A s \in Runs : s # r => run'[s] = run[s]
  BY <1>s, <1>m DEF Step, RunStates
<1> USE DEF Before, Deciding, Ending
<1>1. CASE Mint(r) \/ InitWorkspace(r) \/ MarkRunning(r)
  BY <1>1, <1>s, <1>m DEF Mint, InitWorkspace, MarkRunning, Forward, MetaRows
<1>2. CASE Await(r)
  BY <1>2, <1>m DEF Await
<1>3. CASE \E c \in Attempts : Dispatch(r, c)
  BY <1>3, <1>m DEF Dispatch
<1>4. CASE DeadlineTooClose(r)
  BY <1>4, <1>s, <1>m DEF DeadlineTooClose, Forward
<1>5. CASE RereadGate(r)
  BY <1>5, <1>s, <1>m DEF RereadGate, Forward
<1>6. CASE Woken(r)
  BY <1>6, <1>s, <1>m DEF Woken, Forward
<1>7. CASE AfterGate(r)
  BY <1>7, <1>s, <1>m DEF AfterGate, Forward
<1>8. CASE ReleaseTimer(r)
  BY <1>8, <1>s, <1>m DEF ReleaseTimer, Forward
<1>9. CASE DurableEnds(r)
  BY <1>9, <1>s, <1>m DEF DurableEnds, Forward
<1>10. CASE Reconcile(r)
  BY <1>10, <1>s, <1>m DEF Reconcile, Forward, StageRows
<1>11. CASE BindCallback(r)
  BY <1>11, <1>s, <1>m DEF BindCallback, Forward
<1>12. CASE ReleaseSession(r)
  BY <1>12, <1>s, StopSessionMoves DEF ReleaseSession, Forward
<1>13. CASE Unpark(r)
  <2>1. /\ UNCHANGED <<stage, worker, req>> /\ run[r].pc = "unpark"
        /\ meta'.status = "SUCCEEDED" => meta.status = "SUCCEEDED"
    BY <1>13, <1>m DEF Unpark, MetaRows
  <2>2. Step(r, "dispatch") \/ Step(r, "done")
    BY <1>13 DEF Unpark
  <2>3. QED BY <2>1, <2>2, <1>s DEF Forward
<1>14. CASE FinishSucceeded(r)
  BY <1>14, <1>s, <1>m DEF FinishSucceeded, Forward, MetaRows
<1>15. CASE Fail(r)
  BY <1>15, <1>s, <1>m DEF Fail, Forward, MetaRows
<1>16. QED
  BY <1>1, <1>2, <1>3, <1>4, <1>5, <1>6, <1>7, <1>8, <1>9, <1>10, <1>11, <1>12, <1>13, <1>14,
     <1>15 DEF Orchestrator

-----------------------------------------------------------------------------
(* The attempts of a run take turns.                                       *)

LEMMA InitInTurn == Init => RequestsInTurn /\ LegsInTurn
BY NoneAssumption
DEF Init, RequestsInTurn, NamedOnce, StartSaw, Launches, Launching, LegsInTurn, Settles,
    OneAfterTheOther, OneOpen, Awaited, Deciding, IdleRequest, UnusedWorker

\* The steps of runs and workers leave requests in turn.
LEMMA OthersKeepRequests ==
  ASSUME TypeOK, RequestsInTurn, UNCHANGED req,
         \A r \in Runs : run[r].pc = "named" => run'[r] = run[r]
  PROVE  RequestsInTurn'
BY DEF RequestsInTurn, NamedOnce, StartSaw, Launches, Launching, TypeOK, RequestsOK

\* So does a request that names no other run to launch than the one it has named.
LEMMA RequestKeepsName ==
  ASSUME TypeOK, RequestsInTurn, UNCHANGED run, NEW q \in Requests \cup Watchdogs,
         \A p \in Requests \cup Watchdogs : p # q => req'[p] = req[p],
         req'[q].pc = "start" => req'[q].op = "start",
         req'[q].op = "start" => req'[q].status \in {"DRAFT", "FAILED", "CREATED"},
         Launches(q)' => Launches(q) /\ req'[q].run = req[q].run
  PROVE  RequestsInTurn'
BY DEF RequestsInTurn, NamedOnce, StartSaw, Launches

\* A request that names an unused run is the only one to launch it.
LEMMA RequestNamesRun ==
  ASSUME TypeOK, RequestsInTurn, NEW q \in Requests \cup Watchdogs, NEW r \in Runs,
         run[r].pc = "unused", run' = [run EXCEPT ![r].pc = "named"],
         \A p \in Requests \cup Watchdogs : p # q => req'[p] = req[p],
         req'[q].pc = "start" => req'[q].op = "start",
         req'[q].op = "start" => req'[q].status \in {"DRAFT", "FAILED", "CREATED"},
         req'[q].run = r
  PROVE  RequestsInTurn'
BY DEF RequestsInTurn, NamedOnce, StartSaw, Launches, Launching, TypeOK, RequestsOK, RunsOK,
       RunStates

LEMMA RequestStaysInTurn ==
  ASSUME TypeOK, RequestsInTurn, NEW q \in Requests, Begin(q) \/ Handle(q) \/ RequestDies(q)
  PROVE  RequestsInTurn'
<1>q. /\ q \in Requests \cup Watchdogs /\ req \in [Requests \cup Watchdogs -> RequestStates]
      /\ req[q] \in RequestStates /\ run \in [Runs -> RunStates]
      /\ req[q].pc \in {"start", "invoke", "stamp", "reset", "relaunch"} => req[q].op # "cancel"
      /\ req[q].op = "start" => req[q].status \in {"DRAFT", "FAILED", "CREATED"}
  BY DEF TypeOK, RequestsOK, RunsOK, RequestsInTurn, StartSaw
<1>f. ASSUME Finish(q), UNCHANGED run PROVE RequestsInTurn'
  BY <1>f, <1>q, RequestKeepsName DEF Finish, IdleRequest, Launches, Launching
<1>g. ASSUME NEW pc, GotoReq(q, pc), UNCHANGED run, pc # "start",
             pc \in Launching /\ req[q].op # "cancel" => req[q].pc \in Launching
      PROVE  RequestsInTurn'
  BY <1>g, <1>q, RequestKeepsName DEF GotoReq, Launches, RequestStates
<1>s. ASSUME NEW op, NEW pc
      PROVE  /\ SeenStatus(op, pc).op = op /\ SeenStatus(op, pc).pc = pc
             /\ SeenStatus(op, pc).status = meta.status
             /\ Seen(op, pc).op = op /\ Seen(op, pc).pc = pc
  BY DEF SeenStatus, Seen, IdleRequest
<1>1. CASE Begin(q)
  <2>1. ASSUME NEW g \in Gates, ReadForAnswer(q, g) PROVE RequestsInTurn'
    BY <2>1, <1>q, <1>s, RequestKeepsName DEF ReadForAnswer, Launches, Launching
  <2>2. CASE ReadForResume(q)
    <3> DEFINE owed == {g \in Gates : ResumeOwed(g)}
    <3>1. req' = [req EXCEPT ![q] = [Seen("resume", "resend") EXCEPT
                                      !.gate = meta.owed, !.todo = owed]]
      BY <2>2 DEF ReadForResume
    <3> HIDE DEF owed
    <3>2. req'[q].op = "resume" /\ req'[q].pc = "resend"
      BY <3>1, <1>q, <1>s
    <3>3. QED
      BY <2>2, <3>1, <3>2, <1>q, RequestKeepsName DEF ReadForResume, Launches, Launching
  <2>3. CASE ReadForStart(q)
    BY <2>3, <1>q, <1>s, RequestKeepsName DEF ReadForStart, Launches, Launching
  <2>4. CASE ReadForCancel(q)
    BY <2>4, <1>q, <1>s, RequestKeepsName DEF ReadForCancel, Launches, Launching
  <2>5. CASE ReadForRewind(q)
    BY <2>5, <1>q, <1>s, RequestKeepsName DEF ReadForRewind, Launches, Launching
  <2>6. QED BY <1>1, <2>1, <2>2, <2>3, <2>4, <2>5 DEF Begin
<1>2. CASE Answer(q) \/ SendAnswer(q) \/ MarkConsumed(q) \/ Consume(q) \/ ClearMarker(q)
           \/ StampArn(q) \/ Rollback(q) \/ Cancel(q) \/ RequestDies(q)
  BY <1>2, <1>f, <1>g DEF Answer, SendAnswer, MarkConsumed, Consume, ClearMarker, StampArn,
     Rollback, Cancel, RequestDies, Launching
<1>3. ASSUME NEW g \in Gates, Resend(q, g) PROVE RequestsInTurn'
  <2>1. UNCHANGED run /\ req[q].pc = "resend"
    BY <1>3 DEF Resend
  <2> DEFINE x == [req[q] EXCEPT !.pc = "consume", !.bound = {g}, !.todo = @ \ {g}]
             y == [[req[q] EXCEPT !.pc = "resend", !.bound = {g}, !.todo = @ \ {g}]
                     EXCEPT !.gate = None]
  <2>2. \/ req' = [req EXCEPT ![q] = x] \/ req' = [req EXCEPT ![q] = y]
        \/ GotoReq(q, "clear")
    BY <1>3 DEF Resend
  <2>3. /\ x.pc = "consume" /\ x.op = req[q].op /\ x.status = req[q].status
        /\ y.pc = "resend" /\ y.op = req[q].op /\ y.status = req[q].status
    BY <1>q DEF RequestStates
  <2> HIDE DEF x, y
  <2>4. CASE GotoReq(q, "clear")
    BY <2>1, <2>4, <1>g DEF Launching
  <2>5. CASE ~GotoReq(q, "clear")
    BY <2>1, <2>2, <2>3, <2>5, <1>q, RequestKeepsName DEF Launches, Launching
  <2>6. QED BY <2>4, <2>5
<1>4. ASSUME NEW r \in Runs, Start(q, r) PROVE RequestsInTurn'
  BY <1>4, <1>q, <1>f, RequestNamesRun DEF Start, FreshRun, RequestStates
<1>5. ASSUME NEW r \in Runs, RetireRun(q, r) PROVE RequestsInTurn'
  <2>1. CASE Finish(q) /\ UNCHANGED <<meta, run>>
    BY <2>1, <1>f
  <2>2. CASE ~(Finish(q) /\ UNCHANGED <<meta, run>>)
    <3>1. /\ run[r].pc = "unused" /\ run' = [run EXCEPT ![r].pc = "named"]
          /\ req' = [req EXCEPT ![q] = [IdleRequest EXCEPT !.op = "rewind",
                                          !.pc = "records", !.run = r]]
      BY <1>5, <2>2 DEF RetireRun, FreshRun
    <3>2. req'[q].op = "rewind" /\ req'[q].pc = "records" /\ req'[q].run = r
      BY <3>1, <1>q DEF IdleRequest
    <3>3. QED BY <3>1, <3>2, <1>q, RequestNamesRun
  <2>3. QED BY <2>1, <2>2
<1>6. CASE Invoke(q)
  <2>1. PICK pc \in {"stamp", "rollback"} : GotoReq(q, pc)
    BY <1>6 DEF Invoke
  <2>2. Launches(q)
    BY <1>6, <1>q DEF Invoke, Launches, Launching
  <2>3. \A s \in Runs : s # req[q].run => run'[s] = run[s]
    BY <1>6, <1>q DEF Invoke
  <2>4. /\ ~Launches(q)' /\ req'[q].op = req[q].op /\ req'[q].status = req[q].status
        /\ req'[q].pc # "start"
        /\ \A p \in Requests \cup Watchdogs : p # q => req'[p] = req[p]
    BY <2>1, <1>q DEF GotoReq, Launches, Launching, RequestStates
  <2>5. \A p \in Requests \cup Watchdogs : Launches(p) => req[p].run \in Runs
    BY DEF Launches, Launching, TypeOK, RequestsOK
  <2>6. QED
    BY <2>2, <2>3, <2>4, <2>5, <1>q DEF RequestsInTurn, NamedOnce, StartSaw, Launches
<1>7. CASE ReadRecords(q)
  <2>1. /\ UNCHANGED run /\ req[q].pc = "records"
        /\ \A p \in Requests \cup Watchdogs : p # q => req'[p] = req[p]
    BY <1>7, <1>q DEF ReadRecords
  <2>2. /\ req'[q].op = req[q].op /\ req'[q].status = req[q].status
        /\ req'[q].run = req[q].run /\ req'[q].pc = "supersede"
    BY <1>7, <1>q DEF ReadRecords, RequestStates
  <2>3. QED BY <2>1, <2>2, <1>q, RequestKeepsName DEF Launches, Launching
<1>8. ASSUME NEW g \in Gates, Supersede(q, g) PROVE RequestsInTurn'
  BY <1>8, <1>q, RequestKeepsName DEF Supersede, Launches, Launching, RequestStates
<1>9. CASE StopSessions(q) \/ ResetStage(q) \/ Relaunch(q)
  BY <1>9, <1>f, <1>g DEF StopSessions, ResetStage, Relaunch, Launching
<1>10. QED BY <1>1, <1>2, <1>3, <1>4, <1>5, <1>6, <1>7, <1>8, <1>9 DEF Handle

LEMMA WatchdogKeepsRequests ==
  ASSUME TypeOK, RequestsInTurn, NEW w \in Watchdogs, Watchdog(w)
  PROVE  RequestsInTurn'
<1>1. w \in Requests \cup Watchdogs /\ req \in [Requests \cup Watchdogs -> RequestStates]
  BY DEF TypeOK, RequestsOK
<1>2. CASE ListActive(w)
  BY <1>1, <1>2, RequestKeepsName DEF ListActive, Seen, SeenStatus, IdleRequest, Launches,
     Launching
<1>3. CASE Sweep(w)
  BY <1>1, <1>3, RequestKeepsName DEF Sweep, Finish, IdleRequest, Launches, Launching
<1>4. QED BY <1>2, <1>3 DEF Watchdog

LEMMA WorkerKeepsLegs ==
  ASSUME TypeOK, LegsInTurn, NEW c \in Attempts, Worker(c) \/ Timeout(c) \/ Crash(c)
  PROVE  LegsInTurn'
<1>1. /\ UNCHANGED run /\ Settles'
      /\ \A d \in Attempts :
           /\ worker'[d].run = worker[d].run
           /\ worker[d].verdict # "open" => worker'[d].verdict = worker[d].verdict
  BY WorkerMoves DEF LegsInTurn
<1>3. OneAfterTheOther' /\ OneOpen'
  BY <1>1 DEF LegsInTurn, OneAfterTheOther, OneOpen
<1>4. Awaited'
  BY <1>1 DEF LegsInTurn, Awaited, Deciding
<1>5. QED BY <1>1, <1>3, <1>4 DEF LegsInTurn

\* Ending workers whose verdicts stay changes nothing about the turns.
LEMMA DeathsKeepSettled ==
  ASSUME TypeOK, Settles,
         \A c \in Attempts :
           worker'[c] = worker[c] \/ (Live(c) /\ worker'[c] = Dead(worker[c]))
  PROVE  /\ Settles'
         /\ \A c \in Attempts : /\ worker'[c].run = worker[c].run
                                /\ worker'[c].verdict = worker[c].verdict
                                /\ worker'[c] = worker[c] \/ worker'[c].pc = "gone"
<1>1. ASSUME NEW c \in Attempts
      PROVE  /\ Dead(worker[c]).run = worker[c].run
             /\ Dead(worker[c]).verdict = worker[c].verdict
             /\ Dead(worker[c]).pc = "gone" /\ Dead(worker[c]).out = "none"
  <2>1. worker[c] \in WorkerStates
    BY DEF TypeOK, WorkersOK
  <2>2. QED BY <2>1 DEF WorkerStates, Dead
<1>2. \A c \in Attempts : worker'[c] = worker[c] \/ worker'[c].pc = "gone"
  BY <1>1
<1>3. \A c \in Attempts : /\ worker'[c].run = worker[c].run
                          /\ worker'[c].verdict = worker[c].verdict
  BY <1>1
<1>4. Settles'
  BY <1>2 DEF Settles
<1>5. QED BY <1>2, <1>3, <1>4

LEMMA QuietKeepsLegs ==
  ASSUME TypeOK, LegsInTurn, Quiet
  PROVE  LegsInTurn'
<1>1. /\ Settles'
      /\ \A c \in Attempts : /\ worker'[c].run = worker[c].run
                             /\ worker'[c].verdict = worker[c].verdict
  BY DeathsKeepSettled DEF LegsInTurn, Quiet
<1>2. \A r \in Runs : run'[r] = run[r] \/ (run[r].pc \in Before /\ run'[r].pc \in Before)
  BY DEF Quiet
<1>3. OneAfterTheOther'
  BY <1>1, <1>2 DEF LegsInTurn, OneAfterTheOther
<1>4. OneOpen' /\ Awaited'
  BY <1>1, <1>2 DEF LegsInTurn, OneOpen, Awaited, Before, Deciding
<1>5. QED BY <1>1, <1>3, <1>4 DEF LegsInTurn

\* A dispatched attempt is a fresh one; it is queued, or its callback has failed.
LEMMA DispatchMoves ==
  ASSUME TypeOK, NEW r \in Runs, NEW c \in Attempts, Dispatch(r, c)
  PROVE  /\ worker[c].pc = "unused" /\ stage'.cb = stage.cb
         /\ \A d \in Attempts : d # c => worker'[d] = worker[d]
         /\ worker'[c].run = r /\ worker'[c].out = "none"
         /\ worker'[c].pc \in {"queued", "gone"} /\ worker'[c].verdict \in {"open", "FAILED"}
<1> DEFINE leg == [UnusedWorker EXCEPT !.run = r, !.from = run[r].from]
           queued == [leg EXCEPT !.pc = "queued", !.verdict = "open"]
           refused == [leg EXCEPT !.pc = "gone", !.verdict = "FAILED"]
<1>1. worker' = [worker EXCEPT ![c] = queued] \/ worker' = [worker EXCEPT ![c] = refused]
  BY DEF Dispatch
<1>2. /\ queued.run = r /\ queued.out = "none"
      /\ queued.pc = "queued" /\ queued.verdict = "open"
      /\ refused.run = r /\ refused.out = "none"
      /\ refused.pc = "gone" /\ refused.verdict = "FAILED"
  BY DEF UnusedWorker
<1>3. UNCHANGED stage /\ worker[c].pc = "unused" /\ worker \in [Attempts -> WorkerStates]
  BY DEF Dispatch, FreshAttempt, TypeOK, WorkersOK
<1> HIDE DEF queued, refused
<1>4. QED BY <1>1, <1>2, <1>3

LEMMA RunKeepsLegs ==
  ASSUME TypeOK, LegsInTurn, NEW r \in Runs,
         Orchestrator(r) \/ ReleaseTimer(r) \/ DurableEnds(r)
  PROVE  LegsInTurn'
<1>t. /\ run \in [Runs -> RunStates] /\ run[r] \in RunStates
      /\ worker \in [Attempts -> WorkerStates]
      /\ run[r].pc \in {"await", "reconcile"} => run[r].attempt \in Attempts
  BY DEF TypeOK, RunsOK, WorkersOK
<1>1. ASSUME NEW c \in Attempts, Dispatch(r, c) PROVE LegsInTurn'
  <2>1. /\ run[r].pc = "dispatch" /\ run'[r].pc = "await" /\ run'[r].attempt = c
        /\ \A s \in Runs : s # r => run'[s] = run[s]
    BY <1>1, <1>t DEF Dispatch
  <2>2. /\ worker[c].pc = "unused" /\ \A d \in Attempts : d # c => worker'[d] = worker[d]
        /\ worker'[c].run = r /\ worker'[c].out = "none"
        /\ worker'[c].pc \in {"queued", "gone"} /\ worker'[c].verdict \in {"open", "FAILED"}
    BY <1>1, DispatchMoves
  <2>3. worker[c].run = None /\ worker[c].verdict = "none"
    BY <2>2 DEF LegsInTurn, Settles, UnusedWorker
  <2>4. Settles'
    BY <2>2 DEF LegsInTurn, Settles
  <2>5. \A d \in Attempts : d # c /\ worker[d].run = r => worker[d].verdict = "WAITING"
    BY <2>1 DEF LegsInTurn, OneAfterTheOther, Deciding, Ending
  <2>6. OneAfterTheOther' /\ OneOpen'
    BY <2>1, <2>2, <2>5 DEF LegsInTurn, OneAfterTheOther, OneOpen, Before, Deciding
  <2>7. Awaited'
    BY <2>1, <2>2, <2>3, NoneAssumption DEF LegsInTurn, Awaited, Deciding
  <2>8. QED BY <2>4, <2>6, <2>7 DEF LegsInTurn
<1>2. CASE /\ \A c \in Attempts :
                worker'[c] = worker[c] \/ (Live(c) /\ worker'[c] = Dead(worker[c]))
           /\ Await(r) \/ Forward(r)
  <2>1. /\ Settles'
        /\ \A c \in Attempts : /\ worker'[c].run = worker[c].run
                               /\ worker'[c].verdict = worker[c].verdict
    BY <1>2, DeathsKeepSettled DEF LegsInTurn
  <2>2. \A s \in Runs : s # r => run'[s] = run[s]
    BY RunMoves
  <2>3. OneOpen'
    BY <2>1 DEF LegsInTurn, OneOpen
  <2>4. CASE Forward(r)
    <3>1. OneAfterTheOther'
      BY <2>1, <2>2, <2>4 DEF LegsInTurn, OneAfterTheOther, Forward, Before, Deciding, Ending
    <3>2. Awaited'
      BY <2>1, <2>2, <2>4 DEF LegsInTurn, Awaited, Forward, Before, Deciding, Ending
    <3>3. QED BY <2>1, <2>3, <3>1, <3>2 DEF LegsInTurn
  <2>5. CASE Await(r)
    <3> DEFINE c == run[r].attempt
    <3>1. /\ run[r].pc = "await" /\ run'[r].attempt = c /\ UNCHANGED worker
          /\ \/ worker[c].verdict = "SUCCEEDED" /\ run'[r].pc = "finish"
             \/ worker[c].verdict = "WAITING" /\ run'[r].pc = "bind"
             \/ run'[r].pc = "reconcile"
      BY <2>5, <1>t DEF Await
    <3>2. c \in Attempts /\ worker[c].run = r
          /\ \A d \in Attempts : d # c /\ worker[d].run = r => worker[d].verdict = "WAITING"
      BY <3>1 DEF LegsInTurn, Awaited, OneAfterTheOther, Deciding
    <3> HIDE DEF c
    <3>3. OneAfterTheOther'
      BY <2>2, <3>1, <3>2 DEF LegsInTurn, OneAfterTheOther, Before, Deciding, Ending
    <3>4. Awaited'
      BY <2>2, <3>1, <3>2 DEF LegsInTurn, Awaited, Deciding
    <3>5. QED BY <2>1, <2>3, <3>3, <3>4 DEF LegsInTurn
  <2>6. QED BY <1>2, <2>4, <2>5
<1>3. QED BY <1>1, <1>2, RunMoves

\* Requests launch each run they name once, and the attempts of a run take turns: an
\* attempt is dispatched only after the one before it has parked.
InTurn == TypeOK /\ RequestsInTurn /\ LegsInTurn

THEOREM TurnsAreKept == Spec => []InTurn
<1>1. Init => InTurn
  BY InitTyped, InitInTurn DEF InTurn
<1>2. InTurn /\ [Next]_vars => InTurn'
  <2> SUFFICES ASSUME InTurn, TypeOK', [Next]_vars PROVE RequestsInTurn' /\ LegsInTurn'
    BY NextKeepsType DEF InTurn
  <2> USE DEF InTurn
  <2>1. ASSUME NEW c \in Attempts, Worker(c) \/ Timeout(c) \/ Crash(c)
        PROVE  RequestsInTurn' /\ LegsInTurn'
    BY <2>1, WorkerMoves, WorkerKeepsLegs, OthersKeepRequests DEF LegsInTurn
  <2>2. ASSUME NEW r \in Runs, Orchestrator(r) \/ ReleaseTimer(r) \/ DurableEnds(r)
        PROVE  RequestsInTurn' /\ LegsInTurn'
    BY <2>2, RunMoves, RunKeepsLegs, OthersKeepRequests
  <2>3. ASSUME NEW q \in Requests, Begin(q) \/ Handle(q) \/ RequestDies(q)
        PROVE  RequestsInTurn' /\ LegsInTurn'
    BY <2>3, RequestIsQuiet, QuietKeepsLegs, RequestStaysInTurn
  <2>4. ASSUME NEW w \in Watchdogs, Watchdog(w) PROVE RequestsInTurn' /\ LegsInTurn'
    BY <2>4, WatchdogIsQuiet, QuietKeepsLegs, WatchdogKeepsRequests
  <2>5. CASE UNCHANGED vars
    <3>1. Quiet
      BY <2>5 DEF vars, Quiet
    <3>2. QED BY <2>5, <3>1, QuietKeepsLegs, OthersKeepRequests DEF vars
  <2>6. QED BY <2>1, <2>2, <2>3, <2>4, <2>5 DEF Next
<1>3. QED BY <1>1, <1>2, PTL DEF Spec

-----------------------------------------------------------------------------
(* The row and the token.                                                  *)

\* A run gets the token only when it mints it, before it has an attempt.
LEMMA TokenIsMinted ==
  ASSUME TypeOK, Next, NEW x \in Runs \cup {None}, HoldsToken(x)'
  PROVE  HoldsToken(x) \/ (x \in Runs /\ run[x].pc = "launched")
BY TokenMoves DEF HoldsToken

\* Every step but a claim leaves the row's attempt alone, and gives no attempt a hold
\* of the row it did not have.
HoldsStay ==
  /\ stage'.cb = stage.cb
  /\ \A c \in Attempts : HasRow(c)' => HasRow(c) /\ worker'[c].run = worker[c].run

Claimed(c) ==
  /\ worker[c].pc = "queued" /\ OwnsRun(worker[c].run)
  /\ stage'.cb = c /\ UNCHANGED meta
  /\ worker'[c].run = worker[c].run
  /\ \A d \in Attempts : d # c => worker'[d] = worker[d]

LEMMA RowMoves ==
  ASSUME InTurn, Next
  PROVE  HoldsStay \/ \E c \in Attempts : Claimed(c)
<1> USE DEF InTurn
<1>d. ASSUME stage'.cb = stage.cb,
             \A c \in Attempts :
               worker'[c] = worker[c] \/ (Live(c) /\ worker'[c] = Dead(worker[c]))
      PROVE  HoldsStay
  <2>1. \A c \in Attempts : /\ worker'[c].run = worker[c].run
                            /\ worker'[c].verdict = worker[c].verdict
                            /\ worker'[c] = worker[c] \/ worker'[c].pc = "gone"
    BY <1>d, DeathsKeepSettled DEF LegsInTurn
  <2>2. QED BY <1>d, <2>1 DEF HoldsStay, HasRow, Legs
<1>1. ASSUME NEW c \in Attempts, Worker(c) \/ Timeout(c) \/ Crash(c)
      PROVE  HoldsStay \/ Claimed(c)
  BY <1>1, WorkerMoves, WorkerAndRow DEF LegsInTurn, HoldsStay, Claimed, HasRow
<1>2. ASSUME NEW r \in Runs, Orchestrator(r) \/ ReleaseTimer(r) \/ DurableEnds(r)
      PROVE  HoldsStay
  <2>1. ASSUME NEW c \in Attempts, Dispatch(r, c) PROVE HoldsStay
    <3>1. /\ \A d \in Attempts : d # c => worker'[d] = worker[d]
          /\ stage'.cb = stage.cb
          /\ worker'[c].pc \in {"queued", "gone"} /\ worker'[c].verdict \in {"open", "FAILED"}
      BY <2>1, DispatchMoves
    <3>2. QED BY <3>1 DEF HoldsStay, HasRow, Legs
  <2>2. QED BY <1>2, <1>d, <2>1, RunMoves
<1>3. ASSUME NEW q \in Requests, Begin(q) \/ Handle(q) \/ RequestDies(q) PROVE HoldsStay
  BY <1>3, <1>d, RequestIsQuiet DEF Quiet
<1>4. ASSUME NEW w \in Watchdogs, Watchdog(w) PROVE HoldsStay
  BY <1>4, <1>d, WatchdogIsQuiet DEF Quiet
<1>5. QED BY <1>1, <1>2, <1>3, <1>4 DEF Next

\* A step that makes the execution read SUCCEEDED is a finish by the run that owns it.
LEMMA SuccessMoves ==
  ASSUME InTurn, Next, meta'.status = "SUCCEEDED", meta.status # "SUCCEEDED"
  PROVE  \E r \in Runs : run[r].pc = "finish" /\ HoldsToken(r)
BY WorkerAndRow, RunMoves, RequestIsQuiet, WatchdogIsQuiet
DEF InTurn, LegsInTurn, Next, Quiet

\* A success a run has been told of stays.
LEMMA SuccessStays ==
  ASSUME InTurn, Next, NEW c \in Attempts, worker[c].verdict = "SUCCEEDED"
  PROVE  worker'[c].verdict = "SUCCEEDED"
<1> USE DEF InTurn
<1>1. ASSUME \A d \in Attempts :
               worker'[d] = worker[d] \/ (Live(d) /\ worker'[d] = Dead(worker[d]))
      PROVE  worker'[c].verdict = "SUCCEEDED"
  BY <1>1, DeathsKeepSettled DEF LegsInTurn
<1>2. ASSUME NEW d \in Attempts, Worker(d) \/ Timeout(d) \/ Crash(d)
      PROVE  worker'[c].verdict = "SUCCEEDED"
  BY <1>2, WorkerMoves DEF LegsInTurn
<1>3. ASSUME NEW r \in Runs, NEW d \in Attempts, Dispatch(r, d)
      PROVE  worker'[c].verdict = "SUCCEEDED"
  <2>1. worker[d].pc = "unused" /\ \A e \in Attempts : e # d => worker'[e] = worker[e]
    BY <1>3, DispatchMoves
  <2>2. c # d
    BY <2>1 DEF LegsInTurn, Settles, UnusedWorker
  <2>3. QED BY <2>1, <2>2
<1>4. QED
  BY <1>1, <1>2, <1>3, RunMoves, RequestIsQuiet, WatchdogIsQuiet DEF Next, Quiet

\* The row belongs to the attempt at work for the owner, and a success is the row's.
RowIsHeld == OwnersHaveRow /\ SuccessIsEarned

LEMMA InitHeld == Init => RowIsHeld
BY DEF Init, RowIsHeld, OwnersHaveRow, SuccessIsEarned, HasRow, Legs, UnusedWorker

\* No attempt of the owner loses the row: a claim takes it only for a run that holds
\* the token, whose other attempts have parked, and a run that mints the token has none.
LEMMA OwnersKeepRow ==
  ASSUME InTurn, OwnersHaveRow, Next
  PROVE  OwnersHaveRow'
<1> SUFFICES ASSUME NEW c \in Attempts, HoldsToken(worker[c].run)', HasRow(c)'
             PROVE  stage'.cb = c
  BY DEF OwnersHaveRow
<1> USE DEF InTurn
<1>1. CASE HoldsStay
  <2>1. HasRow(c) /\ worker'[c].run = worker[c].run /\ stage'.cb = stage.cb
    BY <1>1 DEF HoldsStay
  <2>2. PICK x \in Runs \cup {None} : x = worker[c].run /\ x = worker'[c].run
    BY <2>1 DEF TypeOK, WorkersOK, WorkerStates
  <2>3. HoldsToken(x)'
    BY <2>2 DEF HoldsToken
  <2>4. HoldsToken(x)
    BY <2>2, <2>3, TokenIsMinted DEF LegsInTurn, OneAfterTheOther, Before
  <2>5. QED BY <2>1, <2>2, <2>4 DEF OwnersHaveRow
<1>2. ASSUME NEW d \in Attempts, Claimed(d) PROVE stage'.cb = c
  <2> SUFFICES ASSUME c # d PROVE FALSE
    BY <1>2 DEF Claimed
  <2>1. worker'[c] = worker[c] /\ UNCHANGED meta /\ worker[d].pc = "queued"
        /\ HoldsToken(worker[d].run)
    BY <1>2 DEF Claimed, OwnsRun
  <2>2. worker[c].run = worker[d].run /\ worker[d].run \in Runs
    BY <2>1 DEF HoldsToken, TypeOK, WorkersOK, Live, LivePcs
  <2>3. worker[d].verdict # "WAITING"
    BY <2>1 DEF LegsInTurn, Settles
  <2>4. worker[c].verdict = "WAITING" /\ worker[c].pc = "gone"
    BY <2>2, <2>3 DEF LegsInTurn, OneOpen, Settles
  <2>5. QED BY <2>1, <2>4 DEF HasRow, Legs
<1>3. QED BY <1>1, <1>2, RowMoves

\* The run that finishes decides on a success of its own attempt, which has the row;
\* no claim takes the row from a finished execution.
LEMMA SuccessStaysEarned ==
  ASSUME InTurn, RowIsHeld, Next
  PROVE  SuccessIsEarned'
<1> SUFFICES ASSUME meta'.status = "SUCCEEDED"
             PROVE  \E c \in Attempts : stage'.cb = c /\ worker'[c].verdict = "SUCCEEDED"
  BY DEF SuccessIsEarned
<1>1. PICK c \in Attempts : stage.cb = c /\ worker[c].verdict = "SUCCEEDED"
  <2>1. CASE meta.status = "SUCCEEDED"
    BY <2>1 DEF RowIsHeld, SuccessIsEarned
  <2>2. CASE meta.status # "SUCCEEDED"
    <3>1. PICK r \in Runs : run[r].pc = "finish" /\ HoldsToken(r)
      BY <2>2, SuccessMoves
    <3> DEFINE c == run[r].attempt
    <3>2. c \in Attempts /\ worker[c].run = r /\ worker[c].verdict = "SUCCEEDED"
      BY <3>1 DEF InTurn, LegsInTurn, Awaited, Deciding
    <3>3. stage.cb = c
      BY <3>1, <3>2 DEF RowIsHeld, OwnersHaveRow, HasRow
    <3>4. QED BY <3>2, <3>3
  <2>3. QED BY <2>1, <2>2
<1>2. worker'[c].verdict = "SUCCEEDED"
  BY <1>1, SuccessStays
<1>3. CASE HoldsStay
  BY <1>1, <1>2, <1>3 DEF HoldsStay
<1>4. ASSUME NEW d \in Attempts, Claimed(d) PROVE FALSE
  BY <1>4 DEF Claimed, OwnsRun, Active
<1>5. QED BY <1>3, <1>4, RowMoves

\* The attempt at work for the run that owns the execution has its stage row, and a
\* succeeded execution its success: in every reachable state, for any number of runs,
\* attempts and requests.
THEOREM RowIsAlwaysHeld == Spec => []RowIsHeld
<1>1. InTurn /\ RowIsHeld /\ [Next]_vars => RowIsHeld'
  <2> SUFFICES ASSUME InTurn, RowIsHeld, [Next]_vars PROVE RowIsHeld'
    OBVIOUS
  <2>1. CASE Next
    BY <2>1, OwnersKeepRow, SuccessStaysEarned DEF RowIsHeld
  <2>2. CASE UNCHANGED vars
    <3>1. UNCHANGED <<meta, stage, worker>>
      BY <2>2 DEF vars
    <3>2. \A c \in Attempts : HoldsToken(worker[c].run)' <=> HoldsToken(worker[c].run)
      BY <3>1 DEF HoldsToken
    <3>3. \A c \in Attempts : HasRow(c)' <=> HasRow(c)
      BY <3>1 DEF HasRow
    <3>4. OwnersHaveRow'
      BY <3>1, <3>2, <3>3 DEF RowIsHeld, OwnersHaveRow
    <3>5. SuccessIsEarned'
      BY <3>1 DEF RowIsHeld, SuccessIsEarned
    <3>6. QED BY <3>4, <3>5 DEF RowIsHeld
  <2>3. QED BY <2>1, <2>2
<1>2. QED BY <1>1, InitHeld, TurnsAreKept, PTL DEF Spec

\* The leg a run waits for keeps the row while the run owns the execution.
THEOREM LegsKeepStage == Spec => []LegKeepsStage
<1>1. InTurn /\ RowIsHeld => LegKeepsStage
  BY DEF InTurn, LegsInTurn, Awaited, Deciding, RowIsHeld, OwnersHaveRow, HasRow,
         LegKeepsStage, OwnsRun
<1>2. QED BY <1>1, TurnsAreKept, RowIsAlwaysHeld, PTL

\* An execution reads SUCCEEDED only with the success of the attempt in its row.
THEOREM SuccessEarned == Spec => []SuccessIsEarned
<1>1. RowIsHeld => SuccessIsEarned
  BY DEF RowIsHeld
<1>2. QED BY <1>1, RowIsAlwaysHeld, PTL

==============================================================================
