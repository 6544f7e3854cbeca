------------------------------ MODULE Execution ------------------------------
(***************************************************************************)
(* One intent execution: the META row, the row of a once-per-workflow      *)
(* stage, its question gates, the durable orchestrator runs that walk it,  *)
(* the container workers that run attempts of the stage, and the intents   *)
(* API requests and watchdog sweeps that act on it concurrently.           *)
(*                                                                         *)
(* Every action is one atomic storage operation (a DynamoDB conditional    *)
(* write or transaction, or a consistent read) or one durable callback     *)
(* operation: the steps between two of them interleave freely.             *)
(***************************************************************************)

CONSTANTS
  Runs,      \* durable executions of the orchestrator, each named once
  Attempts,  \* stage callback ids: one per dispatch of the stage
  Gates,     \* human gate ids
  Requests,  \* API requests in flight at once
  Watchdogs, \* watchdog sweeps in flight at once
  Ops,       \* the kinds of request people make
  None

ASSUME NoneAssumption == None \notin Runs \cup Attempts \cup Gates
ASSUME SlotAssumption == Requests \cap Watchdogs = {}

VARIABLES
  meta,    \* the META row
  stage,   \* the STAGE# row
  gate,    \* the HUMAN# rows, with the state of the durable callback of each
  run,     \* the orchestrator runs
  worker,  \* the container's workers, with the verdict of their callbacks
  req      \* the API requests and watchdog sweeps

vars == <<meta, stage, gate, run, worker, req>>

Active   == {"RUNNING", "WAITING"}
Statuses == {"DRAFT", "CREATED", "SUCCEEDED", "FAILED", "CANCELLED"} \cup Active
Answered == "answered"
Settled  == {Answered, "superseded"}

LivePcs == {"queued", "claimed", "start", "marked", "turn", "grace", "inline",
            "exit", "park", "retire", "clear", "failpark", "fail", "finish",
            "conflict", "report"}
RunPcs  == {"unused", "named", "launched", "init", "mark", "dispatch", "await",
            "reconcile", "bind", "reread", "wait", "release", "parked", "after",
            "unpark", "finish", "failing", "done", "dead"}
ReqPcs  == {"idle", "answer", "send", "mark", "resend", "consume", "clear",
            "start", "invoke", "stamp", "rollback", "rewind", "records",
            "supersede", "reset", "relaunch", "cancel", "sweep"}
Verdicts == {"none", "open", "SUCCEEDED", "FAILED", "WAITING", "retired"}

IdleRequest == [op |-> "none", pc |-> "idle", status |-> "DRAFT",
                owner |-> None, retired |-> FALSE, gate |-> None, run |-> None,
                todo |-> {}, bound |-> {}]
UnusedWorker == [pc |-> "unused", run |-> None, from |-> None, gate |-> None,
                 got |-> {}, out |-> "none", verdict |-> "none"]

Live(c) == worker[c].pc \in LivePcs

\* The orchestrator steps that act on the gate the run last parked on.
Holding == {"bind", "reread", "wait", "release", "parked", "after", "unpark"}

MetaRows == [status : Statuses, owner : Runs \cup {None}, retired : BOOLEAN,
             gate : Gates \cup {None}, owed : Gates \cup {None},
             name : Runs \cup {None}]
StageRows == [state : {"PENDING", "RUNNING", "WAITING", "SUCCEEDED", "FAILED"},
              cb : Attempts \cup {None}, gate : Gates \cup {None}]
GateRows == [status : {"none", "pending"} \cup Settled, run : Runs \cup {None},
             cb : Attempts \cup {None}, bound : Runs \cup {None},
             woken : BOOLEAN, consumed : BOOLEAN]
RunStates == [pc : RunPcs, attempt : Attempts \cup {None}, from : Gates \cup {None}]
WorkerStates == [pc : LivePcs \cup {"unused", "gone"}, run : Runs \cup {None},
                 from : Gates \cup {None}, gate : Gates \cup {None},
                 got : SUBSET Gates, out : Verdicts, verdict : Verdicts]
RequestStates == [op : {"none", "answer", "resume", "start", "cancel", "rewind",
                        "watchdog"},
                  pc : ReqPcs, status : Statuses, owner : Runs \cup {None},
                  retired : BOOLEAN, gate : Gates \cup {None},
                  run : Runs \cup {None}, todo : SUBSET Gates,
                  bound : SUBSET Gates]

\* A process in the middle of an operation holds what the rest of it needs.
RunsOK ==
  /\ run \in [Runs -> RunStates]
  /\ \A r \in Runs :
       /\ run[r].pc \in {"await", "reconcile"} => run[r].attempt \in Attempts
       /\ run[r].pc \in Holding => run[r].from \in Gates

WorkersOK ==
  /\ worker \in [Attempts -> WorkerStates]
  /\ \A c \in Attempts :
       /\ Live(c) => worker[c].run \in Runs
       /\ worker[c].pc \in {"grace", "inline", "park", "retire", "clear"}
            \/ "WAITING" \in {worker[c].out, worker[c].verdict}
            => worker[c].gate \in Gates

RequestsOK ==
  /\ req \in [Requests \cup Watchdogs -> RequestStates]
  /\ \A q \in Requests \cup Watchdogs :
       /\ req[q].pc \in {"answer", "send", "mark"} => req[q].gate \in Gates
       /\ req[q].pc \in {"invoke", "stamp", "rollback", "records", "supersede",
                          "reset", "relaunch"} /\ req[q].op # "cancel"
            => req[q].run \in Runs
       /\ req[q].pc \in {"start", "invoke", "stamp", "reset", "relaunch"}
            => req[q].op # "cancel"

\* Every row and every process is in one of the states above: a run that acts on
\* a gate has one, a container that reports a park names the question.
TypeOK ==
  /\ meta \in MetaRows
  /\ stage \in StageRows
  /\ gate \in [Gates -> GateRows]
  /\ RunsOK /\ WorkersOK /\ RequestsOK

Init ==
  /\ meta = [status |-> "DRAFT", owner |-> None, retired |-> FALSE,
             gate |-> None, owed |-> None, name |-> None]
  /\ stage = [state |-> "PENDING", cb |-> None, gate |-> None]
  /\ gate = [g \in Gates |-> [status |-> "none", run |-> None, cb |-> None,
                              bound |-> None, woken |-> FALSE,
                              consumed |-> FALSE]]
  /\ run = [r \in Runs |-> [pc |-> "unused", attempt |-> None, from |-> None]]
  /\ worker = [c \in Attempts |-> UnusedWorker]
  /\ req = [q \in Requests \cup Watchdogs |-> IdleRequest]

-----------------------------------------------------------------------------
(* Ownership, the conditions the store puts on writes.                     *)

\* META still carries the token run r minted.
HoldsToken(r) == meta.owner = r /\ ~meta.retired

\* The ownsRun condition of worker writes and gate answers.
OwnsRun(r) == HoldsToken(r) /\ meta.status \in Active

\* Attempt c may write: its run owns META and the stage row carries its callback.
Owns(c) == OwnsRun(worker[c].run) /\ stage.cb = c

RunEnded(r) == run[r].pc \in {"done", "dead"}

\* Ids are minted fresh, so which unused one a step takes does not matter.
FreshRun(r) == run[r].pc = "unused" /\ r = CHOOSE x \in Runs : run[x].pc = "unused"
FreshAttempt(c) == worker[c].pc = "unused"
                   /\ c = CHOOSE x \in Attempts : worker[x].pc = "unused"
FreshGate(g) == gate[g].status = "none"
                /\ g = CHOOSE x \in Gates : gate[x].status = "none"

\* A worker process that is no more: only its verdict still matters.
Dead(w) == [w EXCEPT !.pc = "gone", !.out = "none", !.from = None]

\* StopRuntimeSession: best effort, ends every worker of the intent's session.
StopSession ==
  \/ UNCHANGED worker
  \/ worker' = [c \in Attempts |-> IF Live(c) THEN Dead(worker[c]) ELSE worker[c]]

\* Complete the durable callback of gate g as a side effect of writing its row.
Wake(g, status, wake) ==
  gate' = [gate EXCEPT ![g].status = status, ![g].woken = @ \/ wake]

-----------------------------------------------------------------------------
(* The container: run-stage and the agent's MCP bridge.                    *)

Goto(c, pc) == worker' = [worker EXCEPT ![c].pc = pc]
Return(c, out) == worker' = [worker EXCEPT ![c].pc = "report", ![c].out = out]

\* Mutant: the claim does not ask whether the run still owns the execution.
ClaimUnfenced(c) ==
  /\ worker[c].pc = "queued"
  /\ IF stage.state # "RUNNING" \/ stage.cb = c
     THEN stage' = [stage EXCEPT !.cb = c] /\ Goto(c, "claimed")
     ELSE Goto(c, "conflict") /\ UNCHANGED stage
  /\ UNCHANGED <<meta, gate, run, req>>

\* claimStageAttempt: the stage row takes this attempt's callback.
Claim(c) ==
  /\ worker[c].pc = "queued"
  /\ IF OwnsRun(worker[c].run) /\ (stage.state # "RUNNING" \/ stage.cb = c)
     THEN stage' = [stage EXCEPT !.cb = c] /\ Goto(c, "claimed")
     ELSE Goto(c, "conflict") /\ UNCHANGED stage
  /\ UNCHANGED <<meta, gate, run, req>>

\* A resume leg loads its gate; an answered one clears a marker left for it.
LoadGate(c) ==
  LET g == worker[c].from IN
  /\ worker[c].pc = "claimed"
  /\ \/ g = None /\ Goto(c, "start") /\ UNCHANGED meta
     \/ /\ g # None /\ gate[g].status = "superseded"
        /\ Return(c, "retired") /\ UNCHANGED meta
     \/ /\ g # None /\ gate[g].status = "pending"
        /\ Goto(c, "fail") /\ UNCHANGED meta
     \/ /\ g # None /\ gate[g].status = Answered
        /\ Goto(c, "start")
        /\ meta' = IF meta.owed = g /\ Owns(c) THEN [meta EXCEPT !.owed = None]
                                               ELSE meta
  /\ UNCHANGED <<stage, gate, run, req>>

\* resumeStageRow or putStage: from here the conversation holds the answer.
StartTurn(c) ==
  /\ worker[c].pc = "start"
  /\ IF Owns(c)
     THEN /\ stage' = [stage EXCEPT !.state = "RUNNING", !.gate = None]
          /\ worker' = [worker EXCEPT ![c].pc = "marked",
                          ![c].got = @ \cup ({worker[c].from} \ {None})]
     ELSE Goto(c, "conflict") /\ UNCHANGED stage
  /\ UNCHANGED <<meta, gate, run, req>>

MarkExecutionRunning(c) ==
  /\ worker[c].pc = "marked"
  /\ IF Owns(c)
     THEN meta' = [meta EXCEPT !.status = "RUNNING"] /\ Goto(c, "turn")
     ELSE Goto(c, "conflict") /\ UNCHANGED meta
  /\ UNCHANGED <<stage, gate, run, req>>

\* askQuestion: gate, stage and META park in one transaction. The tool fails, and
\* changes nothing, for an attempt that does not own them.
Ask(c, g) ==
  /\ worker[c].pc = "turn"
  /\ Owns(c)
  /\ FreshGate(g)
  /\ gate' = [gate EXCEPT ![g] = [@ EXCEPT !.status = "pending",
                                  !.run = worker[c].run, !.cb = c]]
  /\ stage' = [stage EXCEPT !.state = "WAITING", !.gate = g]
  /\ meta' = [meta EXCEPT !.status = "WAITING", !.gate = g]
  /\ worker' = [worker EXCEPT ![c].pc = "grace", ![c].gate = g]
  /\ UNCHANGED <<run, req>>

\* A poll of the grace window sees the answer and un-parks META, or the tool fails.
PollAnswered(c) ==
  /\ worker[c].pc = "grace"
  /\ gate[worker[c].gate].status = Answered
  /\ IF Owns(c) /\ meta.gate = worker[c].gate
     THEN meta' = [meta EXCEPT !.status = "RUNNING", !.gate = None] /\ Goto(c, "inline")
     ELSE Goto(c, "turn") /\ UNCHANGED meta
  /\ UNCHANGED <<stage, gate, run, req>>

\* The grace window closes, or a poll sees the gate superseded: the tool tells
\* the agent to stop, which it may do or not.
LeaveGrace(c) ==
  /\ worker[c].pc = "grace"
  /\ Goto(c, "turn")
  /\ UNCHANGED <<meta, stage, gate, run, req>>

\* Mutant: the inline resume leaves the row's pointer at the question.
InlineResumeKeepsPointer(c) ==
  /\ worker[c].pc = "inline"
  /\ \/ /\ Owns(c)
        /\ stage' = [stage EXCEPT !.state = "RUNNING"]
        /\ worker' = [worker EXCEPT ![c].pc = "turn", ![c].got = @ \cup {worker[c].gate}]
     \/ Goto(c, "turn") /\ UNCHANGED stage
  /\ UNCHANGED <<meta, gate, run, req>>

\* resumeStageRow after an inline answer; a failed write leaves the stage parked.
InlineResume(c) ==
  /\ worker[c].pc = "inline"
  /\ \/ /\ Owns(c)
        /\ stage' = [stage EXCEPT !.state = "RUNNING", !.gate = None]
        /\ worker' = [worker EXCEPT ![c].pc = "turn", ![c].got = @ \cup {worker[c].gate}]
     \/ Goto(c, "turn") /\ UNCHANGED stage
  /\ UNCHANGED <<meta, gate, run, req>>

\* The agent's process ends: its stage is done, or it was told to stop.
StopTurn(c) ==
  /\ worker[c].pc = "turn"
  /\ Goto(c, "exit")
  /\ UNCHANGED <<meta, stage, gate, run, req>>

\* ownedGateAtExit: the gate the stage row (else META) points at, unless superseded.
\* A read that fails counts as no gate. A parked conversation may be saved, be lost
\* (the question is retired), or have no session to resume (the stage just fails).
Exit(c) ==
  /\ worker[c].pc = "exit"
  /\ \E g \in {IF stage.gate # None THEN stage.gate ELSE meta.gate, meta.gate, None} :
       IF g # None /\ gate[g].status \in {"pending", Answered}
       THEN \E pc \in {"park", "retire", "fail"} :
              worker' = [worker EXCEPT ![c].pc = pc, ![c].gate = g]
       ELSE \E pc \in {"finish", "fail"} : Goto(c, pc)
  /\ UNCHANGED <<meta, stage, gate, run, req>>

\* The park is written, but a lost acknowledgement that a read cannot make good
\* fails the stage all the same.
Park(c) ==
  /\ worker[c].pc = "park"
  /\ IF Owns(c)
     THEN /\ stage' = [stage EXCEPT !.state = "WAITING", !.gate = worker[c].gate]
          /\ Return(c, "WAITING") \/ Goto(c, "fail")
     ELSE Goto(c, "conflict") /\ UNCHANGED stage
  /\ UNCHANGED <<meta, gate, run, req>>

\* failUnresumableGate: no conversation to resume, so retire the question,
\* clear META's pointer to it, then fail the row. The first two are best effort.
RetireQuestion(c) ==
  /\ worker[c].pc = "retire"
  /\ Goto(c, "clear")
  /\ \/ UNCHANGED gate
     \/ /\ Owns(c)
        /\ gate[worker[c].gate].status = "pending" /\ gate[worker[c].gate].cb = c
        /\ Wake(worker[c].gate, "superseded", FALSE)
  /\ UNCHANGED <<meta, stage, run, req>>

ClearPointer(c) ==
  /\ worker[c].pc = "clear"
  /\ Goto(c, "failpark")
  /\ \/ UNCHANGED meta
     \/ Owns(c) /\ meta.gate = worker[c].gate /\ meta' = [meta EXCEPT !.gate = None]
  /\ UNCHANGED <<stage, gate, run, req>>

FailStage(c) ==
  /\ worker[c].pc \in {"fail", "failpark"}
  /\ IF Owns(c)
     THEN stage' = [stage EXCEPT !.state = "FAILED",
                      !.gate = IF worker[c].pc = "failpark" THEN None ELSE @]
          /\ Return(c, "FAILED")
     ELSE Goto(c, "conflict") /\ UNCHANGED stage
  /\ UNCHANGED <<meta, gate, run, req>>

CompleteStage(c) ==
  /\ worker[c].pc = "finish"
  /\ IF Owns(c)
     THEN stage' = [stage EXCEPT !.state = "SUCCEEDED"] /\ Return(c, "SUCCEEDED")
     ELSE Goto(c, "conflict") /\ UNCHANGED stage
  /\ UNCHANGED <<meta, gate, run, req>>

\* ownershipConflict: retired only when META is seen to name another run or to be
\* settled; a failure the run can retry when the row is stale or cannot be read.
ClassifyConflict(c) ==
  /\ worker[c].pc = "conflict"
  /\ \/ ~OwnsRun(worker[c].run) /\ Return(c, "retired")
     \/ Return(c, "FAILED")
  /\ UNCHANGED <<meta, stage, gate, run, req>>

\* SendDurableExecutionCallbackSuccess: only an open callback takes the result.
Report(c) ==
  LET verdict == IF worker[c].verdict = "open" THEN worker[c].out ELSE worker[c].verdict IN
  /\ worker[c].pc = "report"
  /\ worker' = [worker EXCEPT ![c] = [Dead(@) EXCEPT !.verdict = verdict]]
  /\ UNCHANGED <<meta, stage, gate, run, req>>

\* The microVM dies under the worker. With Timeout this is also an attempt that
\* throws: no further write, and a failure for the run.
Crash(c) ==
  /\ Live(c)
  /\ worker' = [worker EXCEPT ![c] = Dead(@)]
  /\ UNCHANGED <<meta, stage, gate, run, req>>

Worker(c) ==
  \/ Claim(c) \/ LoadGate(c) \/ StartTurn(c) \/ MarkExecutionRunning(c)
  \/ (\E g \in Gates : Ask(c, g))
  \/ PollAnswered(c) \/ LeaveGrace(c) \/ InlineResume(c) \/ StopTurn(c) \/ Exit(c)
  \/ Park(c) \/ RetireQuestion(c) \/ ClearPointer(c) \/ FailStage(c) \/ CompleteStage(c)
  \/ ClassifyConflict(c) \/ Report(c)

-----------------------------------------------------------------------------
(* The orchestrator: one durable execution, its steps in program order.    *)

Step(r, pc) ==
  run' = [run EXCEPT ![r] = IF pc \in {"done", "dead"}
                            THEN [pc |-> pc, attempt |-> None, from |-> None]
                            ELSE [@ EXCEPT !.pc = pc]]

\* mint-run-id: stamp this run's ownership token, whatever META holds.
Mint(r) ==
  /\ run[r].pc = "launched"
  /\ Step(r, "init")
  /\ meta' = [meta EXCEPT !.owner = r, !.retired = FALSE]
  /\ UNCHANGED <<stage, gate, worker, req>>

\* init-ws: the checkout works or the run fails.
InitWorkspace(r) ==
  /\ run[r].pc = "init"
  /\ \E pc \in {"mark", "failing"} : Step(r, pc)
  /\ UNCHANGED <<meta, stage, gate, worker, req>>

\* mark-running: CAS on CREATED alone; a lost CAS throws into the outer catch.
MarkRunning(r) ==
  /\ run[r].pc = "mark"
  /\ IF meta.status = "CREATED"
     THEN meta' = [meta EXCEPT !.status = "RUNNING"] /\ Step(r, "dispatch")
     ELSE Step(r, "failing") /\ UNCHANGED meta
  /\ UNCHANGED <<stage, gate, worker, req>>

\* activeJobs: an attempt of this leg, of whichever run, is in flight there.
InFlight(from) == \E d \in Attempts : Live(d) /\ worker[d].from = from

\* runStage: create the stage callback and hand it to the container, which may
\* refuse it, and does while another attempt of the same leg is in flight.
Dispatch(r, c) ==
  /\ run[r].pc = "dispatch"
  /\ FreshAttempt(c)
  /\ LET leg == [UnusedWorker EXCEPT !.run = r, !.from = run[r].from]
     IN \/ /\ ~InFlight(run[r].from)
           /\ worker' = [worker EXCEPT ![c] = [leg EXCEPT !.pc = "queued", !.verdict = "open"]]
        \/ worker' = [worker EXCEPT ![c] = [leg EXCEPT !.pc = "gone", !.verdict = "FAILED"]]
  /\ run' = [run EXCEPT ![r].pc = "await", ![r].attempt = c]
  /\ UNCHANGED <<meta, stage, gate, req>>

\* The callback's timeout or its missed heartbeats complete it as a failure.
Timeout(c) ==
  /\ worker[c].verdict = "open"
  /\ worker' = [worker EXCEPT ![c].verdict = "FAILED"]
  /\ UNCHANGED <<meta, stage, gate, run, req>>

\* Mutant: the resume is keyed by the attempt instead of the gate it parked on.
AwaitKeepsAttempt(r) ==
  LET c == run[r].attempt IN
  /\ run[r].pc = "await"
  /\ worker[c].verdict # "open"
  /\ run' = [run EXCEPT ![r].pc = IF worker[c].verdict = "WAITING" THEN "bind" ELSE "failing",
                        ![r].from = IF worker[c].verdict = "WAITING" THEN c ELSE @]
  /\ UNCHANGED <<meta, stage, gate, worker, req>>

\* Mutant: a callback that failed or timed out counts as a finished stage.
AwaitIgnoresFailure(r) ==
  LET c == run[r].attempt IN
  /\ run[r].pc = "await"
  /\ worker[c].verdict # "open"
  /\ run' = [run EXCEPT ![r].pc = IF worker[c].verdict = "WAITING" THEN "bind" ELSE "finish",
                        ![r].from = IF worker[c].verdict = "WAITING" THEN worker[c].gate ELSE @]
  /\ UNCHANGED <<meta, stage, gate, worker, req>>

\* Mutant: a leg that failed is dispatched again, its question still open.
AwaitRetries(r) ==
  LET c == run[r].attempt IN
  /\ run[r].pc = "await"
  /\ worker[c].verdict # "open"
  /\ run' = [run EXCEPT ![r].pc = CASE worker[c].verdict = "SUCCEEDED" -> "finish"
                                    [] worker[c].verdict = "WAITING" -> "bind"
                                    [] OTHER -> "dispatch",
                        ![r].from = IF worker[c].verdict = "WAITING" THEN worker[c].gate ELSE @]
  /\ UNCHANGED <<meta, stage, gate, worker, req>>

\* The verdict the leg's callback was completed with decides what comes next.
Await(r) ==
  LET c == run[r].attempt IN
  /\ run[r].pc = "await"
  /\ worker[c].verdict # "open"
  /\ run' = [run EXCEPT ![r].pc = CASE worker[c].verdict = "SUCCEEDED" -> "finish"
                                    [] worker[c].verdict = "WAITING" -> "bind"
                                    [] OTHER -> "reconcile",
                        ![r].from = IF worker[c].verdict = "WAITING" THEN worker[c].gate ELSE @]
  /\ UNCHANGED <<meta, stage, gate, worker, req>>

\* reconcile-stage: fail the row if this attempt left it RUNNING.
Reconcile(r) ==
  LET c == run[r].attempt IN
  /\ run[r].pc = "reconcile"
  /\ stage' = IF stage.state = "RUNNING" /\ stage.cb = c
              THEN [stage EXCEPT !.state = "FAILED"] ELSE stage
  /\ Step(r, IF worker[c].verdict = "retired" THEN "done" ELSE "failing")
  /\ UNCHANGED <<meta, gate, worker, req>>

\* gate-deadline: too close to the durable deadline to wait on a person.
DeadlineTooClose(r) ==
  /\ run[r].pc = "bind"
  /\ IF gate[run[r].from].status = "pending"
     THEN Wake(run[r].from, "superseded", FALSE) ELSE UNCHANGED gate
  /\ Step(r, "failing")
  /\ UNCHANGED <<meta, stage, worker, req>>

\* bind-callback: pending and unbound (or this run's own); else an answered or
\* superseded gate nobody else bound is as good as bound.
BindCallback(r) ==
  LET g == run[r].from IN
  /\ run[r].pc = "bind"
  /\ \/ /\ gate[g].status = "pending" /\ gate[g].bound \in {None, r}
        /\ gate' = [gate EXCEPT ![g].bound = r]
        /\ Step(r, "reread")
     \/ /\ \/ gate[g].status = "superseded"
           \/ gate[g].status = Answered /\ gate[g].bound \in {None, r}
        /\ Step(r, "reread") /\ UNCHANGED gate
     \/ /\ gate[g].status # "superseded" /\ gate[g].bound \notin {None, r}
        /\ Step(r, "failing") /\ UNCHANGED gate
  /\ UNCHANGED <<meta, stage, worker, req>>

\* Mutant: the run waits on its callback without reading the gate again.
RereadSkipped(r) ==
  /\ run[r].pc = "reread"
  /\ Step(r, "wait")
  /\ UNCHANGED <<meta, stage, gate, worker, req>>

\* gate-answered-early: an answer that beat the bind woke nobody.
RereadGate(r) ==
  /\ run[r].pc = "reread"
  /\ Step(r, IF gate[run[r].from].status \in Settled THEN "after" ELSE "wait")
  /\ UNCHANGED <<meta, stage, gate, worker, req>>

\* Mutant: a run that has released its session no longer hears its callback.
WokenBeforeRelease(r) ==
  /\ run[r].pc = "wait"
  /\ gate[run[r].from].bound = r /\ gate[run[r].from].woken
  /\ Step(r, "after")
  /\ UNCHANGED <<meta, stage, gate, worker, req>>

\* The callback resolves, before or after the session was released.
Woken(r) ==
  /\ run[r].pc \in {"wait", "parked"}
  /\ gate[run[r].from].bound = r /\ gate[run[r].from].woken
  /\ Step(r, "after")
  /\ UNCHANGED <<meta, stage, gate, worker, req>>

\* The park-release timer fires: skip the wait if the gate settled meanwhile,
\* else stop the session and keep waiting.
ReleaseTimer(r) ==
  /\ run[r].pc = "wait"
  /\ Step(r, IF gate[run[r].from].status = "pending" THEN "release" ELSE "after")
  /\ UNCHANGED <<meta, stage, gate, worker, req>>

ReleaseSession(r) ==
  /\ run[r].pc = "release"
  /\ StopSession
  /\ Step(r, "parked")
  /\ UNCHANGED <<meta, stage, gate, req>>

\* gate-after and run-owner: a superseded gate or a lost token retires the run.
AfterGate(r) ==
  /\ run[r].pc = "after"
  /\ Step(r, IF gate[run[r].from].status = "superseded" \/ ~HoldsToken(r)
             THEN "done" ELSE "unpark")
  /\ UNCHANGED <<meta, stage, gate, worker, req>>

\* Mutant: the un-park stamps the run's token without the condition that it holds it.
UnparkUnfenced(r) ==
  /\ run[r].pc = "unpark"
  /\ meta' = [meta EXCEPT !.status = "RUNNING", !.gate = None, !.owed = None,
                          !.owner = r, !.retired = FALSE]
  /\ Step(r, "dispatch")
  /\ UNCHANGED <<stage, gate, worker, req>>

\* unparkGate: the CAS, or the state a committed CAS would have left.
Unpark(r) ==
  /\ run[r].pc = "unpark"
  /\ \/ /\ HoldsToken(r) /\ meta.status = "WAITING" /\ meta.gate = run[r].from
        /\ meta' = [meta EXCEPT !.status = "RUNNING", !.gate = None, !.owed = None]
        /\ Step(r, "dispatch")
     \/ /\ HoldsToken(r) /\ meta.status = "RUNNING" /\ meta.gate = None
        /\ Step(r, "dispatch") /\ UNCHANGED meta
     \/ /\ ~(HoldsToken(r) /\ \/ meta.status = "WAITING" /\ meta.gate = run[r].from
                              \/ meta.status = "RUNNING" /\ meta.gate = None)
        /\ Step(r, "done") /\ UNCHANGED meta
  /\ UNCHANGED <<stage, gate, worker, req>>

\* finish-completion: CAS on the token, RUNNING and the META revision it read.
\* A lost CAS (another META write came between) ends the run without a write; an
\* unreadable state fails the run.
FinishSucceeded(r) ==
  /\ run[r].pc = "finish"
  /\ \/ /\ HoldsToken(r) /\ meta.status = "RUNNING"
        /\ meta' = [meta EXCEPT !.status = "SUCCEEDED", !.gate = None]
        /\ Step(r, "done")
     \/ /\ \E pc \in {"done", "failing"} : Step(r, pc)
        /\ UNCHANGED meta
  /\ UNCHANGED <<stage, gate, worker, req>>

\* fail: fenced by the token alone.
Fail(r) ==
  /\ run[r].pc = "failing"
  /\ meta' = IF HoldsToken(r) THEN [meta EXCEPT !.status = "FAILED", !.gate = None] ELSE meta
  /\ Step(r, "done")
  /\ UNCHANGED <<stage, gate, worker, req>>

\* The durable execution itself times out, fails or is stopped.
DurableEnds(r) ==
  /\ run[r].pc \notin {"unused", "named", "done", "dead"}
  /\ Step(r, "dead")
  /\ UNCHANGED <<meta, stage, gate, worker, req>>

Orchestrator(r) ==
  \/ Mint(r) \/ InitWorkspace(r) \/ MarkRunning(r)
  \/ (\E c \in Attempts : Dispatch(r, c))
  \/ Await(r) \/ Reconcile(r) \/ DeadlineTooClose(r) \/ BindCallback(r)
  \/ RereadGate(r) \/ Woken(r) \/ ReleaseSession(r)
  \/ AfterGate(r) \/ Unpark(r) \/ FinishSucceeded(r) \/ Fail(r)

-----------------------------------------------------------------------------
(* The intents API: each request reads, then acts on what it read.         *)

CanBegin(q, op) == req[q].pc = "idle" /\ op \in Ops
Finish(q) == req' = [req EXCEPT ![q] = IdleRequest]
GotoReq(q, pc) == req' = [req EXCEPT ![q].pc = pc]

\* A request that has read META: what its later CAS conditions compare with.
SeenStatus(op, pc) == [IdleRequest EXCEPT !.op = op, !.pc = pc, !.status = meta.status]
Seen(op, pc) == [SeenStatus(op, pc) EXCEPT !.owner = meta.owner, !.retired = meta.retired]
SameStatus(q) == meta.status = req[q].status
SameToken(q) == req[q].owner # None =>
                  meta.owner = req[q].owner /\ meta.retired = req[q].retired

\* repairExpiredDurableExecution: fail the execution if it is still the one seen.
Repaired(q) == IF SameStatus(q) /\ SameToken(q)
               THEN [meta EXCEPT !.status = "FAILED", !.gate = None, !.owed = None]
               ELSE meta

\* A callback takes one completion, while its durable execution lives.
CanWake(g) == ~gate[g].woken /\ ~RunEnded(gate[g].bound)
Deliver(g) == gate' = [gate EXCEPT ![g].woken = TRUE]

ReadForAnswer(q, g) ==
  /\ CanBegin(q, "answer")
  /\ gate[g].status # "none"
  /\ req' = [req EXCEPT ![q] = [Seen("answer", "answer") EXCEPT !.gate = g]]
  /\ UNCHANGED <<meta, stage, gate, run, worker>>

\* Mutant: the answer is conditional on the gate alone, not on its owner.
AnswerUnfenced(q) ==
  LET g == req[q].gate IN
  /\ req[q].pc = "answer"
  /\ IF gate[g].status = "pending"
     THEN /\ Wake(g, Answered, FALSE)
          /\ IF gate[g].bound = None THEN Finish(q) ELSE GotoReq(q, "send")
     ELSE Finish(q) /\ UNCHANGED gate
  /\ UNCHANGED <<meta, stage, run, worker>>

\* answerHumanTask: the answer commits only for the owner that asked.
Answer(q) ==
  LET g == req[q].gate IN
  /\ req[q].pc = "answer"
  /\ IF /\ gate[g].status = "pending"
        /\ OwnsRun(gate[g].run) /\ stage.cb = gate[g].cb
     THEN /\ Wake(g, Answered, FALSE)
          /\ IF gate[g].bound = None THEN Finish(q) ELSE GotoReq(q, "send")
     ELSE Finish(q) /\ UNCHANGED gate
  /\ UNCHANGED <<meta, stage, run, worker>>

\* An error other than expiry leaves the need to resume on META, whatever META
\* holds by now; the callback may have been completed all the same.
SendAnswer(q) ==
  LET g == req[q].gate IN
  /\ req[q].pc = "send"
  /\ \/ CanWake(g) /\ Deliver(g) /\ GotoReq(q, "mark") /\ UNCHANGED meta
     \/ /\ RunEnded(gate[g].bound)
        /\ meta' = Repaired(q) /\ Finish(q) /\ UNCHANGED gate
     \/ /\ meta' = [meta EXCEPT !.owed = g]
        /\ Finish(q)
        /\ UNCHANGED gate \/ (CanWake(g) /\ Deliver(g))
  /\ UNCHANGED <<stage, run, worker>>

MarkConsumed(q) ==
  /\ req[q].pc = "mark"
  /\ gate' = [gate EXCEPT ![req[q].gate].consumed = TRUE]
  /\ Finish(q)
  /\ UNCHANGED <<meta, stage, run, worker>>

\* resumeOwed: an answer whose callback nobody is known to have completed.
ResumeOwed(g) ==
  /\ gate[g].status = Answered /\ gate[g].bound # None /\ ~gate[g].consumed
  /\ meta.status \in Active
  /\ meta.gate = g \/ (stage.state = "WAITING" /\ stage.gate = g)

ReadForResume(q) ==
  /\ CanBegin(q, "resume")
  /\ req' = [req EXCEPT ![q] = [Seen("resume", "resend") EXCEPT
                !.gate = meta.owed, !.todo = {g \in Gates : ResumeOwed(g)}]]
  /\ UNCHANGED <<meta, stage, gate, run, worker>>

\* Resend each owed answer. A completed callback is as good as a delivery; an
\* expired one ends the request; any other error keeps the marker for a retry.
Resend(q, g) ==
  LET next(pc) == [req[q] EXCEPT !.pc = pc, !.bound = {g}, !.todo = @ \ {g}] IN
  /\ req[q].pc = "resend"
  /\ g \in req[q].todo
  /\ \/ /\ CanWake(g) /\ Deliver(g)
        /\ req' = [req EXCEPT ![q] = next("consume")] /\ UNCHANGED meta
     \/ /\ gate[g].woken
        /\ req' = [req EXCEPT ![q] = next("consume")] /\ UNCHANGED <<gate, meta>>
     \/ /\ RunEnded(gate[g].bound)
        /\ meta' = Repaired(q) /\ GotoReq(q, "clear") /\ UNCHANGED gate
     \/ /\ req' = [req EXCEPT ![q] = [next("resend") EXCEPT !.gate = None]]
        /\ UNCHANGED meta
        /\ UNCHANGED gate \/ (CanWake(g) /\ Deliver(g))
  /\ UNCHANGED <<stage, run, worker>>

Consume(q) ==
  /\ req[q].pc = "consume"
  /\ gate' = [g \in Gates |-> [gate[g] EXCEPT !.consumed = @ \/ g \in req[q].bound]]
  /\ GotoReq(q, "resend")
  /\ UNCHANGED <<meta, stage, run, worker>>

\* Clear the marker: the one read, or after an expiry whichever is there.
ClearMarker(q) ==
  /\ \/ req[q].pc = "clear"
     \/ req[q].pc = "resend" /\ req[q].todo = {}
  /\ meta' = IF req[q].pc = "clear" \/ (req[q].gate # None /\ meta.owed = req[q].gate)
             THEN [meta EXCEPT !.owed = None] ELSE meta
  /\ Finish(q)
  /\ UNCHANGED <<stage, gate, run, worker>>

ReadForStart(q) ==
  /\ CanBegin(q, "start")
  /\ meta.status \in {"DRAFT", "FAILED", "CREATED"}
  /\ req' = [req EXCEPT ![q] = SeenStatus("start", "start")]
  /\ UNCHANGED <<meta, stage, gate, run, worker>>

Start(q, r) ==
  /\ req[q].pc = "start"
  /\ IF SameStatus(q)
     THEN /\ FreshRun(r)
          /\ meta' = [meta EXCEPT !.status = "CREATED", !.name = r]
          /\ run' = [run EXCEPT ![r].pc = "named"]
          /\ req' = [req EXCEPT ![q].pc = "invoke", ![q].run = r]
     ELSE Finish(q) /\ UNCHANGED <<meta, run>>
  /\ UNCHANGED <<stage, gate, worker>>

\* invokeOrchestrator: an asynchronous invoke; its error may hide a launch.
Invoke(q) ==
  LET r == req[q].run IN
  /\ req[q].pc = "invoke"
  /\ \/ run' = [run EXCEPT ![r].pc = "launched"] /\ GotoReq(q, "stamp")
     \/ GotoReq(q, "rollback") /\ (UNCHANGED run \/ run' = [run EXCEPT ![r].pc = "launched"])
  /\ UNCHANGED <<meta, stage, gate, worker>>

\* The ARN the watchdog prefers to the name, stamped whatever META holds by now.
StampArn(q) ==
  /\ req[q].pc = "stamp"
  /\ meta' = [meta EXCEPT !.name = req[q].run]
  /\ Finish(q)
  /\ UNCHANGED <<stage, gate, run, worker>>

Rollback(q) ==
  /\ req[q].pc = "rollback"
  /\ meta' = IF meta.status # "CREATED" THEN meta
             ELSE IF req[q].op = "start" THEN [meta EXCEPT !.status = req[q].status]
             ELSE [meta EXCEPT !.status = "FAILED", !.gate = None]
  /\ Finish(q)
  /\ UNCHANGED <<stage, gate, run, worker>>

ReadForCancel(q) ==
  /\ CanBegin(q, "cancel")
  /\ meta.status \in {"WAITING", "CREATED", "FAILED"}
  /\ req' = [req EXCEPT ![q] = SeenStatus("cancel", "records")]
  /\ UNCHANGED <<meta, stage, gate, run, worker>>

ReadForRewind(q) ==
  /\ CanBegin(q, "rewind")
  /\ meta.status \in {"SUCCEEDED", "FAILED", "WAITING", "CANCELLED"}
  /\ req' = [req EXCEPT ![q] = Seen("rewind", "rewind")]
  /\ UNCHANGED <<meta, stage, gate, run, worker>>

\* The rewind retires the run's token before it touches anything else.
RetireRun(q, r) ==
  /\ req[q].pc = "rewind"
  /\ IF SameStatus(q) /\ SameToken(q)
     THEN /\ FreshRun(r)
          /\ meta' = [meta EXCEPT !.status = "FAILED", !.gate = None, !.owed = None,
                                  !.owner = r, !.retired = TRUE]
          /\ run' = [run EXCEPT ![r].pc = "named"]
          /\ req' = [req EXCEPT ![q] = [IdleRequest EXCEPT !.op = "rewind",
                                          !.pc = "records", !.run = r]]
     ELSE Finish(q) /\ UNCHANGED <<meta, run>>
  /\ UNCHANGED <<stage, gate, worker>>

\* retireParkedRun: the pending gates and the callbacks the snapshot shows.
ReadRecords(q) ==
  LET pending == {g \in Gates : gate[g].status = "pending"} IN
  /\ req[q].pc = "records"
  /\ req' = [req EXCEPT ![q].pc = "supersede", ![q].todo = pending,
                        ![q].bound = {g \in pending : gate[g].bound # None}]
  /\ UNCHANGED <<meta, stage, gate, run, worker>>

\* Supersede one gate and wake its callback; both are best effort.
Supersede(q, g) ==
  /\ req[q].pc = "supersede"
  /\ g \in req[q].todo
  /\ req' = [req EXCEPT ![q].todo = @ \ {g}]
  /\ \/ UNCHANGED gate
     \/ /\ gate[g].status = "pending"
        /\ \E wake \in BOOLEAN : /\ wake => g \in req[q].bound
                                /\ Wake(g, "superseded", wake)
  /\ UNCHANGED <<meta, stage, run, worker>>

StopSessions(q) ==
  /\ req[q].pc = "supersede" /\ req[q].todo = {}
  /\ StopSession
  /\ GotoReq(q, IF req[q].op = "cancel" THEN "cancel" ELSE "reset")
  /\ UNCHANGED <<meta, stage, gate, run>>

Cancel(q) ==
  /\ req[q].pc = "cancel"
  /\ meta' = IF SameStatus(q)
             THEN [meta EXCEPT !.status = "CANCELLED", !.gate = None, !.owed = None]
             ELSE meta
  /\ Finish(q)
  /\ UNCHANGED <<stage, gate, run, worker>>

ResetStage(q) ==
  /\ req[q].pc = "reset"
  /\ stage' = [stage EXCEPT !.state = "PENDING", !.gate = None]
  /\ GotoReq(q, "relaunch")
  /\ UNCHANGED <<meta, gate, run, worker>>

Relaunch(q) ==
  /\ req[q].pc = "relaunch"
  /\ IF meta.status = "FAILED"
     THEN /\ meta' = [meta EXCEPT !.status = "CREATED", !.name = req[q].run,
                                  !.gate = None, !.owed = None]
          /\ GotoReq(q, "invoke")
     ELSE Finish(q) /\ UNCHANGED meta
  /\ UNCHANGED <<stage, gate, run, worker>>

\* The Lambda serving the request times out or throws.
RequestDies(q) ==
  /\ req[q].pc # "idle"
  /\ Finish(q)
  /\ UNCHANGED <<meta, stage, gate, run, worker>>

Begin(q) ==
  \/ (\E g \in Gates : ReadForAnswer(q, g))
  \/ ReadForResume(q) \/ ReadForStart(q) \/ ReadForCancel(q) \/ ReadForRewind(q)

Handle(q) ==
  \/ Answer(q) \/ SendAnswer(q) \/ MarkConsumed(q)
  \/ (\E g \in Gates : Resend(q, g)) \/ Consume(q) \/ ClearMarker(q)
  \/ (\E r \in Runs : Start(q, r)) \/ Invoke(q) \/ StampArn(q) \/ Rollback(q)
  \/ (\E r \in Runs : RetireRun(q, r))
  \/ ReadRecords(q) \/ (\E g \in Gates : Supersede(q, g)) \/ StopSessions(q)
  \/ Cancel(q) \/ ResetStage(q) \/ Relaunch(q)

-----------------------------------------------------------------------------
(* The watchdog: fail an active execution whose durable run has ended.     *)

Swept == {"CREATED"} \cup Active

\* Mutant: parked executions are not listed as active.
ListUnparked(w) ==
  /\ req[w].pc = "idle"
  /\ meta.status \in Swept \ {"WAITING"}
  /\ req' = [req EXCEPT ![w] = [Seen("watchdog", "sweep") EXCEPT !.run = meta.name]]
  /\ UNCHANGED <<meta, stage, gate, run, worker>>

\* listActiveExecutions: the sparse index of CREATED, RUNNING and WAITING rows.
ListActive(w) ==
  /\ req[w].pc = "idle"
  /\ meta.status \in Swept
  /\ req' = [req EXCEPT ![w] = [Seen("watchdog", "sweep") EXCEPT !.run = meta.name]]
  /\ UNCHANGED <<meta, stage, gate, run, worker>>

\* A run that will not act again: it has ended, or whoever was to launch it died.
Gone(r) == RunEnded(r) \/ (run[r].pc = "named" /\ \A q \in Requests : req[q].run # r)

\* The lookup and the repair. A run nobody launched has no durable execution to
\* look up: its repair waits for the deadline, which no launch outlasts.
Sweep(w) ==
  /\ req[w].pc = "sweep"
  /\ meta' = IF Gone(req[w].run) THEN Repaired(w) ELSE meta
  /\ Finish(w)
  /\ UNCHANGED <<stage, gate, run, worker>>

Watchdog(w) == ListActive(w) \/ Sweep(w)

-----------------------------------------------------------------------------
Next ==
  \/ \E c \in Attempts : Worker(c) \/ Timeout(c) \/ Crash(c)
  \/ \E r \in Runs : Orchestrator(r) \/ ReleaseTimer(r) \/ DurableEnds(r)
  \/ \E q \in Requests : Begin(q) \/ Handle(q) \/ RequestDies(q)
  \/ \E w \in Watchdogs : Watchdog(w)

Spec == Init /\ [][Next]_vars

\* The durable runtime keeps replaying a run, an open callback times out or is
\* completed, a Lambda finishes or dies, and the watchdog is scheduled. Nobody
\* promises that a person answers, that the agent's turn ends well, or that an
\* intent has a park-release timer (parkReleaseSeconds may be null).
Fairness ==
  /\ \A r \in Runs : WF_vars(Orchestrator(r))
  /\ \A c \in Attempts : WF_vars(Timeout(c))
  /\ \A q \in Requests : WF_vars(Handle(q) \/ RequestDies(q))
  /\ \A w \in Watchdogs : WF_vars(Watchdog(w))

FairSpec == Spec /\ Fairness

-----------------------------------------------------------------------------
(* Safety.                                                                 *)

Parked == {"wait", "release", "parked"}
Legs == {"claimed", "start", "marked", "turn", "grace", "inline", "exit", "park",
         "retire", "clear", "failpark", "fail", "finish"}

\* While META reads WAITING, the run that owns it and waits on an answered question
\* has been woken, or the intent detail offers to resume it (resumeOwed): no
\* interleaving of answer, bind, re-read and a failed callback leaves it waiting
\* unseen. (META can read RUNNING over a parked run, after a rewind and a double start
\* at once; there nothing shows the question.)
AnsweredWaitIsOwed ==
  \A r \in Runs :
    LET g == run[r].from IN
    (/\ run[r].pc \in Parked /\ HoldsToken(r) /\ meta.status = "WAITING"
     /\ gate[g].status = Answered)
    => gate[g].woken \/ ResumeOwed(g)

\* While META shows a pending question of the run that owns it, the answer it
\* invites will commit, because the attempt that asked still has the stage row, and
\* no leg is at work on the stage meanwhile. (A double start can take META from the
\* run: see OneRunLaunched.)
PendingQuestionAnswerable ==
  (/\ meta.status = "WAITING" /\ meta.gate # None
   /\ gate[meta.gate].status = "pending" /\ HoldsToken(gate[meta.gate].run))
  => stage.cb = gate[meta.gate].cb /\ stage.state # "RUNNING"

\* The leg a run is waiting for keeps the stage row while that run owns the
\* execution: no late attempt of an earlier leg or run takes the row from it.
LegKeepsStage ==
  \A r \in Runs :
    LET c == run[r].attempt IN
    (run[r].pc = "await" /\ OwnsRun(r) /\ worker[c].verdict = "open"
     /\ worker[c].pc \in Legs)
    => stage.cb = c

\* An answer enters one conversation at most, and only once it has been given:
\* the inline poll, the early re-read, the callback and a resend never apply it
\* twice.
AnswerUsedOnce ==
  \A g \in Gates :
    LET users == {c \in Attempts : g \in worker[c].got} IN
    /\ \A c, d \in users : c = d
    /\ users # {} => gate[g].status = Answered

\* An execution reads SUCCEEDED only when the attempt that has its stage row
\* reported success: no failure, no retired run and no late attempt finishes it,
\* and none takes the row afterwards. (The row's own state may be reset under it,
\* by a rewind that a start has overtaken.)
SuccessIsEarned ==
  meta.status = "SUCCEEDED" =>
    \E c \in Attempts : stage.cb = c /\ worker[c].verdict = "SUCCEEDED"

\* A run that lost the ownership token never holds it again, so every write the
\* token fences stays refused for good.
FencedForGood ==
  [][\A r \in Runs :
       (run[r].pc \notin {"unused", "named", "launched"} /\ ~HoldsToken(r))
       => ~HoldsToken(r)']_vars

\* The gates keep what HumanGate promises: only the owner that asked is answered,
\* and an answer enters one conversation, a leg of the run that asked.
Gate == INSTANCE HumanGate WITH
  Legs <- Attempts,
  owner <- IF meta.retired THEN None ELSE meta.owner,
  question <- [g \in Gates |-> [status |-> gate[g].status, run |-> gate[g].run]],
  used <- [g \in Gates |->
            {<<worker[c].run, c>> : c \in {d \in Attempts : g \in worker[d].got}}]

GateProtocol == Gate!Spec

-----------------------------------------------------------------------------
(* Liveness.                                                               *)

\* An execution that reads active while its latest durable run has ended, or was
\* never launched, is relaunched or repaired: the watchdog leaves none behind.
DeadRunIsRepaired ==
  \A r \in Runs :
    (meta.status \in Swept /\ meta.name = r /\ Gone(r))
    ~> (meta.status \notin Swept \/ meta.name # r)

\* A question whose callback has been completed does not keep META waiting.
WokenWaitEnds ==
  \A g \in Gates :
    (meta.status = "WAITING" /\ meta.gate = g /\ gate[g].woken)
    ~> ~(meta.status = "WAITING" /\ meta.gate = g)

\* An answer that beats the bind of the run's callback, and so wakes nobody, does
\* not keep META waiting either.
EarlyAnswerResumes ==
  \A g \in Gates :
    (/\ meta.status = "WAITING" /\ meta.gate = g
     /\ gate[g].status = Answered /\ gate[g].bound = None)
    ~> ~(meta.status = "WAITING" /\ meta.gate = g)

-----------------------------------------------------------------------------
(* What comments of the source say, and the code does not keep.            *)

\* A cancelled execution reads CANCELLED until a rewind relaunches it: the run
\* the cancel interrupts "exits without touching META" (handleCancelIntent).
CancelSticks ==
  [][meta.status = "CANCELLED" /\ meta'.status # "CANCELLED" => meta'.retired]_vars

\* "a run retired by a cancel/rewind relaunch can never clobber the new run's
\* state": once a rewind has taken the token, a run that held it before leaves
\* META's status alone.
RetiredRunIsHarmless ==
  [][\A r \in Runs :
       (/\ meta.retired /\ run'[r] # run[r]
        /\ run[r].pc \notin {"unused", "named", "launched"})
       => meta'.status = meta.status]_vars

\* "a double-start can't launch two runs": of two runs no rewind separates, one
\* has ended.
OneRunLaunched ==
  \A r, s \in Runs :
    run[r].pc \in {"launched", "init", "mark"} /\ run[s].pc \in {"launched", "init", "mark"}
    => r = s

\* "a restart re-runs cleanly": a run that owns the execution is not refused its
\* stage when no other attempt is alive.
RestartRunsCleanly ==
  \A c \in Attempts :
    (worker[c].pc = "conflict" /\ OwnsRun(worker[c].run) /\ worker[c].verdict = "open"
     /\ \A d \in Attempts : Live(d) => d = c)
    => stage.cb = c

=============================================================================
