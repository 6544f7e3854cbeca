------------------------------ MODULE HumanGate ------------------------------
(***************************************************************************)
(* What the human gates of one execution promise, whatever processes carry *)
(* it out: a question is asked on behalf of the owner of the execution,    *)
(* answered only while that owner still holds it, and its answer enters    *)
(* one conversation, a leg of the run that asked. A question that is not   *)
(* answered may be superseded, and ownership may pass at any time.         *)
(***************************************************************************)

CONSTANTS Gates, Runs, Legs, None

VARIABLES
  owner,     \* the run that owns the execution, or None
  question,  \* of each gate, its status and the run that asked
  used       \* of each gate, the conversations its answer entered

vars == <<owner, question, used>>

Init ==
  /\ owner = None
  /\ question = [g \in Gates |-> [status |-> "none", run |-> None]]
  /\ used = [g \in Gates |-> {}]

TakeOver ==
  /\ owner' \in Runs \cup {None}
  /\ UNCHANGED <<question, used>>

Ask(g) ==
  /\ question[g].status = "none"
  /\ owner # None
  /\ question' = [question EXCEPT ![g] = [status |-> "pending", run |-> owner]]
  /\ UNCHANGED <<owner, used>>

Answer(g) ==
  /\ question[g] = [status |-> "pending", run |-> owner]
  /\ question' = [question EXCEPT ![g].status = "answered"]
  /\ UNCHANGED <<owner, used>>

Supersede(g) ==
  /\ question[g].status = "pending"
  /\ question' = [question EXCEPT ![g].status = "superseded"]
  /\ UNCHANGED <<owner, used>>

Use(g, l) ==
  /\ question[g].status = "answered"
  /\ used[g] = {}
  /\ used' = [used EXCEPT ![g] = {<<question[g].run, l>>}]
  /\ UNCHANGED <<owner, question>>

Next ==
  \/ TakeOver
  \/ \E g \in Gates : Ask(g) \/ Answer(g) \/ Supersede(g) \/ \E l \in Legs : Use(g, l)

Spec == Init /\ [][Next]_vars

=============================================================================
