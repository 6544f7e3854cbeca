----------------------------- MODULE MCExecution -----------------------------
(***************************************************************************)
(* Small instances of Execution: what people request in each of them.      *)
(***************************************************************************)
EXTENDS Execution, Naturals, FiniteSets

QuestionOps == {"start", "answer", "resume", "cancel"}
RewindOps   == {"start", "answer", "rewind"}
RecoveryOps == {"start", "answer", "resume"}
StartOps    == {"start"}
CancelOps   == {"start", "cancel"}
RelaunchOps == {"start", "cancel", "rewind"}

(* The bound of the run on questions: one request at a time over every     *)
(* question and attempt, or concurrent ones over one question.             *)
OneRequest  == Cardinality({q \in Requests : req[q] # IdleRequest}) <= 1
OneQuestion ==
  /\ Cardinality({g \in Gates : gate[g].status # "none"}) <= 1
  /\ Cardinality({c \in Attempts : worker[c].pc # "unused"}) <= 2
Bound == OneRequest \/ OneQuestion

=============================================================================
