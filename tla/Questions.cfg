CONSTANTS
  Runs = {r1}
  Attempts = {c1, c2, c3, c4}
  Gates = {g1, g2}
  Requests = {q1, q2}
  Watchdogs = {}
  Ops <- QuestionOps
  None = None
SPECIFICATION Spec
CONSTRAINT Bound
INVARIANTS TypeOK PendingQuestionAnswerable AnsweredWaitIsOwed AnswerUsedOnce
CHECK_DEADLOCK FALSE
