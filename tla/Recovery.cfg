CONSTANTS
  Runs = {r1}
  Attempts = {c1, c2}
  Gates = {g1}
  Requests = {q1}
  Watchdogs = {w1}
  Ops <- RecoveryOps
  None = None
SPECIFICATION FairSpec
PROPERTIES DeadRunIsRepaired WokenWaitEnds EarlyAnswerResumes
CHECK_DEADLOCK FALSE
