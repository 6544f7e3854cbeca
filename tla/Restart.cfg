CONSTANTS
  Runs = {r1, r2}
  Attempts = {c1, c2}
  Gates = {g1}
  Requests = {q1}
  Watchdogs = {w1}
  Ops <- StartOps
  None = None
SPECIFICATION Spec
INVARIANT RestartRunsCleanly
CHECK_DEADLOCK FALSE
