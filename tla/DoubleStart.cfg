CONSTANTS
  Runs = {r1, r2}
  Attempts = {c1, c2}
  Gates = {g1}
  Requests = {q1}
  Watchdogs = {}
  Ops <- StartOps
  None = None
SPECIFICATION Spec
INVARIANT OneRunLaunched
CHECK_DEADLOCK FALSE
