CONSTANTS
  Runs = {r1, r2}
  Attempts = {c1, c2}
  Gates = {g1}
  Requests = {q1}
  Watchdogs = {}
  Ops <- CancelOps
  None = None
SPECIFICATION Spec
PROPERTY CancelSticks
CHECK_DEADLOCK FALSE
