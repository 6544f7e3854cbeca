CONSTANTS
  Runs = {r1, r2}
  Attempts = {c1, c2}
  Gates = {g1}
  Requests = {q1}
  Watchdogs = {}
  Ops <- RelaunchOps
  None = None
SPECIFICATION Spec
PROPERTY RetiredRunIsHarmless
CHECK_DEADLOCK FALSE
