CONSTANTS
  Runs = {r1, r2}
  Attempts = {c1, c2, c3}
  Gates = {g1}
  Requests = {q1}
  Watchdogs = {}
  Ops <- RewindOps
  None = None
SPECIFICATION Spec
PROPERTIES FencedForGood GateProtocol
INVARIANTS LegKeepsStage SuccessIsEarned
CHECK_DEADLOCK FALSE
