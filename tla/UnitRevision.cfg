CONSTANTS
  r1 = r1
  r2 = r2
  Repos = {r1, r2}
  Started <- SomeChanged
  Batches = {b1}
  MaxEvents = 0
  MaxRetries = 0
SPECIFICATION Spec
INVARIANT WorkIsDelivered
CHECK_DEADLOCK FALSE
