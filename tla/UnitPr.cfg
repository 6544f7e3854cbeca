CONSTANTS
  r1 = r1
  r2 = r2
  Repos = {r1, r2}
  Started <- SomeChanged
  Batches = {b1}
  MaxEvents = 1
  MaxRetries = 1
SPECIFICATION FairSpec
INVARIANTS TypeOK UnitDelivered DraftWhileWorking ParkedIsWakeable
PROPERTIES RetryKeepsOutcome NewsIsSeen
CHECK_DEADLOCK FALSE
