CONSTANTS
  upper = upper
  lower = lower
  Docs = {upper, lower}
  Targets = {upper}
  Below <- Pair
  Edits = {e1, e2}
  Deciders = {h1, h2}
  Editors = {h1}
  MaxEvents = 4
  Off = Off
SPECIFICATION FairSpec
INVARIANTS TypeOK OnlyApprovedChanges ReportIsTrue DriftIsMarked
PROPERTIES VerdictStands EditEnds
CHECK_DEADLOCK FALSE
