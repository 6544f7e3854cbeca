CONSTANTS
  upper = upper
  lower = lower
  Docs = {upper, lower}
  Targets = {upper}
  Below <- Pair
  Edits = {e1}
  Deciders = {h1}
  Editors = {h2}
  MaxEvents = 3
  Off = Off
SPECIFICATION Spec
PROPERTY AnswersAreRefused
CHECK_DEADLOCK FALSE
