CONSTANTS
  a = a
  b = b
  c = c
  Units = {a, b, c}
  NameOrder <- Sorted
  NoChoice = "none"
  Slugs <- AllSlugs
  Lists <- SmallLists
  Repos = {r1, r2}
  Plans <- AllPlans
  Limit = 1
  ReaskLimit = 1
  MaxRuns <- RunsOfPlan
  MaxExtras <- ExtrasOfPlan
SPECIFICATION FairSpec
INVARIANTS TypeOK PlanIsPromoted DeliveredInOrder BuildsOnDependencies MergedMeansIntegrated ResolvedIsAccounted
PROPERTIES RetryKeepsIntegration RoundEnds DeliverySpec
CHECK_DEADLOCK FALSE
