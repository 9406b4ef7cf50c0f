\* Every combination of flags, slow and failing calls.
SPECIFICATION FairSpec
CONSTANTS
  a1 = a1
  a2 = a2
  p1 = p1
  Garbled = Garbled
  Documents <- BehindEnvironments
  Ids = {a1}
  Packs = {p1}
  Outcomes = {"Passed", "Failed", "Timeout"}
  Options <- AnyFlags
  StickyBefore = {"none"}
  BlockedBefore <- ApiBlocked
  Faults = {"slow", "error"}
  Start = 2
  FastBudget = 2
  WaitBudget = 2
PROPERTIES NoWordAfterDeadline RunEnds
