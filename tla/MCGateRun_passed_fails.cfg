\* A passed release behind one in flight.
SPECIFICATION Spec
CONSTANTS
  a1 = a1
  a2 = a2
  p1 = p1
  Garbled = Garbled
  Documents <- TwoServices
  Ids = {a1, a2}
  Packs = {p1}
  Outcomes = {"Passed", "Skipped", "Failed"}
  Options <- PostDeployOnly
  StickyBefore = {"none"}
  BlockedBefore <- ApiBlocked
  Faults = {}
  Start = 2
  FastBudget = 2
  WaitBudget = 3
INVARIANTS PassedMeansPass
