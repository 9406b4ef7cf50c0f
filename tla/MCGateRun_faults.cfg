\* One service, two arrivals, and everything that can go wrong around a run.
SPECIFICATION Spec
CONSTANTS
  a1 = a1
  a2 = a2
  p1 = p1
  Garbled = Garbled
  Documents <- BehindEnvironments
  Ids = {a1, a2}
  Packs = {}
  Outcomes = {"Passed", "Skipped", "Failed"}
  Options <- IssuesOn
  StickyBefore = {"none"}
  BlockedBefore <- NoneBlocked
  Faults = {"slow", "error", "denied", "setup", "removal", "kill"}
  Start = 2
  FastBudget = 2
  WaitBudget = 2
SYMMETRY Symmetry
INVARIANTS TypeOK GateInv GraceIsHonoured RunIsBounded RedIsEarned ExitSpeaksForAll SoleListIsGated
