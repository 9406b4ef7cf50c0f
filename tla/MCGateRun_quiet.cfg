\* Two services, two arrivals, an API that answers at once and loses nothing.
SPECIFICATION Spec
CONSTANTS
  a1 = a1
  a2 = a2
  p1 = p1
  Garbled = Garbled
  Documents <- TwoVersions
  Ids = {a1, a2}
  Packs = {p1}
  Outcomes = {"Passed", "Skipped", "Failed"}
  Options <- IssuesOn
  StickyBefore = {"none"}
  BlockedBefore <- ApiBlocked
  Faults = {"removal"}
  Start = 2
  FastBudget = 2
  WaitBudget = 3
SYMMETRY Symmetry
INVARIANTS HistoryInv GraceIsUsed OutcomeIsPublished KnownFailureBlocks
