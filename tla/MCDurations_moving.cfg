\* Three arrivals of two versions that come, finish and go between the lookups, and
\* files around the thresholds.
SPECIFICATION Spec
CONSTANTS
  a1 = a1
  a2 = a2
  a3 = a3
  Ids = {a1, a2, a3}
  Current = "1"
  Others = {"2"}
  PackLists <- NoneOrTwoPacks
  CurrFiles <- Currents
  BaseFiles <- Bases
  Ratio = 3
  Delta = 10
  Outcomes = {"Passed", "Skipped"}
  MaxTime = 2
  Faults = {"error", "denied", "removal"}
SYMMETRY Symmetry
INVARIANTS DurationInv BaselineIsLatest SameDeploymentOrLater TellsWhatItRead
PROPERTIES FlagsAreReal
