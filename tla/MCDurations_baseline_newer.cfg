\* A version that is promoted while a newer one is already in staging.
SPECIFICATION Spec
CONSTANTS
  a1 = a1
  a2 = a2
  a3 = a3
  Ids = {a1, a2}
  Current = "1"
  Others = {"2"}
  PackLists <- NoneOrTwoPacks
  CurrFiles <- Currents
  BaseFiles <- Bases
  Ratio = 3
  Delta = 10
  Outcomes = {"Passed"}
  MaxTime = 2
  Faults = {}
INVARIANTS BaselineIsPrior
