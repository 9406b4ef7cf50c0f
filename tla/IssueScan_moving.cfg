\* Issues are opened and closed during the scan, the repository may be missing.
SPECIFICATION Spec
CONSTANTS
  PageSize = 2
  MaxPages = 2
  MaxNumber = 5
  Moves = {"open", "close"}
  Faults = {"error", "missing"}
INVARIANTS ScanInv NoMiss HitIsNewest
PROPERTIES GivesUpOnlyWhenFull
