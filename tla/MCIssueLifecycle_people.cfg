\* One cluster among people who file issues, also under its title, close and edit them.
SPECIFICATION Spec
CONSTANTS
  gcp = gcp
  az = az
  legacy = legacy
  g1 = g1
  g2 = g2
  m1 = m1
  m2 = m2
  m3 = m3
  h1 = h1
  h2 = h2
  Headline <- TwoHeadlines
  Pass = Pass
  Nothing = Nothing
  Clusters = {gcp, legacy}
  Legacy = legacy
  Runs = {g1}
  ClusterOf <- OnlyGcp
  News = {m1}
  PageSize = 1
  MaxPages = 2
  MaxNumber = 3
  MaxStarts = 3
  People = {"file", "title", "close", "edit"}
  Faults = {"error", "lost", "missing"}
INVARIANTS CloseIsExplained OutcomeIsTrue
PROPERTIES OthersUntouched
\* The runs use up their starts.
CHECK_DEADLOCK FALSE
