\* One run per cluster at a time, calls that fail or lose their answers.
SPECIFICATION Spec
CONSTANTS
  gcp = gcp
  az = az
  legacy = legacy
  g1 = g1
  g2 = g2
  m1 = m1
  m2 = m2
  m3 = m3
  h1 = h1
  h2 = h2
  Headline <- TwoHeadlines
  Pass = Pass
  Nothing = Nothing
  Clusters = {gcp, az, legacy}
  Legacy = legacy
  Runs = {g1, g2}
  ClusterOf <- OnePerCluster
  News = {m1, m2, m3}
  PageSize = 1
  MaxPages = 3
  MaxNumber = 5
  MaxStarts = 2
  People = {}
  Faults = {"error", "lost", "missing"}
INVARIANTS TypeOK IssueInv OneOpenIssue OutcomeIsTrue
PROPERTIES KeepsPromise
\* The runs use up their starts.
CHECK_DEADLOCK FALSE
