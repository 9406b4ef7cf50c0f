\* Two runs of one cluster.
SPECIFICATION Spec
CONSTANTS
  gcp = gcp
  az = az
  legacy = legacy
  g1 = g1
  g2 = g2
  m1 = m1
  m2 = m2
  m3 = m3
  h1 = h1
  h2 = h2
  Headline <- TwoHeadlines
  Pass = Pass
  Nothing = Nothing
  Clusters = {gcp, az, legacy}
  Legacy = legacy
  Runs = {g1, g2}
  ClusterOf <- BothOnGcp
  News = {m1, m3}
  PageSize = 100
  MaxPages = 10
  MaxNumber = 3
  MaxStarts = 1
  People = {}
  Faults = {}
INVARIANTS OneIssuePerCluster
\* The runs use up their starts.
CHECK_DEADLOCK FALSE
