\* Two clusters, people who comment and delete, and calls that fail, lose their
\* answers or cannot be read.
SPECIFICATION Spec
CONSTANTS
  gcp = gcp
  az = az
  g1 = g1
  g2 = g2
  Person = Person
  Runs = {g1, g2}
  ClusterOf <- OnePerCluster
  PageSize = 2
  MaxNumber = 4
  MaxStarts = 2
  People = {"comment", "delete"}
  Faults = {"error", "lost", "garbled"}
INVARIANTS TypeOK StickyInv OneStickyInView PostedIsShown
PROPERTIES CommentsApart
\* The runs use up their starts.
CHECK_DEADLOCK FALSE
