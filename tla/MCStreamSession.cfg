SPECIFICATION FairSpec
CONSTANTS
  Sessions = {s1, s2}
  Nodes = {n1, n2}
  MaxStarts = 2
INVARIANTS TypeOK ListingExact
PROPERTY CloseReleases
