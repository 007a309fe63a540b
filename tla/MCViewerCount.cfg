SPECIFICATION Spec
CONSTANTS
  v1 = v1
  v2 = v2
  Viewers <- TwoViewers
  Nodes <- TwoNodes
  NodeOf <- AllOnFirst
  Endings <- TwoEndings
  EndsAt <- EndsApart
  MaxVanish = 1
SYMMETRY ViewerSymmetry
INVARIANTS TypeOK DebtCovered LeftStaysOut CountMatchesRegistry EndClosesViewers
