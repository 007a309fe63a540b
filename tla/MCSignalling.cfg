SPECIFICATION FairSpec
CONSTANTS
  PageCandidates <- TwoOfPage
  ServerCandidates <- TwoOfServer
CHECK_DEADLOCK FALSE
INVARIANTS TypeOK ServerKeeps NeverTooEarly PageKeeps
PROPERTIES AcceptedGoesLive CloseEndsRow
