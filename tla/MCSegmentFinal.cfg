SPECIFICATION PipelineSpec
CONSTANTS
  MaxSegments = 2
  ListSize = 1
  MaxTroubles = 0
INVARIANT FinalPassComplete
