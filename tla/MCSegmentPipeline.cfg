SPECIFICATION PipelineFairSpec
CONSTANTS
  MaxSegments = 2
  ListSize = 1
  MaxTroubles = 1
INVARIANTS PipelineTypeOK UploadedIsStored
PROPERTIES SegmentsArrive PlaylistCatchesUp
