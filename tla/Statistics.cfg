SPECIFICATION StatsSpec
CONSTANTS
  Size = 2
  Segments <- Numbers
  quality_window_ = 3
  min_quality_window_ = 2
  MaxReceived = 6
INVARIANTS QualityIsAShare RecoversFromLoss
PROPERTIES GapsAreLosses
