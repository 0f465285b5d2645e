SPECIFICATION ClockSpec
CONSTANTS
  Sinks <- Two
  MaxOffset = 200
  Offset <- Different
  Width = 12
  Mantissa = 10
  Epoch = 4040
  SenderPeriod = 4096
  SinkPeriod <- Periods
  Unit = 32
  MaxTime = 4
  MaxNet = 2
INVARIANTS RoundTripIsReal OffsetIsAccurate
