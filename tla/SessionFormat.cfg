SPECIFICATION Spec
CONSTANTS
  Formats <- TwoFormats
  FixedSize <- Opus
  Lengths <- OneLength
  MaxPending = 1
  IsDefault = TRUE
  MayLose = TRUE
  MayDuplicate = FALSE
PROPERTIES LateJoinerGetsFormat
