SPECIFICATION Spec
CONSTANTS
  Formats <- OneFormat
  FixedSize <- NoneFixed
  Lengths <- OneLength
  MaxPending = 1
  IsDefault = FALSE
  MayLose = TRUE
  MayDuplicate = TRUE
PROPERTIES LateJoinerDecodes StoppedIsForgotten SteadyStreamKeepsAudio
