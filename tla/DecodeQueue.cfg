SPECIFICATION QueueSpec
CONSTANTS
  Sizes <- AnySize
  Expected = 1
  MinQueue = 5
  Lengths <- Reads
PROPERTIES ReadGetsAudio OnlyBiggerIsCut AdaptsToSize
