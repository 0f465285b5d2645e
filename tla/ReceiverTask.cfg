SPECIFICATION FairSpec
CONSTANTS
  Size = 2
  MaxSeq = 2
  Segments <- SeqRange
  WaitLimit = 2
INVARIANTS NoRaceOnLines StopIsFinal
PROPERTIES StoreIsAtomic CallsReturn
CHECK_DEADLOCK FALSE
