SPECIFICATION Spec
CONSTANTS
  Blocks <- BlockRange
  Size <- SizeOf
  max_frame_len = 4
  kMaxAssemblySize = 17
INVARIANTS StoredIsOriginal UninterruptedIsStored
PROPERTY NothingRejected
