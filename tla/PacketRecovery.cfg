SPECIFICATION RecoveryFairSpec
CONSTANTS
  MaxSeq = 3
  Segments <- SeqRange
  max_requests = 2
  wait_ms = 2
  max_count = 1
  ClockSize = 5
  MaxNow = 5
INVARIANTS AtMostMaxRequests PendingAreMissing NoGapForgotten
PROPERTIES WaitsFirst Settles
