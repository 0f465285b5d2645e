SPECIFICATION FairSpec
CONSTANTS
  Size = 4
  MaxSeq = 9
  Segments <- SeqRange
INVARIANTS NothingInWindowLost
PROPERTIES GapIsJustified RefinesPlayout Drains
