SPECIFICATION FairSpec
CONSTANTS
  s1 = s1
  s2 = s2
  Streams <- TwoStreams
  Formats <- TwoFormats
  Timeout = 2
  Interval = 2
INVARIANTS MixerHasOnlyLines
PROPERTIES PrimedAreMixed KeepsAsking SilentIsRemoved
