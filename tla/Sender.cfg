SPECIFICATION Spec
CONSTANTS
  p1 = p1
  p2 = p2
  none = none
  Sinks <- SinkIds
  Places <- AllPlaces
  NoPlace = none
  Default = p1
  Configured <- OneConfigured
  buffer_size = 2
  MaxBlocks = 4
INVARIANTS OneBlockPerNumber WindowCanBeResent TargetsAreInformed
PROPERTIES JoinedAreServed LeaversGetNothing
