SPECIFICATION Spec
CONSTANTS
  Values <- Numbers
  Garbled = garbled
  Failed = failed
  Messages <- AllMessages
  Addresses = {"x", "y"}
  OwnId = 0
  Codecs = {1}
  AOO_VERSION <- Version
  Now = 17
INVARIANTS OneIdentity UnderstoodAsSent SizesAgree
PROPERTIES RequestsReachSource
