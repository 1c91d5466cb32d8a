SPECIFICATION InputsSpec
CONSTANTS
  None = None
  Missing = Missing
  Bad = Bad
  Numbers = {0, 1, 2}
  Units <- SomeUnits
  Params <- SomeParams
  Defaults <- SomeDefaults
  Calls <- SomeCalls
  Structures <- SomeStructures
  Redactions <- SomeRedactions
  Histories <- SomeHistories
  Embeddings <- SomeEmbeddings
  Threshold <- Half
  Limit = 2
  Scan = 3
  LogScan = 2
  Stores <- SomeStores
  Now = 2
INVARIANTS WrittenIsInForce RunsOnlyIfMeasured SameCallSameKey HiddenIffNamed NearestIsServed ListsShowNewest
CHECK_DEADLOCK FALSE
