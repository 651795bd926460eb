SPECIFICATION ObjectsSpec
CONSTANTS
  Types <- AllTypes
  SourceTypes <- AllTypes
  SourceOffers <- Offers
  TransformTypes <- AOrB
  SinkTypes <- AOrC
  SinkOffers <- SinkList
  Faults <- AnyFaults
  KeyWait = 3
  Garbage = {0, 2}
  MaxFrames = 6
  Durations = {40}
  DecodeTimes = {10, 650}
  DrawTimes = {20, 100}
  At <- AtSome
  Lists = {"a", "b"}
  Nodes = {1, 2, 3}
  Objects = {10, 20}
  NoNode = 0
  CacheSize = 1
  Pins = {"p", "q"}
  Enums = {e1, e2}
  NoPin = "none"
  MaxVersion = 2
  TypeList = {"s", "t"}
  MaxTypeVersion = 3
  MaxTypePosition = 3
  EndOfStreamLocks = TRUE
  Size = 1
  MediaType = "type"
  NoMediaType = "no type"
  Clocks = {"c", "d"}
  NoClock = "no clock"
  CallerLocks = TRUE
INVARIANTS
  ReferencesBalance
  ConnectionsAgree
  
  ListSafety
  NothingLostOrLeft
  CompletesAndLinks
PROPERTIES
  ConnectIsAtomic
  DoesWhatItSays
SYMMETRY EnumSymmetry
CHECK_DEADLOCK FALSE
