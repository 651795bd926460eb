SPECIFICATION FairSpec
CONSTANTS
  Modes <- AllModes
  Calls <- AllCalls
  MaxSamples = 2
  MaxFlushes = 2
  MaxList = 2
  Faults <- AnyFaults
INVARIANT
  QueueSafety
PROPERTY
  CallsReturn
