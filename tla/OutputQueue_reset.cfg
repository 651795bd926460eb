SPECIFICATION Spec
CONSTANTS
  Modes <- ResettingModes
  Calls <- AllCalls
  MaxSamples = 1
  MaxFlushes = 2
  MaxList = 2
  Faults <- AnyFaults
INVARIANT
  FlushLeavesNothing
