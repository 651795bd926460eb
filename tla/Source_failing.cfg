SPECIFICATION Spec
CONSTANTS
  NPins = 2
  NBuffers = 1
  FillResults = {"S_OK"}
  Faults = {"create"}
  PinCalls = {}
  CountMod = 2
INVARIANT CreatesWithoutThread
CHECK_DEADLOCK FALSE
