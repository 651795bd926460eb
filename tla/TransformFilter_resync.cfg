SPECIFICATION TransformSpec
CONSTANTS
  NBuffers = 1
  TransformResults = {"S_OK", "E_FAIL"}
  Faults = {"type"}
INVARIANT
  StopResyncs
