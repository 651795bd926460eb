SPECIFICATION SamplesSpec
CONSTANTS
  Threads = {t1, t2, t3}
  MaxBuffers = 2
  MaxCredit = 1
  NBuffers = 2
  TransformResults <- AnyResults
  Faults <- AnyFaults
INVARIANTS
  NoLostWakeup
  AllocatorSafety
  TransformSafety
PROPERTIES
  ImplementsPool
  WaitersGetOut
  StreamingPaired
  NobodyIsStuck
