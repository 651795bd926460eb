SPECIFICATION Spec
CONSTANTS
  Threads = {t1, t2}
  MaxBuffers = 2
  MaxCredit = 1
INVARIANT ReleaseBufferKeepsAllocator
CHECK_DEADLOCK FALSE
