CONSTANTS Threads = {t1,t2,t3}
 NoNode = none
SPECIFICATION Spec
INVARIANT ThreadSafe
CHECK_DEADLOCK FALSE
