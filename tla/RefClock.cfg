CONSTANTS
  Clients = {c1, c2}
  DueTimes = {3, 4}
  Periods = {2}
  Deltas <- SomeDeltas
  CacheMax = 1
  MaxSys = 3
  MaxCookies = 2
  MaxDeltas = 1
SPECIFICATION ClockSpec
INVARIANTS ClockSafety NeverLate
PROPERTIES KeepsItsPromise Served
CHECK_DEADLOCK FALSE
