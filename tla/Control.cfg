CONSTANTS
  Commands = {1, 2}
  Times = {1, 2}
  Offsets = {1}
  MaxNow = 2
  MaxCalls = 2
  Threads = {1, 2}
  MaxPosition = 1
  Rates = {0, 2}
  Failing = {"start", "stop"}
  MaxSeeks = 3
  Apps = {1, 2}
  MediaTypes = {"A", "B"}
  MayFail = TRUE
  MaxPinCalls = 4
  MaxGraphCalls = 5
SPECIFICATION Spec
INVARIANTS CmdSafety SeekSafety PinSafety TipSafety
PROPERTIES NobodyWaitsForever
CHECK_DEADLOCK FALSE
