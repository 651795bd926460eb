CONSTANTS
  Clients = {c1, c2, c3}
  Workers = {w1, w2}
  Commands = {"run", "pause"}
  NoWorker = NoWorker
  NoClient = NoClient
  NoCommand = NoCommand
  Duration = 3
  Align = 2
  Ranges <- OneRange
  cBuffers = 2
  Refuses = TRUE
  Times = {1, 3}
  Length = 2
  MaxSamples = 2
  MaxNow = 4
  MaxCommands = 2
SPECIFICATION StreamingSpec
INVARIANTS  ControlSafety ThreadSafety
PROPERTIES DiscardsInTime ImplementsCall CallsReturn EveryoneReturns
CHECK_DEADLOCK FALSE
