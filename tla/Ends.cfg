\* A source whose Pause failed may hang in its destructor (see ToldToExit), and
\* a destroyed filter does nothing: the system really can stop.
SPECIFICATION EndsSpec
CONSTANTS
  NPins = 1
  NBuffers = 1
  FillResults <- OwnFillResults
  Faults <- OwnFaults
  PinCalls = {}
  CountMod = 6
  MaxAdvises = 2
  RenderFaults = {"type", "drop"}
CHECK_DEADLOCK FALSE
INVARIANTS
  AllPathsReleaseTheSample
  SourceSafety
  RendererSafety
PROPERTIES
  SourceCallsReturn
  OwnImplementsFrameSource
  CompleteIsLast
  RendererAnswers
