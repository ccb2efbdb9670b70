SPECIFICATION Spec
CONSTANTS
  InitialInputs = {0}
  InputLimit = 2
  MessageLimit = 1
  OutputLimit = 2
  SocketCapacity = 2
  MaxRuns = 1
  MaxCommands = 1
  MaxChunks = 1
  None = None
INVARIANTS
  RunsAreRecorded
CHECK_DEADLOCK FALSE
