SPECIFICATION FairSpec
CONSTANTS
  InitialInputs = {0, 2}
  InputLimit = 2
  MessageLimit = 1
  OutputLimit = 2
  SocketCapacity = 1
  MaxRuns = 2
  MaxCommands = 1
  MaxChunks = 3
  None = None
INVARIANTS
  TypeOK
  RunnerIsClean
  TranscriptIsCausal
  TranscriptIsComplete
PROPERTIES
  RunsComeToAnEnd
CHECK_DEADLOCK FALSE
