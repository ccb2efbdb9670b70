SPECIFICATION Spec
CONSTANTS
  NumAgents = 2
  Participants = {1, 2}
  Paths <- MCPaths
  Contents <- MCContents
  Threads <- MCThreads
  Calls <- MCWrites
  MaxRequests = 2
  MaxRounds = 1
  CallsPerResponse = 1
  CallsPerTurn = 2
  Retries = 1
  MaxAttempts = 2
  f = f
  x = x
  y = y
  t1 = t1
  User = User
  None = None
INVARIANTS
  SharingIsTheUsersChoice
CHECK_DEADLOCK FALSE
