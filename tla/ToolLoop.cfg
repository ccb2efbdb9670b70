SPECIFICATION FairSpec
CONSTANTS
  NumAgents = 2
  Participants = {1}
  Paths <- MCPaths
  Contents <- MCContents
  Threads <- MCThreads
  Calls <- MCCalls
  MaxRequests = 2
  MaxRounds = 1
  CallsPerResponse = 1
  CallsPerTurn = 2
  Retries = 1
  MaxAttempts = 2
  f = f
  x = x
  y = y
  t1 = t1
  User = User
  None = None
INVARIANTS
  TypeOK
  UploadsStayTheUsers
  DeletedIsUnreachable
  ResultsAreTrue
  RewritesAreChecked
PROPERTIES
  OncePerOperation
  LoopEnds
CHECK_DEADLOCK FALSE
