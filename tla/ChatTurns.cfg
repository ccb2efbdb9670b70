SPECIFICATION FairSpec
CONSTANTS
  Clients = {c1, c2}
  Streaming = {c1, c2}
  Turns = {t1, t2}
  r1 = r1
  r2 = r2
  general = general
  other = other
  Requests = {r1, r2}
  Projects = {general, other}
  ProjectOf <- MCProjectOf
  General = general
  RequestLimit = 2
  MaxSubmissions = 3
  None = None
INVARIANTS
  TypeOK
  RunningMeansExecuting
  AcceptedIsClosed
  ServesOwnRequest
  BudgetAccounted
PROPERTIES
  ClosedIsFinal
  StoppedStaysRecoverable
  ImplementsRoom
  WaitersAreServed
  RunsEnd
