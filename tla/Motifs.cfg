SPECIFICATION Spec
CONSTANTS
  t1 = t1
  t2 = t2
  Turns = {t1, t2}
  NumAgents = 2
  AgentsOf <- MCAgentsOf
  MaxBeats = 2
  Labels = {x, y}
  BatchSize = 2
  MinTurns = 2
  Window = 3
  UserStatuses = {"rejected"}
  Preferences = {paused}
  MaxObservations = 3
  MaxChanges = 1
  None = None
SYMMETRY MCSymmetry
INVARIANTS
  TypeOK
  BatchesAreWhole
  UserHasTheLastWord
  EvidenceIsOfTheBeat
  PreferencesAreEarned
CHECK_DEADLOCK FALSE
