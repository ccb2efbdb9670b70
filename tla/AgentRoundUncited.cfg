SPECIFICATION Spec
CONSTANTS
  NumAgents = 2
  Participants = {1, 2}
  MaxBeats = 1
  MaxAttempts = 2
  Named = {}
  Scope = "lead"
  Score <- MCScore
  UrlsGiven = TRUE
  Searchers = {1}
  Completions <- MCSearchAnswers
  None = None
INVARIANTS
  UncitedSearchIsNotStored
