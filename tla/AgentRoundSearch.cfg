SPECIFICATION Spec
CONSTANTS
  NumAgents = 2
  Participants = {1, 2}
  MaxBeats = 1
  MaxAttempts = 3
  Named = {2}
  Scope = "lead"
  Score <- MCScore
  UrlsGiven = TRUE
  Searchers = {1, 2}
  Completions <- MCSearchAnswers
  None = None
INVARIANTS
  EvidenceIsBacked
  NoEvidenceNoPrompt
