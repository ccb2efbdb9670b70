SPECIFICATION Spec
CONSTANTS
  NumAgents = 2
  Participants = {1, 2}
  MaxBeats = 1
  MaxAttempts = 2
  Named = {}
  Scope = "none"
  Score <- MCScore
  UrlsGiven = FALSE
  Searchers = {}
  Completions <- MCPlainAnswers
  None = None
INVARIANTS
  CardsAreSuccesses
