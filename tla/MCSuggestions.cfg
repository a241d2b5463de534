CONSTANTS
  r1 = r1
  r2 = r2
  ask = ask
  Requests = {r1, r2}
  Prompts = {ask}
  Suggestions <- MCIssued
  Scenes <- MCScenes
  Answers <- MCAnswers
  RuleName <- MCRuleName
  Limits = {1, 2}
  Minute = 2
  AnswerTtl = 1
  OfferTtl = 2
  CacheSize = 1
  MaxTurns = 4
  MaxIssues = 2
  MaxChats = 4
  MaxEdits = 2

SPECIFICATION SuggestionsSpec

INVARIANTS
  RateKept
  TurnsArePaired
PROPERTIES
  Approves
