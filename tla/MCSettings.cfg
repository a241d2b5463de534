CONSTANTS
  s1 = s1
  s2 = s2
  auth = auth
  Blank = Blank
  Broken <- MCBroken
  Missing <- MCMissing
  Names = {"System", "SYSTEM", "game"}
  Lower <- MCLower
  RuleNames = {"a", "a ", "b", " "}
  Trim <- MCTrim
  NoName = ""
  Secrets = {s1, s2}
  Headers = {auth}
  Documents <- MCDocuments
  RuleLists <- MCRuleLists
  Default <- MCDefault
  Current = 3
  MinInterval = 1
  MinTtl = 2
  MinTokens = 2
  MaxFor = 5
  MaxDuration = 7999
  Numbers = {0, 1, 5}
  MaxChanges = 4

SPECIFICATION SettingsSpec

INVARIANTS
  LoadsAsSaved
  IgnoresAreKept
  TuningIsKept
  RulesComeBack
