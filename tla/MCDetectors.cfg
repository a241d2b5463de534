CONSTANTS
  app = app
  tool = tool
  Pids <- MCPids
  Names = {app, tool}
  Suspicious = {tool}
  Configs <- MCConfigs
  Parent <- MCParent
  Scenes <- MCScenes
  Duration <- MCDuration
  Critical <- MCCritical
  Window = 2
  MaxChildren = 2
  WarmUp = 1
  MaxGens = 2
  MaxChanges = 2
  MaxTime = 3

SPECIFICATION Spec

INVARIANTS
  SustainedWhileWatched
  StormsAreRecent
  CalmIsCleared
  ToldOnce
