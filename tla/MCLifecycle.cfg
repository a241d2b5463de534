CONSTANTS
  engine = engine
  collector = collector
  browser = browser
  Emitters = {engine, collector}
  Browsers = {browser}
  Slots = 2
  QueueCap = 1
  BalloonRateLimit = 2
  MaxEvents = 2
  Scenes <- MCScenes

SPECIFICATION FairSpec

INVARIANTS
  BalloonsAreSpaced
  EndsClean
PROPERTIES
  EmitNeverBlocks
  QuitEnds

CHECK_DEADLOCK FALSE
