CONSTANTS
  Pids = {1, 2}
  Nics = {wifi}
  Queries = {disk, gpu}
  wifi = wifi
  disk = disk
  gpu = gpu
  Weight <- MCWeight
  Full = 2
  Wrap = 100
  Scenes <- MCScenes
  MaxUse = 3
  Sockets = {http}
  http = http
  HistoryCap = 2
  Keep = 2

SPECIFICATION Spec

INVARIANTS
  RingsAreLogs
  ReadingsAreMeasured
  QueriesAreHeld
  TreeHasAll
