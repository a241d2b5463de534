CONSTANTS
  a = a
  b = b
  c = c
  r1 = r1
  r2 = r2
  Self = wtm
  Pids <- MCPids
  Tids = {t1, t2}
  Requests = {r1, r2}
  Scenes <- MCKills
  None = None
  MaxStarts = 3
  MaxSuspends = 2

SPECIFICATION Spec

INVARIANT
  CriticalNeverHit
