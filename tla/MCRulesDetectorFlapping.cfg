CONSTANTS
  hog = hog
  greedy = greedy
  Rules = {hog, greedy}
  Name <- MCName
  Place <- MCPlace
  Pids <- MCPids
  Action <- MCAction
  For <- MCFor
  Cooldown <- MCCooldown
  Caps <- MCCaps
  MaxHistory = 1
  MaxTime = 3
  MaxRaises = 8

SPECIFICATION Spec

INVARIANTS
  CooldownRespected
