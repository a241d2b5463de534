CONSTANTS
  Targets <- MCTargets
  Handlers = {h1, h2}
  MaxSaves = 2
  MaxEdits = 1

SPECIFICATION ReloadSpec
SYMMETRY Symmetry

INVARIANT AppliedLive

CHECK_DEADLOCK FALSE
