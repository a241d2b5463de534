CONSTANTS
  Types = {cpu, net, leak}
  Pids <- MCPids
  Severities = {warning, critical}
  Caps <- MCCaps
  MaxHistory = 2
  MaxTime = 2
  MaxRaises = 3

SPECIFICATION Spec
SYMMETRY Symmetry

INVARIANTS
  ActiveNotSnoozed
  ActiveIsRecorded
PROPERTIES
  SnoozeSilences
