CONSTANTS
  b1 = b1
  b2 = b2
  ann = ann
  bob = bob
  Tokens = {b1, b2}
  NoToken = NoToken
  Chats = {ann, bob}
  Configs <- MCConfigs
  DefaultTtl = 2
  MaxActions = 1
  MaxCodes = 2
  MaxMessages = 3
  MaxEvents = 2
  MaxTime = 2
  Says <- MCSays

SPECIFICATION Spec

INVARIANTS
  NothingSkipped
  HandledInOrder
PROPERTIES
  Approves

CHECK_DEADLOCK FALSE
