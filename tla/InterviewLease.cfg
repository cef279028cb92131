SPECIFICATION FairSpec
CONSTANTS
  Workers = {w1, w2}
  Requests = {r0, r1, r2}
  CreationRequest = r0
  Bodies = {0}
  Scopes = {}
  NoScope = NoScope
  Slots = {}
  Endpoints = {"answer"}
  MaxTurns = 4
  Lease = 3
  Retention = 6
  TxTime = 1
  Deadline = 1
  MaxClock = 6
  MaxTokens = 3
INVARIANTS OneInference
PROPERTIES BusyEnds
CHECK_DEADLOCK FALSE
