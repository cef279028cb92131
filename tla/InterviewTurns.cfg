SPECIFICATION Spec
CONSTANTS
  Workers = {w1, w2}
  Requests = {r0, r1, r2, r3}
  CreationRequest = r0
  Bodies = {0}
  Scopes = {}
  NoScope = NoScope
  Slots = {}
  Endpoints = {"answer"}
  MaxTurns = 5
  Lease = 1
  Retention = 2
  TxTime = 9
  Deadline = 9
  MaxClock = 2
  MaxTokens = 4
SYMMETRY Symmetry
INVARIANTS TypeOK ReclaimIsWhole OneTurnEach ChoiceIsCurrent
CHECK_DEADLOCK FALSE
