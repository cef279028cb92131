SPECIFICATION Spec
CONSTANTS
  Workers = {w1, w2}
  Requests = {r0, r1, r2, r3}
  CreationRequest = r0
  Bodies = {0}
  Scopes = {s1}
  NoScope = NoScope
  Slots = {1, 2}
  Endpoints = {"answer", "proposal", "apply", "confirmation"}
  MaxTurns = 4
  Lease = 1
  Retention = 2
  TxTime = 9
  Deadline = 9
  MaxClock = 2
  MaxTokens = 3
SYMMETRY Symmetry
INVARIANTS EvidenceDecidedOnce ProposalIsCurrent
PROPERTIES OneAtATime NothingConfirmedIsLost
CHECK_DEADLOCK FALSE
