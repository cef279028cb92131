SPECIFICATION Spec
CONSTANTS
  Writers = {w1, w2}
  Runs = {r1, r2}
  s1 = s1
  s2 = s2
  owner = owner
  Steps = {s1, s2}
  People = {owner}
  None = none
  Workflows <- TwoWorkflows
SYMMETRY Symmetry
INVARIANTS TypeOK HistoryReplays GatesHold
PROPERTIES UncertainBlocks AtomicCalls
