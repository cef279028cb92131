SPECIFICATION Spec
CONSTANTS
  Processes = {p1, p2}
  Files = {scenarios, guide}
  RuleFiles = {scenarios}
  RootFiles = {guide}
  ScenarioFile = scenarios
  v1 = v1
  v2 = v2
  ready = ready
  blocked = blocked
  Versions = {v1, v2}
  Scenarios = {s1}
  States = {ready, blocked}
  Expected <- OneExpectation
  Results = {e1, e2}
  None = None
  MaxEvents = 3
SYMMETRY Symmetry
INVARIANTS TypeOK PassedWasEvaluated CallIsAtomic VerdictWasEvaluated
CHECK_DEADLOCK FALSE
