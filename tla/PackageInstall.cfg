SPECIFICATION Spec
CONSTANTS
  Processes = {w1, w2}
  p1 = p1
  p2 = p2
  a = a
  b = b
  Packages = {p1, p2}
  N = 2
  Contents = {a, b}
  NoFile = nofile
  MaxCalls = 5
  MaxEvents = 2
  Payload <- OneFileLess
SYMMETRY Symmetry
INVARIANTS TypeOK MixtureIsKnown
CHECK_DEADLOCK FALSE
