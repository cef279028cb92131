SPECIFICATION Spec
CONSTANTS
  Logins = {l1, l2, l3}
  Logouts = {o1}
  Commands = {c1}
  r1 = r1
  r1b = r1b
  d1 = d1
  Registries = {r1, r1b, d1}
  Stripped <- MCStripped
  Development = {d1}
  None = None
  Torn = Torn
SYMMETRY Symmetry
INVARIANTS TypeOK ConfigIsWhole SessionsStayEnded LoginInForce
CHECK_DEADLOCK FALSE
