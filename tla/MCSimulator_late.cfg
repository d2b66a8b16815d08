SPECIFICATION Spec
CONSTANTS
  None = None
  h = h
  r = r
  s = s
  d = d
  Node = {h, r, s, d}
  Owner <- MCOwner
  Scenarios <- LateReport
  InitialTtl = 5
  MaxAttempts = 2
  MaxEvents = 150
INVARIANT OwnAnswers
