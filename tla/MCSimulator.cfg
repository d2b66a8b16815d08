SPECIFICATION Spec
CONSTANTS
  None = None
  h = h
  r = r
  s = s
  d = d
  Node = {h, r, s, d}
  Owner <- MCOwner
  Scenarios <- MCScenarios
  InitialTtl = 5
  MaxAttempts = 2
  MaxEvents = 150
INVARIANTS TypeOK LookupIsBest TracesPath NoOldAnswers OneAnswer FaithfulTrace
PROPERTY BusDelivers
