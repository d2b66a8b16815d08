CONSTANTS
  Bridge = {1, 2, 3, 4}
  Link = {1, 2, 3, 4, 5, 6}
  Ends <- MeshEnds
  Costs <- UniformCosts
  Wirings <- AnyWiring
  Priorities <- AnyPriorities
  NewPriorities = {}
  Toggled = {}
  Switchable = {}
  Tunable = {}
  Operable = {}
  MaxOps = 0
  Overlapping = FALSE
  Ticking = FALSE
  BPDUBudget = 60
  MaxAge = 10
  ForwardDelay = 8
  CostSpan = 1000
  None = None
SPECIFICATION Spec
INVARIANT NoForwardingLoop
