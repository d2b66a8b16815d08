CONSTANTS
  Bridge = {1, 2, 3, 4}
  Link = {1, 2, 3, 4, 5, 6}
  Ends <- MeshEnds
  Costs <- UniformCosts
  Wirings <- AnyWiring
  Priorities <- LaterAhead
  NewPriorities = {1, 3}
  Toggled = {1, 2, 5}
  Switchable = {1, 2, 3}
  Tunable = {1, 2, 3}
  Operable <- Triangle
  MaxOps = 1
  Overlapping = FALSE
  Ticking = TRUE
  BPDUBudget = 11
  MaxAge = 4
  ForwardDelay = 2
  CostSpan = 1000
  None = None
SPECIFICATION FairSpec
INVARIANTS TypeOK Connected BackstopUnused
PROPERTIES NeverWorse Heals
