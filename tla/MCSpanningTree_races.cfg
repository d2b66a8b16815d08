CONSTANTS
  Bridge = {1, 2}
  Link = {1, 2}
  Ends <- PairEnds
  Costs <- UniformCosts
  Wirings <- AllUp
  Priorities <- EqualPriorities
  NewPriorities = {1, 3}
  Toggled = {1, 2}
  Switchable = {1, 2}
  Tunable = {1, 2}
  Operable <- AllUp
  MaxOps = 1
  Overlapping = TRUE
  Ticking = TRUE
  BPDUBudget = 19
  MaxAge = 4
  ForwardDelay = 2
  CostSpan = 1000
  None = None
SPECIFICATION FairSpec
INVARIANTS PortDiscipline BackstopUnused Connected
PROPERTIES Heals
