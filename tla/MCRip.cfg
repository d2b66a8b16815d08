SPECIFICATION Spec
CONSTANTS
  Node = {"a", "b", "c"}
  Link = {"ab", "bc"}
  Ends <- RowEnds
  Net = {"s"}
  Attached <- Behind
  Started = {"b", "c"}
  Operated = {"a", "b"}
  MaxMetric = 4
  Timeout = 2
  Garbage = 1
  MaxOps = 3
  MaxLoss = 1
  MaxInbox = 1
  None = None
INVARIANTS TypeOK FibMirrorsRoutes
PROPERTIES PoisonRetained Converges
