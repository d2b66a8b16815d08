SPECIFICATION Spec
CONSTANTS
  Node = {"a", "b", "c"}
  Link = {"ab", "bc", "ca"}
  Ends <- RingEnds
  Net = {"s"}
  Attached <- Behind
  Started = {"a", "b"}
  Operated = {"c"}
  MaxMetric = 5
  Timeout = 2
  Garbage = 1
  MaxOps = 1
  MaxLoss = 0
  MaxInbox = 1
  None = None
PROPERTY Converges
