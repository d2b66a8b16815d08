CONSTANTS
  Thread = {t1, t2, t3}
  Link = {l1, l2}
  MaxFrames = 3
  None = None
SPECIFICATION FairSpec
INVARIANTS OneDrainLoop NothingStranded
PROPERTY ImplementsFairDelivery
