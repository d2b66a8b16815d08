CONSTANTS
  core = core  edge = edge  x = x  y = y  z = z
  cx = cx  ct = ct  cu = cu  et = et  eu = eu  ey = ey  ez = ez
  Switch = {core, edge}
  Station = {x, y, z}
  Port = {cx, ct, cu, et, eu, ey, ez}
  Owner <- MCOwner
  Far <- MCFar
  Mode <- MCMode
  PortVlan <- MCPortVlan
  AllowedVlans <- MCAllowedVlans
  Name <- UnevenNames
  HostVlan <- MCHostVlan
  Svi <- MCSvi
  Via <- MCVia
  GatewayMac <- MCGatewayMac
  Workloads <- MovingLoad
  Spare = {et, eu}
  EntryTimeout = 2
  RefreshThreshold = 2
  MaxAttempts = 2
  MaxChanges = 1
  MaxTicks = 3
  None = None
  Broadcast = Broadcast
SPECIFICATION Spec
INVARIANT LooksWhereLastHeard
