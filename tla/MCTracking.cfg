SPECIFICATION TrackingSpec
CONSTANTS
  Significands = 4
  Peer = 1
  Starts <- MCStarts
  Velocities <- MCVelocities
  MyStart <- MCMyStart
  MyVelocity <- MCMyVelocity
  RelayPosition <- MCRelayPosition
  HelloInterval = 3
  GlobalUpdateInterval = 1
  MaintenanceInterval = 1
  ZoneRadiusMid = 2
  Ttl = 2
  Densities = {0, 2}
  Delays = {0, 1}
  MaxTurns = 1
  MaxLosses = 1
  MaxTime = 6
INVARIANTS
  TypeOK
  HeadersIntact
  PredictionBound
  SameSideWhileValid
  CopyNotOutliving
PROPERTIES
  DroppedOnlyAcross
  ForgottenOnlyWhenQuiet
CHECK_DEADLOCK FALSE
