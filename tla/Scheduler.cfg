CONSTANTS
  n1 = n1
  n2 = n2
  NULL = NULL
  Node = {n1, n2}
  Schedule = {1, 2}
  FiresAt <- Firings
  Broken = {2}
  Window = 9
  TickInterval = 1
  Skew <- OneSlow
  RetryLimit = 1
  MayCrash = {n2}
  MaxLate = 1
  FaultsPerWindow = 1
  MaxFaults = 2
  MaxTime = 18
SPECIFICATION FairSpec
INVARIANTS TypeOK EachFiringOnce NoFiringMissed RelayAccounting
PROPERTY Relayed
