CONSTANTS
  n1 = n1
  n2 = n2
  NULL = NULL
  Node = {n1}
  Schedule = {1}
  FiresAt <- EveryWindow
  Broken = {}
  Window = 9
  TickInterval = 9
  Skew <- OneSlow
  RetryLimit = 1
  MayCrash = {}
  MaxLate = 1
  FaultsPerWindow = 0
  MaxFaults = 0
  MaxTime = 18
SPECIFICATION Spec
INVARIANT NoFiringMissed
