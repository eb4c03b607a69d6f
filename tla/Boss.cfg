CONSTANTS
  Node = {me, peer}
  me = me
  SCHEMA_VERSION = 30
  OtherVersion = 29
  Worker = {u1, s1, s2}
  SendIt = {s1, s2}
  NULL = NULL
  MaxStarts = 2
SPECIFICATION FairSpec
INVARIANTS BossTypeOK ProvisionedComplete ReadyWhenStarted WorkersEndBeforePool
PROPERTIES StopReturns NotifyHeeded
