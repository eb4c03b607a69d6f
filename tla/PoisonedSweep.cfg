CONSTANTS
  Queue = {"work"}
  JobId = {j1, j2}
  Payload = {"a"}
  Key = {}
  NULL = NULL
  Unused = Unused
  Deleted = Deleted
  DefaultExpireSeconds = 1
  Worker = {w1}
  WorkQueue <- OnWork
  BatchSize = 2
  Node = {n1}
  QueueOptions <- StatelyQueues
  JobSpecs <- StatelySpecs
  AdminOps = {}
  HandlersMeetLease = FALSE
  MaxTime = 3
  MaxSent = 2
  MaxResumes = 1
  MaxRetryLimit = 1
SPECIFICATION PollingSpec
PROPERTY LapsedLeaseRecovered
