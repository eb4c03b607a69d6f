CONSTANTS
  Queue = {"work"}
  JobId = {j1, j2}
  Payload = {"a"}
  Key = {}
  NULL = NULL
  Unused = Unused
  Deleted = Deleted
  DefaultExpireSeconds = 1
  Worker = {w1}
  WorkQueue <- OnWork
  BatchSize = 2
  Node = {n1}
  QueueOptions <- PurgingQueues
  JobSpecs <- AgingSpecs
  AdminOps = {"retry"}
  HandlersMeetLease = FALSE
  MaxTime = 4
  MaxSent = 2
  MaxResumes = 1
  MaxRetryLimit = 1
SPECIFICATION Spec
SYMMETRY Symmetry
PROPERTY PurgeRespectsRetention
