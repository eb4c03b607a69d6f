CONSTANTS
  Queue = {"work", "dead"}
  JobId = {j1, j2}
  Payload = {"a"}
  Key = {}
  NULL = NULL
  Unused = Unused
  Deleted = Deleted
  DefaultExpireSeconds = 1
  Worker = {w1, w2}
  WorkQueue <- OnWork
  BatchSize = 2
  Node = {n1, n2}
  QueueOptions <- RoutedPurgingQueues
  JobSpecs <- AgingSpecs
  AdminOps = {"cancel", "resume", "complete"}
  HandlersMeetLease = FALSE
  MaxTime = 4
  MaxSent = 1
  MaxResumes = 1
  MaxRetryLimit = 1
SPECIFICATION FairSpec
INVARIANT AttemptAccounting
PROPERTIES RoutedExactlyOnce FinishedStays ImplementsLifecycle LapsedLeaseRecovered PurgeRespectsRetention
  LeaseProtects
