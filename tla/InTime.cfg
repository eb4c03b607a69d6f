CONSTANTS
  Queue = {"work", "dead"}
  JobId = {j1, j2, j3, j4}
  Payload = {"a", "b"}
  Key = {}
  NULL = NULL
  Unused = Unused
  Deleted = Deleted
  DefaultExpireSeconds = 1
  Worker = {w1, w2}
  WorkQueue <- OnWork
  BatchSize = 2
  Node = {n1, n2}
  QueueOptions <- PolicedQueues
  JobSpecs <- RoutedSpecs
  AdminOps = {"retry", "delete"}
  HandlersMeetLease = TRUE
  MaxTime = 2
  MaxSent = 2
  MaxResumes = 1
  MaxRetryLimit = 1
SPECIFICATION Spec
SYMMETRY Symmetry
INVARIANTS TypeOK AttemptAccounting NoOverlap PolicyKept
PROPERTIES ReturnCompletes RoutedExactlyOnce ImplementsLifecycle
