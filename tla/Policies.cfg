CONSTANTS
  JobId = {1, 2, 3}
  KeyOf <- Keys
  Policies = {"singleton", "key_strict_fifo"}
  Worker = {w1, w2}
  BatchSize = 1
  RetryLimit = 1
  MaxRecalls <- FirstOnce
SPECIFICATION FairSpec
INVARIANT TypeOK
PROPERTIES KeyOrder EachDelivered ImplementsLifecycle
