CONSTANTS
  JobId = {1, 2, 3}
  KeyOf <- Keys
  Policies = {"singleton"}
  Worker = {w1, w2}
  BatchSize = 2
  RetryLimit = 1
  MaxRecalls <- NoRecalls
SPECIFICATION FairSpec
PROPERTY EachDelivered
