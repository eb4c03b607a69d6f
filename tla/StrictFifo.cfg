CONSTANTS
  JobId = {1, 2, 3}
  KeyOf <- Keys
  Policies = {"key_strict_fifo"}
  Worker = {w1, w2}
  BatchSize = 1
  RetryLimit = 0
  MaxRecalls <- NoRecalls
SPECIFICATION Spec
PROPERTY StrictFifo
