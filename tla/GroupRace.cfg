CONSTANTS
  JobId = {1, 2, 3, 4}
  IdRank <- Reversed
  Group = {"a"}
  NoGroup = NoGroup
  GroupOf <- Groups
  Claimer = {c1, c2}
  GroupConcurrency = 1
  BatchSize = 2
  MaxTries = 2
  SerialClaims = FALSE
SPECIFICATION Spec
INVARIANT GroupCap
