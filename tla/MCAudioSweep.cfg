SPECIFICATION SweepFairSpec
CONSTANTS
  MaxJobs  = 3
  Workers  = 2
  Caller   = caller
  None     = none
  Sizes    <- TwoSizes
  Lockable <- TwoLockable
  Truths   <- MixedTruths
  Decode   = TRUE
INVARIANTS AtMostWorkers NilMeansAll AnswersByTheFiles
PROPERTIES VerdictsStand AuditEnds
CHECK_DEADLOCK FALSE
