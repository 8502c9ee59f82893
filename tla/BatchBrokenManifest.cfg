CONSTANTS
  N = 2
  BatchId <- Ids
  Slug <- SameSlug
  Name <- SameName
  Commands <- Once
  MaxRounds = 1
  None = None
SPECIFICATION FairSpec
CHECK_DEADLOCK FALSE
INVARIANT EveryCaseGetsItsRow
