CONSTANTS
  N = 2
  BatchId <- Ids
  Slug <- SameSlug
  Name <- SameName
  Commands <- Twice
  MaxRounds = 2
  None = None
SPECIFICATION FairSpec
CHECK_DEADLOCK FALSE
INVARIANTS
  TypeOK
  RowsTellTheRuns
  CatalogsAgree
  DoneMeansTold
PROPERTIES
  BatchEnds
  KeepsThePromise
