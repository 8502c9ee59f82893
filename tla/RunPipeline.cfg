CONSTANTS
  j1 = j1
  j2 = j2
  j3 = j3
  d1 = d1
  d2 = d2
  d3 = d3
  None = None
  Job <- Jobs
  RunId <- Directories
  Case <- CaseIds
  Plans <- AllPlans
SPECIFICATION FairSpec
CHECK_DEADLOCK FALSE
INVARIANTS
  TypeOK
  NothingNamedIsMissing
  MetadataTellsTheRun
  ComparisonIsOfOneRun
  LatestLeadsToTheLastRun
PROPERTIES
  SoundJobsEndWell
