CONSTANTS
  Stream <- Ids2
  Cases <- CasesMC
  Value <- Times
  Expected <- References
  None = None
SPECIFICATION Spec
CHECK_DEADLOCK FALSE
INVARIANTS
  OkMeansBounded
  CountsTellWhatWasCompared
