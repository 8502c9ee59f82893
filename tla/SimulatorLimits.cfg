CONSTANTS
  sa = sa
  sb = sb
  sx = sx
  l1 = l1
  l2 = l2
  l3 = l3
  None = None
  Stream <- TwoStreams
  Link <- OneLink
  Cases <- LimitCases
SPECIFICATION FairSpec
CHECK_DEADLOCK FALSE
INVARIANTS
  ReleasesOnSchedule
  StopReasonIsTrue
  OnlyUnroutedStreamsRaise
  DrainedMeansDelivered
