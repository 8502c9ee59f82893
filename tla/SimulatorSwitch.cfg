CONSTANTS
  sa = sa
  sb = sb
  sx = sx
  l1 = l1
  l2 = l2
  l3 = l3
  None = None
  Stream <- ThreeStreams
  Link <- SwitchLinks
  Cases <- SwitchCases
SPECIFICATION FairSpec
CHECK_DEADLOCK FALSE
INVARIANTS
  EachFrameInOnePlace
  NoOvertaking
  FirstFrameIsBounded
PROPERTIES
  EveryFrameIsDelivered
  ForwardsFrames
