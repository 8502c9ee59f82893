CONSTANTS
  sa = sa
  sb = sb
  sx = sx
  l1 = l1
  l2 = l2
  l3 = l3
  None = None
  Stream <- ThreeStreams
  Link <- OneLink
  Cases <- OneLinkCases
SPECIFICATION FairSpec
CHECK_DEADLOCK FALSE
PROPERTY NoCreditBeforeArrival
