\* A url that needs encoding passes the duplicate check while it is queued.
SPECIFICATION Spec
CONSTANTS
  t1 = t1
  t2 = t2
  t3 = t3
  Transfer = {t1, t2, t3}
  None = None
  Crc <- TwoCrc
  Str <- SpaceStr
  encodeURL <- SpaceURL
  Request <- SpaceRequest
  Limits = {1}
  HandlerOps = {}
  MaxDepth = 1
  KeepIO = FALSE
SYMMETRY Symmetry
CHECK_DEADLOCK FALSE
INVARIANT
  OneTransferPerUrl
