\* A handler that polls: the outer poll still counts with what it read before.
SPECIFICATION Spec
CONSTANTS
  t1 = t1
  t2 = t2
  t3 = t3
  Transfer = {t1, t2, t3}
  None = None
  Crc <- TwoCrc
  Str <- ManyStr
  encodeURL <- ManyURL
  Request <- ManyRequest
  Limits = {1}
  HandlerOps = {"poll"}
  MaxDepth = 2
  KeepIO = FALSE
SYMMETRY Symmetry
PROPERTY
  ConnectionLimit
