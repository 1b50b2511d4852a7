\* Handlers that do anything, urls that need encoding, and an IO kept for a second init.
SPECIFICATION Spec
CONSTANTS
  t1 = t1
  t2 = t2
  t3 = t3
  Transfer = {t1, t2, t3}
  None = None
  Crc <- TwoCrc
  Str <- SpaceStr
  encodeURL <- SpaceURL
  Request <- SpaceRequest
  Limits = {1}
  HandlerOps = {"queueFile", "queueWhileAborting", "abortDownload", "abortSignalled", "abortAll", "poll"}
  MaxDepth = 2
  KeepIO = TRUE
SYMMETRY Symmetry
CHECK_DEADLOCK FALSE
INVARIANTS
  TargetVerified
  AbortIsFinal
