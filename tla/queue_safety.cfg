\* Two urls, three DataStructs; handlers queue, abort, poll and change the limit.
SPECIFICATION Spec
CONSTANTS
  t1 = t1
  t2 = t2
  t3 = t3
  Transfer = {t1, t2, t3}
  None = None
  Crc <- TwoCrc
  Str <- PlainStr
  encodeURL <- PlainURL
  Request <- PlainRequest
  Limits = {0, 2}
  HandlerOps = {"queueFile", "abortDownload", "poll", "setMaxDownloads"}
  MaxDepth = 2
  KeepIO = FALSE
SYMMETRY Symmetry
INVARIANTS
  TypeOK
  NoUndefined
  QueueConsistent
  OneSignal
  TargetVerified
  TempFilesClosed
