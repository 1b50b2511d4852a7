\* Two urls under limits that change at any call: an application that keeps polling.
SPECIFICATION FairSpec
CONSTANTS
  t1 = t1
  t2 = t2
  t3 = t3
  Transfer = {t1, t2, t3}
  None = None
  Crc <- TwoCrc
  Str <- PlainStr
  encodeURL <- PlainURL
  Request <- PlainRequest
  Limits = {1, 2}
  HandlerOps = {"queueFile", "abortDownload", "setMaxDownloads"}
  MaxDepth = 2
  KeepIO = FALSE
PROPERTIES
  ConnectionLimit
  EverySignalled
  ImplementsContract
