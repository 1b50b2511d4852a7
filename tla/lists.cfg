\* Lists with names that need encoding, and what servers may send.
SPECIFICATION Spec
CONSTANTS
  Garbage = {0, 32}
  Name <- HardNames
  Object <- Versions
  Dir = {"", "c"}
  ServerDocs <- Docs
  MaxFiles = 2
  MaxLines = 2
INVARIANTS
  TypeOK
  SavedIsReloaded
  PrintedSafely
  UrlsNameFiles
