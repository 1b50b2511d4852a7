\* A name that is not in ASCII.
SPECIFICATION Spec
CONSTANTS
  Garbage = {0}
  Name <- ForeignName
  Object <- Versions
  Dir = {"", "c"}
  ServerDocs = {}
  MaxFiles = 1
  MaxLines = 0
INVARIANTS
  DecodeUndoesEncode
