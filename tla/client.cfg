\* A client, its server and the other processes of its machine.
SPECIFICATION FairSpec
CONSTANTS
  Garbage = {0}
  Dir = {"", "c"}
  Text <- Texts
  Condense <- Condensed
  MirrorDocs <- Mirrors
  ChannelDocs <- Channels
  FileDocs <- Files
  Depth = 2
  Update <- Updates
  MaxChunks = 1
  MaxHeld = 1
  MaxOthers = 1
INVARIANTS
  TypeOK
  NothingLeaked
  FailureChangesNothing
  SuccessIsComplete
  FailsForAReason
  AskedIsPending
  ChannelsReread
PROPERTIES
  CallReturns
\* A program whose behaviour is undefined has no next step.
CHECK_DEADLOCK FALSE
