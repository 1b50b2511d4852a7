\* Two mirrors and every fault there is: runs end, and later ones make up for it.
SPECIFICATION FairSpec
CONSTANTS
  f1 = f1
  f2 = f2
  m1 = m1
  m2 = m2
  File = {f1}
  Mirror = {m1, m2}
  MaxVersion = 3
  Empty <- EmptyInBetween
  System <- OldSystem
  Faults = {"fetch", "download", "shortCopy", "record", "save", "edit", "delete",
            "killStarting", "killPolling", "killCopying", "killSaving", "killSaved",
            "removeTemp"}
  MaxFaults = 2
PROPERTIES
  RunEnds
  Converges
