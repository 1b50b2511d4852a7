\* Two mirrors, one behind the other, and every fault there is.
SPECIFICATION Spec
CONSTANTS
  f1 = f1
  f2 = f2
  m1 = m1
  m2 = m2
  File = {f1, f2}
  Mirror = {m1, m2}
  MaxVersion = 2
  Empty <- EmptyFirst
  System <- NoSystem
  Faults = {"fetch", "download", "shortCopy", "record", "save", "edit", "delete",
            "killStarting", "killPolling", "killCopying", "killSaving", "killSaved",
            "removeTemp"}
  MaxFaults = 2
SYMMETRY Symmetry
INVARIANTS
  TypeOK
  RecordSurvives
  ListTruthful
PROPERTIES
  EditsKept
  NoDowngrade
