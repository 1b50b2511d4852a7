\* A download fails, and the exit status is 0.
SPECIFICATION Spec
CONSTANTS
  f1 = f1
  f2 = f2
  m1 = m1
  m2 = m2
  File = {f1}
  Mirror = {m1}
  MaxVersion = 1
  Empty <- NoneEmpty
  System <- NoSystem
  Faults = {"download"}
  MaxFaults = 1
INVARIANTS
  ExitStatus
