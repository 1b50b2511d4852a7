\* Killed while it polls, the command never updates anything again.
SPECIFICATION FairSpec
CONSTANTS
  f1 = f1
  f2 = f2
  m1 = m1
  m2 = m2
  File = {f1, f2}
  Mirror = {m1}
  MaxVersion = 1
  Empty <- NoneEmpty
  System <- NoSystem
  Faults = {"killPolling"}
  MaxFaults = 1
PROPERTIES
  Converges
