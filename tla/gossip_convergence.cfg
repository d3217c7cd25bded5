\* Liveness: both nodes write, at one time or at two, and exchanges may fail
\* again and again.
SPECIFICATION FairSpec
CONSTANTS
  Key = {k1}
  Value = {a}
  Node = {1, 2}
  None = None
  Writer = {1, 2}
  Restarter = {}
  Seeds <- StarSeeds
  Fanout = 1
  MaxFrame = 2
  Task = {t1}
  MaxTime = 2
  MaxSkew = 0
  MaxWrites = 2
  MaxRestarts = 0
PROPERTIES ConvergesUnlessSkipped
