\* One write at node 1, one restart of node 2.
SPECIFICATION FairCrashSpec
CONSTANTS
  Key = {k1}
  Value = {a}
  Node = {1, 2}
  None = None
  Writer = {1}
  Restarter = {2}
  Seeds <- StarSeeds
  Fanout = 1
  MaxFrame = 2
  Task = {t1}
  MaxTime = 1
  MaxSkew = 0
  MaxWrites = 1
  MaxRestarts = 1
PROPERTY Convergence
