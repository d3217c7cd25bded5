\* A node may restart; frames may be too large.
SPECIFICATION CrashSpec
CONSTANTS
  Key = {k1, k2}
  Value = {a}
  Node = {1, 2}
  None = None
  Writer = {1, 2}
  Restarter = {1, 2}
  Seeds <- StarSeeds
  Fanout = 1
  MaxFrame = 1
  Task = {t1}
  MaxTime = 2
  MaxSkew = 0
  MaxWrites = 2
  MaxRestarts = 1
INVARIANTS NothingInvented
SYMMETRY Interchangeable
