\* Two nodes, one perfect clock, two writes of different keys.
SPECIFICATION Spec
CONSTANTS
  Key = {k1, k2}
  Value = {a}
  Node = {1, 2}
  None = None
  Writer = {1}
  Restarter = {}
  Seeds <- StarSeeds
  Fanout = 1
  MaxFrame = 2
  Task = {t1}
  MaxTime = 2
  MaxSkew = 0
  MaxWrites = 2
  MaxRestarts = 0
INVARIANT SilentConverged
SYMMETRY Interchangeable
