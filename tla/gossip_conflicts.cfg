\* Two values race for one key on two nodes whose clocks are skewed.
SPECIFICATION Spec
CONSTANTS
  Key = {k1}
  Value = {a, b}
  Node = {1, 2}
  None = None
  Writer = {1, 2}
  Restarter = {}
  Seeds <- StarSeeds
  Fanout = 1
  MaxFrame = 2
  Task = {t1}
  MaxTime = 1
  MaxSkew = 1
  MaxWrites = 2
  MaxRestarts = 0
INVARIANTS TypeOK Agreement AuthorIsAhead
PROPERTIES NoRegress ImplementsReplicatedMap
SYMMETRY Interchangeable
