\* Two keys, overlapping and failing exchanges, skewed clocks.
SPECIFICATION Spec
CONSTANTS
  Key = {k1, k2}
  Value = {a}
  Node = {1, 2}
  None = None
  Writer = {1}
  Restarter = {}
  Seeds <- StarSeeds
  Fanout = 1
  MaxFrame = 2
  Task = {t1, t2}
  MaxTime = 1
  MaxSkew = 1
  MaxWrites = 2
  MaxRestarts = 0
INVARIANTS OnlyLateSkipped WatermarkBacked SilentSeedsAgree
PROPERTY NoRegress
SYMMETRY Interchangeable
