\* Two calls by two tasks, a clock that may step back, a channel of one event.
SPECIFICATION MCSpec
CONSTANTS
  Key = {k1, k2}
  Value = {a}
  Node = {1, 2}
  None = None
  Self = 1
  Task = {t1, t2}
  MaxTime = 2
  MaxOps = 2
  Capacity = 1
INVARIANTS TypeOK StateAnnounced EventsWereState MirrorTypeOK NoGap MirrorBehind ReadsNeverGoBack StatusConsistent
PROPERTIES AnnouncedInTheEnd MirrorCatchesUp
