\* Two ports that may be the same, two connections, one inbound, two sends.
SPECIFICATION FairSpec
CONSTANTS
  Port = {p1, p2}
  Conn = {c1, c2}
  Inbound = {i1}
  Send = {s1, s2}
INVARIANT TypeOK
PROPERTIES ShutdownCompletes PartsIndependent
CHECK_DEADLOCK FALSE
