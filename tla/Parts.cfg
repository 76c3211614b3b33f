\* 4 backlog bits and 9 sequence numbers; two programs with one token; paths and MTUs
\* of a few units.
SPECIFICATION MCSpec
CONSTANTS
  W = 4
  MaxSeq = 8
  Protect = TRUE
  Clients = {p, q}
  MaxCounter = 4
  MaxCrashes = 2
  Paths = {7, 9}
  Mtus = {8}
  MinBase = 7
  absolute_min = 2
  MaxTries = 2
  MaxConnects = 2
INVARIANTS
  WindowTellsTruth
  SentOnce
  MtuFound
PROPERTIES
  ImplementsOnceOnly
CHECK_DEADLOCK FALSE
