\* The command-line client, whose commands come from its own signal handler; or the timers
\* of TLS, where every write may stall a second, and of DTLS, where a packet may be lost in
\* every silence.
SPECIFICATION MCSpec
CONSTANTS
  Commands = {"cancel", "pause", "detach", "stats"}
  Internal = TRUE
  ReconnectTimeout = 3
  ReconnectInterval = 1
  IntervalMax = 2
  MaxCommands = 3
  MaxLosses = 1
  MaxDelays = 2
  Dpd = 4
  KeepalivePeriod = 3
  Rekey = 10
  RekeyMethod = "ssl"
  Transports = {TRUE, FALSE}
  MaxStall = 1
  MaxLoss = 1
  Delay = 1
  Horizon = 22
INVARIANTS
  ReconnectTimeBounded
  OnlyDetachKeepsSession
  DeadPeerFound
PROPERTIES
  CommandsAreRead
  CancelEnds
  LivePeerKept
