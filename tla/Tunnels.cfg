\* One packet, one key message or two checks of the host, one loss of TLS or pause, one
\* retry, for each protocol.
SPECIFICATION Spec
CONSTANTS
  Protocols = {"nc", "pulse", "gp", "array"}
  Packets = 1
  MaxQlen = 2
  MaxProbes = 1
  MaxRekeys = 1
  MaxChecks = 2
  MaxLosses = 1
  MaxRetries = 1
INVARIANTS
  ServerNotMisled
  GpKeysValid
PROPERTIES
  NoneStuck
  UdpComesBack
  HipRechecked
