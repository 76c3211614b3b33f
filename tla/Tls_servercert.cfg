\* As Tls.cfg, with --servercert and --cafile.
SPECIFICATION MCSpec
CONSTANTS
  Hosts = {h, i}
  PeerCerts = {c, d}
  Addresses = {a, b}
  MaxOpens = 3
  MaxTries = 2
INVARIANTS
  ServerCertObeyed
CHECK_DEADLOCK FALSE
