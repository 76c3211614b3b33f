\* Two hosts with two certificates and two addresses, three connections, two tries at a PIN.
SPECIFICATION MCSpec
CONSTANTS
  Hosts = {h, i}
  PeerCerts = {c, d}
  Addresses = {a, b}
  MaxOpens = 3
  MaxTries = 2
INVARIANTS
  PeerIsKnown
  SecretsNotRepeated
  ChainFits
CHECK_DEADLOCK FALSE
