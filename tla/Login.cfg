SPECIFICATION Spec
CONSTANTS
  Groups = {a, b, c}
  NoAaa = {c}
  MaxTyped = 2
  MaxCodes = 3
INVARIANT NotPostedTwice
INVARIANT CodesLimited
INVARIANT HostScanOnce
INVARIANT GroupKept
PROPERTY ProbeEnds
CHECK_DEADLOCK FALSE
