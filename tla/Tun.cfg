\* Rings for two packets, whose indexes wrap at 4.
SPECIFICATION TunSpec
CONSTANTS
  Loads <- MCLoads
  RingSize = 2
  IndexSpan = 4
  max_qlen = 2
  MaxStalls = 1
PROPERTIES
  ImplementsPipes
  AllDelivered
CHECK_DEADLOCK FALSE
