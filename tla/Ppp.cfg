\* F5 with Legacy IP and IPv6, with and without DTLS.
SPECIFICATION PppSpec
CONSTANTS
  Wanted = {"IPCP", "IP6CP"}
  MaxControl = 1
PROPERTIES
  WhereNegotiated
  ClosesWithTermReq
