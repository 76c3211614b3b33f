\* Deflate beside LZS on DTLS with two packets, and no compression with three.
SPECIFICATION MCSpec
CONSTANTS
  Packets = 2
  MaxQlen = 2
  CstpCompr = "deflate"
  DtlsCompr = "lzs"
  SslRekey = "tunnel"
  DtlsRekey = "ssl"
  MaxSid = 1
INVARIANTS
  EachPacketOnce
  StalledWriteRetried
  StreamsInStep
PROPERTIES
  PlainAllSent
