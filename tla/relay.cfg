SPECIFICATION Spec
CONSTANTS
  Conns = {c1}
  Endings = {"eof", "reset", "timeout"}
  MaxDelay = 1
  MaxChunks = 2
  MaxTime = 2
INVARIANTS
  TypeOK
  NothingDropped
  NoLeak
  DrainsInTime
PROPERTIES
  WanDelays
  HandlersEnd
  RtspServed
