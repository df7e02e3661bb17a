SPECIFICATION BridgeSpec
CONSTANTS
  Thread = {service, other}
  Service = service
  NULL = NULL
  Message <- MCMessage
  WRITE_BUFFER_LEN = 3
  Avm = 0
  Pipe = 2
  Packets <- MCPackets
  PipeBytes = {124}
  PipeFraming <- MaybeFramed
  AVM_OFFSET_FULL = 2
  Memory <- MCMemory
  READ_BUFFER_LEN = 4
  WireBound = 3
INVARIANT PipePure
