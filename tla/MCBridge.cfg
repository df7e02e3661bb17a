SPECIFICATION BridgeSpec
CONSTANTS
  Thread = {service, other}
  Service = service
  NULL = NULL
  Message <- MCMessage
  WRITE_BUFFER_LEN = 3
  Avm = 0
  Pipe = 2
  Packets <- MCPackets
  PipeBytes = {1, 2}
  PipeFraming <- Unframed
  AVM_OFFSET_FULL = 2
  Memory <- MCMemory
  READ_BUFFER_LEN = 4
  WireBound = 3
INVARIANTS HostHears OutputFits NothingLost
PROPERTY AvmAnswersAsked
