CONSTANTS
  Capacity = 4
  ChunkLengths = {2, 5}
  ReadLengths = {1, 8}
  SEM_VALUE_MAX = 3
SPECIFICATION FairPipeSpec
PROPERTY OverflowDrops
