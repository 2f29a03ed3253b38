CONSTANTS
  TwoTo32 = 32
  TwoTo64 = 256
  TwoTo53 = 20
  MaxSignificand = 3
  MaxExponent = 20
  MaxPlain = 4
  Alignment = 2
  Header = 1
  ChunkCapacity = 6
  FirstCapacity = 0
  Sizes = {0, 1, 3, 8}
  Addresses = {1, 8, 10, 17}
  Handles = {h1, h2}
  MaxBlocks = 3
  InitialCapacity = 2
  Symbols = {"a", "b"}
  MaxOutput = 4
SPECIFICATION Spec
INVARIANTS ReadsJson  BlocksApart BufferHoldsOutput
CHECK_DEADLOCK FALSE
