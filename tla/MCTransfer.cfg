SPECIFICATION FairTransferSpec
CONSTANTS
  HeadLength = 2
  Length = 4
  MaxSize = 5
  MaxChunk = 3
  BufferSize = 2
  Lifetime = 2
INVARIANTS InOrder OkIsComplete
PROPERTIES TransferEnds

