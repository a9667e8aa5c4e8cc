SPECIFICATION FairReaderSpec
CONSTANTS
  MaxHeader = 8
  Chunks <- MCChunks
  Lifetime = 1
INVARIANTS LimitIsExact LinesAreTheHeader
PROPERTIES ReadingEnds
