SPECIFICATION FairSpec
CONSTANTS
  MaxOutput = 2
  MaxInput = 2
  BufferSize = 1
INVARIANTS
  TeardownAfterIo
  OnlyRacedOutputIsLost
  ResponseIsResults
PROPERTIES
  EventuallyReleased
  
CHECK_DEADLOCK FALSE
