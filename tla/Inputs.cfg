SPECIFICATION InputSpec
CONSTANTS
    BufferSize = 9
    LenBytes = 4
    MaxFrames = 3
    ValueLengths = {0, 1, 3, 4, 5, 11}
    Streams <- MCStreams
    ChunkSize = 6
    Word64 = 16
    WordBits = 4
    Mantissa = 3
    Word = 32
    Short = 8
INVARIANTS
    FramesIntact
    
    RequestBecomesTask
    NothingDropped
    ValidatedRuns
    
    
CHECK_DEADLOCK FALSE
