SPECIFICATION FairSpec
CONSTANTS
    MaxLines = 3
    MaxDepth = 3
INVARIANTS
    TextIsKept
PROPERTIES
    ClosedBlocksAreFinal
    LinesAreFinished
