\* The pool with large blocks, and the page of blocks of one size.
CONSTANTS
    Size = 5
    Requests = {1, 5, 6}
    LargeBlocks = {a, b}
    NoBlock = NoBlock
    MaxNodes = 8
    MaxBlocks = 9
    PageWords = 8
    BlockSizes = {2, 3, 8, 9}
    Null = Null
    Data = Data
SPECIFICATION BothSpec
INVARIANTS
    BlocksApart
    LargeCustody
    FreeListSound
\* A pool that is destroyed, or a page too small for a block, is the end.
CHECK_DEADLOCK FALSE
