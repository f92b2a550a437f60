CONSTANTS
    Procs = 2
    InLimit = 2
    MaxFrames = 4
    Corrupt <- MCCorrupt
SPECIFICATION FairSpec
INVARIANTS
    TypeOK
    DeliveredInOrder
    SpacesNotShared
    AssertionsHold
    NoThreadOutlivesDecoder
PROPERTIES
    ImplementsFrameStream
