CONSTANTS
    Discs <- MCDiscs
    Requests <- MCRequests
    MaxBlock = 3
SPECIFICATION FairSpec
CHECK_DEADLOCK FALSE
INVARIANTS
    TypeOK
    SectorsInOrder
    KeptFilesWhole
    NothingLeftBehind
    OneDecoder
PROPERTIES
    FrameThreadUndisturbed
    RipEnds
    StopEnds
