CONSTANTS
    Discs <- MCDiscs
    Requests <- MCRequests
    MaxBlock = 3
SPECIFICATION Spec
CHECK_DEADLOCK FALSE
PROPERTIES
    NoFileAfterInterrupt
