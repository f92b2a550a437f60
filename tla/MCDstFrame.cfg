SPECIFICATION Spec
CONSTANTS
  RESOL = 2
  SIZE_STUFFING = 1
  MAX_CHANNELS = 2
  MAXNROF_SEGS = 2
  MAXNROF_FSEGS = 1
  MAXNROF_PSEGS = 2
  MIN_FSEG_LEN = 4
  MIN_PSEG_LEN = 2
  SIZE_CODEDPREDORDER = 2
  SIZE_PREDCOEF = 2
  AC_BITS = 3
  AC_HISBITS = 1
  SIZE_RICEMETHOD = 2
  SIZE_RICEM = 1
  MaxFrameLen = 6
  ChannelCounts = {1, 2}
  FrameSizes = {1, 10, 13, 16, 20}
  PredOrders = {1, 4}
  PtableLens = {1, 2}
  Coefs <- MCCoefs
  Entries = {1, 4}
  RiceNumbers <- MCRice
  Stale = {3}
  NBITS = 4
  WORD = 12
  PlainBytes = {0, 2}
  SILENCE = 1
CONSTRAINT LongFrames
INVARIANTS
  TypeOK
  TablesDefined
  PredictionExact
  FrameAnswered
PROPERTIES
  StaysInInterval
CHECK_DEADLOCK FALSE
