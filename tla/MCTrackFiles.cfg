SPECIFICATION Spec
CONSTANTS
  FRAME_SIZE_64 = 4
  MAX_DST_SIZE = 12
  SACD_BLOCK_SIZE_PER_CHANNEL = 3
  Zero = Zero
  Discs <- MCDiscs
  Formats <- MCFormats
  Selections <- MCSelections
  Texts <- MCTexts
  MaxBlock = 2
INVARIANTS
  TypeOK
  FramesExact
  SpreadFramesOnce
  DsfFilesRight
  DsdiffFilesRight
