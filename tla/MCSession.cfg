SPECIFICATION Spec
CONSTANTS
  Width <- MCWidth
  Invalid = {"x8"}
  UnsafeInPath = {"*"}
  NoText = NoText
  MAX_NAME = 4
  NUMBERED = 3
  TRIES = 2
  ID3_FD_BUFSIZE = 6
  Latin1 <- MCLatin1
  GenreNames <- MCGenreNames
  Argvs <- MCArgvs
  Discs <- MCDiscs
  FileSystems <- MCFileSystems
  Numbers <- MCNumbers
  Spelled <- MCSpelled
  SELECTABLE = 4
INVARIANTS
  OptionsHonoured
PROPERTIES
  NothingOverwritten
