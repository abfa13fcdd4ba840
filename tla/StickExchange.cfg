SPECIFICATION XSpec
CONSTANTS
  Name <- MCName
  Upper <- MCUpper
  Dot = "."
  DotDot = ".."
  NoName = NoName
  PSP = "PSP"
  Unclean = {"V1..2"}
  StandardDirs <- MCStandardDirs
  RawPath <- MCRawPath
  OpenMode <- MCOpenMode
  Chunk <- MCChunk
  ReadSize = {}
  SeekOffset = {}
  SaveZip <- MCSaveZip
  DlcZip <- MCDlcZip
  SavesUnder <- MCSavesUnder
  DlcUnder <- MCDlcUnder
  Rule = {"closeBeforeRename", "renameIntoTree"}
  MaxLen = 1
  MaxHandles = 1
  MaxNodes = 7
  MaxDepth = 4
INVARIANTS SeedsArrive SeedsReachable SeedsStayBelowPSP RoundTrip
CHECK_DEADLOCK FALSE
