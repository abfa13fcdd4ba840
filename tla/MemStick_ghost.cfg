SPECIFICATION Spec
CONSTANTS
  Name <- MCName
  Upper <- MCUpper
  Dot = "."
  DotDot = ".."
  NoName = NoName
  StandardDirs <- MCStandardDirs
  RawPath <- NamesRawPath
  OpenMode <- NamesOpenMode
  Chunk <- OneByte
  ReadSize = {1}
  SeekOffset = {}
  Rule = {"renameIntoTree"}
  MaxLen = 1
  MaxHandles = 2
  MaxNodes = 5
  MaxDepth = 3
INVARIANTS ExportNamesClean
