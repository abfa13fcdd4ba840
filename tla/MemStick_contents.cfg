SPECIFICATION Spec
CONSTANTS
  Name <- MCName
  Upper <- MCUpper
  Dot = "."
  DotDot = ".."
  NoName = NoName
  StandardDirs = {}
  RawPath <- ContentsRawPath
  OpenMode <- ContentsOpenMode
  Chunk <- TwoChunks
  ReadSize = {1, 3}
  SeekOffset <- MCSeekOffset
  Rule = {"closeBeforeRename", "renameIntoTree", "oneTruncator"}
  MaxLen = 3
  MaxHandles = 2
  MaxNodes = 2
  MaxDepth = 1
INVARIANTS TypeOK TruncationWithinFile
PROPERTIES ErasesOnlyAtClose
