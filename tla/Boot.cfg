SPECIFICATION BootSpec
CONSTANTS
  LastYear = 2101
  Atoi <- MCAtoi
  Scanned <- MCScanned
  Today = "today"
  WellFormedMac <- MCMac
  Text <- MCText
  Embedded <- MCEmbedded
  FontFiles <- MCFontFiles
  ReadSize = {1, 2}
  Project <- MCProject
  BootDay <- MCBootDay
INVARIANTS TypeOK DaysAreCounted AsChosen TwinsAgree  DiscFound OverrideWins AllListed
CHECK_DEADLOCK FALSE
