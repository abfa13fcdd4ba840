SPECIFICATION GateSpec
CONSTANTS
  Legs <- MCLegs
  Movies <- MCMovies
  Pattern <- MCPattern
  Frames = 5
  Empty = Empty
INVARIANTS MovieIsHeard TwinsHear SamePictures
CHECK_DEADLOCK FALSE
