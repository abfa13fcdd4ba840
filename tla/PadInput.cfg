SPECIFICATION Spec
CONSTANTS
  Button = {cross, l}
  XByte <- Edges
  YByte <- Edges
  Slot = {s1}
  Empty = Empty
INVARIANTS TypeOK HeldIsAsked StickOnItsSide PathsAgree
