SPECIFICATION Spec
CONSTANTS
  FB = {f1, f2}
  Pic = {blank, p}
  Blank = blank
  Slot = {s1}
  Empty = Empty
  Fits = {f1}
  SaveTold = {TRUE}
  LoadTold = {TRUE}
  EarlySave = TRUE
  MaxDevice = 4
INVARIANTS TypeOK NoCommandToDeadDevice ShadowIsThePicture
CHECK_DEADLOCK FALSE
PROPERTIES ImplementsSavedPicture
