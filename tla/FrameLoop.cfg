SPECIFICATION FairSpec
CONSTANTS
  Pic = {blank, p}
  Blank = blank
  Off = Off
  Presented = {p, Off}
  Slot = {s1}
  Empty = Empty
  Guard = 2
  AudioRoom = 1
  MaxSound = 2
  MaxFlips = 2
  MaxVblanks = 2
  Stop = {"error"}
INVARIANTS TypeOK HostFramesNest SoundOfTheFrame TurboIsInvisible SamePicture
PROPERTIES FrameIsOneVblank FrameReturns
