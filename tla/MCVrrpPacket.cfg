CONSTANTS
  Adverts <- MCAdverts
  Src <- MCSrc
  Dst <- MCDst
  Options = {0, 4}
  MinFrame = 46
  Deltas = {1, 16, 128, 255}
  BufLen = 60
  MaxFrames = 2
  NoAdvert = NoAdvert
SPECIFICATION PacketSpec
INVARIANTS ExactlyWholeHeard OnlyThisFrame
CHECK_DEADLOCK FALSE
