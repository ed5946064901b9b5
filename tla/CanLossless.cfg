CONSTANTS
  Geiger = Geiger
  Aprs   = Aprs
  None   = None
  Types  <- MC_Types
  SizeOf <- MC_SizeOf
  FrameLen = 2
  GraphLen = 2
  MaxLost  = 0
  MaxAlien = 0
SPECIFICATION Spec
INVARIANTS RingHoldsLatest StationsNearestFirst
PROPERTY WholeMessages
