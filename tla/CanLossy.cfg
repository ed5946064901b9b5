CONSTANTS
  Geiger = Geiger
  Aprs   = Aprs
  None   = None
  Types  <- MC_Types
  SizeOf <- MC_ShortSizeOf
  FrameLen = 2
  GraphLen = 1
  MaxLost  = 2
  MaxAlien = 1
SPECIFICATION Spec
INVARIANTS OneBufferPerSequence CopyStaysInBuffer OneHeaderPerSequence
PROPERTIES DataPassedChecksum BackInStep
