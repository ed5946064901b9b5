CONSTANTS
  Configs  = {"defaults", "c1", "c2"}
  Defaults = "defaults"
  Erased = "erased"
  Torn   = "torn"
  MaxEdits  = 1
  MaxResets = 1
  MaxPowerFailures = 0
  ResetWhileSaving = TRUE
SPECIFICATION Spec
PROPERTY WrittenIfDiffers
