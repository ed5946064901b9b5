CONSTANTS
  NFields = 2
  Values  = {"a", "b"}
  Default = "a"
  XorOf   <- MC_XorOf
  NumScreens = 3
  First      = 2
  SubScreens = {0, 3}
  Settings   = 3
  ActScreens = {2}
  MaxUser    = 4
  MaxDropped = 1
SPECIFICATION MC_Spec
PROPERTIES NoTornConfig ConfigConverges ViewKnownIfUnhurried
