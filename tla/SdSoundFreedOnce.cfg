CONSTANTS
  BufSize = 2
  Lengths = {3}
  Blocks  = {1, 2, 3, 4}
  MaxSounds   = 2
  MaxPictures = 0
  IoErrors = FALSE
SPECIFICATION Spec
INVARIANT FreedOnce
