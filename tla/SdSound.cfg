CONSTANTS
  BufSize = 2
  Lengths = {3, 4, 5, 6}
  Blocks  = {1, 2, 3, 4}
  MaxSounds   = 2
  MaxPictures = 1
  IoErrors = TRUE
  FifoSize = 4
  HwMark = 2
  Sizes = {0, 1, 3, 7}
  MaxJobs = 2
SPECIFICATION MC_Spec
INVARIANTS AnswersInOrder JobsGoOn PlaysInOrder TailLossBounded RefillsTheIdleBuffer BuffersReturned
PROPERTY PlaybackEnds
