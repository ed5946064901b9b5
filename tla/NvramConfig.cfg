CONSTANTS
  Configs  = {"defaults", "c1", "c2"}
  Defaults = "defaults"
  Erased = "erased"
  Torn   = "torn"
  MaxEdits  = 3
  MaxResets = 1
  MaxPowerFailures = 2
  ResetWhileSaving = FALSE
  Rows = 2
  RowsPerPage = 2
  Buffers = 3
  TokenMax = 2
  Sources = {"s"}
  MaxRows = 2
SPECIFICATION MC_Spec
INVARIANTS TypeOK MediaAsCommanded CompletedIfDone ProgramsErasedFlash KeepsWhatWasSaved WornOnlyByChanges
PROPERTY SavedEventually
