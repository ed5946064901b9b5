CONSTANTS
    Side = 6
    Cell = 2
    Tall = 3
    Band = 2
    Spots <- MC_Spots
    Letters = {"A", "B", "C", "D"}
    Calls <- MC_Calls
    BufSize = 10
    StepBack = 3
    MaxBuf = 4
    Fields = 2
    RepeaterFields = 1
    ListSize = 10
SPECIFICATION MC_Spec
INVARIANTS DrawnAsAsked IndicatorsShowValues StationsFound TemperatureRight
