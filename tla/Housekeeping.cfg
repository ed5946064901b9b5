CONSTANTS
    Names <- MC_Names
    Lines <- MC_Lines
    PushLength = 1
    ContrastPause = 0
    ContrastSamples = 0
    TempPause = 0
    ConversionPasses = 4
    MaxMissed = 1
SPECIFICATION Spec
INVARIANTS TemperatureFresh SubscreenOnItsParent EditOnlyInSettings
