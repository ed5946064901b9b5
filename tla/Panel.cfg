CONSTANTS
    Names <- MC_Names
    Lines <- MC_Lines
    Kinds <- MC_Kinds
    NumVideos = 1
    MaxUser = 4
    MaxAlarms = 1
    MaxResets = 1
SPECIFICATION MC_Spec
PROPERTIES ImplementsNavigation AlarmPictureStays AlarmPictureEnds LiveScreenShown
