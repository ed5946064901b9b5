CONSTANTS
    Names <- MC_FewNames
    Lines <- MC_Lines
    Kinds <- MC_NoKinds
    NumVideos = 1
    MaxUser = 2
    MaxAlarms = 0
    MaxResets = 0
SPECIFICATION Spec
PROPERTY PushLeavesSubscreen
