SPECIFICATION Spec
CONSTANTS
    Normal = Normal
    Race = Race
    R1 = R1
    R2 = R2
    R3 = R3
    None = None
    KeyCount = 3
    SlaveKeyCount = 3
    MasterIsLeft = FALSE
    Rule <- MCRule
    RulesMax = 2
    DefaultKeymap <- MCKeymap
    Minimum = 0
    Maximum = 3
    Percent = 50
    Modes <- MCModes
    NormalMode = Normal
    Version = 3
    ImageSize = 10
    FlashImages <- MCFlashImages
    Lines <- MCLines
    Channel <- MCChannel
    Reading <- MCReading
INVARIANTS TypeOK KeymapAligned LinesRecover BitmapExact RaceGreatest
PROPERTIES SettingsRemembered
