SPECIFICATION Spec
CONSTANTS
    A = A
    A1 = A1
    Shift = Shift
    Layer1 = Layer1
    Index <- MCIndex
    OrdinaryCodes <- MCOrdinary
    ModifierCodes <- MCModifiers
    KeyFn = KeyFn
    LayerCodes <- MCLayers
    Rules <- MCRules
    Keystrokes <- MCKeystrokes
    FnMax = 1
    PressedMax = 2
    ReportSlots = 1
    KeyCount = 2
    SlaveKeyCount = 2
    WordBits = 1
    MasterIsLeft = TRUE
    RaceModes = {TRUE, FALSE}
    MasterBitmaps <- MCBitmaps
    SlaveBitmaps <- MCBitmaps
INVARIANTS TypeOK PressedOwned LayersOwned
PROPERTIES OnlyOwnRelease
