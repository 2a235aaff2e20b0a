SPECIFICATION FairSpec
CONSTANTS
    A = A
    B = B
    Shift = Shift
    Index <- MCIndex
    OrdinaryCodes <- MCOrdinary
    ModifierCodes <- MCModifiers
    KeyFn = KeyFn
    LayerCodes = {}
    Rules <- MCRules
    Keystrokes <- MCKeystrokes
    FnMax = 2
    PressedMax = 3
    ReportSlots = 1
    KeyCount = 3
    SlaveKeyCount = 3
    WordBits = 2
    MasterIsLeft = FALSE
    RaceModes = {FALSE}
    MasterBitmaps <- MCMasterBitmaps
    SlaveBitmaps <- MCSlaveBitmaps
INVARIANTS FnOwned
PROPERTIES NoFlicker ReleaseReported
