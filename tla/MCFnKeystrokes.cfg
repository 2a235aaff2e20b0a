SPECIFICATION FnSpec
CONSTANTS
    Index <- MCIndex
    OrdinaryCodes <- MCOrdinary
    ModifierCodes <- MCModifiers
    KeyFn = "FN"
    LayerCodes <- LayerCode
    Rules <- ChocoKeymap
    Keystrokes <- MCKeystrokes
    FnMax = 3
    PressedMax = 10
    ReportSlots = 6
    Registered <- ChocoKeystrokes
    FactoryReset = "factory_reset"
    HeldMax = 2
INVARIANTS FactoryResetMeant
