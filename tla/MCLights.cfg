SPECIFICATION LightsFairSpec
CONSTANTS
    ModeCount = 3
    Brightness <- MCBrightness
    SavedModes <- MCSavedModes
    Frame <- MCFrame
    None = None
    Blank = Blank
INVARIANTS TypeOK FrameOfMode StripTypeOK FrameWhole
PROPERTIES StateRemembered BufferQuiet UpdateReturns ModeShown
