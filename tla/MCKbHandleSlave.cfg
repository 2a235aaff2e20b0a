SPECIFICATION Spec
CONSTANTS
  A = A
  KeyFn = KeyFn
  Index <- MCIndex
  OrdinaryCodes <- MCOrdinary
  ModifierCodes <- MCNoCodes
  LayerCodes <- MCNoCodes
  Rules <- MCRules
  Keystrokes <- MCKeystrokes
  FnMax = 2
  PressedMax = 2
  ReportSlots = 6
  KeyCount = 3
  WordBits = 2
  RaceModes <- MCRaceModes
  Bitmaps <- MCBitmaps
INVARIANTS
  TypeOK
  SlaveFnOwned
  SentCurrent
PROPERTIES
  ImplementsSlaveSends
