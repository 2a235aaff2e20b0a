SPECIFICATION Spec
CONSTANTS
    MuxCnt = 2
    Channels <- MCChannels
    SelCnt = 2
    HasEn <- MCHasEn
INVARIANTS ValuesCurrent
