SPECIFICATION Spec
CONSTANTS
    MaxGen = 1
    MaxClicks = 0
    MaxFlashes = 1
    MaxActs = 1
    d = d
    b = b
    Control <- MCControl
    Dip <- MCDip
INVARIANT
    FlashResumesSim
CHECK_DEADLOCK FALSE
