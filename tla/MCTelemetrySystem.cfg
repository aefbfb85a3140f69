SPECIFICATION SysSpec
CONSTANTS
    b1 = b1
    b2 = b2
    p = p
    q = q
    l = l
    a = a
    None = None
    Client = {c1}
    Buf = {b1, b2}
    MaxToggles = 1
    MaxLag = 1
    Name <- MCName
    Base <- MCBase
    Suffix <- MCSuffix
    Placeholder <- MCPlaceholder
    Label <- MCLabel
    InitPrefs <- MCPrefs
SYMMETRY MCSwap
INVARIANTS SysTypeOK CheckedLabelIsStreamed SidebarMatchesServer
CHECK_DEADLOCK FALSE
