SPECIFICATION Spec
CONSTANTS
    Texts <- MCTexts
    Typed <- MCTyped
    Pasted <- MCPasted
    Widths <- MCWidths
    Shifts <- MCShifts
    MaxLen = 4
    MaxEdits = 3
    MaxGroups = 2
    MaxVersion = 4
INVARIANTS
    CleanIsSaved
    ClangdFollowsText
    StaysInside
PROPERTY
    KeepsTimeline
CHECK_DEADLOCK FALSE
