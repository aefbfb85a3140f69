SPECIFICATION FairSpec
CONSTANTS
    Calls = {c1, c2}
    Bye = bye
    MaxNotes = 1
    MaxAsks = 2
    PipeCap = 1
INVARIANTS
    TypeOK
    AsksAreReplied
PROPERTIES
    KeepsPromise
    DroppedClangdEnds
CHECK_DEADLOCK FALSE
