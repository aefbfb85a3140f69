SPECIFICATION Spec
CONSTANTS
    a = a
    b = b
    d1 = d1
    d2 = d2
    Nowhere = Nowhere
    Live = Live
    Files = {a, b}
    Eligible = {a, b}
    Roots = {d1, d2}
    FirstFile <- MCFirstFile
    Worlds <- MCWorlds
INVARIANTS
    TypeOK
    OneBufferPerFile
    ClangdFollows
PROPERTY
    EditsSurvive
CHECK_DEADLOCK FALSE
