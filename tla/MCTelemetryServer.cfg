SPECIFICATION Spec
CONSTANTS
    p = p
    q = q
    a = a
    a2 = a2
    None = None
    Client = {c1}
    Name <- MCName
    Base <- MCBase
    Suffix <- MCSuffix
VIEW MCView
INVARIANTS TypeOK AliasMapsInverse
PROPERTY AliasNeverReassigned
CHECK_DEADLOCK FALSE
