SPECIFICATION FairSpec
CONSTANTS
    MaxGen = 3
    MaxClicks = 2
    MaxFlashes = 1
    MaxActs = 2
    d = d
    b = b
    Control <- MCControl
    Dip <- MCDip
INVARIANTS
    TypeOK
    SimIsOfThePhase
    OrphanBuildsAborted
    PendingBuildReports
    InputsAgree
PROPERTY
    ShowsOnlyTheNewestSave
CHECK_DEADLOCK FALSE
