SPECIFICATION FairSpec
CONSTANTS
    MaxLaunches = 3
    MaxStops = 1
    Clicks = {"build", "run", "tracked", "debug", "stop", "step"}
INVARIANTS
    TypeOK
    OneChild
    ButtonsComeBack
    RecordsAreOfTheirRun
PROPERTY
    DeferredLaunchEnds
CHECK_DEADLOCK FALSE
