SPECIFICATION FairSpec
CHECK_DEADLOCK FALSE
CONSTANTS
    Calls = {first, second}
    Entities = {projectors}
    None = None
INVARIANTS
    TypeOK
    PressedOnce
    ToldWhatHappened
    ShownIsLatest
    WarnedPerRun
PROPERTY
    CallEnds
