SPECIFICATION FairSpec
CONSTANTS
    Cues = {projector}
    Reasons = {no_reason, some_reason}
    NoReason = no_reason
    None = None
    SettleTicks = 2
    MaxCalls = 2
    MaxGen = 1
INVARIANTS
    TypeOK
    GiveBackIsLastRead
    ShowsLastRead
    SettlingIsBacked
    OwnTimerNotEarly
PROPERTIES
    OwnWindowEnds
    KeepsPromise
