SPECIFICATION LoopFairSpec
CONSTANTS
    Cues = {projector}
    Reasons = {no_reason}
    NoReason = no_reason
    None = None
    SettleTicks = 1
    MaxCalls = 1
    MaxGen = 0
    MaxQueue = 2
INVARIANT
    FollowsGear
PROPERTY
    ComesToRest
