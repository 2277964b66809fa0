SPECIFICATION Spec
CONSTANTS
    Cues = {projector}
    Reasons = {no_reason}
    NoReason = no_reason
    None = None
    SettleTicks = 2
    MaxCalls = 1
    MaxGen = 0
PROPERTY
    GivesBackLastRead
