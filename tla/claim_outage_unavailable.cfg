SPECIFICATION Spec
CONSTANTS
    Cues = {projector}
    None = None
    WarnTicks = 1
    MaxQueue = 1
INVARIANT
    OutageIsUnavailable
