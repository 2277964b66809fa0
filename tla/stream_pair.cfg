SPECIFICATION FairSpec
CONSTANTS
    Cues = {projector, lights}
    None = None
    WarnTicks = 2
    MaxQueue = 2
INVARIANTS
    TypeOK
    NoPollBesideStream
    QuietIsCurrent
    WarnedOnce
PROPERTIES
    DropIsRepaired
    OutageIsWarned
