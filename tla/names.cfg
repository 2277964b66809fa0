SPECIFICATION Spec
CONSTANTS
    Names = {projectors, beamers, screens}
    None = None
INVARIANTS
    TypeOK
    HandKept
    FollowsServer
