SPECIFICATION Spec
CONSTANTS
    first = first
    later = later
    main = main
    old = old
    None = None
    Ids = {first, later}
    early = early
    late = late
    Prefixes = {early, late}
    Typed <- MCTyped
    Servers = {main, old}
    Reached <- MCReached
    Lan <- MCLan
SYMMETRY Interchangeable
INVARIANTS
    TypeOK
    NoOrphans
    SidebarFollows
    OneSubscription
    ClientIsCurrent
    OneEntryPerServer
PROPERTY
    OthersPanelsStand
