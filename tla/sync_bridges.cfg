SPECIFICATION Spec
CONSTANTS
    c1 = c1
    c2 = c2
    named = named
    whole = whole
    solo = solo
    Cues = {c1, c2}
    Homes = {named, whole}
    Accessories = {}
    Admits <- NamedAndWhole
    Wholesale = {whole}
    None = None
    DelayTicks = 2
    Loops = {1, 2}
INVARIANTS TypeOK BridgesFollow OnlyStrandedLinger
PROPERTIES ReloadWaitsForQuiet ReloadingOursReloadsNothing
