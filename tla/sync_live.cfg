SPECIFICATION FairSpec
CONSTANTS
    c1 = c1
    c2 = c2
    named = named
    whole = whole
    solo = solo
    Cues = {c1, c2}
    Homes = {named, solo}
    Accessories = {solo}
    Admits <- NamedAndSolo
    Wholesale = {}
    None = None
    DelayTicks = 1
    Loops = {1}
PROPERTIES BridgesCatchUp
