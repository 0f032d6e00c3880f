CONSTANTS
    None = None
    Saver = Saver
    Keys = {1, 2}
    Pages = {}
    Looks = {a, b}
    MaxOpens = 3
    MaxQueue = 3
    MaxFaults = 2

SPECIFICATION FairDevice

INVARIANTS
    RecordedIsShown
    HandlesAgree

PROPERTY
    GlassCatchesUp
