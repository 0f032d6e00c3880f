CONSTANTS
    None = None
    Keys <- MCKeys
    Pages <- MCPages
    Binding <- MCBinding
    FirstPage = "home"
    Longest = 2
    Thresholds = {1, 2}
    Durations = {2}
    HoldTimes = {2}
    MaxQueue = 2
    MaxUnplugs = 1

SPECIFICATION FairPresses

INVARIANTS
    FiresWhereItWentDown
    PressesEndOnce

PROPERTY
    PanelCloses
