CONSTANTS
    None = None
    Keys = {}
    Pages <- MCPages
    Durations = {1}
    Versions <- MCVersions
    Feeds <- MCFeeds
    Kind <- MCKind
    MaxTasks = 1

SPECIFICATION FairRefresh

INVARIANTS
    ShownFeedsAreKept
    ChangesAreSeen

PROPERTY ScreenCatchesUp
