CONSTANTS
    None = None
    NoState = NoState
    Torn = Torn
    States <- MCStates
    LastDay = 1
    MaxCounter = 1
    PersistDelay = 1
    MaxUpdates = 1
    MaxAccidents = 1

SPECIFICATION DailySpec

INVARIANTS
    NeverOverCounts
    StoredUnlessDirty

PROPERTIES
    ImplementsDurable
