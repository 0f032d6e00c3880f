CONSTANTS
    None = None
    Minute = 1
    LongBreakEvery = 2
    Shortest <- MCShortest
    Longest <- MCLongest
    FirstMinutes <- MCFirstMinutes
    Step <- MCStep
    MaxLate = 2
    Naps = {1, 3}
    MaxCompleted <- MCMaxCompleted
    MaxLag = 1
    MaxInbox = 1

SPECIFICATION FairSpec

INVARIANTS
    TimerWithinPhase
    RestartResumes
    PhaseEndIsRight

PROPERTIES
    CreditedOnce
    ExpiryIsHandled
