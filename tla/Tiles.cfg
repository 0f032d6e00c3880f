CONSTANTS
    None = None
    Subjects <- MCSubjects
    Configs <- MCConfigs
    Instants <- MCInstants
    Answers <- MCAnswers
    TokenAnswers <- MCTokenAnswers
    MaxFetches = 2
    MaxReloads = 1
    MaxRevoked = 2

    Sound <- MCSound
    Targets <- MCTargets
    AudioKeys <- MCAudioKeys
    MaxPresses = 2
    MaxTurns = 1

    Songs <- MCSongs
    Playlists <- MCPlaylists
    PlayerKeys <- MCPlayerKeys
    CoverLimit = 1
    MaxJobs = 1
    MaxReads = 3
    MaxSkips = 1
    Microphones <- MCMicrophones
    MaxLinks = 3

    Owners <- MCOwners
    Scenes <- MCScenes
    MaxScenes = 2
    MaxStatuses = 2

    Processes <- MCProcesses
    AppCommands <- MCAppCommands
    HistorySize = 3
    RecentKeys = 2
    MaxErrands = 1
    MaxPolls = 4
    MaxSwitches = 3

    Curve <- MCCurve
    LightConfigs <- MCLightConfigs
    Readings <- MCReadings
    MaxReadings = 3
    MaxUnplugs = 1

SPECIFICATION ControlsSpec

INVARIANTS
    MarksAreHonest
    GlancesAreRight
    OpensWhatIsShown
    PressesHitTheirTarget
    OutcomesAreFiled
    BrightnessFollows

PROPERTIES
    LevelsAddUp

CHECK_DEADLOCK FALSE
