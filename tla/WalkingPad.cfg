SPECIFICATION FairSystem
CONSTANTS
  None = None
  MinSpeed = 1
  MaxSpeed = 2
  SpeedStep = 2
  Counters = {c1}
  Samples <- MCSamples
  Commands <- MCCommands
  MotionTimeout = 2
  PollInterval = 1
  StaleAfter = 1
  RetryBase = 1
  RetryMax = 1
  MaxFailures = 1
  MaxEvents = 2
  MaxStops = 1
  MaxMotions = 2
  MaxLag = 1
  ConfirmWithin = 3
  FeedbackTime = 2
INVARIANT DeckFollowsTask
INVARIANT PendingIsAnswered
INVARIANT FaultHoldsControls
PROPERTY PendingEndsVisibly
PROPERTY PendingResolves
INVARIANT KeysTellTheTruth
