SPECIFICATION FairSpec
CONSTANTS
  None = None
  MinSpeed = 1
  MaxSpeed = 1
  Counters = {c1, c2}
  Samples <- MCSamples
  MotionTimeout = 2
  PollInterval = 1
  StaleAfter = 1
  RetryBase = 1
  RetryMax = 2
  MaxFailures = 2
  MaxEvents = 2
  MaxStops = 2
  MaxMotions = 1
INVARIANT FaultIsCurrent
INVARIANT MotionIsJustified
INVARIANT RequestsAreAccounted
INVARIANT ShutdownComesLast
PROPERTY StopsAreServed
PROPERTY LinkComesBack
PROPERTY ShutdownEnds
CHECK_DEADLOCK FALSE
