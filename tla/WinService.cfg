\* One controller, which a time-out sets free while its control is handled.
SPECIFICATION FairSpec
CONSTANTS
  Procs = {p1}
  ServiceFlags = {"CanBeSuspended", "NeedsStopOnShutdown"}
  Calls = {"start", "STOP", "PAUSE", "CONTINUE", "num", "INTERROGATE", "SHUTDOWN"}
  MaxStarts = 2
INVARIANTS
  StoppedMeansEnded
  NobodyWaitsInVain
PROPERTIES
  HandlersReturn
  StartIsShown
  StopEndsProcess
  ImplementsServiceLife
