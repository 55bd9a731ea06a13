\* One controller that starts and stops the service.
SPECIFICATION Spec
CONSTANTS
  Procs = {p1}
  ServiceFlags = {"CanBeSuspended", "NeedsStopOnShutdown"}
  Calls = {"start", "STOP", "PAUSE"}
  MaxStarts = 1
INVARIANTS
  NoHandlerAfterCleanup
