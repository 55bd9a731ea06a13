\* Two controllers and two daemons, one of which may crash.
CONSTANTS
  Procs = {p1, p2}
  ServiceFlags = {"CanBeSuspended"}
  Calls = {"start", "controllerStart", "isRunning", "terminate", "pause"}
  MaxDaemons = 2
  MaxCrashes = 1
SPECIFICATION FairSpec
INVARIANTS
  OneDaemon
  ServingIsReachable
  StaleFileMeansCrash
PROPERTIES
  CallsReturn
  StopStops
  ImplementsServiceControl
