\* One controller stops the service and starts it again.
CONSTANTS
  Procs = {p1}
  ServiceFlags = {"CanBeSuspended"}
  Calls = {"start", "isRunning", "terminate"}
  MaxDaemons = 2
  MaxCrashes = 0
SPECIFICATION Spec
PROPERTY RunningIsSeen
