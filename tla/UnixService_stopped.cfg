CONSTANTS
  Procs = {p1}
  ServiceFlags = {"CanBeSuspended"}
  Calls = {"start", "terminate"}
  MaxDaemons = 1
  MaxCrashes = 0
SPECIFICATION Spec
INVARIANT StoppedWhenTold
