\* Two clients and two calls, over two starts; a day of six seconds, an int that
\* ends at 15 and two milliseconds to the second.  The daemon may end for good.
CONSTANTS
  Clients = {c1, c2}
  Addrs = {a1, a2}
  Sent = {"pause", "resume", "terminate", "num"}
  MaxCalls = 2
  Intervals <- MCIntervals
  Day = 6
  Milli = 2
  MaxInt = 15
  Early = 1
  Late = 1
  MaxStarts = 2
  MaxClock = 2
  MaxThreadsCount = 1
  DbRows = 2
  LastPage = 1
  MaxLinks = 1
  MaxDbErrors = 0
SPECIFICATION Spec
SYMMETRY ClientsAndAddrs
INVARIANTS
  ExecutedAsSent
  NothingForged
  SilentOnlyIf
PROPERTIES
  PauseHolds
  LoadsApart
CHECK_DEADLOCK FALSE
