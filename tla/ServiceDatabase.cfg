\* Two processes, one of them without the rights of an administrator.
SPECIFICATION Spec
CONSTANTS
  Procs = {p1, p2}
  Admins = {p1}
  Accounts = {"none", "LocalSystem", "user", "unknown"}
  Calls = {"-install", "-uninstall", "-version", "-terminate", "-setDB", "start", "config"}
INVARIANTS
  RemovalCompletes
PROPERTIES
  ExitCodeMeans
  InstallFailsOnlyIf
