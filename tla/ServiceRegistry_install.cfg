\* Two commands at a time, two executables, two databases.
SPECIFICATION Spec
CONSTANTS
  Procs = {p1, p2}
  Programs = {x1, x2}
  Databases = {db1, db2}
  StartupType = "ManualStartup"
PROPERTIES
  InstallInstalls
