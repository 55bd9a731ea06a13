--------------------------- MODULE ServiceRegistry ---------------------------
(***************************************************************************)
(* The settings of the service on Unix: the commands of                    *)
(* QtServiceBase::exec that read and write them (qtservice.cpp) and the    *)
(* functions behind these (qtservice_unix.cpp).                            *)
(*                                                                         *)
(* Commands are processes that share one group of QSettings keys.          *)
(* QSettings reads the file when it is opened and, in sync(), applies the  *)
(* changes made since to what the file holds then, in one step.            *)
(***************************************************************************)
EXTENDS Naturals, FiniteSets

CONSTANTS Procs,        \* processes that execute commands
          Programs,     \* executables of the service
          Databases,    \* sets of database parameters
          StartupType   \* the startup type that the service asks for

ASSUME StartupAssumption == StartupType \in {"AutoStartup", "ManualStartup"}

DbKeys == {"db/host", "db/user", "db/password", "db/dbname"}
Keys == {"path", "automaticStartup"} \cup DbKeys
NoValue == "none"
ASSUME ValuesAssumption == NoValue \notin Programs \cup Databases

VARIABLES
  settings,  \* the group of the service: the value of each key, or NoValue
  proc,      \* the commands that run
  overlap    \* history: two installations or uninstallations overlapped

vars == <<settings, proc, overlap>>

Commands == {"install", "uninstall", "setDB"}

\* A command is "called", has found that it is to "change" something, or is
\* "idle"; result says that the last one exited with 0.
Proc == [command : Commands, value : Programs \cup Databases \cup {NoValue},
         stage : {"idle", "called", "change"}, seen : SUBSET Keys, result : BOOLEAN]

Idle(command, ok) == [command |-> command, value |-> NoValue, stage |-> "idle",
                      seen |-> {}, result |-> ok]

Init ==
  /\ settings = [k \in Keys |-> NoValue]
  /\ proc = [p \in Procs |-> Idle("setDB", FALSE)]
  /\ overlap = FALSE

Stored == {k \in Keys : settings[k] # NoValue}

\* isInstalled(): the group exists.
IsInstalled == Stored # {}

-----------------------------------------------------------------------------
Running(p, commands) == proc[p].stage # "idle" /\ proc[p].command \in commands

Call(p, command, value) ==
  /\ proc[p].stage = "idle"
  /\ proc' = [proc EXCEPT ![p] = [command |-> command, value |-> value,
                stage |-> "called", seen |-> {}, result |-> FALSE]]
  /\ overlap' = (overlap \/ (command # "setDB" /\
                  \E q \in Procs \ {p} : Running(q, {"install", "uninstall"})))
  /\ UNCHANGED settings

\* The definitions named <definition>_<Bug> are mutants: <definition> with a
\* plausible bug.  No other definition uses them.

\* Installs over an existing installation.
BeginInstall_Always(p) ==
  /\ proc[p].stage = "called" /\ proc[p].command = "install"
  /\ proc' = [proc EXCEPT ![p].stage = "change"]
  /\ UNCHANGED <<settings, overlap>>

\* "-i" of a service that is installed says so and exits with 0.
BeginInstall(p) ==
  /\ proc[p].stage = "called" /\ proc[p].command = "install"
  /\ proc' = [proc EXCEPT ![p] = IF IsInstalled THEN Idle("install", TRUE)
                                 ELSE [@ EXCEPT !.stage = "change"]]
  /\ UNCHANGED <<settings, overlap>>

\* "-u" of one that is not, likewise; else the keys that are there will go.
BeginUninstall(p) ==
  /\ proc[p].stage = "called" /\ proc[p].command = "uninstall"
  /\ proc' = [proc EXCEPT ![p] = IF ~IsInstalled THEN Idle("uninstall", TRUE)
                                 ELSE [@ EXCEPT !.stage = "change", !.seen = Stored]]
  /\ UNCHANGED <<settings, overlap>>

\* install(): sync() writes what was set.
Install(p) ==
  /\ proc[p].stage = "change" /\ proc[p].command = "install"
  /\ settings' = [settings EXCEPT !["path"] = proc[p].value,
                                  !["automaticStartup"] = StartupType]
  /\ proc' = [proc EXCEPT ![p] = Idle("install", TRUE)]
  /\ UNCHANGED overlap

\* uninstall(): of the keys that came since, the new values stay.
Uninstall(p) ==
  /\ proc[p].stage = "change" /\ proc[p].command = "uninstall"
  /\ settings' = [k \in Keys |-> IF k \in proc[p].seen THEN NoValue ELSE settings[k]]
  /\ proc' = [proc EXCEPT ![p] = Idle("uninstall", TRUE)]
  /\ UNCHANGED overlap

\* Each parameter is synchronised by itself, and one fails.
SetDB_KeyByKey(p) ==
  /\ proc[p].stage = "called" /\ proc[p].command = "setDB"
  /\ \E ks \in SUBSET DbKeys :
       settings' = [k \in Keys |-> IF k \in ks THEN proc[p].value ELSE settings[k]]
  /\ proc' = [proc EXCEPT ![p] = Idle("setDB", TRUE)]
  /\ UNCHANGED overlap

\* setDB(): exec() does not look at the result.
SetDB(p) ==
  /\ proc[p].stage = "called" /\ proc[p].command = "setDB"
  /\ settings' = [k \in Keys |-> IF k \in DbKeys THEN proc[p].value ELSE settings[k]]
  /\ proc' = [proc EXCEPT ![p] = Idle("setDB", TRUE)]
  /\ UNCHANGED overlap

\* No command looks at the result.
AccessError_IsIgnored(p) ==
  /\ \/ proc[p].stage = "change"
     \/ proc[p].stage = "called" /\ proc[p].command = "setDB"
  /\ proc' = [proc EXCEPT ![p] = Idle(@.command, TRUE)]
  /\ UNCHANGED <<settings, overlap>>

\* sync() reports an AccessError: nothing is written.
AccessError(p) ==
  /\ \/ proc[p].stage = "change"
     \/ proc[p].stage = "called" /\ proc[p].command = "setDB"
  /\ proc' = [proc EXCEPT ![p] = Idle(@.command, @.command = "setDB")]
  /\ UNCHANGED <<settings, overlap>>

-----------------------------------------------------------------------------
CallSome(p) == \/ \E prog \in Programs : Call(p, "install", prog)
               \/ Call(p, "uninstall", NoValue)
               \/ \E db \in Databases : Call(p, "setDB", db)

Next == \E p \in Procs :
  \/ CallSome(p)
  \/ BeginInstall(p) \/ Install(p)
  \/ BeginUninstall(p) \/ Uninstall(p)
  \/ SetDB(p) \/ AccessError(p)

Spec == Init /\ [][Next]_vars

-----------------------------------------------------------------------------
(***************************************************************************)
(* Properties.                                                             *)
(***************************************************************************)

\* The type invariant.
TypeOK ==
  /\ settings \in [Keys -> Programs \cup Databases \cup
                           {"AutoStartup", "ManualStartup", NoValue}]
  /\ proc \in [Procs -> Proc] /\ overlap \in BOOLEAN
  /\ settings["path"] \in Programs \cup {NoValue}

\* Whatever overlaps, the service connects with the parameters of one -sDB, and an
\* installation is there as a whole or not at all.
GroupsAreWhole ==
  /\ \A j, k \in DbKeys : settings[j] = settings[k]
  /\ settings["path"] = NoValue <=> settings["automaticStartup"] = NoValue

\* An installation stays as it is until it is removed, if installations and
\* uninstallations do not overlap.
FirstInstallWins ==
  [][~overlap /\ settings["path"] # NoValue
       => settings'["path"] \in {settings["path"], NoValue}]_vars

ExitsWithZero(p) ==
  proc[p].stage # "idle" /\ proc'[p].stage = "idle" /\ proc'[p].result

\* What exit code 0 means, if installations and uninstallations do not overlap: -u
\* leaves no installation, and -i leaves one, unless it took the parameters of a
\* -sDB for one.
ExitCodeMeans ==
  [][\A p \in Procs : ExitsWithZero(p) /\ ~overlap =>
       /\ proc[p].command = "uninstall" => settings'["path"] = NoValue
       /\ proc[p].command = "install" =>
            settings'["path"] # NoValue \/ \A k \in DbKeys : settings[k] # NoValue]_vars

\* qtservice.cpp:302 says of install() that it "returns true if the service is
\* installed successfully": -i that exits with 0 leaves an installation.
InstallInstalls ==
  [][\A p \in Procs : Running(p, {"install"}) /\ proc'[p].stage = "idle"
        /\ proc'[p].result /\ ~overlap
      => settings'["path"] # NoValue]_vars

=============================================================================
