---------------------------- MODULE ServiceDatabase ----------------------------
(***************************************************************************)
(* Installing and removing the service on Windows: the commands of         *)
(* QtServiceBase::exec (qtservice.cpp) and the functions of                *)
(* QtServiceController behind them (qtservice_win.cpp), against the        *)
(* database of the service control manager (SCM).                          *)
(*                                                                         *)
(* Every function opens the entry of the service, does one thing with it   *)
(* and closes it again.  What is deleted is only marked: the SCM removes   *)
(* the entry when the service has stopped and the last handle is closed,   *)
(* so a handle that stays open anywhere keeps the service from being       *)
(* installed again.  One action is one call into the SCM.                  *)
(***************************************************************************)
EXTENDS FiniteSets

CONSTANTS Procs,     \* processes that execute commands or use a controller
          Admins,    \* those that may open the SCM with all access
          Accounts,  \* accounts that -i is given: "none" for no argument, "unknown" for
             \* an account that does not exist
          Calls      \* bound: the commands that they execute, some of Commands

ASSUME AdminsAssumption == Admins \subseteq Procs
ASSUME AccountsAssumption == Accounts \subseteq {"none", "LocalSystem", "user", "unknown"}

VARIABLES
  entry,    \* the entry of the service in the database, or NoEntry
  marked,   \* it is marked for deletion
  handles,  \* processes that have a handle of the entry open
  service,  \* the service itself
  dbSet,    \* -setDB has stored parameters, in QSettings
  proc,     \* the processes and the function each of them is in
  overlap   \* history: two installations or removals overlapped

scmVars == <<entry, marked, handles, service>>
vars == <<scmVars, dbSet, proc, overlap>>

\* "start" is a start from the console without arguments, "config" a program that
\* asks a controller for serviceFilePath(), serviceDescription() or startupType().
Changing == {"-install", "-uninstall"}
Commands == Changing \cup {"-version", "-terminate", "-setDB", "start", "config"}
ASSUME CallsAssumption == Calls \subseteq Commands

Functions == {"isInstalled", "isRunning", "config", "install", "uninstall", "start",
              "stop", "setDB"}

NoEntry == [account |-> "none", interactive |-> FALSE, described |-> FALSE,
            there |-> FALSE]
Entry == [account : Accounts \cup {"none"}, interactive : BOOLEAN,
          described : BOOLEAN, there : {TRUE}]

\* In its function a process is about to "open" the entry or to create it, to
\* "use" the handle, to "poll" the status with it, or to "close" it.
Proc == [command : Commands, account : Accounts \cup {"none"}, fn : Functions,
         at : {"idle", "open", "use", "poll", "close"}, result : BOOLEAN,
         exit : {"none", "ok", "failed"}]
Idle(command, exit) == [command |-> command, account |-> "none",
                        fn |-> "isInstalled", at |-> "idle", result |-> FALSE,
                        exit |-> exit]

Init ==
  /\ entry = NoEntry /\ marked = FALSE /\ handles = {} /\ service = "stopped"
  /\ dbSet = FALSE /\ proc = [p \in Procs |-> Idle("-version", "none")]
  /\ overlap = FALSE

\* The database with entry e, marked or not, after a step that leaves the handles
\* hs open and the service in state s.
Settle(e, mark, hs, s) ==
  LET gone == mark /\ hs = {} /\ s = "stopped"
  IN  /\ entry' = IF gone THEN NoEntry ELSE e
      /\ marked' = (mark /\ ~gone)
      /\ handles' = hs /\ service' = s

-----------------------------------------------------------------------------
(***************************************************************************)
(* The command line.                                                       *)
(***************************************************************************)
InCall(p) == proc[p].at # "idle"
Running(p, commands) == InCall(p) /\ proc[p].command \in commands

\* The function that a command calls first.
First(command) == CASE command = "-terminate"         -> "stop"
                    [] command = "-setDB"             -> "setDB"
                    [] command \in {"start", "config"} -> command
                    [] OTHER                          -> "isInstalled"

Exec(p, command, account) ==
  /\ proc[p].at = "idle"
  /\ proc' = [proc EXCEPT ![p] = [command |-> command, account |-> account,
                fn |-> First(command), at |-> "open", result |-> FALSE,
                exit |-> "none"]]
  /\ overlap' = \/ overlap
                 \/ /\ command \in Changing
                    /\ \E q \in Procs \ {p} : Running(q, Changing)
  /\ UNCHANGED <<scmVars, dbSet>>

Then(p, f) == [proc[p] EXCEPT !.fn = f, !.at = "open", !.result = FALSE]

\* The function of p returns: exec() goes on with the next one, or exits with 0 or
\* with an error.  -install of a service that is there, and -uninstall of one that
\* is not, only say so; -terminate never exits with an error.
Returned(p, result) ==
  LET c == proc[p].command
      checked == proc[p].fn = "isInstalled"
  IN  IF checked /\ c = "-install" /\ ~result THEN Then(p, "install")
      ELSE IF checked /\ c = "-uninstall" /\ result THEN Then(p, "uninstall")
      ELSE IF checked /\ c = "-version" THEN Then(p, "isRunning")
      ELSE Idle(c, IF checked \/ result \/ c \notin Changing \cup {"start"}
                   THEN "ok" ELSE "failed")

-----------------------------------------------------------------------------
(***************************************************************************)
(* The functions of QtServiceController and QtServiceBasePrivate.          *)
(***************************************************************************)

\* The definitions named <definition>_<Bug> are mutants: <definition> with a
\* plausible bug.  No other definition uses them.
MayOpen(p) == proc[p].fn = "uninstall" => p \in Admins

\* isInstalled() looks for the settings of the service.
Found_BySettings(p) == IF proc[p].fn = "isInstalled" THEN entry.there \/ dbSet
                                                     ELSE entry.there
Found(p) == entry.there

\* OpenSCManager() and OpenService(); isInstalled() is content with that.
OpenService(p) ==
  /\ proc[p].at = "open" /\ proc[p].fn \notin {"install", "setDB"}
  /\ IF Found(p) /\ MayOpen(p)
     THEN /\ proc' = IF proc[p].fn = "isInstalled"
                     THEN [proc EXCEPT ![p].at = "close", ![p].result = TRUE]
                     ELSE [proc EXCEPT ![p].at = "use"]
          /\ Settle(entry, marked, handles \cup {p}, service)
     ELSE /\ proc' = [proc EXCEPT ![p] = Returned(p, FALSE)]
          /\ UNCHANGED scmVars
  /\ UNCHANGED <<dbSet, overlap>>

\* What is passed on of the account: none for LocalSystem ...
Act(account) == IF account = "LocalSystem" THEN "none" ELSE account

\* The desktop is asked for whatever the account is.
Interactive_Always(account) == TRUE

\* ... which alone may have access to the desktop.
Interactive(account) == Act(account) = "none"

\* CreateService().  The SCM refuses an entry that exists, marked or not, an account
\* that does not, and the desktop to a user; its refusals of a display name in use,
\* of an invalid name and for want of resources are left out.
CreateService(p) ==
  LET a  == proc[p].account
      ok == /\ p \in Admins /\ ~entry.there
            /\ Act(a) # "unknown" /\ (Interactive(a) => Act(a) = "none")
  IN  /\ proc[p].at = "open" /\ proc[p].fn = "install"
      /\ IF ok
         THEN /\ proc' = [proc EXCEPT ![p].at = "use", ![p].result = TRUE]
              /\ Settle([account |-> a, interactive |-> Interactive(a),
                         described |-> FALSE, there |-> TRUE],
                        FALSE, handles \cup {p}, service)
         ELSE /\ proc' = [proc EXCEPT ![p] = Returned(p, FALSE)]
              /\ UNCHANGED scmVars
      /\ UNCHANGED <<dbSet, overlap>>

\* ChangeServiceConfig2(); its result is ignored.
Describe(p) ==
  /\ proc[p].at = "use" /\ proc[p].fn = "install"
  /\ proc' = [proc EXCEPT ![p].at = "close"]
  /\ Settle([entry EXCEPT !.described = ~marked], marked, handles, service)
  /\ UNCHANGED <<dbSet, overlap>>

\* DeleteService(), which fails when the entry is marked already.
DeleteService(p) ==
  /\ proc[p].at = "use" /\ proc[p].fn = "uninstall"
  /\ proc' = [proc EXCEPT ![p].at = "close", ![p].result = ~marked]
  /\ Settle(entry, TRUE, handles, service)
  /\ UNCHANGED <<dbSet, overlap>>

\* QueryServiceStatus(), QueryServiceConfig(), QueryServiceConfig2().
Query(p) ==
  /\ proc[p].at = "use" /\ proc[p].fn \in {"isRunning", "config"}
  /\ proc' = [proc EXCEPT ![p].at = "close",
                ![p].result = (proc[p].fn = "config" \/ service # "stopped")]
  /\ UNCHANGED <<scmVars, dbSet, overlap>>

\* StartService(), not of a service that runs or that is to be deleted.
StartService(p) ==
  /\ proc[p].at = "use" /\ proc[p].fn = "start"
  /\ LET ok == service = "stopped" /\ ~marked
     IN  /\ proc' = [proc EXCEPT ![p].at = "close", ![p].result = ok]
         /\ Settle(entry, marked, handles, IF ok THEN "running" ELSE service)
  /\ UNCHANGED <<dbSet, overlap>>

\* stop() returns without CloseServiceHandle() when ControlService() failed.
ControlStop_Leaks(p) ==
  /\ proc[p].at = "use" /\ proc[p].fn = "stop"
  /\ IF service = "running"
     THEN /\ proc' = [proc EXCEPT ![p].at = "poll"]
          /\ Settle(entry, marked, handles, "stopping")
     ELSE /\ proc' = [proc EXCEPT ![p] = Returned(p, FALSE)]
          /\ UNCHANGED scmVars
  /\ UNCHANGED <<dbSet, overlap>>

\* ControlService(): refused by a service that is not running.
ControlStop(p) ==
  /\ proc[p].at = "use" /\ proc[p].fn = "stop"
  /\ IF service = "running"
     THEN /\ proc' = [proc EXCEPT ![p].at = "poll"]
          /\ Settle(entry, marked, handles, "stopping")
     ELSE /\ proc' = [proc EXCEPT ![p].at = "close"]
          /\ UNCHANGED scmVars
  /\ UNCHANGED <<dbSet, overlap>>

\* The end of the loop around QueryServiceStatus(): stopped, or looked ten times.
Poll(p) ==
  /\ proc[p].at = "poll"
  /\ proc' = [proc EXCEPT ![p].at = "close", ![p].result = (service = "stopped")]
  /\ UNCHANGED <<scmVars, dbSet, overlap>>

\* CloseServiceHandle(), and the function returns.
CloseHandle(p) ==
  /\ proc[p].at = "close"
  /\ proc' = [proc EXCEPT ![p] = Returned(p, @.result)]
  /\ Settle(entry, marked, handles \ {p}, service)
  /\ UNCHANGED <<dbSet, overlap>>

\* setDB() uses QSettings and not the SCM.
SetDB(p) ==
  /\ proc[p].at = "open" /\ proc[p].fn = "setDB"
  /\ dbSet' \in {dbSet, TRUE}
  /\ proc' = [proc EXCEPT ![p] = Returned(p, TRUE)]
  /\ UNCHANGED <<scmVars, overlap>>

\* The system closes the handle of a process that is killed.
Die(p) ==
  /\ InCall(p)
  /\ proc' = [proc EXCEPT ![p] = Idle(@.command, "none")]
  /\ Settle(entry, marked, handles \ {p}, service)
  /\ UNCHANGED <<dbSet, overlap>>

\* The process of the service ends, after a stop or by itself.
ServiceEnds ==
  /\ service # "stopped"
  /\ Settle(entry, marked, handles, "stopped")
  /\ UNCHANGED <<dbSet, proc, overlap>>

-----------------------------------------------------------------------------
ExecSome(p) == \E c \in Calls, a \in Accounts :
                 (c # "-install" => a = "none") /\ Exec(p, c, a)

ProcStep(p) == \/ OpenService(p) \/ CloseHandle(p) \/ Die(p)
               \/ CreateService(p) \/ Describe(p) \/ DeleteService(p)
               \/ Query(p) \/ StartService(p) \/ ControlStop(p) \/ Poll(p)
               \/ SetDB(p)

Next == ServiceEnds \/ \E p \in Procs : ExecSome(p) \/ ProcStep(p)

Spec == Init /\ [][Next]_vars

-----------------------------------------------------------------------------
(***************************************************************************)
(* Properties.                                                             *)
(***************************************************************************)

\* The type invariant.
TypeOK ==
  /\ entry \in Entry \cup {NoEntry}
  /\ marked \in BOOLEAN /\ dbSet \in BOOLEAN /\ overlap \in BOOLEAN
  /\ handles \subseteq Procs
  /\ service \in {"stopped", "running", "stopping"}
  /\ proc \in [Procs -> Proc]

\* A removed service is out of the way when it has stopped and nobody is in a call
\* any more: on no path, refused, timed out or killed, a handle stays open.
RemovalCompletes ==
  marked /\ service = "stopped" => \E p \in Procs : InCall(p)

Ends(p, command, exit) == /\ Running(p, {command}) /\ proc'[p].at = "idle"
                          /\ proc'[p].exit = exit

\* What exit code 0 means: -install leaves an entry, whatever -setDB did before
\* (compare ServiceRegistry), unless it met one on its way out; -uninstall leaves no
\* entry, or one that will go.
ExitCodeMeans ==
  [][\A p \in Procs :
       /\ Ends(p, "-install", "ok") /\ ~marked => entry'.there
       /\ Ends(p, "-uninstall", "ok") => ~entry'.there \/ marked']_vars

\* -install fails only without the rights, for an account that does not exist, or
\* when somebody else installs, too: the SCM never refuses the service type that it
\* is given with an account.
InstallFailsOnlyIf ==
  [][\A p \in Procs : Ends(p, "-install", "failed")
       => p \notin Admins \/ overlap \/ proc[p].account = "unknown"]_vars

=============================================================================
