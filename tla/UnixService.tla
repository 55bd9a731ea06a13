----------------------------- MODULE UnixService -----------------------------
(***************************************************************************)
(* The daemon and its controllers on Unix (qtservice_unix.cpp,             *)
(* qtunixserversocket.cpp, qtunixsocket.cpp, QtServiceBasePrivate::run).   *)
(*                                                                         *)
(* The daemon listens on a local socket whose file is the only thing the   *)
(* processes share: it decides who is reached, whether a service counts    *)
(* as running and whether a start finds one already there.  Daemons and    *)
(* controllers are processes; one action is one system call that another   *)
(* process can observe, or one handler of the daemon's event loop.         *)
(***************************************************************************)
EXTENDS Integers, FiniteSets

CONSTANTS Procs,         \* processes that control the service
          ServiceFlags,  \* flags of the service, as setServiceFlags got them
          Calls,         \* bound: the calls that the processes make, some of Ops
          MaxDaemons,    \* bound: daemons started during one behaviour
          MaxCrashes     \* bound: daemons that die without cleaning up

\* "start" is QtServiceBasePrivate::start, "controllerStart" is
\* QtServiceController::start.
StartOps == {"start", "controllerStart"}
Ops == StartOps \cup {"isRunning", "terminate", "pause", "resume", "num"}

ASSUME FlagsAssumption == ServiceFlags \subseteq {"CanBeSuspended", "CannotBeStopped"}
ASSUME CallsAssumption == Calls \subseteq Ops
ASSUME ProcessAssumption == IsFiniteSet(Procs) /\ MaxDaemons \in Nat /\ MaxCrashes \in Nat

VARIABLES
  socketFile,  \* whose socket the file /var/tmp/<service>.<login> names, or NoFile
  daemon,      \* the daemon processes
  proc,        \* the controller processes and their connections
  crashes,     \* history: daemons that died without sysCleanup
  reckless     \* history: somebody started or stopped the service while
               \* another start or stop was going on

vars == <<socketFile, daemon, proc, crashes, reckless>>

Daemons == 1..MaxDaemons
NoFile == 0
NoPeer == 0

\* A daemon before setPath() is "spawned"; setPath() takes it through
\* "unlinked" and "bound"; "quitting" is after quit(), "closed" after
\* QTcpServer::close().  path says that path_ is set.
Phases == {"none", "spawned", "unlinked", "bound", "serving", "quitting",
           "closed", "gone"}
Daemon == [phase : Phases, listening : BOOLEAN, path : BOOLEAN,
           paused : BOOLEAN, crashed : BOOLEAN]

\* A process is "idle" between its calls, and remembers a confirmed stop; it is
\* "calling" before connect(); its connection waits in the "backlog", is
\* "accepted", is "answered"; a start that found no daemon is "spawning".
Proc == [op : Ops \cup {"none"}, peer : Daemons \cup {NoPeer},
         stage : {"idle", "calling", "backlog", "accepted", "answered", "spawning"},
         result : BOOLEAN]

Init ==
  /\ socketFile = NoFile
  /\ daemon = [d \in Daemons |-> [phase |-> "none", listening |-> FALSE,
                 path |-> FALSE, paused |-> FALSE, crashed |-> FALSE]]
  /\ proc = [p \in Procs |-> [op |-> "none", peer |-> NoPeer, stage |-> "idle",
                              result |-> FALSE]]
  /\ crashes = 0 /\ reckless = FALSE

Alive(d) == daemon[d].phase \notin {"none", "gone"}
Changing(d) == Alive(d) /\ daemon[d].phase # "serving"

\* connect() succeeds on the socket that the file names while it listens.
Reachable(d) == socketFile = d /\ daemon[d].listening

-----------------------------------------------------------------------------
(***************************************************************************)
(* The controllers.                                                        *)
(***************************************************************************)

InCall(p, ops) == proc[p].stage # "idle" /\ proc[p].op \in ops

\* Starting wants no other start or stop and no daemon on its way up or down;
\* stopping wants no start.
Reckless(p, op) ==
  \/ /\ op \in StartOps
     /\ \/ \E q \in Procs \ {p} : InCall(q, StartOps \cup {"terminate"})
        \/ \E d \in Daemons : Changing(d)
  \/ /\ op = "terminate"
     /\ \E q \in Procs \ {p} : InCall(q, StartOps)

Call(p, op) ==
  /\ proc[p].stage = "idle"
  /\ proc' = [proc EXCEPT ![p] = [op |-> op, peer |-> NoPeer, stage |-> "calling",
                                  result |-> FALSE]]
  /\ reckless' = (reckless \/ Reckless(p, op))
  /\ UNCHANGED <<socketFile, daemon, crashes>>

\* The definitions named <definition>_<Bug> are mutants: <definition> with a
\* plausible bug.  No other definition uses them.

\* A process whose call has returned.
Idle == [op |-> "none", peer |-> NoPeer, stage |-> "idle", result |-> FALSE]

\* The answer to "alive" is ignored.
Returned_StartsAnyway(p, reply) ==
  CASE proc[p].op = "start"              -> [proc[p] EXCEPT !.stage = "spawning"]
    [] proc[p].op = "terminate" /\ reply -> [proc[p] EXCEPT !.stage = "idle"]
    [] OTHER                             -> Idle

\* sendCmd returns reply.  A start that got an answer to "alive" fails; one that
\* got none goes on to start a daemon.
Returned(p, reply) ==
  CASE proc[p].op = "start" /\ ~reply    -> [proc[p] EXCEPT !.stage = "spawning"]
    [] proc[p].op = "terminate" /\ reply -> [proc[p] EXCEPT !.stage = "idle"]
    [] OTHER                             -> Idle

\* connectTo() and, in sendCmd, the command that follows.  isRunning() returns
\* true and QtServiceController::start false.
Connect(p) ==
  /\ proc[p].stage = "calling"
  /\ \E d \in Daemons :
       /\ Reachable(d)
       /\ proc' = [proc EXCEPT ![p] =
            IF @.op \in {"isRunning", "controllerStart"} THEN Idle
            ELSE [@ EXCEPT !.stage = "backlog", !.peer = d]]
  /\ UNCHANGED <<socketFile, daemon, crashes, reckless>>

\* Nobody listens.  QtServiceController::start then runs the program once more,
\* detached: the process goes on as that one, in QtServiceBasePrivate::start.
ConnectFails(p) ==
  /\ proc[p].stage = "calling"
  /\ ~ \E d \in Daemons : Reachable(d)
  /\ proc' = [proc EXCEPT ![p] = IF @.op = "controllerStart"
                                 THEN [@ EXCEPT !.op = "start"]
                                 ELSE Returned(p, FALSE)]
  /\ UNCHANGED <<socketFile, daemon, crashes, reckless>>

GetReply(p) ==
  /\ proc[p].stage = "answered"
  /\ proc' = [proc EXCEPT ![p] = Returned(p, @.result)]
  /\ UNCHANGED <<socketFile, daemon, crashes, reckless>>

\* The sockets of accepted connections are never closed.
HungUp_OnlyBacklog(p) ==
  proc[p].stage = "backlog" /\ ~daemon[proc[p].peer].listening

\* A connection nobody accepted ends with the listening socket, an accepted one
\* with the daemon.
HungUp(p) ==
  \/ proc[p].stage = "backlog" /\ ~daemon[proc[p].peer].listening
  \/ proc[p].stage = "accepted" /\ ~Alive(proc[p].peer)

\* A closed connection is taken for an answer.
GetEof_SaysTrue(p) ==
  /\ HungUp(p)
  /\ proc' = [proc EXCEPT ![p] = Returned(p, TRUE)]
  /\ UNCHANGED <<socketFile, daemon, crashes, reckless>>

\* waitForReadyRead(-1) gives up only when the connection is closed.
GetEof(p) ==
  /\ HungUp(p)
  /\ proc' = [proc EXCEPT ![p] = Returned(p, FALSE)]
  /\ UNCHANGED <<socketFile, daemon, crashes, reckless>>

\* startDetached(), with QTSERVICE_RUN in the environment.
Spawn(p) ==
  /\ proc[p].stage = "spawning"
  /\ proc' = [proc EXCEPT ![p] = Idle]
  /\ \E d \in Daemons :
       /\ daemon[d].phase = "none"
       /\ \A e \in Daemons : e < d => daemon[e].phase # "none"
       /\ daemon' = [daemon EXCEPT ![d].phase = "spawned"]
  /\ UNCHANGED <<socketFile, crashes, reckless>>

SpawnFails(p) ==
  /\ proc[p].stage = "spawning"
  /\ proc' = [proc EXCEPT ![p] = Idle]
  /\ UNCHANGED <<socketFile, daemon, crashes, reckless>>

-----------------------------------------------------------------------------
(***************************************************************************)
(* The daemon: QtServiceBasePrivate::run up to the event loop.             *)
(***************************************************************************)

\* setPath(): the file is not removed first.
Unlink_Skipped(d) ==
  /\ daemon[d].phase = "spawned"
  /\ daemon' = [daemon EXCEPT ![d].phase = "unlinked"]
  /\ UNCHANGED <<socketFile, proc, crashes, reckless>>

\* setPath(): whatever the path names is removed.
Unlink(d) ==
  /\ daemon[d].phase = "spawned"
  /\ daemon' = [daemon EXCEPT ![d].phase = "unlinked"]
  /\ socketFile' = NoFile
  /\ UNCHANGED <<proc, crashes, reckless>>

\* bind() fails when the file exists again; the daemon then runs without socket.
Bind(d) ==
  /\ daemon[d].phase = "unlinked"
  /\ \/ /\ socketFile = NoFile
        /\ socketFile' = d
        /\ daemon' = [daemon EXCEPT ![d].phase = "bound"]
     \/ /\ socketFile # NoFile
        /\ daemon' = [daemon EXCEPT ![d].phase = "serving"]
        /\ UNCHANGED socketFile
  /\ UNCHANGED <<proc, crashes, reckless>>

\* path_ is not kept.
Listen_NoPath(d) ==
  /\ daemon[d].phase = "bound"
  /\ daemon' = [daemon EXCEPT ![d].phase = "serving", ![d].listening = TRUE]
  /\ UNCHANGED <<socketFile, proc, crashes, reckless>>

Listen(d) ==
  /\ daemon[d].phase = "bound"
  /\ daemon' = [daemon EXCEPT ![d].phase = "serving", ![d].listening = TRUE,
                              ![d].path = TRUE]
  /\ UNCHANGED <<socketFile, proc, crashes, reckless>>

(***************************************************************************)
(* The daemon's event loop, which also finishes its round after quit().    *)
(***************************************************************************)
InEventLoop(d) == daemon[d].phase \in {"serving", "quitting"}

\* incomingConnection().
Accept(d, p) ==
  /\ InEventLoop(d) /\ daemon[d].listening
  /\ proc[p].stage = "backlog" /\ proc[p].peer = d
  /\ proc' = [proc EXCEPT ![p].stage = "accepted"]
  /\ UNCHANGED <<socketFile, daemon, crashes, reckless>>

\* quit() is not called.
Execute_NoQuit(d, op) ==
  IF op \in {"pause", "resume"} /\ "CanBeSuspended" \in ServiceFlags
  THEN [daemon EXCEPT ![d].paused = (op = "pause")]
  ELSE daemon

\* What the daemon d is after a command, and whether the answer is "true".
Execute(d, op) ==
  CASE op = "terminate" /\ "CannotBeStopped" \notin ServiceFlags ->
         [daemon EXCEPT ![d].phase = "quitting"]
    [] op \in {"pause", "resume"} /\ "CanBeSuspended" \in ServiceFlags ->
         [daemon EXCEPT ![d].paused = (op = "pause")]
    [] OTHER -> daemon

Obeyed(op) ==
  /\ op = "terminate" => "CannotBeStopped" \notin ServiceFlags
  /\ op \in {"pause", "resume"} => "CanBeSuspended" \in ServiceFlags

\* slotReady(): the command ("alive" for a start) and its answer.
SlotReady(d, p) ==
  /\ InEventLoop(d)
  /\ proc[p].stage = "accepted" /\ proc[p].peer = d
  /\ daemon' = Execute(d, proc[p].op)
  /\ proc' = [proc EXCEPT ![p].stage = "answered", ![p].result = Obeyed(proc[p].op)]
  /\ UNCHANGED <<socketFile, crashes, reckless>>

(***************************************************************************)
(* sysCleanup(), and dying without it.                                     *)
(***************************************************************************)

CloseFd(d) ==
  /\ daemon[d].phase = "quitting"
  /\ daemon' = [daemon EXCEPT ![d].phase = "closed", ![d].listening = FALSE]
  /\ UNCHANGED <<socketFile, proc, crashes, reckless>>

\* The file at the path is removed, whosever it is by now.
UnlinkPath(d) ==
  /\ daemon[d].phase = "closed"
  /\ daemon' = [daemon EXCEPT ![d].phase = "gone", ![d].path = FALSE,
                              ![d].paused = FALSE]
  /\ socketFile' = IF daemon[d].path THEN NoFile ELSE socketFile
  /\ UNCHANGED <<proc, crashes, reckless>>

Crash(d) ==
  /\ Alive(d) /\ crashes < MaxCrashes
  /\ crashes' = crashes + 1
  /\ daemon' = [daemon EXCEPT ![d].phase = "gone", ![d].listening = FALSE,
                              ![d].path = FALSE, ![d].paused = FALSE,
                              ![d].crashed = TRUE]
  /\ UNCHANGED <<socketFile, proc, reckless>>

-----------------------------------------------------------------------------
ProcStep(p) == Connect(p) \/ ConnectFails(p) \/ GetReply(p) \/ GetEof(p)
                 \/ Spawn(p) \/ SpawnFails(p)

SetPath(d) == Unlink(d) \/ Bind(d) \/ Listen(d)
SysCleanup(d) == CloseFd(d) \/ UnlinkPath(d)

Next == \/ \E p \in Procs : ProcStep(p) \/ \E op \in Calls : Call(p, op)
        \/ \E d \in Daemons : SetPath(d) \/ SysCleanup(d) \/ Crash(d)
        \/ \E d \in Daemons, p \in Procs : Accept(d, p) \/ SlotReady(d, p)

Spec == Init /\ [][Next]_vars

\* Processes run, the event loop serves every connection, quit() ends it.
\* Nobody has to call, and nothing has to crash.
Fairness ==
  /\ \A p \in Procs : WF_vars(ProcStep(p))
  /\ \A d \in Daemons : WF_vars(SetPath(d)) /\ WF_vars(SysCleanup(d))
  /\ \A d \in Daemons, p \in Procs : WF_vars(Accept(d, p) \/ SlotReady(d, p))

FairSpec == Spec /\ Fairness

-----------------------------------------------------------------------------
(***************************************************************************)
(* Properties.                                                             *)
(***************************************************************************)

\* The type invariant.
TypeOK ==
  /\ socketFile \in Daemons \cup {NoFile}
  /\ daemon \in [Daemons -> Daemon]
  /\ proc \in [Procs -> Proc]
  /\ crashes \in Nat /\ reckless \in BOOLEAN
  /\ \A d \in Daemons : daemon[d].listening => InEventLoop(d)
  /\ \A p \in Procs : proc[p].stage \in {"backlog", "accepted", "answered"}
                        => proc[p].peer \in Daemons

\* While starts and stops do not overlap there is one daemon at a time, whatever
\* crashes: the answer to "alive" keeps a second one away.
OneDaemon == ~reckless => \A d, e \in Daemons : Alive(d) /\ Alive(e) => d = e

\* Then a running daemon can also be reached: its bind() succeeds, even over the
\* file of a crashed one, and nobody removes its file.
ServingIsReachable ==
  ~reckless => \A d \in Daemons : daemon[d].phase = "serving" => Reachable(d)

\* A file without a daemon behind it is left by a crash, never by a stop, even
\* when starts and stops overlap.
StaleFileMeansCrash ==
  socketFile # NoFile /\ ~Alive(socketFile) => daemon[socketFile].crashed

\* The state of ServiceControl that this state stands for.
LifeOf(d) == CASE daemon[d].phase \in {"spawned", "unlinked", "bound"} -> "coming"
               [] daemon[d].phase = "serving"                        -> "up"
               [] daemon[d].phase \in {"quitting", "closed"}          -> "going"
               [] OTHER                                              -> daemon[d].phase

CallOf(p) ==
  [op |-> IF proc[p].op \in StartOps THEN "start" ELSE proc[p].op,
   state |-> IF proc[p].stage \in {"calling", "backlog", "accepted"} THEN "asking"
             ELSE proc[p].stage,
   by |-> IF proc[p].stage \in {"calling", "spawning"} \/ proc[p].peer = NoPeer THEN {}
          ELSE {proc[p].peer},
   result |-> IF proc[p].stage \in {"answered", "idle"} THEN proc[p].result ELSE FALSE]

Control == INSTANCE ServiceControl WITH
             life <- [d \in Daemons |-> LifeOf(d)],
             paused <- {d \in Daemons : daemon[d].paused},
             call <- [p \in Procs |-> CallOf(p)],
             careless <- reckless

\* Through a socket file that anybody may remove, connections that wait in a backlog
\* and daemons that die at any moment, every command is carried out once or not at
\* all, "true" is said of no other than one that was, and as long as starts and stops
\* do not overlap nobody is told that there is no service while one is up.
ImplementsServiceControl == Control!Spec

\* Whatever happens to the daemon, no call waits for ever.
CallsReturn == \A p \in Procs : proc[p].stage # "idle" ~> proc[p].stage = "idle"

Told(p, op) == proc[p].op = op /\ proc[p].stage = "idle" /\ proc[p].result

\* A stop that was confirmed ends the daemon that confirmed it.
StopStops ==
  \A p \in Procs, d \in Daemons :
    Told(p, "terminate") /\ proc[p].peer = d ~> daemon[d].phase = "gone"

\* qtservice.cpp:260 says of isRunning() "Returns true if the service is running;
\* otherwise returns false".  A daemon on its way up or down would excuse a
\* false; here there is none.
RunningIsSeen ==
  [][\A p \in Procs :
       /\ ConnectFails(p) /\ proc[p].op = "isRunning"
       /\ \A d \in Daemons : ~Changing(d)
       => \A d \in Daemons : daemon[d].phase # "serving"]_vars

\* qtservice.cpp:373 says of stop() "Returns true if a running service was
\* successfully stopped".
StoppedWhenTold == \A p \in Procs : Told(p, "terminate") => ~Alive(proc[p].peer)

=============================================================================
