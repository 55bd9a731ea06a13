------------------------------ MODULE WinService ------------------------------
(***************************************************************************)
(* The service on Windows (qtservice_win.cpp).                             *)
(*                                                                         *)
(* Three threads of the service process and the service control manager    *)
(* (SCM) take part.  The main thread runs the application and its          *)
(* callbacks; serviceMain, on a thread of its own, announces the start;    *)
(* the dispatcher (HandlerThread) receives the controls.  handler() runs   *)
(* on the last two: it posts an event to the main thread and waits on a    *)
(* condition.  Every critical section of the mutex ends in one step, so    *)
(* the mutex needs no variable.  The SCM is modelled as far as it is used. *)
(***************************************************************************)
EXTENDS Integers, Sequences, FiniteSets

CONSTANTS Procs,         \* processes that control the service
          ServiceFlags,  \* flags of the service, as setServiceFlags got them
          Calls,         \* bound: the calls that the processes make, some of Ops
          MaxStarts      \* bound: service processes started in one behaviour

\* "num" stands for the user-defined codes; "INTERROGATE" and "SHUTDOWN" come
\* from the system.
Controls == {"STOP", "PAUSE", "CONTINUE", "num", "INTERROGATE", "SHUTDOWN"}
Codes == Controls \cup {"STARTUP"}
Ops == Controls \cup {"start"}

ASSUME FlagsAssumption ==
  ServiceFlags \subseteq {"CanBeSuspended", "CannotBeStopped", "NeedsStopOnShutdown"}
ASSUME CallsAssumption == Calls \subseteq Ops
ASSUME ProcessAssumption == IsFiniteSet(Procs) /\ MaxStarts \in Nat

VARIABLES
  scm,        \* the state of the service as the SCM knows it
  status,     \* status.dwCurrentState
  service,    \* the application object: what its last callback made of it
  main,       \* the main thread and the code of the event that it handles
  queue,      \* the codes of the events posted to controllerHandler
  thread,     \* the two threads that run handler()
  proc,       \* the controlling processes
  shutdown,   \* the system is shutting down
  starts,     \* history: service processes started so far
  overtaken   \* history: two handlers of this process overlapped: one set or
              \* waited for a status when the other's was still to come, or to
              \* be reported

vars == <<scm, status, service, main, queue, thread, proc, shutdown,
          starts, overtaken>>
scmVars == <<scm, status>>
history == <<starts, overtaken>>

Threads == {"serviceMain", "dispatcher"}
States == {"STOPPED", "START_PENDING", "RUNNING", "PAUSE_PENDING", "PAUSED",
           "CONTINUE_PENDING", "STOP_PENDING"}

\* The main thread waits for startSemaphore, runs its "events" or one "callback",
\* is "quitting" when its event loop shall end, has left it ("executed"), has
\* reported that ("stopped"), and has called sysCleanup ("cleaned").
Main == [pc : {"none", "waiting", "events", "callback", "quitting", "executed",
               "stopped", "cleaned"},
         code : Codes, quit : BOOLEAN]

\* serviceMain is "ready" while it waits for startSemaphore2.  A handler is
\* "called" before it locks the mutex, "waiting" on the condition, "woken" before
\* it has the mutex again, "leaving" after it unlocked it and "reporting" when it
\* has read the status that it will report.
Thread == [pc : {"idle", "ready", "called", "waiting", "woken", "leaving",
                 "reporting"},
           code : Codes, report : States]

Proc == [op : Ops, stage : {"idle", "asking", "sent", "polling"}, result : BOOLEAN]

\* A process that calls nothing; a thread that runs nothing.
Returned(reply) == [op |-> "start", stage |-> "idle", result |-> reply]
IdleThread == [pc |-> "idle", code |-> "STARTUP", report |-> "STOPPED"]
NoProcess == [pc |-> "none", code |-> "STARTUP", quit |-> FALSE]

Init ==
  /\ scm = "STOPPED" /\ status = "STOPPED" /\ service = "new"
  /\ main = NoProcess /\ queue = <<>>
  /\ thread = [t \in Threads |-> IdleThread]
  /\ proc = [p \in Procs |-> Returned(FALSE)]
  /\ shutdown = FALSE /\ starts = 0 /\ overtaken = FALSE

-----------------------------------------------------------------------------
(***************************************************************************)
(* The controllers and the SCM.                                            *)
(***************************************************************************)

\* serviceFlags(): what the service accepts.  The SCM asks nobody before it
\* sends a user-defined code or an interrogation.
Accepted(control) ==
  CASE control = "STOP"                  -> "CannotBeStopped" \notin ServiceFlags
    [] control \in {"PAUSE", "CONTINUE"} -> "CanBeSuspended" \in ServiceFlags
    [] control = "SHUTDOWN"              -> "NeedsStopOnShutdown" \in ServiceFlags
    [] OTHER                             -> TRUE

\* The SCM sends no control to a service that is not up, nor while the system
\* is shutting down.  A service that is starting has told what it accepts once it
\* has reported that (line 611), and is then sent a stop, but nothing else.
Deliverable(control) ==
  /\ ~shutdown /\ Accepted(control)
  /\ \/ scm \notin {"STOPPED", "START_PENDING", "STOP_PENDING"}
     \/ /\ scm = "START_PENDING" /\ control \in {"STOP", "SHUTDOWN"}
        /\ thread["serviceMain"].pc \notin {"ready", "called"}

Call(p, op) ==
  /\ proc[p].stage = "idle"
  /\ op # "start"
  /\ proc' = [proc EXCEPT ![p] = [op |-> op, stage |-> "asking", result |-> FALSE]]
  /\ UNCHANGED <<scmVars, service, main, queue, thread, shutdown, history>>

\* StartService(): a new process, whose main thread is in start() after sysInit()
\* and whose serviceMain is about to run.
StartService(p) ==
  /\ proc[p].stage = "idle" /\ "start" \in Calls
  /\ scm = "STOPPED" /\ main.pc = "none" /\ ~shutdown /\ starts < MaxStarts
  /\ starts' = starts + 1
  /\ scm' = "START_PENDING" /\ status' = "STOPPED" /\ service' = "new"
  /\ main' = [NoProcess EXCEPT !.pc = "waiting"]
  /\ thread' = [thread EXCEPT !["serviceMain"].pc = "ready"]
  /\ proc' = [proc EXCEPT ![p] = Returned(TRUE)]
  /\ overtaken' = FALSE
  /\ UNCHANGED <<queue, shutdown>>

\* ControlService() sends one control at a time.
Send(p) ==
  /\ proc[p].stage = "asking" /\ Deliverable(proc[p].op)
  /\ thread["dispatcher"].pc = "idle"
  /\ shutdown' = (proc[p].op = "SHUTDOWN")
  /\ thread' = [thread EXCEPT !["dispatcher"] =
                  [@ EXCEPT !.pc = "called", !.code = proc[p].op]]
  /\ proc' = [proc EXCEPT ![p].stage = "sent"]
  /\ UNCHANGED <<scmVars, service, main, queue, history>>

Refuse(p) ==
  /\ proc[p].stage = "asking" /\ ~Deliverable(proc[p].op)
  /\ proc' = [proc EXCEPT ![p] = Returned(FALSE)]
  /\ UNCHANGED <<scmVars, service, main, queue, thread, shutdown, history>>

\* The SCM gives up on a handler that takes too long; so does stop() after ten
\* looks at the status.
TimeOut(p) ==
  /\ proc[p].stage \in {"asking", "sent", "polling"}
  /\ proc' = [proc EXCEPT ![p] = Returned(FALSE)]
  /\ UNCHANGED <<scmVars, service, main, queue, thread, shutdown, history>>

\* stop() looks at the status.
Poll(p) ==
  /\ proc[p].stage = "polling" /\ scm = "STOPPED"
  /\ proc' = [proc EXCEPT ![p] = [Returned(TRUE) EXCEPT !.op = "STOP"]]
  /\ UNCHANGED <<scmVars, service, main, queue, thread, shutdown, history>>

\* ControlService() returns when the handler does.
Confirmed(t) ==
  [p \in Procs |->
     IF t = "dispatcher" /\ proc[p].stage = "sent"
     THEN IF proc[p].op = "STOP" THEN [proc[p] EXCEPT !.stage = "polling"]
                                 ELSE [proc[p] EXCEPT !.stage = "idle", !.result = TRUE]
     ELSE proc[p]]

-----------------------------------------------------------------------------
(***************************************************************************)
(* The main thread: start(), handleCustomEvent() and sysCleanup().         *)
(***************************************************************************)

ControllerHandlerExists == main.pc \in {"events", "callback", "quitting", "executed",
                                        "stopped"}

\* serviceMain goes on, registers handler() and calls it for the start.
ServiceMain ==
  thread' = [thread EXCEPT !["serviceMain"].pc = "called",
                           !["serviceMain"].code = "STARTUP"]

\* The definitions named <definition>_<Bug> are mutants: <definition> with a
\* plausible bug.  No other definition uses them.

\* startSemaphore2 is not released.
CreateApplication_NoRelease ==
  /\ main.pc = "waiting" /\ thread["serviceMain"].pc = "ready"
  /\ main' = [main EXCEPT !.pc = "events"]
  /\ UNCHANGED <<scmVars, service, queue, thread, proc, shutdown, history>>

\* startSemaphore has been released: the application, the controllerHandler, and
\* startSemaphore2 for serviceMain.
CreateApplication ==
  /\ main.pc = "waiting" /\ thread["serviceMain"].pc = "ready"
  /\ main' = [main EXCEPT !.pc = "events"]
  /\ ServiceMain
  /\ UNCHANGED <<scmVars, service, queue, proc, shutdown, history>>

\* What the callback for an event makes of the service.
AfterCallback(code) ==
  CASE code \in {"STARTUP", "CONTINUE"}  -> "running"
    [] code = "PAUSE"                    -> "paused"
    [] code = "STOP"                     -> "stopped"
    [] OTHER                             -> service

\* handleCustomEvent() up to the mutex; stop() is followed by quit().
RunCallback ==
  /\ main.pc \in {"events", "quitting"} /\ queue # <<>>
  /\ main' = [pc |-> "callback", code |-> Head(queue),
              quit |-> main.quit \/ Head(queue) = "STOP"]
  /\ service' = AfterCallback(Head(queue))
  /\ queue' = Tail(queue)
  /\ UNCHANGED <<scmVars, thread, proc, shutdown, history>>

Waiting(t) == thread[t].pc = "waiting"
WokenThreads ==
  [t \in Threads |-> IF Waiting(t) THEN [thread[t] EXCEPT !.pc = "woken"] ELSE thread[t]]

\* The case of a pause returns at once.
WakeAll_NotForPause ==
  /\ main.pc = "callback"
  /\ thread' = IF main.code = "PAUSE" THEN thread ELSE WokenThreads
  /\ main' = [main EXCEPT !.pc = IF main.quit THEN "quitting" ELSE "events"]
  /\ UNCHANGED <<scmVars, service, queue, proc, shutdown, history>>

\* wakeAll()
WakeAll ==
  /\ main.pc = "callback"
  /\ thread' = WokenThreads
  /\ main' = [main EXCEPT !.pc = IF main.quit THEN "quitting" ELSE "events"]
  /\ UNCHANGED <<scmVars, service, queue, proc, shutdown, history>>

\* exec() returns after quit(), perhaps with events still posted.
LeaveEventLoop ==
  /\ main.pc = "quitting"
  /\ main' = [main EXCEPT !.pc = "executed"]
  /\ UNCHANGED <<scmVars, service, queue, thread, proc, shutdown, history>>

ReportStopped ==
  /\ main.pc = "executed"
  /\ scm' = "STOPPED" /\ status' = "STOPPED"
  /\ overtaken' = (overtaken \/ \E t \in Threads : thread[t].pc = "reporting")
  /\ main' = [main EXCEPT !.pc = "stopped"]
  /\ UNCHANGED <<service, queue, thread, proc, shutdown, starts>>

\* The wait for the dispatcher has no limit.
SysCleanup_WaitsForEver ==
  /\ main.pc = "stopped" /\ thread["dispatcher"].pc = "idle" /\ scm = "STOPPED"
  /\ main' = [main EXCEPT !.pc = "cleaned"]
  /\ queue' = <<>>
  /\ UNCHANGED <<scmVars, service, thread, proc, shutdown, history>>

\* wait(1000) for the dispatcher, which may be too short, and deletes of the
\* controllerHandler and, in sysCleanup(), of the mutex and the condition.
SysCleanup ==
  /\ main.pc = "stopped"
  /\ main' = [main EXCEPT !.pc = "cleaned"]
  /\ queue' = <<>>
  /\ UNCHANGED <<scmVars, service, thread, proc, shutdown, starts, overtaken>>

\* The process exits: after start() returned, because tryAcquire(20000) gave up or
\* the dispatcher could not be started, or because a callback or a timer of the
\* application called exit().
ExitProcess ==
  /\ \/ main.pc \in {"cleaned", "waiting"}
     \/ main.pc \in {"events", "callback", "quitting"} /\ service # "new"
  /\ main' = NoProcess /\ queue' = <<>>
  /\ scm' = "STOPPED" /\ status' = "STOPPED" /\ service' = "new"
  /\ thread' = [t \in Threads |-> IdleThread]
  /\ proc' = [p \in Procs |-> IF proc[p].stage = "sent" THEN Returned(FALSE) ELSE proc[p]]
  /\ UNCHANGED <<shutdown, starts, overtaken>>

-----------------------------------------------------------------------------
(***************************************************************************)
(* handler(), on the thread t.                                             *)
(***************************************************************************)
SysExists == main.pc \notin {"none", "cleaned"}

Pending(code) == CASE code = "STARTUP"  -> "START_PENDING"
                   [] code = "STOP"     -> "STOP_PENDING"
                   [] code = "PAUSE"    -> "PAUSE_PENDING"
                   [] code = "CONTINUE" -> "CONTINUE_PENDING"
                   [] OTHER             -> status

Final(code) == CASE code \in {"STARTUP", "CONTINUE"} -> "RUNNING"
                 [] code = "PAUSE"                   -> "PAUSED"
                 [] OTHER                            -> status

\* setStatus() stores the status and reports it.  Another handler may have a status
\* of its own to set, or one to report, which is then overwritten.
SetStatus(t, changes, state) ==
  /\ IF changes THEN status' = state /\ scm' = state ELSE UNCHANGED scmVars
  /\ overtaken' = (overtaken \/ \E u \in Threads \ {t} :
                     \/ thread[u].pc \in {"waiting", "woken"}
                     \/ changes /\ thread[u].pc = "reporting")

Post(code) ==
  queue' = IF ControllerHandlerExists
           THEN Append(queue, IF code = "SHUTDOWN" THEN "STOP" ELSE code)
           ELSE queue

\* The handler does not wait for the callback.
Enter_NoWait(t) ==
  /\ SysExists /\ thread[t].pc = "called" /\ thread[t].code # "INTERROGATE"
  /\ SetStatus(t, thread[t].code \in {"STARTUP", "STOP", "PAUSE", "CONTINUE"},
               Pending(thread[t].code))
  /\ Post(thread[t].code)
  /\ thread' = [thread EXCEPT ![t].pc = "woken"]
  /\ UNCHANGED <<service, main, proc, shutdown, starts>>

\* A stop is not shown as pending.
Enter_SilentStop(t) ==
  /\ SysExists /\ thread[t].pc = "called" /\ thread[t].code # "INTERROGATE"
  /\ SetStatus(t, thread[t].code \in {"STARTUP", "PAUSE", "CONTINUE"},
               Pending(thread[t].code))
  /\ Post(thread[t].code)
  /\ thread' = [thread EXCEPT ![t].pc = "waiting"]
  /\ UNCHANGED <<service, main, proc, shutdown, starts>>

\* From lock() to wait(), which unlocks the mutex.
Enter(t) ==
  /\ SysExists /\ thread[t].pc = "called" /\ thread[t].code # "INTERROGATE"
  /\ SetStatus(t, thread[t].code \in {"STARTUP", "STOP", "PAUSE", "CONTINUE"},
               Pending(thread[t].code))
  /\ Post(thread[t].code)
  /\ thread' = [thread EXCEPT ![t].pc = "waiting"]
  /\ UNCHANGED <<service, main, proc, shutdown, starts>>

Interrogate(t) ==
  /\ SysExists /\ thread[t].pc = "called" /\ thread[t].code = "INTERROGATE"
  /\ thread' = [thread EXCEPT ![t].pc = "leaving"]
  /\ UNCHANGED <<scmVars, service, main, queue, proc, shutdown, history>>

\* The handler of a stop reports the service as stopped.
Complete_ReportsStopped(t) ==
  /\ SysExists /\ thread[t].pc = "woken"
  /\ SetStatus(t, thread[t].code \in {"STARTUP", "PAUSE", "CONTINUE", "STOP"},
               IF thread[t].code = "STOP" THEN "STOPPED" ELSE Final(thread[t].code))
  /\ thread' = [thread EXCEPT ![t].pc = "leaving"]
  /\ UNCHANGED <<service, main, queue, proc, shutdown, starts>>

\* From the end of wait() to unlock().
Complete(t) ==
  /\ SysExists /\ thread[t].pc = "woken"
  /\ SetStatus(t, thread[t].code \in {"STARTUP", "PAUSE", "CONTINUE"},
               Final(thread[t].code))
  /\ thread' = [thread EXCEPT ![t].pc = "leaving"]
  /\ UNCHANGED <<service, main, queue, proc, shutdown, starts>>

\* The last report is made without the mutex: the status is read here ...
ReadStatus(t) ==
  /\ SysExists /\ thread[t].pc = "leaving"
  /\ IF status # "STOPPED"
     THEN /\ thread' = [thread EXCEPT ![t].pc = "reporting", ![t].report = status]
          /\ UNCHANGED proc
     ELSE /\ thread' = [thread EXCEPT ![t] = IdleThread]
          /\ proc' = Confirmed(t)
  /\ UNCHANGED <<scmVars, service, main, queue, shutdown, history>>

\* ... and reaches the SCM here.
Report(t) ==
  /\ SysExists /\ thread[t].pc = "reporting"
  /\ scm' = thread[t].report
  /\ thread' = [thread EXCEPT ![t] = IdleThread]
  /\ proc' = Confirmed(t)
  /\ UNCHANGED <<status, service, main, queue, shutdown, history>>

-----------------------------------------------------------------------------
ProcStep(p) == StartService(p) \/ Send(p) \/ Refuse(p) \/ TimeOut(p) \/ Poll(p)
                 \/ \E op \in Calls : Call(p, op)
StartStep == CreateApplication \/ ReportStopped \/ SysCleanup
MainStep == RunCallback \/ WakeAll \/ LeaveEventLoop \/ StartStep
Handler(t) == Enter(t) \/ Interrogate(t) \/ Complete(t) \/ ReadStatus(t) \/ Report(t)

Next == \/ \E p \in Procs : ProcStep(p)
        \/ MainStep \/ ExitProcess
        \/ \E t \in Threads : Handler(t)

Spec == Init /\ [][Next]_vars

\* The three threads run; the event loop, once told to quit, does not go on with
\* events for ever; a process whose start() returned exits.  Nobody has to call.
Fairness ==
  /\ WF_vars(MainStep) /\ SF_vars(LeaveEventLoop)
  /\ \A t \in Threads : WF_vars(Handler(t))
  /\ WF_vars(ExitProcess /\ main.pc = "cleaned")

FairSpec == Spec /\ Fairness

-----------------------------------------------------------------------------
(***************************************************************************)
(* Properties.                                                             *)
(***************************************************************************)

\* The type invariant.
TypeOK ==
  /\ scm \in States /\ status \in States
  /\ service \in {"new", "running", "paused", "stopped"}
  /\ main \in Main /\ queue \in Seq(Codes)
  /\ thread \in [Threads -> Thread] /\ proc \in [Procs -> Proc]
  /\ shutdown \in BOOLEAN /\ overtaken \in BOOLEAN /\ starts \in 0..MaxStarts
  /\ queue # <<>> => ControllerHandlerExists

\* ParserService::pause() uses what start() created: no other callback runs before
\* start(), although two threads post events.
StartRunsFirst ==
  [][RunCallback /\ Head(queue) # "STARTUP" => service # "new"]_vars

\* A thread is woken by the event that it posted, although wakeAll() wakes
\* whoever waits: the status it sets next belongs to the callback that ran.  Only
\* a stop that comes while the service starts, or a report that comes late, lets
\* two threads wait at once.
WokenByOwnEvent ==
  [][\A t \in Threads : WakeAll /\ Waiting(t) /\ ~overtaken =>
       main.code = (IF thread[t].code = "SHUTDOWN" THEN "STOP" ELSE thread[t].code)]_vars

\* What the SCM shows is what the application did last, unless handlers overlapped.
ShownIsDone ==
  ~overtaken /\ main.pc # "none" =>
    /\ scm = "RUNNING" => service = "running" \/ shutdown
    /\ scm = "PAUSED" => service = "paused" \/ shutdown

\* A stopped service is one whose event loop has ended or that exited, so that
\* stop() returns true for nothing else.
StoppedMeansEnded ==
  scm = "STOPPED" => main.pc \in {"none", "stopped", "cleaned"}

\* When the event loop has ended no handler waits for an event that nobody will
\* handle, nor will one, unless handlers overlapped: then one may have hidden that
\* the service was stopping.
NobodyWaitsInVain ==
  ~overtaken /\ main.pc \in {"executed", "stopped", "cleaned"} =>
    \A t \in Threads : thread[t].pc \in {"called", "waiting"} =>
                         thread[t].code = "INTERROGATE"

Ended == main.pc \in {"none", "stopped", "cleaned"}

Life == INSTANCE ServiceLife WITH
          shown <- scm,
          did <- IF Ended THEN "ended" ELSE service,
          due <- IF Ended THEN <<>> ELSE queue,
          closing <- shutdown,
          raced <- overtaken

\* Three threads, one queue and a condition make of every control what a service
\* promises: it is shown as pending, then carried out once, then shown as done, in
\* this order, whoever waits for whom; only when a stop overlaps the start, or a
\* report comes late, may something else be shown, and never that the service has
\* stopped; the callbacks run in order and once even then.
ImplementsServiceLife == Life!Spec

\* The dispatcher ends when the SCM knows the service as stopped.
DispatcherFinished == thread["dispatcher"].pc = "idle" /\ scm = "STOPPED"

\* handler() is executing, if only with the status that it shall report.
Inside(t) == thread[t].pc \in {"called", "waiting", "woken", "leaving", "reporting"}

\* qtservice_win.cpp:569 says "The handler() is called from the thread that called
\* StartServiceCtrlDispatcher, i.e. our HandlerThread", and start() waits for that
\* one before it deletes what handler() uses.
NoHandlerAfterCleanup ==
  main.pc = "cleaned" /\ DispatcherFinished => \A t \in Threads : ~Inside(t)

\* Every handler returns, or the process ends under it.
HandlersReturn ==
  \A t \in Threads : thread[t].pc = "called" ~> thread[t].pc = "idle"

\* A start is shown as running or is over.
StartIsShown == scm = "START_PENDING" ~> scm # "START_PENDING"

\* After quit() the process ends, whatever its handlers still wait for.
StopEndsProcess == main.quit ~> main.pc = "none"

=============================================================================
