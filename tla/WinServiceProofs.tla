--------------------------- MODULE WinServiceProofs ---------------------------
(***************************************************************************)
(* Proofs about the service on Windows, for any number of controllers and  *)
(* starts.  That a stopped service has left its event loop rests on the    *)
(* reports that are made without the mutex: none of them says "STOPPED".   *)
(* That callbacks, handlers and the status agree rests on the order of the *)
(* events: unless a stop overlapped the start, or a report came late, never *)
(* more than one of them is on its way.                                    *)
(***************************************************************************)
EXTENDS WinService, TLAPS

\* A thread that reports has read another status than "STOPPED".
NoReportOfStopped ==
  \A t \in Threads : thread[t].pc = "reporting" => thread[t].report # "STOPPED"

\* ControlService() is asked for controls.
ControlsAsked == \A p \in Procs : proc[p].stage # "idle" => proc[p].op \in Controls

\* The inductive invariant, by variables.
ProcInv == proc \in [Procs -> Proc] /\ ControlsAsked
ThreadInv == thread \in [Threads -> Thread] /\ NoReportOfStopped
QueueInv == queue \in Seq(Codes) /\ (queue # <<>> => ControllerHandlerExists)
OtherInv == /\ scm \in States /\ status \in States
            /\ service \in {"new", "running", "paused", "stopped"}
            /\ main \in Main /\ shutdown \in BOOLEAN /\ overtaken \in BOOLEAN
            /\ starts \in 0..MaxStarts

IInv == ProcInv /\ ThreadInv /\ QueueInv /\ OtherInv /\ StoppedMeansEnded

-----------------------------------------------------------------------------
LEMMA IdleThreadIsThread == IdleThread \in Thread /\ NoProcess \in Main
  BY DEF IdleThread, Thread, NoProcess, Main, Codes, Controls, States

LEMMA ReturnedIsProc == \A b \in BOOLEAN : Returned(b) \in Proc
  BY DEF Returned, Proc, Ops, Controls

LEMMA ConfirmedIsProc ==
  ASSUME proc \in [Procs -> Proc], NEW t
  PROVE  Confirmed(t) \in [Procs -> Proc]
<1>1. \A p \in Procs : proc[p] \in Proc
  OBVIOUS
<1>2. \A p \in Procs : [proc[p] EXCEPT !.stage = "polling"] \in Proc
  BY <1>1 DEF Proc
<1>3. \A p \in Procs : [proc[p] EXCEPT !.stage = "idle", !.result = TRUE] \in Proc
  BY <1>1 DEF Proc
<1> QED
  BY <1>1, <1>2, <1>3 DEF Confirmed

\* Only the five codes of a change set the status, and none sets "STOPPED".
LEMMA HandlersSetNoStop ==
  ASSUME status \in States, NEW code \in Codes
  PROVE  /\ Pending(code) \in States /\ Final(code) \in States
         /\ code \in {"STARTUP", "STOP", "PAUSE", "CONTINUE"} => Pending(code) # "STOPPED"
         /\ code \in {"STARTUP", "PAUSE", "CONTINUE"} => Final(code) # "STOPPED"
  BY DEF Pending, Final, States, Codes, Controls

LEMMA InitIInv == Init => IInv
<1> SUFFICES ASSUME Init PROVE IInv
  OBVIOUS
<1>1. ProcInv
  BY ReturnedIsProc DEF Init, ProcInv, ControlsAsked, Returned
<1>2. ThreadInv
  BY IdleThreadIsThread DEF Init, ThreadInv, NoReportOfStopped, IdleThread
<1>3. OtherInv
  <2>1. MaxStarts \in Nat
    BY ProcessAssumption
  <2>2. starts \in 0..MaxStarts
    BY <2>1 DEF Init
  <2>3. main \in Main
    BY IdleThreadIsThread DEF Init
  <2>4. scm \in States /\ status \in States /\ shutdown \in BOOLEAN
        /\ overtaken \in BOOLEAN /\ service \in {"new", "running", "paused", "stopped"}
    BY DEF Init, States
  <2> QED
    BY <2>2, <2>3, <2>4 DEF OtherInv
<1>4. QueueInv /\ StoppedMeansEnded
  BY DEF Init, QueueInv, StoppedMeansEnded, NoProcess
<1> QED
  BY <1>1, <1>2, <1>3, <1>4 DEF IInv

-----------------------------------------------------------------------------
\* The calls, and the answers of the SCM, keep the invariant about proc.
LEMMA ProcStepProc ==
  ASSUME ProcInv, NEW p \in Procs, ProcStep(p)
  PROVE  ProcInv'
<1>1. PICK r : proc' = [proc EXCEPT ![p] = r] /\ r \in Proc
                 /\ (r.stage # "idle" => r.op \in Controls)
  <2>1. proc[p] \in Proc /\ (proc[p].stage # "idle" => proc[p].op \in Controls)
    BY DEF ProcInv, ControlsAsked
  <2>2. ASSUME StartService(p) \/ Refuse(p) \/ TimeOut(p) PROVE \E b \in BOOLEAN :
          proc' = [proc EXCEPT ![p] = Returned(b)]
    BY <2>2 DEF StartService, Refuse, TimeOut
  <2>3. ASSUME NEW b \in BOOLEAN, proc' = [proc EXCEPT ![p] = Returned(b)]
        PROVE \E r \in Proc : proc' = [proc EXCEPT ![p] = r] /\ r.stage = "idle"
    BY <2>3, ReturnedIsProc DEF Returned
  <2>4. ASSUME Send(p) PROVE \E r \in Proc : proc' = [proc EXCEPT ![p] = r] /\ r.op \in Controls
    <3> DEFINE r == [proc[p] EXCEPT !.stage = "sent"]
    <3>1. r \in Proc /\ r.op \in Controls
      BY <2>1, <2>4 DEF Send, Proc
    <3>2. proc' = [proc EXCEPT ![p] = r]
      BY <2>4 DEF Send
    <3> QED
      BY <3>1, <3>2
  <2>5. ASSUME Poll(p) PROVE \E r \in Proc : proc' = [proc EXCEPT ![p] = r] /\ r.stage = "idle"
    <3> DEFINE r == [Returned(TRUE) EXCEPT !.op = "STOP"]
    <3>1. r \in Proc /\ r.stage = "idle"
      BY DEF Returned, Proc, Ops, Controls
    <3>2. proc' = [proc EXCEPT ![p] = r]
      BY <2>5 DEF Poll
    <3> QED
      BY <3>1, <3>2
  <2>6. ASSUME NEW op \in Calls, Call(p, op)
        PROVE \E r \in Proc : proc' = [proc EXCEPT ![p] = r] /\ r.op \in Controls
    <3> DEFINE r == [op |-> op, stage |-> "asking", result |-> FALSE]
    <3>1. op \in Controls
      BY <2>6, CallsAssumption DEF Call, Ops
    <3>2. r \in Proc /\ r.op \in Controls
      BY <3>1 DEF Proc, Ops
    <3>3. proc' = [proc EXCEPT ![p] = r]
      BY <2>6 DEF Call
    <3> QED
      BY <3>2, <3>3
  <2> QED
    BY <2>2, <2>3, <2>4, <2>5, <2>6 DEF ProcStep
<1> QED
  BY <1>1 DEF ProcInv, ControlsAsked

LEMMA ProcStepIInv ==
  ASSUME IInv, NEW p \in Procs, ProcStep(p)
  PROVE  IInv'
<1>1. ProcInv /\ ThreadInv /\ QueueInv /\ OtherInv /\ StoppedMeansEnded
  BY DEF IInv
<1>2. ProcInv'
  BY <1>1, ProcStepProc
<1>3. CASE StartService(p)
  <2>1. /\ main' = [NoProcess EXCEPT !.pc = "waiting"] /\ queue' = queue
        /\ thread' = [thread EXCEPT !["serviceMain"].pc = "ready"]
        /\ scm' = "START_PENDING" /\ status' = "STOPPED" /\ service' = "new"
        /\ shutdown' = shutdown /\ overtaken' = FALSE /\ starts' = starts + 1
        /\ main.pc = "none" /\ starts < MaxStarts
    BY <1>3 DEF StartService
  <2>2. main' \in Main /\ main'.pc = "waiting"
    BY <2>1, IdleThreadIsThread DEF Main, NoProcess
  <2>3. [thread["serviceMain"] EXCEPT !.pc = "ready"] \in Thread
    BY <1>1 DEF ThreadInv, Thread, Threads
  <2>4. ThreadInv'
    BY <1>1, <2>1, <2>3 DEF ThreadInv, NoReportOfStopped, Threads, Thread
  <2>5. starts' \in 0..MaxStarts
    <3>1. MaxStarts \in Nat
      BY ProcessAssumption
    <3> QED
      BY <1>1, <2>1, <3>1 DEF OtherInv
  <2>6. queue' = <<>> /\ queue' \in Seq(Codes)
    BY <1>1, <2>1 DEF QueueInv, ControllerHandlerExists
  <2>7. OtherInv'
    BY <1>1, <2>1, <2>2, <2>5 DEF OtherInv, States
  <2>8. QueueInv' /\ StoppedMeansEnded'
    BY <2>1, <2>2, <2>6 DEF QueueInv, StoppedMeansEnded
  <2> QED
    BY <1>2, <2>4, <2>7, <2>8 DEF IInv
<1>4. CASE Send(p)
  <2>1. /\ thread' = [thread EXCEPT !["dispatcher"] =
                         [@ EXCEPT !.pc = "called", !.code = proc[p].op]]
        /\ shutdown' = (proc[p].op = "SHUTDOWN") /\ proc[p].stage = "asking"
        /\ UNCHANGED <<scm, status, service, main, queue, starts, overtaken>>
    BY <1>4 DEF Send, scmVars, history
  <2>2. proc[p].op \in Codes
    BY <1>1, <2>1 DEF ProcInv, ControlsAsked, Codes
  <2>3. [thread["dispatcher"] EXCEPT !.pc = "called", !.code = proc[p].op] \in Thread
    BY <1>1, <2>2 DEF ThreadInv, Thread, Threads
  <2>4. ThreadInv'
    BY <1>1, <2>1, <2>3 DEF ThreadInv, NoReportOfStopped, Threads, Thread
  <2>5. OtherInv' /\ QueueInv' /\ StoppedMeansEnded'
    BY <1>1, <2>1 DEF OtherInv, QueueInv, StoppedMeansEnded, ControllerHandlerExists
  <2> QED
    BY <1>2, <2>4, <2>5 DEF IInv
<1>5. CASE ~StartService(p) /\ ~Send(p)
  <2>1. UNCHANGED <<scm, status, service, main, queue, thread, shutdown, starts, overtaken>>
    BY <1>5 DEF ProcStep, Refuse, TimeOut, Poll, Call, scmVars, history
  <2>2. ThreadInv' /\ OtherInv' /\ QueueInv' /\ StoppedMeansEnded'
    BY <1>1, <2>1 DEF ThreadInv, NoReportOfStopped, OtherInv, QueueInv,
       StoppedMeansEnded, ControllerHandlerExists
  <2> QED
    BY <1>2, <2>2 DEF IInv
<1> QED
  BY <1>3, <1>4, <1>5

-----------------------------------------------------------------------------
\* The main thread takes no thread to a report, and shows "STOPPED" only when it
\* has left its event loop.
LEMMA MainStepIInv ==
  ASSUME IInv, MainStep
  PROVE  IInv'
<1>1. ProcInv /\ ThreadInv /\ QueueInv /\ OtherInv /\ StoppedMeansEnded
  BY DEF IInv
<1>2. ProcInv'
  <2>1. proc' = proc
    BY DEF MainStep, StartStep, RunCallback, WakeAll, LeaveEventLoop, CreateApplication,
      ServiceMain,
       ReportStopped, SysCleanup
  <2> QED
    BY <1>1, <2>1 DEF ProcInv, ControlsAsked
<1>3. CASE RunCallback
  <2>1. /\ main.pc \in {"events", "quitting"} /\ queue # <<>>
        /\ main' = [pc |-> "callback", code |-> Head(queue),
                    quit |-> main.quit \/ Head(queue) = "STOP"]
        /\ service' = AfterCallback(Head(queue)) /\ queue' = Tail(queue)
        /\ UNCHANGED <<scm, status, thread, shutdown, starts, overtaken>>
    BY <1>3 DEF RunCallback, scmVars, history
  <2>2. Head(queue) \in Codes /\ queue' \in Seq(Codes)
    BY <1>1, <2>1 DEF QueueInv
  <2>3. main' \in Main /\ main'.pc = "callback"
    BY <1>1, <2>1, <2>2 DEF OtherInv, Main
  <2>4. service' \in {"new", "running", "paused", "stopped"}
    BY <1>1, <2>1 DEF AfterCallback, OtherInv
  <2>5. OtherInv'
    BY <1>1, <2>1, <2>3, <2>4 DEF OtherInv
  <2>6. QueueInv'
    BY <2>2, <2>3 DEF QueueInv, ControllerHandlerExists
  <2>7. ThreadInv' /\ StoppedMeansEnded'
    BY <1>1, <2>1 DEF ThreadInv, NoReportOfStopped, StoppedMeansEnded
  <2> QED
    BY <1>2, <2>5, <2>6, <2>7 DEF IInv
<1>4. CASE WakeAll
  <2>1. /\ main.pc = "callback" /\ thread' = WokenThreads
        /\ main' = [main EXCEPT !.pc = IF main.quit THEN "quitting" ELSE "events"]
        /\ UNCHANGED <<scm, status, service, queue, shutdown, starts, overtaken>>
    BY <1>4 DEF WakeAll, scmVars, history
  <2>2. \A t \in Threads : [thread[t] EXCEPT !.pc = "woken"] \in Thread
    BY <1>1 DEF ThreadInv, Thread
  <2>3. ThreadInv'
    BY <1>1, <2>1, <2>2 DEF ThreadInv, NoReportOfStopped, WokenThreads, Thread
  <2>4. main' \in Main /\ main'.pc \in {"quitting", "events"}
    BY <1>1, <2>1 DEF OtherInv, Main
  <2>5. OtherInv' /\ QueueInv' /\ StoppedMeansEnded'
    BY <1>1, <2>1, <2>4 DEF OtherInv, QueueInv, StoppedMeansEnded, ControllerHandlerExists
  <2> QED
    BY <1>2, <2>3, <2>5 DEF IInv
<1>5. CASE CreateApplication
  <2>1. /\ main.pc = "waiting" /\ main' = [main EXCEPT !.pc = "events"]
        /\ thread' = [thread EXCEPT !["serviceMain"].pc = "called",
                                    !["serviceMain"].code = "STARTUP"]
        /\ UNCHANGED <<scm, status, service, queue, shutdown, starts, overtaken>>
    BY <1>5 DEF CreateApplication, ServiceMain, scmVars, history
  <2>2. [thread["serviceMain"] EXCEPT !.pc = "called", !.code = "STARTUP"] \in Thread
    BY <1>1 DEF ThreadInv, Thread, Threads, Codes
  <2>3. ThreadInv'
    BY <1>1, <2>1, <2>2 DEF ThreadInv, NoReportOfStopped, Threads, Thread
  <2>4. main' \in Main /\ main'.pc = "events"
    BY <1>1, <2>1 DEF OtherInv, Main
  <2>5. OtherInv' /\ QueueInv' /\ StoppedMeansEnded'
    BY <1>1, <2>1, <2>4 DEF OtherInv, QueueInv, StoppedMeansEnded, ControllerHandlerExists
  <2> QED
    BY <1>2, <2>3, <2>5 DEF IInv
<1>6. CASE LeaveEventLoop \/ ReportStopped \/ SysCleanup
  <2>1. thread' = thread /\ service' = service /\ UNCHANGED <<shutdown, starts>>
    BY <1>6 DEF LeaveEventLoop, ReportStopped, SysCleanup, history
  <2>2. ThreadInv'
    BY <1>1, <2>1 DEF ThreadInv, NoReportOfStopped
  <2>3. \/ main' = [main EXCEPT !.pc = "executed"] /\ main.pc = "quitting"
        \/ main' = [main EXCEPT !.pc = "stopped"] /\ main.pc = "executed"
        \/ main' = [main EXCEPT !.pc = "cleaned"] /\ main.pc = "stopped" /\ queue' = <<>>
    BY <1>6 DEF LeaveEventLoop, ReportStopped, SysCleanup
  <2>4. main' \in Main /\ \/ main.pc = "quitting" /\ main'.pc = "executed"
                          \/ main.pc = "executed" /\ main'.pc = "stopped"
                          \/ main.pc = "stopped" /\ main'.pc = "cleaned" /\ queue' = <<>>
    BY <1>1, <2>3 DEF OtherInv, Main
  <2>5. \/ UNCHANGED <<scm, status, overtaken>>
        \/ /\ scm' = "STOPPED" /\ status' = "STOPPED" /\ main.pc = "executed"
           /\ overtaken' \in BOOLEAN
    BY <1>1, <1>6 DEF OtherInv, LeaveEventLoop, ReportStopped, SysCleanup, scmVars, history
  <2>6. OtherInv'
    BY <1>1, <2>1, <2>4, <2>5 DEF OtherInv, States
  <2>7. queue' = queue \/ queue' = <<>>
    BY <1>6 DEF LeaveEventLoop, ReportStopped, SysCleanup
  <2>8. QueueInv'
    <3>1. CASE queue' = <<>>
      <4>1. queue' \in Seq(Codes)
        BY <3>1
      <4> QED
        BY <3>1, <4>1 DEF QueueInv
    <3>2. CASE queue' # <<>>
      <4>1. queue' = queue /\ main'.pc \in {"executed", "stopped"}
        BY <2>4, <2>7, <3>2
      <4> QED
        BY <1>1, <4>1 DEF QueueInv, ControllerHandlerExists
    <3> QED
      BY <3>1, <3>2
  <2>9. StoppedMeansEnded'
    BY <1>1, <2>4, <2>5 DEF StoppedMeansEnded
  <2> QED
    BY <1>2, <2>2, <2>6, <2>8, <2>9 DEF IInv
<1> QED
  BY <1>3, <1>4, <1>5, <1>6 DEF MainStep, StartStep

LEMMA ExitIInv ==
  ASSUME IInv, ExitProcess
  PROVE  IInv'
<1>1. ProcInv /\ OtherInv
  BY DEF IInv
<1>2. ProcInv'
  <2>1. Returned(FALSE) \in Proc /\ Returned(FALSE).stage = "idle"
    BY ReturnedIsProc DEF Returned
  <2>2. proc' = [p \in Procs |-> IF proc[p].stage = "sent" THEN Returned(FALSE) ELSE proc[p]]
    BY DEF ExitProcess
  <2> QED
    BY <1>1, <2>1, <2>2 DEF ProcInv, ControlsAsked
<1>3. ThreadInv'
  BY IdleThreadIsThread DEF ExitProcess, ThreadInv, NoReportOfStopped, IdleThread
<1>4. OtherInv'
  BY <1>1, IdleThreadIsThread DEF ExitProcess, OtherInv, States
<1>5. QueueInv' /\ StoppedMeansEnded'
  BY DEF ExitProcess, QueueInv, StoppedMeansEnded, NoProcess
<1> QED
  BY <1>2, <1>3, <1>4, <1>5 DEF IInv

-----------------------------------------------------------------------------
\* A handler shows "STOPPED" only where the SCM knows the service as stopped.
LEMMA HandlerIInv ==
  ASSUME IInv, NEW t \in Threads, Handler(t)
  PROVE  IInv'
<1>1. ProcInv /\ ThreadInv /\ QueueInv /\ OtherInv /\ StoppedMeansEnded
  BY DEF IInv
<1>2. thread[t] \in Thread /\ thread[t].code \in Codes
  BY <1>1 DEF ThreadInv, Thread
<1>3. /\ Pending(thread[t].code) \in States /\ Final(thread[t].code) \in States
      /\ thread[t].code \in {"STARTUP", "STOP", "PAUSE", "CONTINUE"}
           => Pending(thread[t].code) # "STOPPED"
      /\ thread[t].code \in {"STARTUP", "PAUSE", "CONTINUE"}
           => Final(thread[t].code) # "STOPPED"
  BY <1>1, <1>2, HandlersSetNoStop DEF OtherInv
<1>4. main' = main /\ service' = service /\ shutdown' = shutdown /\ starts' = starts
  BY DEF Handler, Enter, Interrogate, Complete, ReadStatus, Report, scmVars, history
<1>5. ProcInv'
  <2>1. proc' = proc \/ proc' = Confirmed(t)
    BY DEF Handler, Enter, Interrogate, Complete, ReadStatus, Report
  <2>2. Confirmed(t) \in [Procs -> Proc]
    BY <1>1, ConfirmedIsProc DEF ProcInv
  <2>3. \A p \in Procs : /\ Confirmed(t)[p].op = proc[p].op
                         /\ Confirmed(t)[p].stage # "idle" => proc[p].stage # "idle"
    <3>1. \A p \in Procs : proc[p] \in Proc
      BY <1>1 DEF ProcInv
    <3> QED
      BY <3>1 DEF Confirmed, Proc
  <2> QED
    BY <1>1, <2>1, <2>2, <2>3 DEF ProcInv, ControlsAsked
<1>6. ThreadInv'
  <2>1. PICK th : thread' = [thread EXCEPT ![t] = th] /\ th \in Thread
                    /\ (th.pc = "reporting" => th.report # "STOPPED")
    <3>1. ASSUME NEW pc \in {"waiting", "leaving"}, thread' = [thread EXCEPT ![t].pc = pc]
          PROVE \E th \in Thread : thread' = [thread EXCEPT ![t] = th] /\ th.pc # "reporting"
      <4> DEFINE th == [thread[t] EXCEPT !.pc = pc]
      <4>1. th \in Thread /\ th.pc # "reporting"
        BY <1>2 DEF Thread
      <4>2. thread' = [thread EXCEPT ![t] = th]
        BY <3>1
      <4> QED
        BY <4>1, <4>2
    <3>2. CASE Enter(t) \/ Interrogate(t) \/ Complete(t)
      BY <3>1, <3>2 DEF Enter, Interrogate, Complete
    <3>3. CASE ReadStatus(t) /\ status # "STOPPED"
      <4> DEFINE th == [thread[t] EXCEPT !.pc = "reporting", !.report = status]
      <4>1. th \in Thread /\ th.report # "STOPPED"
        BY <1>1, <1>2, <3>3 DEF OtherInv, Thread
      <4>2. thread' = [thread EXCEPT ![t] = th]
        BY <3>3 DEF ReadStatus
      <4> QED
        BY <4>1, <4>2
    <3>4. CASE Report(t) \/ (ReadStatus(t) /\ status = "STOPPED")
      BY <3>4, IdleThreadIsThread DEF Report, ReadStatus, IdleThread
    <3> QED
      BY <3>2, <3>3, <3>4 DEF Handler
  <2> QED
    BY <1>1, <2>1 DEF ThreadInv, NoReportOfStopped
<1>7. scm' \in States /\ status' \in States /\ overtaken' \in BOOLEAN
      /\ (scm' = "STOPPED" => scm = "STOPPED")
  <2>1. CASE Enter(t) \/ Complete(t)
    BY <1>1, <1>3, <2>1 DEF Enter, Complete, SetStatus, OtherInv, scmVars
  <2>2. CASE Interrogate(t) \/ ReadStatus(t)
    BY <1>1, <2>2 DEF Interrogate, ReadStatus, OtherInv, scmVars, history
  <2>3. CASE Report(t)
    <3>1. thread[t].report \in States /\ thread[t].report # "STOPPED"
      BY <1>1, <1>2, <2>3 DEF Report, ThreadInv, NoReportOfStopped, Thread
    <3> QED
      BY <1>1, <2>3, <3>1 DEF Report, OtherInv, history
  <2> QED
    BY <2>1, <2>2, <2>3 DEF Handler
<1>8. QueueInv'
  <2>1. CASE Enter(t) /\ ControllerHandlerExists
    <3>1. PICK code \in Codes : queue' = Append(queue, code)
      BY <1>2, <2>1 DEF Enter, Post, Codes, Controls
    <3>2. queue' \in Seq(Codes)
      BY <1>1, <3>1 DEF QueueInv
    <3> QED
      BY <1>4, <2>1, <3>2 DEF QueueInv, ControllerHandlerExists
  <2>2. CASE ~(Enter(t) /\ ControllerHandlerExists)
    <3>1. queue' = queue
      BY <2>2 DEF Handler, Enter, Post, Interrogate, Complete, ReadStatus, Report
    <3> QED
      BY <1>1, <1>4, <3>1 DEF QueueInv, ControllerHandlerExists
  <2> QED
    BY <2>1, <2>2
<1>9. OtherInv' /\ StoppedMeansEnded'
  BY <1>1, <1>4, <1>7 DEF OtherInv, StoppedMeansEnded
<1> QED
  BY <1>5, <1>6, <1>8, <1>9 DEF IInv

LEMMA NextIInv == IInv /\ [Next]_vars => IInv'
<1> SUFFICES ASSUME IInv, [Next]_vars PROVE IInv'
  OBVIOUS
<1>1. ASSUME NEW p \in Procs, ProcStep(p) PROVE IInv'
  BY <1>1, ProcStepIInv
<1>2. CASE MainStep
  BY <1>2, MainStepIInv
<1>3. CASE ExitProcess
  BY <1>3, ExitIInv
<1>4. ASSUME NEW t \in Threads, Handler(t) PROVE IInv'
  BY <1>4, HandlerIInv
<1>5. CASE UNCHANGED vars
  <2>1. UNCHANGED <<scm, status, service, main, queue, thread, proc, shutdown, starts,
                    overtaken>>
    BY <1>5 DEF vars
  <2> QED
    BY <2>1 DEF IInv, ProcInv, ControlsAsked, ThreadInv, NoReportOfStopped, QueueInv,
       ControllerHandlerExists, OtherInv, StoppedMeansEnded
<1> QED
  BY <1>1, <1>2, <1>3, <1>4, <1>5 DEF Next

LEMMA Invariant == Spec => []IInv
  BY InitIInv, NextIInv, PTL DEF Spec

-----------------------------------------------------------------------------
(***************************************************************************)
(* The order of the events: who waits, for which event, and what the       *)
(* status says meanwhile.                                                  *)
(***************************************************************************)
Starting == thread["serviceMain"].pc \in {"ready", "called", "waiting", "woken"}
InLoop == main.pc \in {"events", "callback", "quitting"}
Event(code) == IF code = "SHUTDOWN" THEN "STOP" ELSE code

\* Until serviceMain has announced the start no control is delivered, and until it
\* has shown the start as done only a stop; start() is the first callback.
StartInv ==
  /\ thread["serviceMain"].pc \in {"ready", "called"}
       => /\ thread["dispatcher"].pc = "idle" /\ scm = "START_PENDING"
          /\ main.pc \in {"waiting", "events"} /\ main.quit = FALSE /\ queue = <<>>
  /\ overtaken = FALSE /\ Starting
       => /\ scm = "START_PENDING" /\ main.quit = FALSE
          /\ main.pc \in {"waiting", "events", "callback"}
          /\ \/ thread["dispatcher"].pc = "idle"
             \/ /\ thread["dispatcher"].pc = "called"
                /\ thread["dispatcher"].code \in {"STOP", "SHUTDOWN"}
  /\ thread["dispatcher"].pc # "ready"
  /\ thread["serviceMain"].pc = "ready" <=> main.pc = "waiting"
  /\ thread["serviceMain"].pc \in {"called", "waiting", "woken"}
       => thread["serviceMain"].code = "STARTUP"
  /\ main.pc = "none" => scm = "STOPPED" /\ \A t \in Threads : thread[t].pc = "idle"
  /\ service = "new" /\ main.pc # "none"
       => /\ thread["serviceMain"].pc \in {"ready", "called", "waiting"}
          /\ main.pc \in {"waiting", "events"}
          /\ thread["serviceMain"].pc = "waiting"
               => queue # <<>> /\ Head(queue) = "STARTUP"
  /\ main.pc \in {"quitting", "executed", "stopped", "cleaned"} => main.quit = TRUE

\* The one event in the queue or in its callback is that of the one who waits.
WaitInv ==
  overtaken = FALSE /\ InLoop =>
    /\ \A t \in Threads : Waiting(t) =>
         \/ main.pc = "callback" /\ main.code = Event(thread[t].code) /\ queue = <<>>
         \/ main.pc # "callback" /\ queue = <<Event(thread[t].code)>>
    /\ (\A t \in Threads : ~Waiting(t)) => main.pc # "callback" /\ queue = <<>>

\* After quit() no control is delivered, and only that of the stop is handled.
QuitInv ==
  overtaken = FALSE /\ main.quit = TRUE =>
    /\ status \in {"STOP_PENDING", "STOPPED"} \/ shutdown = TRUE
    /\ thread["dispatcher"].pc # "called"
    /\ thread["dispatcher"].pc \in {"waiting", "woken"}
         => thread["dispatcher"].code \in {"STOP", "SHUTDOWN"}
    /\ thread["dispatcher"].pc = "waiting" => main.pc = "callback"

\* The SCM shows the status, and the status is that of the handler on its way.
ShownInv ==
  /\ \/ scm = status
     \/ /\ scm = "START_PENDING" /\ status = "STOPPED"
        /\ thread["serviceMain"].pc \in {"ready", "called"}
  /\ \A t \in Threads : thread[t].pc = "reporting" => thread[t].report = status
  /\ status = "RUNNING" => service = "running" \/ shutdown = TRUE
  /\ status = "PAUSED" => service = "paused" \/ shutdown = TRUE

\* The status while a handler waits, and the service when its event has run.
Meanwhile(code) == CASE code = "STARTUP"  -> "START_PENDING"
                     [] code = "PAUSE"    -> "PAUSE_PENDING"
                     [] code = "CONTINUE" -> "CONTINUE_PENDING"
                     [] OTHER             -> "STOP_PENDING"
Afterwards(code) == IF code = "PAUSE" THEN "paused" ELSE "running"

\* What a handler that waits, or has waited, knows of the status and the service.
HandledInv ==
  \A t \in Threads :
    /\ thread[t].code \in {"STARTUP", "PAUSE", "CONTINUE"} =>
         /\ thread[t].pc \in {"waiting", "woken"} => status = Meanwhile(thread[t].code)
         /\ thread[t].pc = "woken" \/ (thread[t].pc = "waiting" /\ main.pc = "callback")
              => service = Afterwards(thread[t].code)
    /\ thread[t].code = "STOP" /\ thread[t].pc = "waiting" => status = "STOP_PENDING"
    /\ thread[t].code = "SHUTDOWN" /\ thread[t].pc \in {"called", "waiting"}
         => shutdown = TRUE

StatusInv == overtaken = FALSE /\ main.pc # "none" => ShownInv /\ HandledInv

TInv == IInv /\ StartInv /\ WaitInv /\ QuitInv /\ StatusInv

LEMMA InitTInv == Init => TInv
<1> SUFFICES ASSUME Init PROVE TInv
  OBVIOUS
<1>1. /\ \A t \in Threads : thread[t] = IdleThread
      /\ main = NoProcess /\ queue = <<>>
      /\ overtaken = FALSE /\ scm = "STOPPED"
  BY DEF Init
<1>2. main.pc = "none" /\ main.quit = FALSE /\ \A t \in Threads : thread[t].pc = "idle"
  BY <1>1 DEF NoProcess, IdleThread
<1>3. StartInv
  BY <1>1, <1>2 DEF StartInv, Starting, Threads
<1>4. WaitInv /\ QuitInv /\ StatusInv
  BY <1>2 DEF WaitInv, InLoop, QuitInv, StatusInv
<1> QED
  BY <1>3, <1>4, InitIInv DEF TInv

\* What the five parts say of the threads when nothing that they read changes.
LEMMA QuietTInv ==
  ASSUME TInv,
         UNCHANGED <<scm, status, service, main, queue, thread, shutdown, overtaken>>
  PROVE  StartInv' /\ WaitInv' /\ QuitInv' /\ StatusInv'
<1>1. StartInv'
  BY DEF TInv, StartInv, Starting
<1>2. WaitInv'
  BY DEF TInv, WaitInv, InLoop, Waiting
<1>3. QuitInv'
  BY DEF TInv, QuitInv
<1>4. StatusInv'
  BY DEF TInv, StatusInv, ShownInv, HandledInv
<1> QED
  BY <1>1, <1>2, <1>3, <1>4

-----------------------------------------------------------------------------
\* A process starts when no thread of the last one runs.
LEMMA StartServiceTInv ==
  ASSUME TInv, NEW p \in Procs, StartService(p)
  PROVE  StartInv' /\ WaitInv' /\ QuitInv' /\ StatusInv'
<1>1. /\ main.pc = "none" /\ \A t \in Threads : thread[t].pc = "idle"
      /\ thread \in [Threads -> Thread]
  BY DEF TInv, IInv, ThreadInv, StartInv, StartService
<1>2. /\ main' = [NoProcess EXCEPT !.pc = "waiting"]
      /\ thread' = [thread EXCEPT !["serviceMain"].pc = "ready"]
      /\ scm' = "START_PENDING" /\ status' = "STOPPED" /\ service' = "new"
      /\ shutdown = FALSE /\ shutdown' = shutdown
  BY DEF StartService, TInv, IInv, OtherInv
<1>3. main'.pc = "waiting" /\ main'.quit = FALSE
  BY <1>2 DEF NoProcess
<1>4. thread'["serviceMain"].pc = "ready" /\ thread'["dispatcher"].pc = "idle"
  BY <1>1, <1>2 DEF Threads
<1>5. StartInv'
  <2>1. queue' = <<>>
    BY DEF StartService, TInv, IInv, QueueInv, ControllerHandlerExists
  <2> QED
    BY <1>2, <1>3, <1>4, <2>1 DEF StartInv, Starting, Threads
<1>6. WaitInv' /\ QuitInv'
  BY <1>3 DEF WaitInv, InLoop, QuitInv
<1>7. ShownInv'
  BY <1>2, <1>4 DEF ShownInv, Threads
<1>8. HandledInv'
  BY <1>4 DEF HandledInv, Threads
<1> QED
  BY <1>5, <1>6, <1>7, <1>8 DEF StatusInv

\* A control is delivered only when quit() has not been called, and, when start() has
\* not been handled, only to stop.
LEMMA SendTInv ==
  ASSUME TInv, NEW p \in Procs, Send(p)
  PROVE  StartInv' /\ WaitInv' /\ QuitInv' /\ StatusInv'
<1>1. /\ thread["dispatcher"].pc = "idle" /\ Deliverable(proc[p].op)
      /\ thread' = [thread EXCEPT !["dispatcher"] =
                         [@ EXCEPT !.pc = "called", !.code = proc[p].op]]
      /\ shutdown' = (proc[p].op = "SHUTDOWN")
      /\ UNCHANGED <<scm, status, service, main, queue, overtaken>>
  BY DEF Send, scmVars, history
<1>2. thread \in [Threads -> Thread]
  BY DEF TInv, IInv, ThreadInv
<1>3. /\ thread'["dispatcher"].pc = "called" /\ thread'["dispatcher"].code = proc[p].op
      /\ thread'["serviceMain"] = thread["serviceMain"]
  BY <1>1, <1>2 DEF Threads, Thread
<1>4. /\ shutdown = FALSE /\ scm \notin {"STOPPED", "STOP_PENDING"}
      /\ scm = "START_PENDING" => proc[p].op \in {"STOP", "SHUTDOWN"}
      /\ thread["serviceMain"].pc \notin {"ready", "called"}
  BY <1>1 DEF Deliverable, TInv, IInv, OtherInv, StartInv
<1>5. (proc[p].op = "SHUTDOWN") => shutdown' = TRUE
  BY <1>1
<1>6. main.pc # "none"
  BY <1>4 DEF TInv, StartInv
<1>7. StartInv'
  BY <1>1, <1>3, <1>4, <1>6 DEF TInv, StartInv, Starting, Threads
<1>8. WaitInv'
  BY <1>1, <1>3 DEF TInv, WaitInv, InLoop, Waiting, Threads
<1>9. ASSUME overtaken = FALSE PROVE main.quit # TRUE
  <2>1. ShownInv
    BY <1>6, <1>9 DEF TInv, StatusInv
  <2>2. status \notin {"STOPPED", "STOP_PENDING"}
    BY <1>4, <2>1 DEF ShownInv
  <2> QED
    BY <1>4, <1>9, <2>2 DEF TInv, QuitInv
<1>10. QuitInv'
  BY <1>1, <1>9 DEF QuitInv
<1>11. ASSUME overtaken = FALSE PROVE ShownInv' /\ HandledInv'
  <2>1. ShownInv /\ HandledInv
    BY <1>6, <1>11 DEF TInv, StatusInv
  <2>2. ShownInv'
    BY <1>1, <1>3, <1>4, <2>1 DEF ShownInv, Threads
  <2>3. HandledInv'
    BY <1>1, <1>3, <1>4, <1>5, <2>1 DEF HandledInv, Threads
  <2> QED
    BY <2>2, <2>3
<1> QED
  BY <1>1, <1>7, <1>8, <1>10, <1>11 DEF StatusInv

LEMMA ProcStepTInv ==
  ASSUME TInv, NEW p \in Procs, ProcStep(p)
  PROVE  StartInv' /\ WaitInv' /\ QuitInv' /\ StatusInv'
<1>1. CASE StartService(p)
  BY <1>1, StartServiceTInv
<1>2. CASE Send(p)
  BY <1>2, SendTInv
<1>3. CASE ~StartService(p) /\ ~Send(p)
  <2>1. UNCHANGED <<scm, status, service, main, queue, thread, shutdown, overtaken>>
    BY <1>3 DEF ProcStep, Refuse, TimeOut, Poll, Call, scmVars, history
  <2> QED
    BY <2>1, QuietTInv
<1> QED
  BY <1>1, <1>2, <1>3

-----------------------------------------------------------------------------
\* The event loop begins with nothing in the queue.
LEMMA CreateApplicationTInv ==
  ASSUME TInv, CreateApplication
  PROVE  StartInv' /\ WaitInv' /\ QuitInv' /\ StatusInv'
<1>1. /\ main.pc = "waiting" /\ thread["serviceMain"].pc = "ready"
      /\ main' = [main EXCEPT !.pc = "events"]
      /\ thread' = [thread EXCEPT !["serviceMain"].pc = "called",
                                  !["serviceMain"].code = "STARTUP"]
      /\ UNCHANGED <<scm, status, service, queue, shutdown, overtaken>>
  BY DEF CreateApplication, ServiceMain, scmVars, history
<1>2. thread \in [Threads -> Thread] /\ main \in Main /\ queue = <<>>
  BY <1>1 DEF TInv, IInv, ThreadInv, OtherInv, QueueInv, ControllerHandlerExists
<1>3. /\ thread'["serviceMain"].pc = "called" /\ thread'["serviceMain"].code = "STARTUP"
      /\ thread'["dispatcher"] = thread["dispatcher"]
  BY <1>1, <1>2 DEF Threads, Thread
<1>4. main'.pc = "events" /\ main'.quit = main.quit
  BY <1>1, <1>2 DEF Main
<1>5. Starting /\ thread["dispatcher"].pc = "idle" /\ main.quit = FALSE
  BY <1>1 DEF Starting, TInv, StartInv
<1>6. StartInv'
  BY <1>1, <1>2, <1>3, <1>4, <1>5 DEF TInv, StartInv, Starting, Threads
<1>7. WaitInv'
  BY <1>1, <1>2, <1>3, <1>4, <1>5 DEF WaitInv, InLoop, Waiting, Threads
<1>8. QuitInv'
  BY <1>4, <1>5 DEF QuitInv
<1>9. ASSUME overtaken = FALSE PROVE ShownInv' /\ HandledInv'
  <2>1. ShownInv
    BY <1>1, <1>9 DEF TInv, StatusInv
  <2>2. ShownInv'
    BY <1>1, <1>3, <1>5, <2>1 DEF ShownInv, Threads
  <2>3. HandledInv'
    BY <1>3, <1>5 DEF HandledInv, Threads
  <2> QED
    BY <2>2, <2>3
<1> QED
  BY <1>1, <1>6, <1>7, <1>8, <1>9 DEF StatusInv

\* A callback runs for the event of the thread that waits.
LEMMA RunCallbackTInv ==
  ASSUME TInv, RunCallback
  PROVE  StartInv' /\ WaitInv' /\ QuitInv' /\ StatusInv'
<1>1. /\ main.pc \in {"events", "quitting"} /\ queue # <<>>
      /\ main' = [pc |-> "callback", code |-> Head(queue),
                  quit |-> main.quit \/ Head(queue) = "STOP"]
      /\ service' = AfterCallback(Head(queue)) /\ queue' = Tail(queue)
      /\ UNCHANGED <<scm, status, thread, shutdown, overtaken>>
  BY DEF RunCallback, scmVars, history
<1>2. main'.pc = "callback" /\ main'.code = Head(queue)
      /\ main'.quit = (main.quit \/ Head(queue) = "STOP")
  BY <1>1
<1>3. main.quit \in BOOLEAN /\ main'.quit \in BOOLEAN
  BY <1>2 DEF TInv, IInv, OtherInv, Main
<1>4. /\ thread["serviceMain"].pc \notin {"ready", "called"}
      /\ service = "new" => Head(queue) = "STARTUP"
  BY <1>1 DEF TInv, StartInv
<1>5. service' # "new"
  BY <1>1, <1>4 DEF AfterCallback
<1>6. ASSUME overtaken = FALSE
      PROVE  \E t \in Threads : /\ Waiting(t) /\ queue = <<Event(thread[t].code)>>
                                /\ \A u \in Threads : Waiting(u) => u = t
  <2>1. PICK t \in Threads : Waiting(t) /\ queue = <<Event(thread[t].code)>>
    BY <1>1, <1>6 DEF TInv, WaitInv, InLoop
  <2>2. \A u \in Threads : Waiting(u) => u = t
    BY <1>6, <2>1 DEF TInv, StartInv, Starting, Waiting, Threads
  <2> QED
    BY <2>1, <2>2
<1>7. ASSUME overtaken = FALSE, Starting PROVE main.quit = FALSE /\ main'.quit = FALSE
  <2>1. PICK t \in Threads : Waiting(t) /\ queue = <<Event(thread[t].code)>>
    BY <1>6, <1>7
  <2>2. t = "serviceMain" /\ thread[t].code = "STARTUP" /\ main.quit = FALSE
    BY <1>7, <2>1 DEF TInv, StartInv, Waiting, Threads
  <2>3. Head(queue) = "STARTUP"
    BY <2>1, <2>2 DEF Event
  <2> QED
    BY <1>2, <2>2, <2>3
<1>8. StartInv'
  BY <1>1, <1>2, <1>4, <1>5, <1>7 DEF TInv, StartInv, Starting
<1>9. ASSUME overtaken = FALSE PROVE WaitInv' /\ QuitInv' /\ ShownInv' /\ HandledInv'
  <2>1. ShownInv /\ HandledInv
    BY <1>1, <1>9 DEF TInv, StatusInv
  <2>2. PICK t \in Threads : /\ Waiting(t) /\ queue = <<Event(thread[t].code)>>
                             /\ \A u \in Threads : Waiting(u) => u = t
    BY <1>6, <1>9
  <2>3. Head(queue) = Event(thread[t].code) /\ queue' = <<>>
    BY <1>1, <2>2
  <2>4. thread[t].code = "SHUTDOWN" \/ Event(thread[t].code) = thread[t].code
    BY DEF Event
  <2>5. WaitInv'
    BY <1>1, <1>2, <2>2, <2>3 DEF WaitInv, InLoop, Waiting
  <2>6. main.quit = FALSE
    <3>1. CASE t = "serviceMain"
      BY <1>7, <1>9, <2>2, <3>1 DEF Starting, Waiting
    <3>2. CASE t = "dispatcher"
      BY <1>1, <1>3, <1>9, <2>2, <3>2 DEF TInv, QuitInv, Waiting
    <3> QED
      BY <3>1, <3>2 DEF Threads
  <2>7. /\ thread[t].code = "STOP" => status = "STOP_PENDING"
        /\ thread[t].code = "SHUTDOWN" => shutdown = TRUE
        /\ thread[t].code \in {"STARTUP", "PAUSE", "CONTINUE"}
             => status = Meanwhile(thread[t].code)
    BY <2>1, <2>2 DEF HandledInv, Waiting
  <2>8. t = "serviceMain" => thread[t].code = "STARTUP"
    BY <2>2 DEF TInv, StartInv, Waiting
  <2>9. main'.quit = TRUE => thread[t].code \in {"STOP", "SHUTDOWN"} /\ t = "dispatcher"
    BY <1>2, <2>3, <2>6, <2>8 DEF Event, Threads
  <2>10. QuitInv'
    BY <1>1, <1>2, <2>2, <2>7, <2>9 DEF QuitInv, Waiting
  <2>11. shutdown = TRUE \/ status \notin {"RUNNING", "PAUSED"} \/ service' = service
    <3>1. CASE thread[t].code \in {"STARTUP", "PAUSE", "CONTINUE"}
      BY <2>7, <3>1 DEF Meanwhile
    <3>2. CASE thread[t].code \in {"STOP", "SHUTDOWN"}
      BY <2>7, <3>2
    <3>3. CASE thread[t].code \notin {"STARTUP", "PAUSE", "CONTINUE", "STOP", "SHUTDOWN"}
      BY <1>1, <2>3, <3>3 DEF AfterCallback, Event
    <3> QED
      BY <3>1, <3>2, <3>3
  <2>12. ShownInv'
    BY <1>1, <2>1, <2>11 DEF ShownInv
  <2>13. \A u \in Threads : thread[u].pc = "woken" =>
           thread[u].code \notin {"STARTUP", "PAUSE", "CONTINUE"}
    <3>1. \A u \in Threads : thread[u].pc = "woken" => u # t
      BY <2>2 DEF Waiting
    <3>2. thread["serviceMain"].pc # "woken"
      BY <1>9, <2>2, <3>1 DEF TInv, StartInv, Starting, Waiting, Threads
    <3>3. thread["dispatcher"].pc # "woken"
      BY <1>9, <2>2, <3>1 DEF TInv, StartInv, Starting, Waiting, Threads
    <3> QED
      BY <3>2, <3>3 DEF Threads
  <2>14. thread[t].code \in {"STARTUP", "PAUSE", "CONTINUE"}
          => service' = Afterwards(thread[t].code)
    BY <1>1, <2>3 DEF AfterCallback, Afterwards, Event
  <2>15. HandledInv'
    BY <1>1, <2>1, <2>2, <2>13, <2>14 DEF HandledInv, Waiting
  <2> QED
    BY <2>5, <2>10, <2>12, <2>15
<1>10. WaitInv' /\ QuitInv' /\ StatusInv'
  BY <1>1, <1>9 DEF WaitInv, QuitInv, StatusInv
<1> QED
  BY <1>8, <1>10

\* wakeAll() meets the one thread whose event has been handled.
LEMMA WakeAllTInv ==
  ASSUME TInv, WakeAll
  PROVE  StartInv' /\ WaitInv' /\ QuitInv' /\ StatusInv'
<1>1. /\ main.pc = "callback" /\ thread' = WokenThreads
      /\ main' = [main EXCEPT !.pc = IF main.quit THEN "quitting" ELSE "events"]
      /\ UNCHANGED <<scm, status, service, queue, shutdown, overtaken>>
  BY DEF WakeAll, scmVars, history
<1>2. thread \in [Threads -> Thread] /\ main \in Main
  BY DEF TInv, IInv, ThreadInv, OtherInv
<1>3. \A t \in Threads :
        /\ thread'[t].code = thread[t].code /\ thread'[t].report = thread[t].report
        /\ Waiting(t) => thread'[t].pc = "woken"
        /\ ~Waiting(t) => thread'[t].pc = thread[t].pc
  BY <1>1, <1>2 DEF WokenThreads, Thread
<1>4. /\ main'.quit = main.quit /\ main.quit \in BOOLEAN
      /\ main'.pc = IF main.quit THEN "quitting" ELSE "events"
  BY <1>1, <1>2 DEF Main
<1>5. overtaken = FALSE => queue = <<>>
  BY <1>1 DEF TInv, WaitInv, InLoop
<1>6. "serviceMain" \in Threads /\ "dispatcher" \in Threads
  BY DEF Threads
<1>7. \A u \in Threads : thread'[u].pc # "waiting"
  BY <1>3 DEF Waiting
<1>8. service # "new"
  BY <1>1 DEF TInv, StartInv
<1>9. StartInv'
  <2>1. thread["serviceMain"].pc \notin {"ready", "called"}
    BY <1>1 DEF TInv, StartInv
  <2>2. Starting' => Starting
    BY <1>3, <1>6 DEF Starting, Waiting
  <2>3. main'.pc \in {"quitting", "events"}
    BY <1>4
  <2> QED
    BY <1>1, <1>3, <1>4, <1>6, <1>8, <2>1, <2>2, <2>3 DEF TInv, StartInv, Waiting
<1>10. WaitInv'
  BY <1>1, <1>4, <1>5, <1>7 DEF WaitInv, InLoop, Waiting
<1>11. QuitInv'
  BY <1>1, <1>3, <1>4 DEF TInv, QuitInv, Waiting, Threads
<1>12. ASSUME overtaken = FALSE PROVE ShownInv' /\ HandledInv'
  <2>1. ShownInv /\ HandledInv
    BY <1>1, <1>12 DEF TInv, StatusInv
  <2>2. \A u \in Threads : thread'[u].pc = "woken" => Waiting(u) \/ thread[u].pc = "woken"
    BY <1>3
  <2>3. \A u \in Threads : thread'[u].pc \in {"called", "reporting", "ready", "idle"}
                             => thread'[u].pc = thread[u].pc
    BY <1>3
  <2>4. ShownInv'
    <3>1. \A u \in Threads : thread'[u].pc = "reporting" => thread'[u].report = status'
      BY <1>1, <1>3, <2>1, <2>3 DEF ShownInv
    <3>2. thread["serviceMain"].pc \in {"ready", "called"}
            => thread'["serviceMain"].pc \in {"ready", "called"}
      BY <1>3 DEF Waiting, Threads
    <3> QED
      BY <1>1, <2>1, <3>1, <3>2 DEF ShownInv
  <2>5. HandledInv'
    BY <1>1, <1>3, <1>6, <2>1, <2>2, <2>3 DEF HandledInv, Waiting
  <2> QED
    BY <2>4, <2>5
<1> QED
  BY <1>1, <1>9, <1>10, <1>11, <1>12 DEF StatusInv

\* The event loop is left, and "STOPPED" shown, when nobody waits any more.
LEMMA LeaveTInv ==
  ASSUME TInv, LeaveEventLoop \/ ReportStopped \/ SysCleanup
  PROVE  StartInv' /\ WaitInv' /\ QuitInv' /\ StatusInv'
<1>1. /\ main.pc \in {"quitting", "executed", "stopped"}
      /\ UNCHANGED <<service, thread, shutdown>>
  BY DEF LeaveEventLoop, ReportStopped, SysCleanup, history
<1>2. /\ main \in Main /\ main.quit = TRUE /\ service # "new"
      /\ thread["serviceMain"].pc \notin {"ready", "called"}
      /\ overtaken = FALSE => ~Starting
  BY <1>1 DEF TInv, IInv, OtherInv, StartInv
<1>3. main'.pc \in {"executed", "stopped", "cleaned"} /\ main'.quit = main.quit
  BY <1>1, <1>2 DEF LeaveEventLoop, ReportStopped, SysCleanup, Main
<1>4. overtaken \in BOOLEAN
  BY DEF TInv, IInv, OtherInv
<1>5. WaitInv'
  BY <1>3 DEF WaitInv, InLoop
<1>6. \/ UNCHANGED <<scm, status, overtaken>>
      \/ /\ scm' = "STOPPED" /\ status' = "STOPPED"
         /\ overtaken' = (overtaken \/ \E t \in Threads : thread[t].pc = "reporting")
  BY DEF LeaveEventLoop, ReportStopped, SysCleanup, scmVars, history
<1>7. overtaken' \in BOOLEAN /\ (overtaken' = FALSE => overtaken = FALSE)
  BY <1>4, <1>6
<1>10. StartInv'
  BY <1>1, <1>2, <1>3, <1>7 DEF TInv, StartInv, Starting
<1>8. ASSUME overtaken' = FALSE PROVE QuitInv' /\ ShownInv' /\ HandledInv'
  <2>1. ShownInv /\ HandledInv
    BY <1>1, <1>7, <1>8 DEF TInv, StatusInv
  <2>2. /\ status \in {"STOP_PENDING", "STOPPED"} \/ shutdown = TRUE
        /\ thread["dispatcher"].pc \notin {"called", "waiting"}
        /\ thread["dispatcher"].pc = "woken"
             => thread["dispatcher"].code \in {"STOP", "SHUTDOWN"}
    BY <1>1, <1>2, <1>7, <1>8 DEF TInv, QuitInv
  <2>3. \A t \in Threads : /\ thread[t].pc \notin {"called", "waiting"}
                           /\ thread[t].pc = "woken" => thread[t].code \in {"STOP", "SHUTDOWN"}
    BY <1>2, <1>7, <1>8, <2>2 DEF Starting, Threads
  <2>4. QuitInv'
    BY <1>1, <1>6, <2>2 DEF QuitInv
  <2>5. HandledInv'
    BY <1>1, <2>3 DEF HandledInv
  <2>6. ShownInv'
    <3>1. CASE UNCHANGED <<scm, status, overtaken>>
      BY <1>1, <2>1, <3>1 DEF ShownInv
    <3>2. CASE /\ scm' = "STOPPED" /\ status' = "STOPPED"
               /\ overtaken' = (overtaken \/ \E t \in Threads : thread[t].pc = "reporting")
      <4>1. \A t \in Threads : thread[t].pc # "reporting"
        BY <1>4, <1>8, <3>2
      <4> QED
        BY <1>1, <3>2, <4>1 DEF ShownInv
    <3> QED
      BY <1>6, <3>1, <3>2
  <2> QED
    BY <2>4, <2>5, <2>6
<1>9. QuitInv' /\ StatusInv'
  BY <1>7, <1>8 DEF QuitInv, StatusInv
<1> QED
  BY <1>5, <1>9, <1>10

LEMMA ExitTInv ==
  ASSUME TInv, ExitProcess
  PROVE  StartInv' /\ WaitInv' /\ QuitInv' /\ StatusInv'
<1>1. /\ main' = NoProcess /\ scm' = "STOPPED"
      /\ \A t \in Threads : thread'[t] = IdleThread
  BY DEF ExitProcess
<1>2. main'.pc = "none" /\ main'.quit = FALSE /\ \A t \in Threads : thread'[t].pc = "idle"
  BY <1>1 DEF NoProcess, IdleThread
<1>3. thread'["serviceMain"].pc = "idle" /\ thread'["dispatcher"].pc = "idle"
  BY <1>2 DEF Threads
<1>4. StartInv'
  BY <1>1, <1>2, <1>3 DEF StartInv, Starting
<1> QED
  BY <1>2, <1>4 DEF WaitInv, InLoop, QuitInv, StatusInv

-----------------------------------------------------------------------------
\* The first event stays the first when another is posted.
LEMMA HeadOfAppended ==
  ASSUME NEW q \in Seq(Codes), q # <<>>, NEW c \in Codes
  PROVE  Append(q, c) # <<>> /\ Head(Append(q, c)) = Head(q)
  OBVIOUS

\* A thread enters handler() when no other waits there, and then its event is the
\* only one, or the handlers overlap.
LEMMA EnterTInv ==
  ASSUME TInv, NEW t \in Threads, Enter(t)
  PROVE  StartInv' /\ WaitInv' /\ QuitInv' /\ StatusInv'
<1>1. /\ main.pc \notin {"none", "cleaned"}
      /\ thread[t].pc = "called" /\ thread[t].code # "INTERROGATE"
      /\ SetStatus(t, thread[t].code \in {"STARTUP", "STOP", "PAUSE", "CONTINUE"},
                   Pending(thread[t].code))
      /\ Post(thread[t].code)
      /\ thread' = [thread EXCEPT ![t].pc = "waiting"]
      /\ UNCHANGED <<service, main, shutdown>>
  BY DEF Enter, SysExists
<1>2. /\ thread'[t].pc = "waiting" /\ thread'[t].code = thread[t].code
      /\ \A u \in Threads \ {t} : thread'[u] = thread[u]
  BY <1>1 DEF TInv, IInv, ThreadInv, Thread
<1>3. /\ main.pc # "waiting" /\ queue \in Seq(Codes) /\ thread[t].code \in Codes
      /\ t = "dispatcher" => thread["serviceMain"].pc \notin {"ready", "called"}
      /\ t = "serviceMain" => /\ thread["dispatcher"].pc = "idle" /\ scm = "START_PENDING"
                             /\ main.pc = "events" /\ main.quit = FALSE /\ queue = <<>>
                             /\ thread[t].code = "STARTUP"
  BY <1>1 DEF TInv, IInv, QueueInv, ThreadInv, Thread, StartInv, Threads
<1>4. t = "serviceMain" => scm' = "START_PENDING"
  BY <1>1, <1>3 DEF SetStatus, Pending
<1>5. Event(thread[t].code) \in Codes
  BY <1>3 DEF Event, Codes, Controls
<1>6. ControllerHandlerExists => queue' = Append(queue, Event(thread[t].code))
  BY <1>1 DEF Post, Event
<1>7. /\ overtaken' \in BOOLEAN
      /\ overtaken' = FALSE => /\ overtaken = FALSE
                               /\ \A u \in Threads : ~Waiting(u)
                               /\ \A u \in Threads : u # t => thread[u].pc # "woken"
  <2>1. overtaken \in BOOLEAN
    BY DEF TInv, IInv, OtherInv
  <2> QED
    BY <1>1, <2>1 DEF SetStatus, Waiting
<1>8. overtaken' = FALSE /\ t = "dispatcher" => ~Starting
  BY <1>3, <1>7 DEF Starting, Waiting, Threads
<1>9. StartInv'
  <2>1. CASE t = "serviceMain"
    <3>1. queue' = <<"STARTUP">>
      <4>1. queue' = Append(<<>>, "STARTUP")
        BY <1>3, <1>6, <2>1 DEF ControllerHandlerExists, Event
      <4> QED
        BY <4>1
    <3>2. queue' # <<>> /\ Head(queue') = "STARTUP"
      BY <3>1
    <3>3. thread'["dispatcher"] = thread["dispatcher"]
      BY <1>2, <2>1 DEF Threads
    <3> QED
      BY <1>1, <1>2, <1>3, <1>4, <2>1, <3>2, <3>3 DEF TInv, StartInv, Starting, Threads
  <2>2. CASE t = "dispatcher"
    <3>1. thread'["serviceMain"] = thread["serviceMain"]
      BY <1>2, <2>2 DEF Threads
    <3>2. service = "new" => queue' # <<>> /\ Head(queue') = "STARTUP"
      <4> SUFFICES ASSUME service = "new"
                   PROVE  queue' # <<>> /\ Head(queue') = "STARTUP"
        OBVIOUS
      <4>1. queue # <<>> /\ Head(queue) = "STARTUP" /\ main.pc = "events"
        BY <1>1, <1>3, <2>2 DEF TInv, StartInv
      <4>2. queue' = Append(queue, Event(thread[t].code))
        BY <1>6, <4>1 DEF ControllerHandlerExists
      <4> QED
        BY <1>3, <1>5, <4>1, <4>2, HeadOfAppended
    <3>3. overtaken' = FALSE => ~Starting'
      BY <1>8, <2>2, <3>1 DEF Starting
    <3> QED
      BY <1>1, <1>2, <1>3, <2>2, <3>1, <3>2, <3>3 DEF TInv, StartInv, Threads
  <2> QED
    BY <2>1, <2>2 DEF Threads
<1>10. ASSUME overtaken' = FALSE, InLoop PROVE main.pc # "callback" /\ queue = <<>>
  BY <1>7, <1>10 DEF TInv, WaitInv
<1>11. ASSUME overtaken' = FALSE, InLoop PROVE queue' = <<Event(thread[t].code)>>
  <2> DEFINE e == Event(thread[t].code)
  <2>1. queue' = Append(queue, e)
    BY <1>6, <1>11 DEF InLoop, ControllerHandlerExists
  <2> HIDE DEF e
  <2>2. Append(<<>>, e) = <<e>>
    OBVIOUS
  <2> QED
    BY <1>10, <1>11, <2>1, <2>2 DEF e
<1>12. WaitInv'
  BY <1>1, <1>2, <1>7, <1>10, <1>11 DEF WaitInv, InLoop, Waiting, Event
<1>13. ASSUME overtaken' = FALSE PROVE main.quit = FALSE
  BY <1>1, <1>3, <1>7, <1>13 DEF TInv, QuitInv, IInv, OtherInv, Main, Threads
<1>14. QuitInv'
  BY <1>1, <1>13 DEF QuitInv
<1>15. ASSUME overtaken' = FALSE PROVE ShownInv' /\ HandledInv'
  <2>1. ShownInv /\ HandledInv
    BY <1>1, <1>7, <1>15 DEF TInv, StatusInv
  <2>2. CASE thread[t].code \in {"STARTUP", "STOP", "PAUSE", "CONTINUE"}
    <3>1. /\ scm' = status' /\ status' = Pending(thread[t].code)
          /\ \A u \in Threads \ {t} : thread[u].pc # "reporting"
      BY <1>1, <1>15, <2>2 DEF SetStatus, TInv, IInv, OtherInv
    <3>2. status' \notin {"RUNNING", "PAUSED"}
      BY <2>2, <3>1 DEF Pending
    <3>3. ShownInv'
      BY <1>2, <3>1, <3>2 DEF ShownInv
    <3>4. \A u \in Threads \ {t} : thread[u].pc \notin {"waiting", "woken"}
      BY <1>7, <1>15 DEF Waiting
    <3>5. /\ thread'[t].code \in {"STARTUP", "PAUSE", "CONTINUE"}
               => status' = Meanwhile(thread'[t].code)
          /\ thread'[t].code = "STOP" => status' = "STOP_PENDING"
      BY <1>2, <3>1 DEF Pending, Meanwhile
    <3>6. main.pc # "callback"
      BY <1>10, <1>15 DEF InLoop
    <3>7. HandledInv'
      BY <1>1, <1>2, <2>1, <2>2, <3>4, <3>5, <3>6 DEF HandledInv
    <3> QED
      BY <3>3, <3>7
  <2>3. CASE thread[t].code \notin {"STARTUP", "STOP", "PAUSE", "CONTINUE"}
    <3>1. UNCHANGED <<scm, status>> /\ t = "dispatcher" /\ ~Starting
      BY <1>1, <1>3, <1>8, <1>15, <2>3 DEF SetStatus, scmVars, Threads
    <3>2. thread[t].code = "SHUTDOWN" => shutdown = TRUE
      BY <1>1, <2>1 DEF HandledInv
    <3>3. ShownInv'
      BY <1>1, <1>2, <2>1, <3>1 DEF ShownInv, Starting, Threads
    <3>4. HandledInv'
      BY <1>1, <1>2, <2>3, <3>1, <3>2 DEF HandledInv, Waiting, Starting, Threads
    <3> QED
      BY <3>3, <3>4
  <2> QED
    BY <2>2, <2>3
<1> QED
  BY <1>1, <1>9, <1>12, <1>14, <1>15, <1>7 DEF StatusInv

\* A thread that goes on sets the status to what the service has become.
LEMMA CompleteTInv ==
  ASSUME TInv, NEW t \in Threads, Complete(t)
  PROVE  StartInv' /\ WaitInv' /\ QuitInv' /\ StatusInv'
<1>1. /\ main.pc \notin {"none", "cleaned"} /\ thread[t].pc = "woken"
      /\ SetStatus(t, thread[t].code \in {"STARTUP", "PAUSE", "CONTINUE"},
                   Final(thread[t].code))
      /\ thread' = [thread EXCEPT ![t].pc = "leaving"]
      /\ UNCHANGED <<service, main, queue, shutdown>>
  BY DEF Complete, SysExists
<1>2. /\ thread'[t].pc = "leaving" /\ thread'[t].code = thread[t].code
      /\ \A u \in Threads \ {t} : thread'[u] = thread[u]
  BY <1>1 DEF TInv, IInv, ThreadInv, Thread
<1>3. /\ thread["serviceMain"].pc \notin {"ready", "called"} /\ main.pc # "waiting"
      /\ t = "serviceMain" => thread[t].code = "STARTUP" /\ service # "new"
  BY <1>1 DEF TInv, StartInv, Threads
<1>4. /\ overtaken' \in BOOLEAN
      /\ overtaken' = FALSE => /\ overtaken = FALSE
                               /\ \A u \in Threads : ~Waiting(u)
                               /\ \A u \in Threads : u # t => thread[u].pc # "woken"
  <2>1. overtaken \in BOOLEAN
    BY DEF TInv, IInv, OtherInv
  <2> QED
    BY <1>1, <2>1 DEF SetStatus, Waiting
<1>5. ASSUME overtaken' = FALSE PROVE ~Starting'
  <2>1. thread'["serviceMain"].pc \notin {"waiting", "woken"}
    BY <1>2, <1>4, <1>5 DEF Waiting, Threads
  <2>2. thread'["serviceMain"].pc \notin {"ready", "called"}
    BY <1>2, <1>3 DEF Threads
  <2> QED
    BY <2>1, <2>2 DEF Starting
<1>6. StartInv'
  <2>1. CASE t = "serviceMain"
    <3>1. thread'["dispatcher"] = thread["dispatcher"]
      BY <1>2, <2>1 DEF Threads
    <3> QED
      BY <1>1, <1>2, <1>3, <1>5, <2>1, <3>1 DEF TInv, StartInv, Threads
  <2>2. CASE t = "dispatcher"
    <3>1. thread'["serviceMain"] = thread["serviceMain"]
      BY <1>2, <2>2 DEF Threads
    <3> QED
      BY <1>1, <1>2, <1>3, <1>5, <2>2, <3>1 DEF TInv, StartInv, Threads
  <2> QED
    BY <2>1, <2>2 DEF Threads
<1>7. WaitInv'
  BY <1>1, <1>2, <1>4 DEF TInv, WaitInv, InLoop, Waiting
<1>8. ASSUME overtaken' = FALSE PROVE QuitInv' /\ ShownInv' /\ HandledInv'
  <2>1. ShownInv /\ HandledInv
    BY <1>1, <1>4, <1>8 DEF TInv, StatusInv
  <2>2. \A u \in Threads : thread'[u].pc \notin {"waiting", "woken"}
    BY <1>1, <1>2, <1>4, <1>8 DEF Waiting
  <2>3. CASE thread[t].code \in {"STARTUP", "PAUSE", "CONTINUE"}
    <3>1. /\ scm' = status' /\ status' = Final(thread[t].code)
          /\ \A u \in Threads \ {t} : thread[u].pc # "reporting"
      BY <1>1, <1>8, <2>3 DEF SetStatus, TInv, IInv, OtherInv
    <3>2. service = Afterwards(thread[t].code)
      BY <1>1, <2>1, <2>3 DEF HandledInv
    <3>3. /\ status' = "RUNNING" => service = "running"
          /\ status' = "PAUSED" => service = "paused"
      BY <2>3, <3>1, <3>2 DEF Final, Afterwards
    <3>4. ShownInv'
      BY <1>1, <1>2, <3>1, <3>3 DEF ShownInv
    <3>5. main.quit # TRUE
      <4>1. CASE t = "serviceMain"
        BY <1>1, <1>4, <1>8, <4>1 DEF TInv, StartInv, Starting
      <4>2. CASE t = "dispatcher"
        BY <1>1, <1>4, <1>8, <2>3, <4>2 DEF TInv, QuitInv
      <4> QED
        BY <4>1, <4>2 DEF Threads
    <3>6. HandledInv' /\ QuitInv'
      BY <1>1, <1>2, <2>1, <2>2, <3>5 DEF HandledInv, QuitInv, Waiting
    <3> QED
      BY <3>4, <3>6
  <2>4. CASE thread[t].code \notin {"STARTUP", "PAUSE", "CONTINUE"}
    <3>1. UNCHANGED <<scm, status>> /\ t = "dispatcher"
      BY <1>1, <1>3, <2>4 DEF SetStatus, scmVars, Threads
    <3>2. ShownInv'
      BY <1>1, <1>2, <1>3, <2>1, <3>1 DEF ShownInv, Threads
    <3>3. HandledInv'
      BY <1>1, <1>2, <2>1, <2>2 DEF HandledInv, Waiting
    <3>4. QuitInv'
      BY <1>1, <1>2, <1>4, <1>8, <3>1 DEF TInv, QuitInv
    <3> QED
      BY <3>2, <3>3, <3>4
  <2> QED
    BY <2>3, <2>4
<1>9. QuitInv' /\ StatusInv'
  BY <1>4, <1>8 DEF QuitInv, StatusInv
<1> QED
  BY <1>6, <1>7, <1>9

\* The steps of handler() that take no part in the exchange of events.
LEMMA LeavingTInv ==
  ASSUME TInv, NEW t \in Threads, Interrogate(t) \/ ReadStatus(t) \/ Report(t)
  PROVE  StartInv' /\ WaitInv' /\ QuitInv' /\ StatusInv'
<1>1. /\ main.pc \notin {"none", "cleaned"}
      /\ thread[t].pc \in {"called", "leaving", "reporting"}
      /\ UNCHANGED <<status, service, main, queue, shutdown, overtaken>>
  BY DEF Interrogate, ReadStatus, Report, SysExists, scmVars, history
<1>2. PICK r : /\ thread' = [thread EXCEPT ![t] = r]
               /\ r.pc \in {"idle", "leaving", "reporting"}
               /\ r.pc = "reporting" => r.report = status
               /\ r.pc = "leaving" => thread[t].code = "INTERROGATE"
  <2>1. thread \in [Threads -> Thread]
    BY DEF TInv, IInv, ThreadInv
  <2>2. CASE Interrogate(t)
    <3> DEFINE r == [thread[t] EXCEPT !.pc = "leaving"]
    <3>1. r.pc = "leaving" /\ thread[t].code = "INTERROGATE"
      BY <2>1, <2>2 DEF Interrogate, Thread
    <3>2. thread' = [thread EXCEPT ![t] = r]
      BY <2>1, <2>2 DEF Interrogate
    <3> QED
      BY <3>1, <3>2
  <2>3. CASE ReadStatus(t) /\ status # "STOPPED"
    <3> DEFINE r == [thread[t] EXCEPT !.pc = "reporting", !.report = status]
    <3>1. r.pc = "reporting" /\ r.report = status
      BY <2>1 DEF Thread
    <3>2. thread' = [thread EXCEPT ![t] = r]
      BY <2>1, <2>3 DEF ReadStatus
    <3> QED
      BY <3>1, <3>2
  <2>4. CASE Report(t) \/ (ReadStatus(t) /\ status = "STOPPED")
    BY <2>4 DEF Report, ReadStatus, IdleThread
  <2> QED
    BY <2>2, <2>3, <2>4
<1>3. /\ thread'[t] = r /\ \A u \in Threads \ {t} : thread'[u] = thread[u]
  BY <1>2 DEF TInv, IInv, ThreadInv
<1>4. thread[t].pc = "called" => thread[t].code = "INTERROGATE"
  BY DEF Interrogate, ReadStatus, Report
<1>5. overtaken = FALSE => ~Starting
  <2> SUFFICES ASSUME overtaken = FALSE, Starting PROVE FALSE
    OBVIOUS
  <2>1. CASE t = "serviceMain"
    BY <1>1, <1>4, <2>1 DEF TInv, StartInv, Starting
  <2>2. CASE t = "dispatcher"
    BY <1>1, <1>4, <2>2 DEF TInv, StartInv
  <2> QED
    BY <2>1, <2>2 DEF Threads
<1>6. StartInv'
  <2>1. CASE t = "serviceMain"
    <3>1. thread'["dispatcher"] = thread["dispatcher"]
      BY <1>3, <2>1 DEF Threads
    <3>2. thread["serviceMain"].pc \in {"leaving", "reporting"}
      BY <1>1, <1>4, <2>1 DEF TInv, StartInv
    <3> QED
      BY <1>1, <1>2, <1>3, <2>1, <3>1, <3>2 DEF TInv, StartInv, Starting, Threads
  <2>2. CASE t = "dispatcher"
    <3>1. thread'["serviceMain"] = thread["serviceMain"]
      BY <1>3, <2>2 DEF Threads
    <3>2. thread["serviceMain"].pc \notin {"ready", "called"}
      BY <1>1, <2>2 DEF TInv, StartInv
    <3> QED
      BY <1>1, <1>2, <1>3, <1>5, <2>2, <3>1, <3>2 DEF TInv, StartInv, Starting, Threads
  <2> QED
    BY <2>1, <2>2 DEF Threads
<1>7. WaitInv'
  BY <1>1, <1>2, <1>3 DEF TInv, WaitInv, InLoop, Waiting
<1>8. QuitInv'
  BY <1>1, <1>2, <1>3 DEF TInv, QuitInv, Threads
<1>9. ASSUME overtaken = FALSE PROVE ShownInv' /\ HandledInv'
  <2>1. ShownInv /\ HandledInv
    BY <1>1, <1>9 DEF TInv, StatusInv
  <2>2. scm = status
    BY <1>5, <1>9, <2>1 DEF ShownInv, Starting
  <2>3. scm' = status
    BY <2>1, <2>2 DEF Interrogate, ReadStatus, Report, ShownInv, scmVars
  <2>4. ShownInv'
    BY <1>1, <1>2, <1>3, <2>1, <2>3 DEF ShownInv
  <2>5. HandledInv'
    BY <1>1, <1>2, <1>3, <2>1 DEF HandledInv
  <2> QED
    BY <2>4, <2>5
<1> QED
  BY <1>1, <1>6, <1>7, <1>8, <1>9 DEF StatusInv

LEMMA NextTInv == TInv /\ [Next]_vars => TInv'
<1> SUFFICES ASSUME TInv, [Next]_vars PROVE TInv'
  OBVIOUS
<1>1. IInv'
  BY NextIInv DEF TInv
<1>2. ASSUME NEW p \in Procs, ProcStep(p) PROVE TInv'
  BY <1>1, <1>2, ProcStepTInv DEF TInv
<1>3. CASE MainStep
  BY <1>1, <1>3, CreateApplicationTInv, RunCallbackTInv, WakeAllTInv, LeaveTInv
     DEF MainStep, StartStep, TInv
<1>4. CASE ExitProcess
  BY <1>1, <1>4, ExitTInv DEF TInv
<1>5. ASSUME NEW t \in Threads, Handler(t) PROVE TInv'
  BY <1>1, <1>5, EnterTInv, CompleteTInv, LeavingTInv DEF Handler, TInv
<1>6. CASE UNCHANGED vars
  <2>1. UNCHANGED <<scm, status, service, main, queue, thread, shutdown, overtaken>>
    BY <1>6 DEF vars
  <2> QED
    BY <1>1, <2>1, QuietTInv DEF TInv
<1> QED
  BY <1>2, <1>3, <1>4, <1>5, <1>6 DEF Next

LEMMA OrderInvariant == Spec => []TInv
  BY InitTInv, NextTInv, PTL DEF Spec

-----------------------------------------------------------------------------
\* Every variable has its type, for any number of controllers and any flags; an
\* event is posted only to a controllerHandler that exists.
THEOREM TypeCorrect == Spec => []TypeOK
<1>1. IInv => TypeOK
  BY DEF IInv, ProcInv, ThreadInv, QueueInv, OtherInv, TypeOK
<1> QED
  BY <1>1, Invariant, PTL

\* The SCM knows a service as stopped only when its event loop has ended or its
\* process has exited, so that a stop() that returns true (QtServiceController::stop,
\* which looks at nothing but that status) is true, whatever the controls, their
\* order, and the late reports of the handlers.
THEOREM StoppedHasEnded == Spec => []StoppedMeansEnded
<1>1. IInv => StoppedMeansEnded
  BY DEF IInv
<1> QED
  BY <1>1, Invariant, PTL

\* ParserService::pause() may use what start() has created: no callback runs before
\* start(), although serviceMain and the dispatcher both post events.
THEOREM StartIsFirst == Spec => StartRunsFirst
<1>1. ASSUME TInv, RunCallback, Head(queue) # "STARTUP" PROVE service # "new"
  <2>1. main.pc \in {"events", "quitting"} /\ queue # <<>>
    BY <1>1 DEF RunCallback
  <2> QED
    BY <1>1, <2>1 DEF TInv, StartInv
<1>2. TInv /\ [Next]_vars =>
        [RunCallback /\ Head(queue) # "STARTUP" => service # "new"]_vars
  BY <1>1
<1> QED
  BY <1>2, OrderInvariant, PTL DEF StartRunsFirst, Spec

\* A handler goes on when its own event has been handled, although wakeAll() does
\* not say whose that was: unless handlers overlapped, nobody else waits then.
THEOREM OwnEventWakes == Spec => WokenByOwnEvent
<1>1. ASSUME TInv, WakeAll, overtaken = FALSE, NEW t \in Threads, Waiting(t)
      PROVE  main.code = IF thread[t].code = "SHUTDOWN" THEN "STOP" ELSE thread[t].code
  <2>1. main.pc = "callback"
    BY <1>1 DEF WakeAll
  <2> QED
    BY <1>1, <2>1 DEF TInv, WaitInv, InLoop, Event
<1>2. TInv /\ [Next]_vars =>
        [\A t \in Threads : WakeAll /\ Waiting(t) /\ ~overtaken =>
           main.code = (IF thread[t].code = "SHUTDOWN" THEN "STOP" ELSE thread[t].code)]_vars
  BY <1>1 DEF TInv, IInv, OtherInv
<1> QED
  BY <1>2, OrderInvariant, PTL DEF WokenByOwnEvent, Spec

\* What the SCM shows is what the application did last, unless handlers overlapped.
THEOREM StatusIsTrue == Spec => []ShownIsDone
<1>1. TInv => ShownIsDone
  <2> SUFFICES ASSUME TInv, overtaken = FALSE, main.pc # "none"
               PROVE  /\ scm = "RUNNING" => service = "running" \/ shutdown
                      /\ scm = "PAUSED" => service = "paused" \/ shutdown
    BY DEF ShownIsDone, TInv, IInv, OtherInv
  <2> QED
    BY DEF TInv, StatusInv, ShownInv
<1> QED
  BY <1>1, OrderInvariant, PTL

\* Nobody enters, or waits in, handler() when the event loop has ended, unless
\* handlers overlapped and one hid from the SCM that the service was stopping.
THEOREM NobodyIsForgotten == Spec => []NobodyWaitsInVain
<1>1. TInv => NobodyWaitsInVain
  <2> SUFFICES ASSUME TInv, overtaken = FALSE,
                      main.pc \in {"executed", "stopped", "cleaned"}, NEW t \in Threads
               PROVE  thread[t].pc \notin {"called", "waiting"}
    BY DEF NobodyWaitsInVain, TInv, IInv, OtherInv
  <2>1. main.quit = TRUE /\ ~Starting
    BY DEF TInv, StartInv, Starting
  <2>2. thread["dispatcher"].pc \notin {"called", "waiting"}
    BY <2>1 DEF TInv, QuitInv
  <2> QED
    BY <2>1, <2>2 DEF Starting, Threads
<1> QED
  BY <1>1, OrderInvariant, PTL

-----------------------------------------------------------------------------
(***************************************************************************)
(* The life of the service, as module ServiceLife promises it.             *)
(***************************************************************************)

\* What the order of the events leaves open: a control is on its way only in a
\* service that is shown as running or paused, or to stop one that starts, and a
\* change is shown as pending only while its handler waits.
LifeInv ==
  /\ service = "stopped" => main.quit = TRUE
  /\ thread["serviceMain"].pc \in {"ready", "called"} => service = "new"
  /\ thread["dispatcher"].pc = "called"
       => /\ thread["dispatcher"].code # "STARTUP"
          /\ thread["dispatcher"].code = "SHUTDOWN" <=> shutdown = TRUE
  /\ overtaken = FALSE /\ main.pc # "none" =>
       /\ thread["dispatcher"].pc = "called"
            => \/ status \in {"RUNNING", "PAUSED"}
               \/ /\ status = "START_PENDING"
                  /\ thread["dispatcher"].code \in {"STOP", "SHUTDOWN"}
       /\ status = "START_PENDING"
            => /\ thread["serviceMain"].pc \in {"waiting", "woken"}
               /\ service \in {"new", "running"}
       /\ status \in {"PAUSE_PENDING", "CONTINUE_PENDING"}
            => /\ thread["dispatcher"].pc \in {"waiting", "woken"}
               /\ thread["dispatcher"].code \in {"PAUSE", "CONTINUE"}
       /\ main.pc \in {"stopped", "cleaned"} => status = "STOPPED"

LEMMA InitLifeInv == Init => LifeInv
BY DEF Init, LifeInv, NoProcess, IdleThread, Threads

\* The types that all the steps need.
LEMMA LifeTypes ==
  ASSUME TInv
  PROVE  /\ thread \in [Threads -> Thread] /\ main \in Main /\ queue \in Seq(Codes)
         /\ overtaken \in BOOLEAN /\ shutdown \in BOOLEAN
         /\ service \in {"new", "running", "paused", "stopped"}
         /\ scm \in States /\ status \in States
         /\ queue # <<>> => ControllerHandlerExists
BY DEF TInv, IInv, ThreadInv, QueueInv, OtherInv

LEMMA ProcStepLifeInv ==
  ASSUME TInv, LifeInv, NEW p \in Procs, ProcStep(p)
  PROVE  LifeInv'
<1>0. thread \in [Threads -> Thread]
  BY LifeTypes
<1>1. CASE StartService(p)
  <2>1. /\ main.pc = "none" /\ thread["dispatcher"].pc = "idle"
        /\ thread' = [thread EXCEPT !["serviceMain"].pc = "ready"]
        /\ status' = "STOPPED" /\ service' = "new"
    BY <1>1 DEF StartService, TInv, StartInv, Threads
  <2>2. thread'["dispatcher"].pc = "idle"
    BY <1>0, <2>1 DEF Threads
  <2>3. status' \notin {"START_PENDING", "PAUSE_PENDING", "CONTINUE_PENDING"}
        /\ main'.pc = "waiting"
    BY <1>1, <2>1 DEF StartService, NoProcess
  <2> QED BY <2>1, <2>2, <2>3 DEF LifeInv
<1>2. CASE Send(p)
  <2>1. /\ thread["dispatcher"].pc = "idle" /\ Deliverable(proc[p].op)
        /\ thread' = [thread EXCEPT !["dispatcher"] =
                           [@ EXCEPT !.pc = "called", !.code = proc[p].op]]
        /\ shutdown' = (proc[p].op = "SHUTDOWN")
        /\ UNCHANGED <<scm, status, service, main, queue, overtaken>>
    BY <1>2 DEF Send, scmVars, history
  <2>2. /\ thread'["dispatcher"].pc = "called" /\ thread'["dispatcher"].code = proc[p].op
        /\ thread'["serviceMain"] = thread["serviceMain"]
    BY <1>0, <2>1 DEF Threads, Thread
  <2>3. /\ scm \notin {"STOPPED", "STOP_PENDING"}
        /\ scm = "START_PENDING" => /\ proc[p].op \in {"STOP", "SHUTDOWN"}
                                    /\ thread["serviceMain"].pc \notin {"ready", "called"}
    BY <2>1 DEF Deliverable
  <2>4. proc[p].op # "STARTUP"
    BY <1>2 DEF Send, TInv, IInv, ProcInv, ControlsAsked, Controls
  <2>5. ASSUME overtaken = FALSE, main.pc # "none"
        PROVE  \/ status \in {"RUNNING", "PAUSED"}
               \/ status = "START_PENDING" /\ proc[p].op \in {"STOP", "SHUTDOWN"}
    <3>1. scm = status /\ status \in States
      BY <2>3, <2>5, LifeTypes DEF TInv, StatusInv, ShownInv
    <3>2. status \notin {"PAUSE_PENDING", "CONTINUE_PENDING"}
      BY <2>1, <2>5 DEF LifeInv
    <3> QED BY <2>3, <3>1, <3>2 DEF States
  <2>6. main.pc \in {"stopped", "cleaned"} /\ overtaken = FALSE => status = "STOPPED"
    BY DEF LifeInv
  <2>7. shutdown = FALSE
    BY <2>1, LifeTypes DEF Deliverable
  <2> QED BY <2>1, <2>2, <2>4, <2>5, <2>6, <2>7 DEF LifeInv
<1>3. CASE ~StartService(p) /\ ~Send(p)
  <2>1. UNCHANGED <<scm, status, service, main, queue, thread, shutdown, overtaken>>
    BY <1>3 DEF ProcStep, Refuse, TimeOut, Poll, Call, scmVars, history
  <2> QED BY <2>1 DEF LifeInv
<1> QED BY <1>1, <1>2, <1>3

\* The steps of the main thread.
LEMMA MainStepLifeInv ==
  ASSUME TInv, LifeInv, MainStep
  PROVE  LifeInv'
<1>0. thread \in [Threads -> Thread] /\ main \in Main
  BY LifeTypes
<1>1. CASE CreateApplication
  <2>1. /\ main.pc = "waiting" /\ thread["serviceMain"].pc = "ready"
        /\ main' = [main EXCEPT !.pc = "events"]
        /\ thread' = [thread EXCEPT !["serviceMain"].pc = "called",
                                    !["serviceMain"].code = "STARTUP"]
        /\ UNCHANGED <<scm, status, service, queue, shutdown, overtaken>>
    BY <1>1 DEF CreateApplication, ServiceMain, scmVars, history
  <2>2. /\ thread'["dispatcher"] = thread["dispatcher"]
        /\ main'.quit = main.quit /\ main'.pc = "events"
    BY <1>0, <2>1 DEF Threads, Main
  <2>3. overtaken = FALSE => status # "START_PENDING"
    BY <2>1 DEF LifeInv
  <2> QED BY <2>1, <2>2, <2>3 DEF LifeInv
<1>2. CASE RunCallback
  <2>1. /\ main.pc \in {"events", "quitting"} /\ queue # <<>>
        /\ main' = [pc |-> "callback", code |-> Head(queue),
                    quit |-> main.quit \/ Head(queue) = "STOP"]
        /\ service' = AfterCallback(Head(queue)) /\ queue' = Tail(queue)
        /\ UNCHANGED <<scm, status, thread, shutdown, overtaken>>
    BY <1>2 DEF RunCallback, scmVars, history
  <2>2. thread["serviceMain"].pc \notin {"ready", "called"}
    BY <2>1 DEF TInv, StartInv
  <2>3. ASSUME overtaken = FALSE, status = "START_PENDING" PROVE service' \in {"new", "running"}
    <3>1. PICK t \in Threads : Waiting(t) /\ queue = <<Event(thread[t].code)>>
      BY <2>1, <2>3 DEF TInv, WaitInv, InLoop
    <3>2. thread["serviceMain"].pc \in {"waiting", "woken"}
      BY <2>1, <2>3 DEF LifeInv
    <3>3. t = "serviceMain" /\ thread[t].code = "STARTUP"
      BY <2>3, <3>1, <3>2 DEF TInv, StartInv, Starting, Waiting, Threads
    <3>4. Head(queue) = "STARTUP"
      BY <3>1, <3>3 DEF Event
    <3> QED BY <2>1, <3>4 DEF AfterCallback
  <2>4. main'.pc = "callback" /\ main'.quit = (main.quit \/ Head(queue) = "STOP")
    BY <2>1
  <2>5. service' = "stopped" => Head(queue) = "STOP" \/ service = "stopped"
    BY <2>1 DEF AfterCallback
  <2>6. service' = "stopped" => main'.quit = TRUE
    BY <2>4, <2>5 DEF LifeInv
  <2> QED BY <2>1, <2>2, <2>3, <2>4, <2>6 DEF LifeInv
<1>3. CASE WakeAll
  <2>1. /\ main.pc = "callback" /\ thread' = WokenThreads
        /\ main' = [main EXCEPT !.pc = IF main.quit THEN "quitting" ELSE "events"]
        /\ UNCHANGED <<scm, status, service, queue, shutdown, overtaken>>
    BY <1>3 DEF WakeAll, scmVars, history
  <2>2. main'.quit = main.quit /\ main'.pc \in {"quitting", "events"}
    BY <1>0, <2>1 DEF Main
  <2>3. \A t \in Threads :
          /\ thread'[t].code = thread[t].code
          /\ thread[t].pc = "waiting" => thread'[t].pc = "woken"
          /\ thread[t].pc # "waiting" => thread'[t] = thread[t]
    BY <1>0, <2>1 DEF WokenThreads, Waiting, Thread
  <2>4. "serviceMain" \in Threads /\ "dispatcher" \in Threads
    BY DEF Threads
  <2> QED BY <2>1, <2>2, <2>3, <2>4 DEF LifeInv
<1>4. CASE LeaveEventLoop
  <2>1. /\ main.pc = "quitting" /\ main' = [main EXCEPT !.pc = "executed"]
        /\ UNCHANGED <<scm, status, service, queue, thread, shutdown, overtaken>>
    BY <1>4 DEF LeaveEventLoop, scmVars, history
  <2>2. main'.quit = main.quit /\ main'.pc = "executed"
    BY <1>0, <2>1 DEF Main
  <2> QED BY <2>1, <2>2 DEF LifeInv
<1>5. CASE ReportStopped
  <2>1. /\ main.pc = "executed" /\ main' = [main EXCEPT !.pc = "stopped"]
        /\ status' = "STOPPED"
        /\ overtaken' = (overtaken \/ \E t \in Threads : thread[t].pc = "reporting")
        /\ UNCHANGED <<service, queue, thread, shutdown>>
    BY <1>5 DEF ReportStopped
  <2>2. main'.quit = main.quit /\ main'.pc = "stopped"
    BY <1>0, <2>1 DEF Main
  <2>3. overtaken' = FALSE => overtaken = FALSE
    BY <2>1, LifeTypes
  <2>4. overtaken = FALSE => thread["dispatcher"].pc # "called"
    BY <2>1 DEF TInv, QuitInv, StartInv
  <2> QED BY <2>1, <2>2, <2>3, <2>4 DEF LifeInv
<1>6. CASE SysCleanup
  <2>1. /\ main.pc = "stopped" /\ main' = [main EXCEPT !.pc = "cleaned"]
        /\ UNCHANGED <<scm, status, service, thread, shutdown, overtaken>>
    BY <1>6 DEF SysCleanup, scmVars
  <2>2. main'.quit = main.quit /\ main'.pc = "cleaned"
    BY <1>0, <2>1 DEF Main
  <2> QED BY <2>1, <2>2 DEF LifeInv
<1> QED BY <1>1, <1>2, <1>3, <1>4, <1>5, <1>6 DEF MainStep, StartStep

LEMMA ExitLifeInv ==
  ASSUME ExitProcess
  PROVE  LifeInv'
<1>1. /\ main' = NoProcess /\ service' = "new"
      /\ thread' = [t \in Threads |-> IdleThread]
  BY DEF ExitProcess
<1>2. main'.pc = "none" /\ \A t \in Threads : thread'[t].pc = "idle"
  BY <1>1 DEF NoProcess, IdleThread
<1>3. thread'["dispatcher"].pc = "idle" /\ thread'["serviceMain"].pc = "idle"
  BY <1>2 DEF Threads
<1> QED BY <1>1, <1>2, <1>3 DEF LifeInv

\* A handler enters, or goes on.
LEMMA HandlerLifeInv ==
  ASSUME TInv, LifeInv, NEW t \in Threads, Handler(t)
  PROVE  LifeInv'
<1>0. /\ thread \in [Threads -> Thread] /\ overtaken \in BOOLEAN
      /\ t \in {"serviceMain", "dispatcher"}
  BY LifeTypes DEF Threads
<1>1. PICK next : thread' = [thread EXCEPT ![t] = next]
  <2>1. \/ thread' = [thread EXCEPT ![t].pc = "waiting"]
        \/ thread' = [thread EXCEPT ![t].pc = "leaving"]
        \/ thread' = [thread EXCEPT ![t].pc = "reporting", ![t].report = status]
        \/ thread' = [thread EXCEPT ![t] = IdleThread]
    BY DEF Handler, Enter, Interrogate, Complete, ReadStatus, Report
  <2> QED BY <2>1
<1>2. UNCHANGED <<service, main, shutdown>>
  BY DEF Handler, Enter, Interrogate, Complete, ReadStatus, Report, history
<1>3. \A u \in Threads : u # t => thread'[u] = thread[u]
  BY <1>0, <1>1
<1>4. thread'[t].pc \in {"waiting", "leaving", "reporting", "idle"}
  BY <1>0 DEF Handler, Enter, Interrogate, Complete, ReadStatus, Report, Thread, IdleThread
<1>5. overtaken' = FALSE => overtaken = FALSE
  BY <1>0 DEF Handler, Enter, Interrogate, Complete, ReadStatus, Report, SetStatus,
              history
<1>6. /\ thread'["serviceMain"].pc \in {"ready", "called"} => service' = "new"
      /\ thread'["dispatcher"].pc = "called"
           => /\ thread'["dispatcher"].code # "STARTUP"
              /\ thread'["dispatcher"].code = "SHUTDOWN" <=> shutdown' = TRUE
      /\ service' = "stopped" => main'.quit = TRUE
  BY <1>0, <1>2, <1>3, <1>4 DEF LifeInv, Threads
<1>7. ASSUME overtaken' = FALSE, main.pc # "none"
      PROVE  /\ thread'["dispatcher"].pc = "called"
                  => \/ status' \in {"RUNNING", "PAUSED"}
                     \/ /\ status' = "START_PENDING"
                        /\ thread'["dispatcher"].code \in {"STOP", "SHUTDOWN"}
             /\ status' = "START_PENDING"
                  => /\ thread'["serviceMain"].pc \in {"waiting", "woken"}
                     /\ service \in {"new", "running"}
             /\ status' \in {"PAUSE_PENDING", "CONTINUE_PENDING"}
                  => /\ thread'["dispatcher"].pc \in {"waiting", "woken"}
                     /\ thread'["dispatcher"].code \in {"PAUSE", "CONTINUE"}
             /\ main.pc \in {"stopped", "cleaned"} => status' = "STOPPED"
  <2>0. /\ thread["dispatcher"].pc = "called"
             => \/ status \in {"RUNNING", "PAUSED"}
                \/ /\ status = "START_PENDING"
                   /\ thread["dispatcher"].code \in {"STOP", "SHUTDOWN"}
        /\ status = "START_PENDING"
             => /\ thread["serviceMain"].pc \in {"waiting", "woken"}
                /\ service \in {"new", "running"}
        /\ status \in {"PAUSE_PENDING", "CONTINUE_PENDING"}
             => /\ thread["dispatcher"].pc \in {"waiting", "woken"}
                /\ thread["dispatcher"].code \in {"PAUSE", "CONTINUE"}
        /\ main.pc \in {"stopped", "cleaned"} => status = "STOPPED" /\ main.quit = TRUE
        /\ overtaken = FALSE
    BY <1>5, <1>7 DEF LifeInv, TInv, StartInv
  <2>1. CASE Enter(t) /\ t = "serviceMain"
    <3>1. /\ thread["dispatcher"].pc = "idle" /\ main.pc \notin {"stopped", "cleaned"}
          /\ thread["serviceMain"].code = "STARTUP" /\ service = "new"
      BY <2>1 DEF Enter, TInv, StartInv, LifeInv
    <3>2. status' = "START_PENDING" /\ thread'["serviceMain"].pc = "waiting"
      BY <1>0, <2>1, <3>1 DEF Enter, SetStatus, Pending, Thread
    <3> QED BY <1>3, <2>1, <3>1, <3>2 DEF Threads
  <2>2. CASE Enter(t) /\ t = "dispatcher"
    <3>1. /\ thread'["dispatcher"].pc = "waiting"
          /\ thread'["dispatcher"].code = thread["dispatcher"].code
          /\ thread["dispatcher"].pc = "called"
      BY <1>0, <2>2 DEF Enter, Thread
    <3>2. thread["dispatcher"].code # "STARTUP"
      BY <3>1 DEF LifeInv
    <3>3. main.pc \notin {"stopped", "cleaned"}
      BY <2>0, <3>1 DEF TInv, QuitInv
    <3>4. \/ /\ thread["dispatcher"].code \in {"STOP", "PAUSE", "CONTINUE"}
             /\ status' = Pending(thread["dispatcher"].code)
          \/ status' = status
      BY <2>2, <3>2 DEF Enter, SetStatus, scmVars
    <3>5. status' \in {"PAUSE_PENDING", "CONTINUE_PENDING"}
            => thread["dispatcher"].code \in {"PAUSE", "CONTINUE"}
      BY <2>0, <3>1, <3>4 DEF Pending
    <3>6. thread["serviceMain"].pc \notin {"waiting", "woken"}
      BY <1>7, <2>2 DEF Enter, SetStatus, Threads, TInv, IInv, OtherInv
    <3>7. status' # "START_PENDING"
      BY <2>0, <3>4, <3>6 DEF Pending
    <3> QED BY <3>1, <3>3, <3>5, <3>7
  <2>3. CASE Complete(t) /\ t = "serviceMain"
    <3>1. /\ thread["dispatcher"].pc \in {"idle", "called"}
          /\ main.pc \notin {"stopped", "cleaned"}
          /\ thread["serviceMain"].code = "STARTUP"
      BY <2>0, <2>3 DEF Complete, TInv, StartInv, Starting
    <3>2. status' = "RUNNING"
      BY <2>3, <3>1 DEF Complete, SetStatus, Final
    <3> QED BY <1>3, <2>3, <3>1, <3>2 DEF Threads
  <2>4. CASE Complete(t) /\ t = "dispatcher"
    <3>1. /\ thread'["dispatcher"].pc = "leaving" /\ thread["dispatcher"].pc = "woken"
      BY <1>0, <2>4 DEF Complete, Thread
    <3>2. \/ /\ thread["dispatcher"].code \in {"STARTUP", "PAUSE", "CONTINUE"}
             /\ status' = Final(thread["dispatcher"].code)
          \/ /\ thread["dispatcher"].code \notin {"STARTUP", "PAUSE", "CONTINUE"}
             /\ status' = status
      BY <2>4 DEF Complete, SetStatus, scmVars
    <3>3. status' \notin {"PAUSE_PENDING", "CONTINUE_PENDING"}
      BY <2>0, <3>2 DEF Final
    <3>4. main.pc \in {"stopped", "cleaned"} => status' = "STOPPED"
      BY <2>0, <3>1, <3>2 DEF TInv, QuitInv
    <3>5. thread["serviceMain"].pc \notin {"waiting", "woken"}
      BY <1>7, <2>4 DEF Complete, SetStatus, Threads, TInv, IInv, OtherInv
    <3>6. status' # "START_PENDING"
      BY <2>0, <3>2, <3>5 DEF Final
    <3> QED BY <3>1, <3>3, <3>4, <3>6
  <2>5. CASE Interrogate(t) \/ ReadStatus(t) \/ Report(t)
    <3>1. thread[t].pc \in {"called", "leaving", "reporting"} /\ status' = status
      BY <2>5 DEF Interrogate, ReadStatus, Report, scmVars
    <3>2. t = "dispatcher" => status \notin {"PAUSE_PENDING", "CONTINUE_PENDING"}
      BY <2>0, <3>1
    <3>3. t = "serviceMain" => status # "START_PENDING"
      BY <2>0, <3>1
    <3> QED BY <1>0, <1>3, <1>4, <2>0, <3>1, <3>2, <3>3 DEF Threads
  <2> QED BY <1>0, <2>1, <2>2, <2>3, <2>4, <2>5 DEF Handler
<1> QED BY <1>2, <1>6, <1>7 DEF LifeInv

LEMMA NextLifeInv == TInv /\ LifeInv /\ [Next]_vars => LifeInv'
<1> SUFFICES ASSUME TInv, LifeInv, [Next]_vars PROVE LifeInv'
  OBVIOUS
<1>1. CASE UNCHANGED vars
  BY <1>1 DEF vars, LifeInv
<1>2. CASE Next
  BY <1>2, ProcStepLifeInv, MainStepLifeInv, ExitLifeInv, HandlerLifeInv DEF Next
<1> QED BY <1>1, <1>2

-----------------------------------------------------------------------------
\* What ServiceLife sees of the application and of the queue.
Did == IF Ended THEN "ended" ELSE service
Due == IF Ended THEN <<>> ELSE queue

\* The steps of ServiceLife that a step of this module may take.
LifeStep == [Life!Next]_(Life!vars)

LEMMA InitLife == Init => Life!Init
BY DEF Init, Life!Init, Ended, NoProcess

\* A step that shows nothing and carries out nothing is a stutter.
LEMMA QuietLife ==
  ASSUME UNCHANGED <<scm, Did, Due, shutdown, overtaken>>
  PROVE  LifeStep
BY DEF LifeStep, Life!vars, Did, Due

\* A report that comes late.
LEMMA LateLife ==
  ASSUME UNCHANGED <<Did, Due, shutdown, overtaken>>, overtaken = TRUE,
         scm' = "STOPPED" => Did = "ended"
  PROVE  LifeStep
<1>1. Life!ShowLate
  BY DEF Life!ShowLate, Did, Due
<1> QED BY <1>1 DEF LifeStep, Life!Next

\* The service ends.
LEMMA EndLife ==
  ASSUME TInv, ~Ended, Ended', scm' = "STOPPED", shutdown' = shutdown,
         overtaken => overtaken'
  PROVE  LifeStep
<1>1. Did # "ended" /\ Did' = "ended" /\ Due' = <<>>
  BY LifeTypes DEF Did, Due
<1>2. Life!End
  BY <1>1 DEF Life!End, Did, Due
<1> QED BY <1>2 DEF LifeStep, Life!Next

-----------------------------------------------------------------------------
LEMMA ProcStepLife ==
  ASSUME TInv, LifeInv, NEW p \in Procs, ProcStep(p)
  PROVE  LifeStep
<1>1. CASE StartService(p)
  <2>1. /\ main.pc = "none" /\ main'.pc = "waiting" /\ scm = "STOPPED" /\ shutdown = FALSE
        /\ scm' = "START_PENDING" /\ service' = "new" /\ overtaken' = FALSE
        /\ UNCHANGED <<queue, shutdown>>
    BY <1>1, LifeTypes DEF StartService, NoProcess
  <2>2. queue = <<>>
    BY <2>1, LifeTypes DEF ControllerHandlerExists
  <2>3. /\ Did = "ended" /\ Did' = "new" /\ Due = <<>> /\ Due' = <<>>
    BY <2>1, <2>2 DEF Did, Due, Ended
  <2>4. Life!Start
    BY <2>1, <2>3 DEF Life!Start, Did, Due
  <2> QED BY <2>4 DEF LifeStep, Life!Next
<1>2. CASE Send(p)
  <2>1. UNCHANGED <<scm, service, main, queue, overtaken>>
    BY <1>2 DEF Send, scmVars, history
  <2>2. Did' = Did /\ Due' = Due
    BY <2>1 DEF Did, Due, Ended
  <2>3. shutdown' = TRUE \/ shutdown' = shutdown
    BY <1>2, LifeTypes DEF Send, Deliverable
  <2>4. CASE shutdown' = shutdown
    BY <2>1, <2>2, <2>4, QuietLife
  <2>5. CASE shutdown' = TRUE
    <3>1. Life!ShutDown
      BY <2>1, <2>2, <2>5 DEF Life!ShutDown, Did, Due
    <3> QED BY <3>1 DEF LifeStep, Life!Next
  <2> QED BY <2>3, <2>4, <2>5
<1>3. CASE ~StartService(p) /\ ~Send(p)
  <2>1. UNCHANGED <<scm, service, main, queue, shutdown, overtaken>>
    BY <1>3 DEF ProcStep, Refuse, TimeOut, Poll, Call, scmVars, history
  <2>2. Did' = Did /\ Due' = Due
    BY <2>1 DEF Did, Due, Ended
  <2> QED BY <2>1, <2>2, QuietLife
<1> QED BY <1>1, <1>2, <1>3

\* The callback is what ServiceLife carries out.
LEMMA RunCallbackLife ==
  ASSUME TInv, RunCallback
  PROVE  LifeStep
<1>1. /\ main.pc \in {"events", "quitting"} /\ queue # <<>> /\ main'.pc = "callback"
      /\ service' = AfterCallback(Head(queue)) /\ queue' = Tail(queue)
      /\ UNCHANGED <<scm, shutdown, overtaken>>
  BY DEF RunCallback, scmVars, history
<1>2. /\ Did = service /\ Did' = AfterCallback(Head(Due))
      /\ Due = queue /\ Due' = Tail(Due)
  BY <1>1 DEF Did, Due, Ended
<1>3. Due # <<>> /\ Did # "ended"
  BY <1>1, <1>2, LifeTypes
<1>4. Did' = CASE Head(Due) \in {"STARTUP", "CONTINUE"} -> "running"
               [] Head(Due) = "PAUSE"                   -> "paused"
               [] Head(Due) = "STOP"                    -> "stopped"
               [] OTHER                                 -> Did
  BY <1>2 DEF AfterCallback
<1>5. Life!CarryOut
  BY <1>1, <1>2, <1>3, <1>4 DEF Life!CarryOut, Did, Due
<1> QED BY <1>5 DEF LifeStep, Life!Next

LEMMA MainStepLife ==
  ASSUME TInv, LifeInv, MainStep
  PROVE  LifeStep
<1>0. main \in Main /\ overtaken \in BOOLEAN
  BY LifeTypes
<1>1. CASE RunCallback
  BY <1>1, RunCallbackLife
<1>2. CASE WakeAll \/ LeaveEventLoop \/ CreateApplication
  <2>1. UNCHANGED <<scm, service, queue, shutdown, overtaken>>
    BY <1>2 DEF WakeAll, LeaveEventLoop, CreateApplication, scmVars, history
  <2>2. Ended = FALSE /\ Ended' = FALSE
    BY <1>0, <1>2 DEF WakeAll, LeaveEventLoop, CreateApplication, Ended, Main
  <2>3. Did' = Did /\ Due' = Due
    BY <2>1, <2>2 DEF Did, Due
  <2> QED BY <2>1, <2>3, QuietLife
<1>3. CASE ReportStopped
  <2>1. /\ ~Ended /\ Ended' /\ scm' = "STOPPED" /\ shutdown' = shutdown
        /\ overtaken => overtaken'
    BY <1>0, <1>3 DEF ReportStopped, Ended, Main
  <2> QED BY <2>1, EndLife
<1>4. CASE SysCleanup
  <2>1. UNCHANGED <<scm, shutdown, overtaken>> /\ Ended /\ Ended'
    BY <1>0, <1>4 DEF SysCleanup, Ended, Main, scmVars
  <2>2. Did' = Did /\ Due' = Due
    BY <2>1 DEF Did, Due
  <2> QED BY <2>1, <2>2, QuietLife
<1> QED BY <1>1, <1>2, <1>3, <1>4 DEF MainStep, StartStep

\* The process exits before it has reported its end, or after.
LEMMA ExitLife ==
  ASSUME TInv, LifeInv, ExitProcess
  PROVE  LifeStep
<1>0. /\ main.pc \in {"cleaned", "waiting", "events", "callback", "quitting"}
      /\ main'.pc = "none" /\ scm' = "STOPPED" /\ UNCHANGED <<shutdown, overtaken>>
  BY DEF ExitProcess, NoProcess
<1>1. CASE main.pc # "cleaned"
  BY <1>0, <1>1, EndLife DEF Ended
<1>2. CASE main.pc = "cleaned"
  <2>1. Did = "ended" /\ Did' = "ended" /\ Due = <<>> /\ Due' = <<>>
    BY <1>0, <1>2 DEF Did, Due, Ended
  <2>2. CASE overtaken = TRUE
    BY <1>0, <2>1, <2>2, LateLife
  <2>3. CASE overtaken = FALSE
    <3>1. status = "STOPPED" /\ ShownInv /\ ~Starting
      BY <1>2, <2>3 DEF LifeInv, TInv, StatusInv, StartInv
    <3>2. scm = "STOPPED"
      BY <3>1 DEF ShownInv, Starting
    <3> QED BY <1>0, <2>1, <3>2, QuietLife
  <2> QED BY <2>2, <2>3, LifeTypes
<1> QED BY <1>1, <1>2

-----------------------------------------------------------------------------
\* What a handler announces when it enters.
LEMMA AnnounceLife ==
  ASSUME NEW code \in {"STARTUP", "PAUSE", "CONTINUE", "STOP", "num"},
         Due' = Append(Due, code), Did' = Did, shutdown' = shutdown,
         IF code = "STARTUP"
         THEN scm = "START_PENDING" /\ Did = "new" /\ Due = <<>>
         ELSE Did # "ended" /\ (Did = "new" => Due # <<>>),
         \/ code = "STARTUP" \/ overtaken
         \/ /\ code = "STOP" /\ scm = "START_PENDING" /\ Did \in {"new", "running"}
            /\ overtaken'
         \/ /\ Due = <<>> /\ scm \in {"RUNNING", "PAUSED"} /\ Did \in {"running", "paused"}
            /\ shutdown => code = "STOP",
         overtaken => overtaken',
         scm' = CASE code = "STARTUP"  -> "START_PENDING"
                  [] code = "PAUSE"    -> "PAUSE_PENDING"
                  [] code = "CONTINUE" -> "CONTINUE_PENDING"
                  [] code = "STOP"     -> IF shutdown THEN scm ELSE "STOP_PENDING"
                  [] OTHER             -> scm
  PROVE  LifeStep
<1>1. Life!Announce(code)
  BY DEF Life!Announce, Life!Announcement, Life!StopsStart, Did, Due
<1> QED BY <1>1 DEF LifeStep, Life!Next

LEMMA LifeTypesNext == TInv' => overtaken' \in BOOLEAN
BY DEF TInv, IInv, OtherInv

LEMMA EnterLife ==
  ASSUME TInv, TInv', LifeInv, NEW t \in Threads, Enter(t)
  PROVE  LifeStep
<1> DEFINE code == thread[t].code
<1>0. /\ thread \in [Threads -> Thread] /\ overtaken \in BOOLEAN /\ shutdown \in BOOLEAN
      /\ t \in {"serviceMain", "dispatcher"} /\ code \in Codes
      /\ queue \in Seq(Codes) /\ service \in {"new", "running", "paused", "stopped"}
      /\ scm \in States /\ status \in States
  BY LifeTypes DEF Threads, Thread
<1>1. /\ main.pc \notin {"none", "cleaned"} /\ thread[t].pc = "called"
      /\ code # "INTERROGATE" /\ UNCHANGED <<service, main, shutdown>>
      /\ SetStatus(t, code \in {"STARTUP", "STOP", "PAUSE", "CONTINUE"}, Pending(code))
      /\ Post(code)
  BY DEF Enter, SysExists
<1>2. main.pc # "waiting" /\ (main.pc \in {"events", "callback", "quitting", "executed", "stopped"})
  <2>1. main.pc # "waiting"
    BY <1>0, <1>1 DEF TInv, StartInv, Starting
  <2> QED BY <1>1, <2>1, LifeTypes DEF Main
<1>3. queue' = Append(queue, Event(code))
  BY <1>1, <1>2 DEF Post, ControllerHandlerExists, Event
<1>4. /\ t = "serviceMain" => code = "STARTUP" /\ service = "new" /\ scm = "START_PENDING"
                              /\ main.pc = "events" /\ queue = <<>>
      /\ t = "dispatcher" => /\ code # "STARTUP"
                             /\ thread["serviceMain"].pc \notin {"ready", "called"}
                             /\ code = "SHUTDOWN" <=> shutdown = TRUE
  BY <1>0, <1>1, <1>2 DEF TInv, StartInv, LifeInv
<1>5. t = "dispatcher" => (service = "new" => queue # <<>>)
  BY <1>1, <1>4 DEF TInv, StartInv
<1>6. \/ code \in {"STARTUP", "STOP", "PAUSE", "CONTINUE"} /\ scm' = Pending(code)
      \/ code \in {"num", "SHUTDOWN"} /\ scm' = scm
  BY <1>0, <1>1 DEF SetStatus, scmVars, Codes, Controls
<1>7. overtaken => overtaken'
  BY <1>1 DEF SetStatus
<1>8. /\ Event(code) \in {"STARTUP", "PAUSE", "CONTINUE", "STOP", "num"}
      /\ Event(code) = "STARTUP" <=> code = "STARTUP"
  BY <1>0, <1>1 DEF Event, Codes, Controls
<1>9. scm' = CASE Event(code) = "STARTUP"  -> "START_PENDING"
               [] Event(code) = "PAUSE"    -> "PAUSE_PENDING"
               [] Event(code) = "CONTINUE" -> "CONTINUE_PENDING"
               [] Event(code) = "STOP"     -> IF shutdown THEN scm ELSE "STOP_PENDING"
               [] OTHER                    -> scm
  <2>1. code = "STOP" => shutdown = FALSE
    BY <1>0, <1>4
  <2>2. code = "SHUTDOWN" => shutdown = TRUE
    BY <1>0, <1>4
  <2> QED BY <1>6, <2>1, <2>2 DEF Event, Pending
<1>10. main.pc \in {"executed", "stopped"} => overtaken = TRUE
  BY <1>0, <1>1, <1>4 DEF TInv, StartInv, QuitInv
<1> HIDE DEF code
<1>11. CASE main.pc = "stopped"
  <2>1. Did' = Did /\ Due' = Due /\ Did = "ended"
    BY <1>1, <1>11 DEF Did, Due, Ended
  <2>2. overtaken = TRUE /\ overtaken' = TRUE
    BY <1>7, <1>10, <1>11, LifeTypesNext
  <2> QED BY <1>1, <2>1, <2>2, LateLife
<1>12. CASE main.pc # "stopped"
  <2>1. Did = service /\ Did' = Did /\ Due = queue /\ Due' = Append(Due, Event(code))
    BY <1>1, <1>2, <1>3, <1>12 DEF Did, Due, Ended
  <2>2. IF Event(code) = "STARTUP"
        THEN scm = "START_PENDING" /\ Did = "new" /\ Due = <<>>
        ELSE Did # "ended" /\ (Did = "new" => Due # <<>>)
    <3>1. CASE t = "serviceMain"
      <4>1. /\ code = "STARTUP" /\ service = "new" /\ scm = "START_PENDING"
            /\ queue = <<>>
        BY <1>4, <3>1
      <4>2. Event(code) = "STARTUP"
        BY <1>8, <4>1
      <4> QED BY <2>1, <4>1, <4>2
    <3>2. CASE t = "dispatcher"
      <4>1. Event(code) # "STARTUP"
        BY <1>4, <1>8, <3>2
      <4> QED BY <1>0, <1>5, <2>1, <3>2, <4>1
    <3> QED BY <1>0, <3>1, <3>2
  <2>3. \/ Event(code) = "STARTUP" \/ overtaken
        \/ /\ Event(code) = "STOP" /\ scm = "START_PENDING" /\ Did \in {"new", "running"}
           /\ overtaken'
        \/ /\ Due = <<>> /\ scm \in {"RUNNING", "PAUSED"} /\ Did \in {"running", "paused"}
           /\ shutdown => Event(code) = "STOP"
    <3> SUFFICES ASSUME code # "STARTUP", overtaken = FALSE
                 PROVE  \/ /\ Event(code) = "STOP" /\ scm = "START_PENDING"
                           /\ Did \in {"new", "running"} /\ overtaken'
                        \/ /\ Due = <<>> /\ scm \in {"RUNNING", "PAUSED"}
                           /\ Did \in {"running", "paused"}
                           /\ shutdown => Event(code) = "STOP"
      BY <1>0, <1>8
    <3>1. t = "dispatcher"
      BY <1>0, <1>4
    <3>2. scm = status
      BY <1>1, <1>4, <3>1 DEF TInv, StatusInv, ShownInv
    <3>3. CASE status = "START_PENDING"
      <4>1. /\ thread["serviceMain"].pc \in {"waiting", "woken"}
            /\ service \in {"new", "running"}
        BY <1>1, <3>3 DEF LifeInv
      <4>2. code \in {"STOP", "SHUTDOWN"}
        BY <1>1, <3>1, <3>3 DEF LifeInv, code
      <4>3. overtaken'
        BY <1>1, <3>1, <4>1 DEF SetStatus, Threads
      <4> QED BY <2>1, <3>2, <3>3, <4>1, <4>2, <4>3 DEF Event
    <3>4. CASE status # "START_PENDING"
      <4>1. status \in {"RUNNING", "PAUSED"}
        BY <1>1, <3>1, <3>4 DEF LifeInv
      <4>2. ~Starting
        BY <3>2, <3>4 DEF TInv, StartInv
      <4>3. service \notin {"new", "stopped"}
        BY <1>1, <3>1, <4>2 DEF LifeInv, TInv, QuitInv, StartInv, Starting
      <4>4. queue = <<>>
        <5>1. InLoop
          BY <1>2, <1>10, <1>12 DEF InLoop
        <5>2. \A u \in Threads : ~Waiting(u)
          BY <1>1, <3>1, <4>2 DEF Waiting, Starting, Threads
        <5> QED BY <5>1, <5>2 DEF TInv, WaitInv
      <4> QED BY <1>0, <1>4, <2>1, <3>1, <3>2, <4>1, <4>3, <4>4 DEF Event
    <3> QED BY <3>3, <3>4
  <2> QED BY <1>1, <1>7, <1>8, <1>9, <2>1, <2>2, <2>3, AnnounceLife
<1> QED BY <1>11, <1>12

\* A handler that has been woken shows its callback as done, unless it is late.
LEMMA CompleteLife ==
  ASSUME TInv, TInv', LifeInv, NEW t \in Threads, Complete(t)
  PROVE  LifeStep
<1> DEFINE code == thread[t].code
<1>0. /\ thread \in [Threads -> Thread] /\ overtaken \in BOOLEAN
      /\ t \in {"serviceMain", "dispatcher"}
  BY LifeTypes DEF Threads
<1>1. /\ main.pc \notin {"none", "cleaned"} /\ thread[t].pc = "woken"
      /\ UNCHANGED <<service, main, queue, shutdown>>
      /\ SetStatus(t, code \in {"STARTUP", "PAUSE", "CONTINUE"}, Final(code))
  BY DEF Complete, SysExists
<1>2. Did' = Did /\ Due' = Due
  BY <1>1 DEF Did, Due, Ended
<1>3. overtaken => overtaken'
  BY <1>1 DEF SetStatus
<1>4. CASE code \notin {"STARTUP", "PAUSE", "CONTINUE"} /\ overtaken = FALSE
  <2>1. t = "dispatcher" /\ ~Starting
    BY <1>0, <1>1, <1>4 DEF TInv, StartInv, Starting
  <2>2. \A u \in Threads \ {t} : thread[u].pc \notin {"waiting", "woken"}
    BY <2>1 DEF Starting, Threads
  <2>3. scm' = scm /\ overtaken' = overtaken
    BY <1>0, <1>1, <1>4, <2>2 DEF SetStatus, scmVars
  <2> QED BY <1>1, <1>2, <2>3, QuietLife
<1>5. CASE overtaken = TRUE
  <2>1. overtaken' = TRUE
    BY <1>3, <1>5, LifeTypesNext
  <2>2. scm' = "STOPPED" => Did = "ended"
    BY <1>1 DEF TInv, IInv, StoppedMeansEnded, Did, Ended
  <2> QED BY <1>1, <1>2, <1>5, <2>1, <2>2, LateLife
<1>6. CASE code \in {"STARTUP", "PAUSE", "CONTINUE"} /\ overtaken = FALSE
  <2>1. ShownInv /\ HandledInv
    BY <1>1, <1>6 DEF TInv, StatusInv
  <2>2. status = Meanwhile(code) /\ service = Afterwards(code)
    BY <1>1, <1>6, <2>1 DEF HandledInv
  <2>3. scm = status
    <3>1. status # "STOPPED"
      BY <1>6, <2>2 DEF Meanwhile
    <3> QED BY <2>1, <3>1 DEF ShownInv
  <2>4. scm' = Final(code)
    BY <1>1, <1>6 DEF SetStatus
  <2>5. main.quit = FALSE
    <3>1. CASE t = "serviceMain"
      BY <1>1, <1>6, <3>1 DEF TInv, StartInv, Starting
    <3>2. CASE t = "dispatcher"
      BY <1>1, <1>6, <3>2, LifeTypes DEF TInv, QuitInv, Main
    <3> QED BY <1>0, <3>1, <3>2
  <2>6. main.pc \in {"waiting", "events", "callback"}
    BY <1>1, <2>5, LifeTypes DEF TInv, StartInv, Main
  <2>7. Due = <<>>
    <3>1. CASE queue = <<>>
      BY <3>1 DEF Due
    <3>2. CASE queue # <<>>
      <4>1. InLoop
        BY <2>6, <3>2, LifeTypes DEF InLoop, ControllerHandlerExists
      <4>2. PICK u \in Threads : Waiting(u)
        BY <1>6, <3>2, <4>1 DEF TInv, WaitInv
      <4>3. u # t
        BY <1>1, <4>2 DEF Waiting
      <4>4. "serviceMain" \in {u, t} /\ "dispatcher" \in {u, t}
        BY <4>3 DEF Threads
      <4> QED BY <1>1, <1>6, <4>2, <4>4 DEF TInv, StartInv, Starting, Waiting
    <3> QED BY <3>1, <3>2
  <2>8. Did = service
    BY <2>6 DEF Did, Ended
  <2>9. \/ /\ scm \in {"START_PENDING", "CONTINUE_PENDING"} /\ Did = "running"
           /\ scm' = "RUNNING"
        \/ /\ scm = "PAUSE_PENDING" /\ Did = "paused" /\ scm' = "PAUSED"
    BY <1>6, <2>2, <2>3, <2>4, <2>8 DEF Meanwhile, Afterwards, Final
  <2>10. Life!ShowDone
    BY <1>1, <1>2, <1>3, <2>7, <2>9 DEF Life!ShowDone, Did, Due
  <2> QED BY <2>10 DEF LifeStep, Life!Next
<1> QED BY <1>0, <1>4, <1>5, <1>6

LEMMA HandlerLife ==
  ASSUME TInv, TInv', LifeInv, NEW t \in Threads, Handler(t)
  PROVE  LifeStep
<1>1. CASE Enter(t)
  BY <1>1, EnterLife
<1>2. CASE Complete(t)
  BY <1>2, CompleteLife
<1>3. CASE Interrogate(t) \/ ReadStatus(t)
  <2>1. UNCHANGED <<scm, service, main, queue, shutdown, overtaken>>
    BY <1>3 DEF Interrogate, ReadStatus, scmVars, history
  <2>2. Did' = Did /\ Due' = Due
    BY <2>1 DEF Did, Due, Ended
  <2> QED BY <2>1, <2>2, QuietLife
<1>4. CASE Report(t)
  <2>1. /\ main.pc \notin {"none", "cleaned"} /\ thread[t].pc = "reporting"
        /\ scm' = thread[t].report
        /\ UNCHANGED <<status, service, main, queue, shutdown, overtaken>>
    BY <1>4 DEF Report, SysExists, history
  <2>2. Did' = Did /\ Due' = Due
    BY <2>1 DEF Did, Due, Ended
  <2>3. scm' # "STOPPED"
    BY <2>1 DEF TInv, IInv, ThreadInv, NoReportOfStopped
  <2>4. CASE overtaken = TRUE
    BY <2>1, <2>2, <2>3, <2>4, LateLife
  <2>5. CASE overtaken = FALSE
    <3>1. thread[t].report = status /\ ShownInv
      BY <2>1, <2>5 DEF TInv, StatusInv, ShownInv
    <3>2. scm = status
      BY <2>1, <2>3, <3>1 DEF ShownInv
    <3> QED BY <2>1, <2>2, <3>1, <3>2, QuietLife
  <2> QED BY <2>4, <2>5, LifeTypes
<1> QED BY <1>1, <1>2, <1>3, <1>4 DEF Handler

LEMMA NextLife == TInv /\ TInv' /\ LifeInv /\ [Next]_vars => LifeStep
<1> SUFFICES ASSUME TInv, TInv', LifeInv, [Next]_vars PROVE LifeStep
  OBVIOUS
<1>1. CASE UNCHANGED vars
  <2>1. UNCHANGED <<scm, service, main, queue, shutdown, overtaken>>
    BY <1>1 DEF vars
  <2>2. Did' = Did /\ Due' = Due
    BY <2>1 DEF Did, Due, Ended
  <2> QED BY <2>1, <2>2, QuietLife
<1>2. CASE Next
  BY <1>2, ProcStepLife, MainStepLife, ExitLife, HandlerLife DEF Next
<1> QED BY <1>1, <1>2

LEMMA LifeInvariant == Spec => []LifeInv
<1>1. TInv /\ LifeInv /\ [Next]_vars => LifeInv'
  BY NextLifeInv
<1> QED BY <1>1, InitLifeInv, OrderInvariant, PTL DEF Spec

\* Whatever the three threads do, the SCM sees of the service the life that
\* ServiceLife promises: each control announced, carried out once, shown as done.
THEOREM LifeImplemented == Spec => ImplementsServiceLife
<1>1. Init => Life!Init
  BY InitLife
<1>2. TInv /\ TInv' /\ LifeInv /\ [Next]_vars => [Life!Next]_(Life!vars)
  BY NextLife DEF LifeStep
<1> QED BY <1>1, <1>2, OrderInvariant, LifeInvariant, PTL
        DEF Spec, ImplementsServiceLife, Life!Spec

=============================================================================
