----------------------------- MODULE ServiceLife -----------------------------
(***************************************************************************)
(* What a Windows service promises the service control manager (SCM), in   *)
(* whatever threads, events and reports it does it: a control is first     *)
(* announced, then carried out by the application, once, and then shown as *)
(* done; the start comes first and nothing after the stop; and a service   *)
(* that is shown as stopped has ended.                                     *)
(*                                                                         *)
(* One control comes after another, but for a stop, which may come while   *)
(* the service starts.  That and reports that come late are races; they,   *)
(* and a shutdown of the system, weaken the promise only where it says so. *)
(***************************************************************************)
EXTENDS Sequences

VARIABLES
  shown,    \* the state of the service that the SCM knows
  did,      \* what the last callback made of the application, or "ended"
  due,      \* the codes announced whose callbacks are to run
  closing,  \* the system is shutting down
  raced     \* since the start, two codes overlapped: one was announced or shown as
            \* done before the other was

vars == <<shown, did, due, closing, raced>>

Init == /\ shown = "STOPPED" /\ did = "ended" /\ due = <<>>
        /\ closing = FALSE /\ raced = FALSE

Start ==
  /\ shown = "STOPPED" /\ did = "ended" /\ ~closing
  /\ shown' = "START_PENDING" /\ did' = "new" /\ raced' = FALSE
  /\ UNCHANGED <<due, closing>>

ShutDown == closing' = TRUE /\ UNCHANGED <<shown, did, due, raced>>

\* A code is posted, and shown as pending if it changes the service.
Announcement(code) ==
  CASE code = "STARTUP"  -> "START_PENDING"
    [] code = "PAUSE"    -> "PAUSE_PENDING"
    [] code = "CONTINUE" -> "CONTINUE_PENDING"
    [] code = "STOP"     -> IF closing THEN shown ELSE "STOP_PENDING"
    [] OTHER             -> shown

\* A stop that comes while the service starts overlaps the start.
StopsStart(code) ==
  code = "STOP" /\ shown = "START_PENDING" /\ did \in {"new", "running"} /\ raced'

\* The start is announced first.
Announce(code) ==
  /\ IF code = "STARTUP"
     THEN shown = "START_PENDING" /\ did = "new" /\ due = <<>>
     ELSE /\ did # "ended" /\ (did = "new" => due # <<>>)
          /\ \/ raced
             \/ StopsStart(code)
             \/ /\ due = <<>> /\ shown \in {"RUNNING", "PAUSED"}
                /\ did \in {"running", "paused"}
                /\ closing => code = "STOP"
  /\ due' = Append(due, code) /\ shown' = Announcement(code)
  /\ raced => raced'
  /\ UNCHANGED <<did, closing>>

\* The callbacks run in the order of the announcements.
CarryOut ==
  /\ due # <<>> /\ did # "ended"
  /\ did' = CASE Head(due) \in {"STARTUP", "CONTINUE"} -> "running"
              [] Head(due) = "PAUSE"                   -> "paused"
              [] Head(due) = "STOP"                    -> "stopped"
              [] OTHER                                 -> did
  /\ due' = Tail(due)
  /\ UNCHANGED <<shown, closing, raced>>

ShowDone ==
  /\ due = <<>>
  /\ \/ /\ shown \in {"START_PENDING", "CONTINUE_PENDING"} /\ did = "running"
        /\ shown' = "RUNNING"
     \/ /\ shown = "PAUSE_PENDING" /\ did = "paused"
        /\ shown' = "PAUSED"
  /\ raced => raced'
  /\ UNCHANGED <<did, due, closing>>

\* The event loop has ended, or the process exits before that.
End ==
  /\ did # "ended"
  /\ did' = "ended" /\ due' = <<>> /\ shown' = "STOPPED"
  /\ raced => raced'
  /\ UNCHANGED closing

\* When codes overlapped anything may be shown, but "STOPPED" only of what has ended.
ShowLate ==
  /\ raced /\ (shown' = "STOPPED" => did = "ended")
  /\ UNCHANGED <<did, due, closing, raced>>

Next == \/ Start \/ ShutDown \/ CarryOut \/ ShowDone \/ End \/ ShowLate
        \/ \E code \in {"STARTUP", "PAUSE", "CONTINUE", "STOP", "num"} : Announce(code)

Spec == Init /\ [][Next]_vars

=============================================================================
