---------------------------- MODULE ServiceControl ----------------------------
(***************************************************************************)
(* What a service promises to the processes that control it: a command is  *)
(* carried out by one daemon, at one moment between call and return, and   *)
(* at most once; a caller is told what came of it, and told that there is  *)
(* no service only when none is up; a daemon comes up only where there is  *)
(* none, and goes only when it was told to, or crashes.                    *)
(*                                                                         *)
(* How a daemon is found, what it leaves behind and how commands and       *)
(* answers travel is not seen here.  Starting and stopping at the same     *)
(* time is careless, and what is said of the number of daemons and of      *)
(* finding them then no longer holds.                                      *)
(***************************************************************************)
CONSTANTS Procs, Daemons, ServiceFlags

VARIABLES
  life,     \* of each daemon: "none", "coming", "up", "going", "gone"
  paused,   \* the daemons that are paused
  call,     \* the calls of the processes
  careless  \* starts or stops have overlapped

vars == <<life, paused, call, careless>>

Alive(d) == life[d] \notin {"none", "gone"}
Answers(d) == life[d] \in {"up", "going"}

\* A call is "asking" until it is "answered" or returns; a start that finds nobody
\* is "spawning".  An idle process remembers a stop that was confirmed.
CallIn(state, op, by, result) ==
  [op |-> op, state |-> state, by |-> by, result |-> result]

Idle == CallIn("idle", "none", {}, FALSE)

Init == /\ life = [d \in Daemons |-> "none"] /\ paused = {}
        /\ call = [p \in Procs |-> Idle] /\ careless = FALSE

Busy(p, ops) == call[p].state # "idle" /\ call[p].op \in ops

Overlaps(p, op) ==
  \/ /\ op = "start"
     /\ \/ \E q \in Procs \ {p} : Busy(q, {"start", "terminate"})
        \/ \E d \in Daemons : life[d] \in {"coming", "going"}
  \/ op = "terminate" /\ \E q \in Procs \ {p} : Busy(q, {"start"})

Invoke(p, op) ==
  /\ call[p].state = "idle"
  /\ call' = [call EXCEPT ![p] = CallIn("asking", op, {}, FALSE)]
  /\ careless' = (careless \/ Overlaps(p, op))
  /\ UNCHANGED <<life, paused>>

\* The daemon d gets the command, or has only to be there.
Reach(p, d) ==
  /\ call[p].state = "asking" /\ call[p].by = {} /\ Answers(d)
  /\ \/ call' = [call EXCEPT ![p] = CallIn("asking", @.op, {d}, FALSE)]
     \/ call[p].op \in {"isRunning", "start"} /\ call' = [call EXCEPT ![p] = Idle]
  /\ UNCHANGED <<life, paused, careless>>

Allowed(op) ==
  /\ op = "terminate" => "CannotBeStopped" \notin ServiceFlags
  /\ op \in {"pause", "resume"} => "CanBeSuspended" \in ServiceFlags

CarryOut(p, d) ==
  LET op == call[p].op
  IN  /\ call[p].state = "asking" /\ call[p].by = {d} /\ Answers(d)
      /\ call' = [call EXCEPT ![p] = CallIn("answered", op, {d}, Allowed(op))]
      /\ life' = IF op = "terminate" /\ Allowed(op) THEN [life EXCEPT ![d] = "going"]
                 ELSE life
      /\ paused' = CASE op = "pause" /\ Allowed(op)  -> paused \cup {d}
                     [] op = "resume" /\ Allowed(op) -> paused \ {d}
                     [] OTHER                        -> paused
      /\ UNCHANGED careless

Return(p) ==
  /\ call[p].state = "answered"
  /\ call' = [call EXCEPT ![p] = IF @.op = "terminate" /\ @.result
                                 THEN CallIn("idle", @.op, @.by, TRUE) ELSE Idle]
  /\ UNCHANGED <<life, paused, careless>>

\* Nobody answers: nothing was carried out.  A start goes on.
GiveUp(p) ==
  /\ call[p].state = "asking"
  /\ call[p].by = {} => careless \/ \A d \in Daemons : life[d] # "up"
  /\ \A d \in call[p].by : life[d] \in {"going", "gone"}
  /\ call' = [call EXCEPT ![p] = IF @.op = "start"
                                 THEN CallIn("spawning", "start", {}, FALSE)
                                 ELSE Idle]
  /\ UNCHANGED <<life, paused, careless>>

Spawn(p) ==
  /\ call[p].state = "spawning"
  /\ call' = [call EXCEPT ![p] = Idle]
  /\ \/ UNCHANGED life
     \/ /\ careless \/ \A d \in Daemons : ~Alive(d)
        /\ \E d \in Daemons : life[d] = "none" /\ life' = [life EXCEPT ![d] = "coming"]
  /\ UNCHANGED <<paused, careless>>

ComeUp(d) ==
  /\ life[d] = "coming" /\ life' = [life EXCEPT ![d] = "up"]
  /\ UNCHANGED <<paused, call, careless>>

\* A daemon that was stopped ends; another one crashes.
End(d) ==
  /\ Alive(d) /\ life' = [life EXCEPT ![d] = "gone"]
  /\ paused' = paused \ {d}
  /\ UNCHANGED <<call, careless>>

Next == \/ \E p \in Procs : \/ \E op \in {"start", "isRunning", "terminate", "pause",
                                          "resume", "num"} : Invoke(p, op)
                            \/ \E d \in Daemons : Reach(p, d) \/ CarryOut(p, d)
                            \/ Return(p) \/ GiveUp(p) \/ Spawn(p)
        \/ \E d \in Daemons : ComeUp(d) \/ End(d)

Spec == Init /\ [][Next]_vars

=============================================================================
