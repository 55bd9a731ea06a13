-------------------------- MODULE UnixServiceProofs --------------------------
(***************************************************************************)
(* Theorems about the daemon and its socket file, for any number of        *)
(* controllers, of daemons and of crashes, and whatever calls are made.    *)
(***************************************************************************)
EXTENDS UnixService, TLAPS

-----------------------------------------------------------------------------
(***************************************************************************)
(* The inductive invariant.                                                *)
(***************************************************************************)

\* What a start under way may rely on once nobody else starts or stops: it is
\* alone, no daemon is on its way up or down, an answer to "alive" says "true",
\* and the daemon it asked is the only one.
StartUnderWay ==
  \A p \in Procs : InCall(p, StartOps) =>
    /\ \A q \in Procs : InCall(q, StartOps \cup {"terminate"}) => q = p
    /\ \A d \in Daemons : ~Changing(d)
    /\ proc[p].stage \in {"backlog", "accepted", "answered"} =>
         /\ proc[p].peer \in Daemons
         /\ \A d \in Daemons : Alive(d) => d = proc[p].peer
    /\ proc[p].stage = "answered" => proc[p].result
    /\ proc[p].stage = "spawning" => \A d \in Daemons : ~Alive(d)

\* What the phase of a daemon says about the socket file.
FileFollowsPhase ==
  \A d \in Daemons :
    /\ daemon[d].phase = "unlinked" => socketFile = NoFile
    /\ daemon[d].phase = "bound" => socketFile = d
    /\ daemon[d].phase = "serving" => socketFile = d /\ daemon[d].listening

AtMostOne == \A d, e \in Daemons : Alive(d) /\ Alive(e) => d = e

ListeningInLoop == \A d \in Daemons : daemon[d].listening => InEventLoop(d)
OnlyStartsSpawn == \A p \in Procs : proc[p].stage = "spawning" => proc[p].op = "start"

Typed == /\ daemon \in [Daemons -> Daemon] /\ proc \in [Procs -> Proc]
         /\ reckless \in BOOLEAN /\ ListeningInLoop

Careful == StartUnderWay /\ FileFollowsPhase /\ AtMostOne

IInv == Typed /\ OnlyStartsSpawn /\ (~reckless => Careful)

-----------------------------------------------------------------------------
LEMMA TypedStep == Typed /\ [Next]_vars => Typed'
<1> SUFFICES ASSUME Typed, [Next]_vars PROVE Typed'
  OBVIOUS
<1> USE DEF Typed, ListeningInLoop, InEventLoop
<1>1. ASSUME NEW p \in Procs, NEW op \in Calls, Call(p, op) PROVE Typed'
  <2>1. op \in Ops
    BY CallsAssumption
  <2> QED
    BY <1>1, <2>1, Zenon DEF Call, Proc
<1>2. ASSUME NEW p \in Procs, ProcStep(p) PROVE Typed'
  <2>1. \A reply \in BOOLEAN : Returned(p, reply) \in Proc
    BY DEF Returned, Idle, Proc
  <2>2. CASE Connect(p)
    <3>1. PICK d \in Daemons :
            proc' = [proc EXCEPT ![p] =
                       IF @.op \in {"isRunning", "controllerStart"} THEN Idle
                       ELSE [@ EXCEPT !.stage = "backlog", !.peer = d]]
      BY <2>2 DEF Connect
    <3>2. Idle \in Proc
      BY DEF Idle, Proc
    <3>3. [proc[p] EXCEPT !.stage = "backlog", !.peer = d] \in Proc
      BY DEF Proc
    <3>4. proc' \in [Procs -> Proc]
      BY <3>1, <3>2, <3>3
    <3> QED
      BY <2>2, <3>4 DEF Connect
  <2>3. CASE ConnectFails(p)
    <3>1. [proc[p] EXCEPT !.op = "start"] \in Proc
      BY DEF Proc, Ops, StartOps
    <3>2. proc' \in [Procs -> Proc]
      BY <2>1, <2>3, <3>1 DEF ConnectFails
    <3> QED
      BY <2>3, <3>2 DEF ConnectFails
  <2>4. CASE GetReply(p)
    BY <2>1, <2>4 DEF GetReply, Proc
  <2>5. CASE GetEof(p)
    BY <2>1, <2>5 DEF GetEof
  <2>6. CASE Spawn(p)
    BY <2>6 DEF Spawn, Idle, Proc, Daemon, Phases
  <2>7. CASE SpawnFails(p)
    BY <2>7 DEF SpawnFails, Idle, Proc
  <2> QED
    BY <1>2, <2>2, <2>3, <2>4, <2>5, <2>6, <2>7 DEF ProcStep
<1>3. ASSUME NEW d \in Daemons, SetPath(d) \/ SysCleanup(d) \/ Crash(d) PROVE Typed'
  <2>1. CASE SetPath(d)
    BY <2>1 DEF SetPath, Unlink, Bind, Listen, Daemon, Phases
  <2>2. CASE SysCleanup(d) \/ Crash(d)
    BY <2>2 DEF SysCleanup, CloseFd, UnlinkPath, Crash, Daemon, Phases
  <2> QED
    BY <1>3, <2>1, <2>2
<1>4. ASSUME NEW d \in Daemons, NEW p \in Procs, Accept(d, p) \/ SlotReady(d, p)
      PROVE  Typed'
  <2>1. CASE Accept(d, p)
    BY <2>1 DEF Accept, Proc
  <2>2. CASE SlotReady(d, p)
    <3>1. Obeyed(proc[p].op) \in BOOLEAN
      BY DEF Obeyed
    <3>2. proc' \in [Procs -> Proc]
      BY <2>2, <3>1 DEF SlotReady, Proc
    <3>3. Execute(d, proc[p].op) \in [Daemons -> Daemon]
      <4>1. [daemon[d] EXCEPT !.phase = "quitting"] \in Daemon
        BY DEF Daemon, Phases
      <4>2. [daemon[d] EXCEPT !.paused = (proc[p].op = "pause")] \in Daemon
        BY DEF Daemon
      <4> QED
        BY <4>1, <4>2 DEF Execute
    <3>4. \A e \in Daemons : daemon'[e].listening = daemon[e].listening
      BY <2>2 DEF SlotReady, Execute, Daemon
    <3>5. \A e \in Daemons : InEventLoop(e) => InEventLoop(e)'
      BY <2>2 DEF SlotReady, Execute, Daemon
    <3> QED
      BY <2>2, <3>2, <3>3, <3>4, <3>5 DEF SlotReady
  <2> QED
    BY <1>4, <2>1, <2>2
<1>5. CASE UNCHANGED vars
  BY <1>5 DEF vars
<1> QED
  BY <1>1, <1>2, <1>3, <1>4, <1>5 DEF Next

LEMMA SpawnStep == Typed /\ OnlyStartsSpawn /\ [Next]_vars => OnlyStartsSpawn'
<1> SUFFICES ASSUME Typed, OnlyStartsSpawn, [Next]_vars, NEW q \in Procs,
                    proc'[q].stage = "spawning"
             PROVE  proc'[q].op = "start"
  BY DEF OnlyStartsSpawn
<1>1. ASSUME NEW p \in Procs, NEW op \in Calls, Call(p, op) PROVE proc'[q].op = "start"
  BY <1>1 DEF Call, OnlyStartsSpawn, Typed
<1>2. ASSUME NEW p \in Procs, ProcStep(p) PROVE proc'[q].op = "start"
  <2>1. \A reply \in BOOLEAN : Returned(p, reply).stage = "spawning" =>
                                  Returned(p, reply).op = "start"
    BY DEF Returned, Idle, Typed, Proc
  <2>2. CASE Connect(p)
    BY <2>2 DEF Connect, Idle, OnlyStartsSpawn, Typed, Proc
  <2>3. CASE ConnectFails(p)
    BY <2>1, <2>3 DEF ConnectFails, OnlyStartsSpawn, Typed, Proc
  <2>4. CASE GetReply(p)
    BY <2>1, <2>4 DEF GetReply, OnlyStartsSpawn, Typed, Proc
  <2>5. CASE GetEof(p)
    BY <2>1, <2>5 DEF GetEof, OnlyStartsSpawn, Typed
  <2>6. CASE Spawn(p) \/ SpawnFails(p)
    BY <2>6 DEF Spawn, SpawnFails, Idle, OnlyStartsSpawn, Typed
  <2> QED
    BY <1>2, <2>2, <2>3, <2>4, <2>5, <2>6 DEF ProcStep
<1>3. ASSUME NEW d \in Daemons, SetPath(d) \/ SysCleanup(d) \/ Crash(d)
      PROVE  proc'[q].op = "start"
  BY <1>3 DEF SetPath, Unlink, Bind, Listen, SysCleanup, CloseFd, UnlinkPath, Crash,
              OnlyStartsSpawn
<1>4. ASSUME NEW d \in Daemons, NEW p \in Procs, Accept(d, p) \/ SlotReady(d, p)
      PROVE  proc'[q].op = "start"
  BY <1>4 DEF Accept, SlotReady, OnlyStartsSpawn, Typed, Proc
<1>5. CASE UNCHANGED vars
  BY <1>5 DEF vars, OnlyStartsSpawn
<1> QED
  BY <1>1, <1>2, <1>3, <1>4, <1>5 DEF Next

-----------------------------------------------------------------------------
\* Nothing but a call that is not reckless can happen between careful states.
LEMMA CallStep ==
  ASSUME Typed, Careful, NEW p \in Procs, NEW op \in Ops, Call(p, op), ~reckless'
  PROVE  Careful'
<1>1. ~Reckless(p, op)
  BY DEF Call
<1>2. /\ proc' = [proc EXCEPT ![p] = [op |-> op, peer |-> NoPeer,
                                      stage |-> "calling", result |-> FALSE]]
      /\ daemon' = daemon /\ socketFile' = socketFile
  BY DEF Call
<1>3. FileFollowsPhase' /\ AtMostOne'
  BY <1>2 DEF Careful, FileFollowsPhase, AtMostOne, Alive
<1>4. ASSUME NEW q \in Procs, q # p
      PROVE  proc'[q] = proc[q]
  BY <1>2, <1>4 DEF Typed
<1>5. proc'[p].op = op /\ proc'[p].stage = "calling"
  BY <1>2 DEF Typed
<1>6. StartUnderWay'
  <2> SUFFICES ASSUME NEW r \in Procs, InCall(r, StartOps)'
               PROVE  /\ \A q \in Procs : InCall(q, StartOps \cup {"terminate"})' => q = r
                      /\ \A d \in Daemons : ~Changing(d)'
                      /\ proc'[r].stage \in {"backlog", "accepted", "answered"} =>
                           /\ proc'[r].peer \in Daemons
                           /\ \A d \in Daemons : Alive(d)' => d = proc'[r].peer
                      /\ proc'[r].stage = "answered" => proc'[r].result
                      /\ proc'[r].stage = "spawning" => \A d \in Daemons : ~Alive(d)'
    BY DEF StartUnderWay
  <2>1. CASE r = p
    <3>1. op \in StartOps
      BY <2>1, <1>5 DEF InCall
    <3>2. /\ \A q \in Procs \ {p} : ~InCall(q, StartOps \cup {"terminate"})
          /\ \A d \in Daemons : ~Changing(d)
      BY <3>1, <1>1 DEF Reckless
    <3> QED
      BY <2>1, <3>2, <1>2, <1>4, <1>5 DEF InCall, Changing, Alive
  <2>2. CASE r # p
    <3>1. InCall(r, StartOps)
      BY <2>2, <1>4 DEF InCall
    <3>2. op \notin StartOps \cup {"terminate"}
      BY <3>1, <2>2, <1>1 DEF Reckless, InCall, StartOps
    <3> QED
      BY <2>2, <3>1, <3>2, <1>2, <1>4, <1>5
         DEF Careful, StartUnderWay, InCall, Changing, Alive
  <2> QED
    BY <2>1, <2>2
<1> QED
  BY <1>3, <1>6 DEF Careful

\* A start whose connection failed or was closed has no daemon to fear.
LEMMA NobodyAlive ==
  ASSUME Typed, Careful, NEW p \in Procs, InCall(p, StartOps),
         \/ ~ \E d \in Daemons : Reachable(d)
         \/ HungUp(p)
  PROVE  \A d \in Daemons : ~Alive(d)
<1> SUFFICES ASSUME NEW e \in Daemons, Alive(e) PROVE FALSE
  OBVIOUS
<1>1. daemon[e].phase = "serving"
  BY DEF Careful, StartUnderWay, Changing
<1>2. socketFile = e /\ daemon[e].listening
  BY <1>1 DEF Careful, FileFollowsPhase
<1>3. HungUp(p)
  BY <1>2 DEF Reachable
<1>4. proc[p].stage \in {"backlog", "accepted"}
  BY <1>3 DEF HungUp
<1>5. e = proc[p].peer
  BY <1>4 DEF Careful, StartUnderWay
<1> QED
  BY <1>2, <1>3, <1>5 DEF HungUp

\* A step that only moves the call of one process on.
LEMMA ProcMove ==
  ASSUME Typed, Careful, NEW p \in Procs,
         daemon' = daemon, socketFile' = socketFile,
         \A q \in Procs \ {p} : proc'[q] = proc[q],
         InCall(p, StartOps)' => InCall(p, StartOps),
         InCall(p, {"terminate"})' => InCall(p, {"terminate"}),
         InCall(p, StartOps)' =>
           /\ proc'[p].stage \in {"backlog", "accepted", "answered"} =>
                /\ proc'[p].peer \in Daemons
                /\ \A d \in Daemons : Alive(d) => d = proc'[p].peer
           /\ proc'[p].stage = "answered" => proc'[p].result
           /\ proc'[p].stage = "spawning" => \A d \in Daemons : ~Alive(d)
  PROVE  Careful'
<1>1. FileFollowsPhase' /\ AtMostOne'
  BY DEF Careful, FileFollowsPhase, AtMostOne, Alive
<1>2. \A q \in Procs : /\ InCall(q, StartOps)' => InCall(q, StartOps)
                       /\ InCall(q, {"terminate"})' => InCall(q, {"terminate"})
  BY DEF InCall
<1>3. \A q \in Procs : InCall(q, StartOps \cup {"terminate"})' =>
                         InCall(q, StartOps \cup {"terminate"})
  BY <1>2 DEF InCall
<1>4. \A d \in Daemons : (Alive(d)' <=> Alive(d)) /\ (Changing(d)' <=> Changing(d))
  BY DEF Alive, Changing
<1>5. StartUnderWay'
  <2> SUFFICES ASSUME NEW r \in Procs, InCall(r, StartOps)'
               PROVE  /\ \A q \in Procs : InCall(q, StartOps \cup {"terminate"})' => q = r
                      /\ \A d \in Daemons : ~Changing(d)'
                      /\ proc'[r].stage \in {"backlog", "accepted", "answered"} =>
                           /\ proc'[r].peer \in Daemons
                           /\ \A d \in Daemons : Alive(d)' => d = proc'[r].peer
                      /\ proc'[r].stage = "answered" => proc'[r].result
                      /\ proc'[r].stage = "spawning" => \A d \in Daemons : ~Alive(d)'
    BY DEF StartUnderWay
  <2>1. InCall(r, StartOps)
    BY <1>2
  <2>2. /\ \A q \in Procs : InCall(q, StartOps \cup {"terminate"})' => q = r
        /\ \A d \in Daemons : ~Changing(d)'
    BY <2>1, <1>3, <1>4 DEF Careful, StartUnderWay
  <2>3. CASE r = p
    BY <2>2, <2>3, <1>4
  <2>4. CASE r # p
    BY <2>1, <2>2, <2>4, <1>4 DEF Careful, StartUnderWay
  <2> QED
    BY <2>3, <2>4
<1> QED
  BY <1>1, <1>5 DEF Careful

LEMMA ProcStepCareful ==
  ASSUME Typed, OnlyStartsSpawn, Careful, NEW p \in Procs, ProcStep(p)
  PROVE  Careful'
<1> USE DEF InCall, StartOps
<1>0. proc[p] \in Proc
  BY DEF Typed
<1>1. CASE Connect(p)
  <2>1. PICK d \in Daemons : /\ Reachable(d)
                             /\ proc' = [proc EXCEPT ![p] =
                                  IF @.op \in {"isRunning", "controllerStart"} THEN Idle
                                  ELSE [@ EXCEPT !.stage = "backlog", !.peer = d]]
    BY <1>1 DEF Connect
  <2>2. Alive(d)
    BY <2>1 DEF Reachable, Typed, ListeningInLoop, InEventLoop, Alive
  <2>3. \A e \in Daemons : Alive(e) => e = d
    BY <2>2 DEF Careful, AtMostOne
  <2>4. CASE proc[p].op \in {"isRunning", "controllerStart"}
    <3>1. proc'[p] = Idle /\ \A q \in Procs \ {p} : proc'[q] = proc[q]
      BY <2>1, <2>4 DEF Typed
    <3>2. daemon' = daemon /\ socketFile' = socketFile
      BY <1>1 DEF Connect
    <3>3. proc'[p].stage = "idle"
      BY <3>1 DEF Idle
    <3> QED
      BY <3>1, <3>2, <3>3, ProcMove
  <2>5. CASE proc[p].op \notin {"isRunning", "controllerStart"}
    <3>1. /\ proc'[p] = [proc[p] EXCEPT !.stage = "backlog", !.peer = d]
          /\ \A q \in Procs \ {p} : proc'[q] = proc[q]
      BY <2>1, <2>5 DEF Typed
    <3>2. /\ proc'[p].stage = "backlog" /\ proc'[p].peer = d
          /\ proc'[p].op = proc[p].op
      BY <1>0, <3>1 DEF Proc
    <3>3. proc[p].stage = "calling"
      BY <1>1 DEF Connect
    <3> QED
      BY <1>1, <2>3, <3>1, <3>2, <3>3, ProcMove DEF Connect
  <2> QED
    BY <2>4, <2>5
<1>2. ASSUME NEW reply \in BOOLEAN, proc' = [proc EXCEPT ![p] = Returned(p, reply)],
             daemon' = daemon, socketFile' = socketFile, proc[p].stage # "idle",
             proc[p].op = "start" /\ ~reply => \A d \in Daemons : ~Alive(d)
      PROVE  Careful'
  <2>1. /\ proc'[p] = Returned(p, reply)
        /\ \A q \in Procs \ {p} : proc'[q] = proc[q]
    BY <1>2 DEF Typed
  <2>2. CASE proc[p].op = "start" /\ ~reply
    <3>1. proc'[p].stage = "spawning" /\ proc'[p].op = "start"
      BY <1>0, <2>1, <2>2 DEF Returned, Proc
    <3> QED
      BY <1>2, <2>1, <2>2, <3>1, ProcMove
  <2>3. CASE ~(proc[p].op = "start" /\ ~reply)
    <3>1. proc'[p].stage = "idle"
      BY <1>0, <2>1, <2>3 DEF Returned, Proc, Idle
    <3> QED
      BY <1>2, <2>1, <3>1, ProcMove
  <2> QED
    BY <2>2, <2>3
<1>3. CASE ConnectFails(p)
  <2>1. CASE proc[p].op = "controllerStart"
    <3>1. /\ proc'[p] = [proc[p] EXCEPT !.op = "start"]
          /\ \A q \in Procs \ {p} : proc'[q] = proc[q]
      BY <1>3, <2>1 DEF ConnectFails, Typed
    <3>2. proc'[p].stage = "calling" /\ proc[p].stage = "calling"
          /\ proc'[p].op = "start"
      BY <1>0, <1>3, <3>1 DEF ConnectFails, Proc
    <3> QED
      BY <1>3, <2>1, <3>1, <3>2, ProcMove DEF ConnectFails
  <2>2. CASE proc[p].op # "controllerStart"
    <3>1. proc[p].op = "start" => \A d \in Daemons : ~Alive(d)
      BY <1>3, NobodyAlive DEF ConnectFails
    <3> QED
      BY <1>2, <1>3, <2>2, <3>1 DEF ConnectFails
  <2> QED
    BY <2>1, <2>2
<1>4. CASE GetReply(p)
  <2>1. proc[p].op = "start" => proc[p].result
    BY <1>4 DEF GetReply, Careful, StartUnderWay
  <2>2. proc[p].result \in BOOLEAN
    BY <1>0 DEF Proc
  <2> QED
    BY <1>2, <1>4, <2>1, <2>2 DEF GetReply
<1>5. CASE GetEof(p)
  <2>1. proc[p].stage \in {"backlog", "accepted"}
    BY <1>5 DEF GetEof, HungUp
  <2>2. proc[p].op = "start" => \A d \in Daemons : ~Alive(d)
    BY <1>5, <2>1, NobodyAlive DEF GetEof
  <2> QED
    BY <1>2, <1>5, <2>1, <2>2 DEF GetEof
<1>6. CASE SpawnFails(p)
  <2>1. proc'[p] = Idle /\ \A q \in Procs \ {p} : proc'[q] = proc[q]
    BY <1>6 DEF SpawnFails, Typed
  <2> QED
    BY <1>6, <2>1, ProcMove DEF SpawnFails, Idle
<1>7. CASE Spawn(p)
  <2>1. InCall(p, StartOps) /\ proc[p].stage = "spawning"
    BY <1>7 DEF Spawn, OnlyStartsSpawn
  <2>2. PICK d \in Daemons : daemon' = [daemon EXCEPT ![d].phase = "spawned"]
    BY <1>7 DEF Spawn
  <2>3. \A e \in Daemons : ~Alive(e)
    BY <2>1 DEF Careful, StartUnderWay
  <2>4. \A e \in Daemons : /\ e # d => ~Alive(e)' /\ daemon'[e].phase = daemon[e].phase
                           /\ daemon'[d].phase = "spawned"
    BY <2>2, <2>3 DEF Typed, Daemon, Alive
  <2>5. AtMostOne'
    BY <2>4 DEF AtMostOne
  <2>6. FileFollowsPhase'
    <3> SUFFICES ASSUME NEW e \in Daemons
                 PROVE  daemon'[e].phase \notin {"unlinked", "bound", "serving"}
      BY DEF FileFollowsPhase
    <3> QED
      BY <2>3, <2>4 DEF Alive
  <2>7. StartUnderWay'
    <3>1. proc'[p] = Idle /\ \A q \in Procs \ {p} : proc'[q] = proc[q]
      BY <1>7 DEF Spawn, Typed
    <3>2. \A q \in Procs \ {p} : ~InCall(q, StartOps)
      BY <2>1 DEF Careful, StartUnderWay
    <3>3. \A q \in Procs : ~InCall(q, StartOps)'
      BY <3>1, <3>2 DEF Idle
    <3> QED
      BY <3>3 DEF StartUnderWay
  <2> QED
    BY <2>5, <2>6, <2>7 DEF Careful
<1> QED
  BY <1>1, <1>3, <1>4, <1>5, <1>6, <1>7 DEF ProcStep

\* A step of a daemon on its way up or down: no start is under way, and no other
\* daemon is alive, so nobody is disturbed.
LEMMA ChangingMove ==
  ASSUME Typed, Careful, NEW d \in Daemons, Changing(d), proc' = proc,
         \A e \in Daemons \ {d} : daemon'[e] = daemon[e],
         /\ daemon'[d].phase = "unlinked" => socketFile' = NoFile
         /\ daemon'[d].phase = "bound" => socketFile' = d
         /\ daemon'[d].phase = "serving" => socketFile' = d /\ daemon'[d].listening
  PROVE  Careful'
<1>1. \A e \in Daemons \ {d} : ~Alive(e)
  BY DEF Careful, AtMostOne, Changing
<1>2. \A e \in Daemons \ {d} : ~Alive(e)'
  BY <1>1 DEF Alive
<1>3. AtMostOne'
  BY <1>2 DEF AtMostOne
<1>4. FileFollowsPhase'
  <2> SUFFICES ASSUME NEW e \in Daemons
               PROVE  /\ daemon'[e].phase = "unlinked" => socketFile' = NoFile
                      /\ daemon'[e].phase = "bound" => socketFile' = e
                      /\ daemon'[e].phase = "serving" => socketFile' = e /\ daemon'[e].listening
    BY DEF FileFollowsPhase
  <2> QED
    BY <1>2 DEF Alive
<1>5. StartUnderWay'
  <2>1. \A p \in Procs : ~InCall(p, StartOps)
    BY DEF Careful, StartUnderWay
  <2> QED
    BY <2>1 DEF StartUnderWay, InCall
<1> QED
  BY <1>3, <1>4, <1>5 DEF Careful

LEMMA DaemonStepCareful ==
  ASSUME Typed, Careful, NEW d \in Daemons, SetPath(d) \/ SysCleanup(d)
  PROVE  Careful'
<1>0. daemon[d] \in Daemon
  BY DEF Typed
<1>1. Changing(d)
  BY DEF SetPath, Unlink, Bind, Listen, SysCleanup, CloseFd, UnlinkPath, Changing, Alive
<1>2. proc' = proc /\ \A e \in Daemons \ {d} : daemon'[e] = daemon[e]
  BY DEF SetPath, Unlink, Bind, Listen, SysCleanup, CloseFd, UnlinkPath, Typed
<1>3. CASE Unlink(d)
  <2>1. daemon'[d].phase = "unlinked" /\ socketFile' = NoFile
    BY <1>0, <1>3 DEF Unlink, Typed, Daemon
  <2> QED
    BY <1>1, <1>2, <2>1, ChangingMove
<1>4. CASE Bind(d)
  <2>1. socketFile = NoFile
    BY <1>4 DEF Bind, Careful, FileFollowsPhase
  <2>2. daemon'[d].phase = "bound" /\ socketFile' = d
    BY <1>0, <1>4, <2>1 DEF Bind, Typed, Daemon
  <2> QED
    BY <1>1, <1>2, <2>2, ChangingMove
<1>5. CASE Listen(d)
  <2>1. socketFile' = d
    BY <1>5 DEF Listen, Careful, FileFollowsPhase
  <2>2. daemon'[d].phase = "serving" /\ daemon'[d].listening
    BY <1>0, <1>5 DEF Listen, Typed, Daemon
  <2> QED
    BY <1>1, <1>2, <2>1, <2>2, ChangingMove
<1>6. CASE SysCleanup(d)
  <2>1. daemon'[d].phase \in {"closed", "gone"}
    BY <1>0, <1>6 DEF SysCleanup, CloseFd, UnlinkPath, Typed, Daemon
  <2> QED
    BY <1>1, <1>2, <2>1, ChangingMove
<1> QED
  BY <1>3, <1>4, <1>5, <1>6 DEF SetPath

LEMMA CrashCareful ==
  ASSUME Typed, Careful, NEW d \in Daemons, Crash(d)
  PROVE  Careful'
<1>1. /\ proc' = proc /\ socketFile' = socketFile
      /\ daemon'[d].phase = "gone"
      /\ \A e \in Daemons \ {d} : daemon'[e] = daemon[e]
  BY DEF Crash, Typed, Daemon
<1>2. \A e \in Daemons : /\ Alive(e)' => Alive(e)
                         /\ Changing(e)' => Changing(e)
  BY <1>1 DEF Alive, Changing
<1>3. AtMostOne'
  BY <1>2 DEF Careful, AtMostOne
<1>4. FileFollowsPhase'
  BY <1>1 DEF Careful, FileFollowsPhase
<1>5. StartUnderWay'
  BY <1>1, <1>2 DEF Careful, StartUnderWay, InCall
<1> QED
  BY <1>3, <1>4, <1>5 DEF Careful

LEMMA AcceptCareful ==
  ASSUME Typed, Careful, NEW d \in Daemons, NEW p \in Procs, Accept(d, p)
  PROVE  Careful'
<1>1. /\ proc'[p] = [proc[p] EXCEPT !.stage = "accepted"]
      /\ \A q \in Procs \ {p} : proc'[q] = proc[q]
      /\ daemon' = daemon /\ socketFile' = socketFile
  BY DEF Accept, Typed
<1>2. /\ proc'[p].stage = "accepted" /\ proc'[p].op = proc[p].op
      /\ proc'[p].peer = proc[p].peer /\ proc[p].stage = "backlog"
  BY <1>1 DEF Accept, Typed, Proc
<1>3. InCall(p, StartOps) =>
        proc[p].peer \in Daemons /\ \A e \in Daemons : Alive(e) => e = proc[p].peer
  BY <1>2 DEF Careful, StartUnderWay
<1> QED
  BY <1>1, <1>2, <1>3, ProcMove DEF InCall

LEMMA SlotReadyCareful ==
  ASSUME Typed, Careful, NEW d \in Daemons, NEW p \in Procs, SlotReady(d, p)
  PROVE  Careful'
<1>0. daemon[d] \in Daemon /\ proc[p] \in Proc
  BY DEF Typed
<1>1. /\ proc'[p] = [proc[p] EXCEPT !.stage = "answered", !.result = Obeyed(proc[p].op)]
      /\ \A q \in Procs \ {p} : proc'[q] = proc[q]
      /\ daemon' = Execute(d, proc[p].op) /\ socketFile' = socketFile
  BY DEF SlotReady, Typed
<1>2. /\ proc'[p].stage = "answered" /\ proc'[p].op = proc[p].op
      /\ proc'[p].peer = proc[p].peer /\ proc[p].stage = "accepted"
      /\ proc'[p].result = Obeyed(proc[p].op)
  <2>1. proc[p].stage = "accepted"
    BY DEF SlotReady
  <2> QED
    BY <1>0, <1>1, <2>1 DEF Proc
<1>3. \A e \in Daemons : daemon'[e].listening = daemon[e].listening
                         /\ (Alive(e)' <=> Alive(e))
  BY <1>1 DEF SlotReady, InEventLoop, Execute, Alive, Typed, Daemon
<1>4. \A e \in Daemons : \/ daemon'[e].phase = daemon[e].phase
                         \/ (daemon'[e].phase = "quitting" /\ proc[p].op = "terminate")
  BY <1>1 DEF Execute, Typed, Daemon
<1>5. AtMostOne'
  BY <1>3 DEF Careful, AtMostOne
<1>6. FileFollowsPhase'
  <2> SUFFICES ASSUME NEW e \in Daemons
               PROVE  /\ daemon'[e].phase = "unlinked" => socketFile' = NoFile
                      /\ daemon'[e].phase = "bound" => socketFile' = e
                      /\ daemon'[e].phase = "serving" => socketFile' = e /\ daemon'[e].listening
    BY DEF FileFollowsPhase
  <2>1. /\ daemon[e].phase = "unlinked" => socketFile = NoFile
        /\ daemon[e].phase = "bound" => socketFile = e
        /\ daemon[e].phase = "serving" => socketFile = e /\ daemon[e].listening
    BY DEF Careful, FileFollowsPhase
  <2>2. daemon'[e].phase = daemon[e].phase \/ daemon'[e].phase = "quitting"
    BY <1>4
  <2> QED
    BY <1>1, <1>3, <2>1, <2>2
<1>7. StartUnderWay'
  <2> SUFFICES ASSUME NEW r \in Procs, InCall(r, StartOps)'
               PROVE  /\ \A q \in Procs : InCall(q, StartOps \cup {"terminate"})' => q = r
                      /\ \A e \in Daemons : ~Changing(e)'
                      /\ proc'[r].stage \in {"backlog", "accepted", "answered"} =>
                           /\ proc'[r].peer \in Daemons
                           /\ \A e \in Daemons : Alive(e)' => e = proc'[r].peer
                      /\ proc'[r].stage = "answered" => proc'[r].result
                      /\ proc'[r].stage = "spawning" => \A e \in Daemons : ~Alive(e)'
    BY DEF StartUnderWay
  <2>1. \A q \in Procs : /\ InCall(q, StartOps)' => InCall(q, StartOps)
                         /\ InCall(q, StartOps \cup {"terminate"})' =>
                              InCall(q, StartOps \cup {"terminate"})
    BY <1>1, <1>2 DEF InCall
  <2>2. /\ \A q \in Procs : InCall(q, StartOps \cup {"terminate"}) => q = r
        /\ \A e \in Daemons : ~Changing(e)
        /\ proc[r].stage \in {"backlog", "accepted", "answered"} =>
             /\ proc[r].peer \in Daemons
             /\ \A e \in Daemons : Alive(e) => e = proc[r].peer
        /\ proc[r].stage = "answered" => proc[r].result
        /\ proc[r].stage = "spawning" => \A e \in Daemons : ~Alive(e)
    BY <2>1 DEF Careful, StartUnderWay
  <2>3. proc[r].op \in StartOps
    BY <2>1 DEF InCall
  <2>4. proc[p].op # "terminate"
    BY <1>2, <2>2, <2>3 DEF InCall, StartOps
  <2>5. \A e \in Daemons : ~Changing(e)'
    BY <1>3, <1>4, <2>2, <2>4 DEF Changing
  <2>6. CASE r = p
    <3>1. proc'[p].result
      BY <1>2, <2>3, <2>6 DEF Obeyed, StartOps
    <3> QED
      BY <1>2, <1>3, <2>1, <2>2, <2>5, <2>6, <3>1
  <2>7. CASE r # p
    BY <1>1, <1>3, <2>1, <2>2, <2>5, <2>7
  <2> QED
    BY <2>6, <2>7
<1> QED
  BY <1>5, <1>6, <1>7 DEF Careful

-----------------------------------------------------------------------------
LEMMA InitIInv == Init => IInv
<1> SUFFICES ASSUME Init PROVE IInv
  OBVIOUS
<1>1. Typed /\ OnlyStartsSpawn
  BY DEF Init, Typed, ListeningInLoop, OnlyStartsSpawn, Daemon, Phases, Proc
<1>2. Careful
  BY DEF Init, Careful, StartUnderWay, InCall, FileFollowsPhase, AtMostOne, Alive
<1> QED
  BY <1>1, <1>2 DEF IInv

LEMMA NextIInv == IInv /\ [Next]_vars => IInv'
<1> SUFFICES ASSUME IInv, [Next]_vars PROVE IInv'
  OBVIOUS
<1>1. Typed /\ OnlyStartsSpawn
  BY DEF IInv
<1>2. Typed' /\ OnlyStartsSpawn'
  BY <1>1, TypedStep, SpawnStep
<1>3. ASSUME ~reckless' PROVE Careful'
  <2>1. CASE UNCHANGED vars
    <3>1. Careful
      BY <1>3, <2>1 DEF IInv, vars
    <3> QED
      BY <2>1, <3>1 DEF vars, Careful, StartUnderWay, FileFollowsPhase, AtMostOne,
                        InCall, Changing, Alive
  <2>2. ASSUME NEW p \in Procs, NEW op \in Calls, Call(p, op) PROVE Careful'
    <3>1. Careful
      BY <1>3, <2>2 DEF Call, IInv
    <3> QED
      BY <1>1, <1>3, <2>2, <3>1, CallStep, CallsAssumption
  <2>3. ASSUME NEW p \in Procs, ProcStep(p) PROVE Careful'
    <3>1. reckless' = reckless
      BY <2>3 DEF ProcStep, Connect, ConnectFails, GetReply, GetEof, Spawn, SpawnFails
    <3>2. Careful
      BY <1>3, <3>1 DEF IInv
    <3> QED
      BY <1>1, <2>3, <3>2, ProcStepCareful
  <2>4. ASSUME NEW d \in Daemons, SetPath(d) \/ SysCleanup(d) \/ Crash(d) PROVE Careful'
    <3>1. reckless' = reckless
      BY <2>4 DEF SetPath, Unlink, Bind, Listen, SysCleanup, CloseFd, UnlinkPath, Crash
    <3>2. Careful
      BY <1>3, <3>1 DEF IInv
    <3> QED
      BY <1>1, <2>4, <3>2, DaemonStepCareful, CrashCareful
  <2>5. ASSUME NEW d \in Daemons, NEW p \in Procs, Accept(d, p) \/ SlotReady(d, p)
        PROVE  Careful'
    <3>1. reckless' = reckless
      BY <2>5 DEF Accept, SlotReady
    <3>2. Careful
      BY <1>3, <3>1 DEF IInv
    <3> QED
      BY <1>1, <2>5, <3>2, AcceptCareful, SlotReadyCareful
  <2> QED
    BY <2>1, <2>2, <2>3, <2>4, <2>5 DEF Next
<1> QED
  BY <1>2, <1>3 DEF IInv

LEMMA Invariant == Spec => []IInv
BY InitIInv, NextIInv, PTL DEF Spec

-----------------------------------------------------------------------------
\* The check of QtServiceBasePrivate::start (qtservice_unix.cpp:409) keeps a
\* second daemon away for any number of controllers and of crashes, provided that
\* starts and stops do not overlap.
THEOREM OneDaemonAtATime == Spec => []OneDaemon
<1>1. IInv => OneDaemon
  BY DEF IInv, Careful, AtMostOne, OneDaemon
<1> QED
  BY <1>1, Invariant, PTL

\* setPath and close (qtunixserversocket.cpp:64-92) keep the file of the running
\* daemon in place under the same condition, stale files of crashes included.
THEOREM RunningDaemonReachable == Spec => []ServingIsReachable
<1>1. IInv => ServingIsReachable
  BY DEF IInv, Careful, FileFollowsPhase, ServingIsReachable, Reachable
<1> QED
  BY <1>1, Invariant, PTL

-----------------------------------------------------------------------------
(***************************************************************************)
(* Whose socket file it is, whatever overlaps.                             *)
(***************************************************************************)

\* The owner of the file has crashed, has not returned from setPath() yet, or
\* remembers the path and so removes the file when it ends.
FileHasOwner ==
  /\ socketFile \in Daemons \cup {NoFile}
  /\ \A d \in Daemons : socketFile = d =>
       \/ daemon[d].crashed
       \/ daemon[d].phase = "bound"
       \/ daemon[d].path /\ daemon[d].phase \in {"serving", "quitting", "closed"}

LEMMA NoFileIsNoDaemon == NoFile \notin Daemons
BY ProcessAssumption DEF NoFile, Daemons

LEMMA FileHasOwnerInit == Init => FileHasOwner
BY NoFileIsNoDaemon DEF Init, FileHasOwner

LEMMA FileHasOwnerStep == Typed /\ FileHasOwner /\ [Next]_vars => FileHasOwner'
<1> SUFFICES ASSUME Typed, FileHasOwner, [Next]_vars PROVE FileHasOwner'
  OBVIOUS
<1> USE NoFileIsNoDaemon DEF FileHasOwner
<1>1. ASSUME NEW p \in Procs, NEW op \in Calls, Call(p, op) PROVE FileHasOwner'
  BY <1>1 DEF Call
<1>2. ASSUME NEW p \in Procs, ProcStep(p) PROVE FileHasOwner'
  <2>1. CASE Spawn(p)
    BY <2>1 DEF Spawn, Typed, Daemon
  <2>2. CASE Connect(p) \/ ConnectFails(p) \/ GetReply(p) \/ GetEof(p) \/ SpawnFails(p)
    BY <2>2 DEF Connect, ConnectFails, GetReply, GetEof, SpawnFails
  <2> QED
    BY <1>2, <2>1, <2>2 DEF ProcStep
<1>3. ASSUME NEW d \in Daemons, SetPath(d) PROVE FileHasOwner'
  <2>1. CASE Unlink(d)
    BY <2>1 DEF Unlink
  <2>2. CASE Bind(d)
    BY <2>2 DEF Bind, Typed, Daemon
  <2>3. CASE Listen(d)
    BY <2>3 DEF Listen, Typed, Daemon
  <2> QED
    BY <1>3, <2>1, <2>2, <2>3 DEF SetPath
<1>4. ASSUME NEW d \in Daemons, SysCleanup(d) PROVE FileHasOwner'
  <2>1. CASE CloseFd(d)
    BY <2>1 DEF CloseFd, Typed, Daemon
  <2>2. CASE UnlinkPath(d)
    \* Either the file goes with its owner, or the owner had crashed.
    BY <2>2 DEF UnlinkPath, Typed, Daemon
  <2> QED
    BY <1>4, <2>1, <2>2 DEF SysCleanup
<1>5. ASSUME NEW d \in Daemons, Crash(d) PROVE FileHasOwner'
  BY <1>5 DEF Crash, Typed, Daemon
<1>6. ASSUME NEW d \in Daemons, NEW p \in Procs, Accept(d, p) \/ SlotReady(d, p)
      PROVE  FileHasOwner'
  <2>1. CASE Accept(d, p)
    BY <2>1 DEF Accept
  <2>2. CASE SlotReady(d, p)
    BY <2>2 DEF SlotReady, Execute, InEventLoop, Typed, Daemon
  <2> QED
    BY <1>6, <2>1, <2>2
<1>7. CASE UNCHANGED vars
  BY <1>7 DEF vars
<1> QED
  BY <1>1, <1>2, <1>3, <1>4, <1>5, <1>6, <1>7 DEF Next

\* A regular end removes the file (sysCleanup and QUnixServerSocket::close): one
\* that names no living daemon is what a crash left, for any number of starts and
\* stops that overlap.
THEOREM StaleFileIsOfCrash == Spec => []StaleFileMeansCrash
<1>1. Init => Typed /\ FileHasOwner
  BY InitIInv, FileHasOwnerInit DEF IInv
<1>2. Typed /\ FileHasOwner /\ [Next]_vars => (Typed /\ FileHasOwner)'
  BY TypedStep, FileHasOwnerStep
<1>3. FileHasOwner => StaleFileMeansCrash
  BY DEF FileHasOwner, StaleFileMeansCrash, Alive
<1> QED
  BY <1>1, <1>2, <1>3, PTL DEF Spec

-----------------------------------------------------------------------------
(***************************************************************************)
(* The daemon, the socket file and the connections implement               *)
(* ServiceControl.                                                         *)
(***************************************************************************)

\* A connection leads to a daemon that listened when it was made, and as long as
\* that daemon is in its event loop it listens.
LedTo(p) ==
  /\ proc[p].peer \in Daemons
  /\ daemon[proc[p].peer].phase \in {"serving", "quitting", "closed", "gone"}
  /\ InEventLoop(proc[p].peer) => daemon[proc[p].peer].listening
  /\ proc[p].op # "controllerStart"

Connections ==
  \A p \in Procs : proc[p].stage \in {"backlog", "accepted", "answered"} =>
    /\ LedTo(p)
    /\ proc[p].stage = "answered" => proc[p].result = Obeyed(proc[p].op)

LEMMA ConnectionsInit == Init => Connections
BY DEF Init, Connections

\* A daemon that a connection leads to stays one, whatever becomes of it.
StillLeads ==
  \A d \in Daemons :
    /\ daemon[d].phase \in {"serving", "quitting", "closed", "gone"}
    /\ InEventLoop(d) => daemon[d].listening
    => /\ daemon'[d].phase \in {"serving", "quitting", "closed", "gone"}
       /\ InEventLoop(d)' => daemon'[d].listening

LEMMA ConnectionStays ==
  ASSUME Connections, StillLeads, NEW q \in Procs, proc'[q] = proc[q],
         proc'[q].stage \in {"backlog", "accepted", "answered"}
  PROVE  /\ LedTo(q)'
         /\ proc'[q].stage = "answered" => proc'[q].result = Obeyed(proc'[q].op)
<1>1. LedTo(q) /\ (proc[q].stage = "answered" => proc[q].result = Obeyed(proc[q].op))
  BY DEF Connections
<1>2. LedTo(q)'
  BY <1>1 DEF LedTo, StillLeads
<1> QED BY <1>1, <1>2

LEMMA StillLeadsUnchanged == daemon' = daemon => StillLeads
BY DEF StillLeads, InEventLoop

\* What a command makes of a daemon.
Stops(op) == op = "terminate" /\ "CannotBeStopped" \notin ServiceFlags
Suspends(op) == op \in {"pause", "resume"} /\ "CanBeSuspended" \in ServiceFlags

LEMMA Executed ==
  ASSUME Typed, NEW d \in Daemons, NEW op, daemon' = Execute(d, op)
  PROVE  /\ \A e \in Daemons : e # d => daemon'[e] = daemon[e]
         /\ daemon'[d].listening = daemon[d].listening
         /\ daemon'[d].phase = IF Stops(op) THEN "quitting" ELSE daemon[d].phase
         /\ daemon'[d].paused = IF Suspends(op) THEN op = "pause" ELSE daemon[d].paused
<1>1. daemon \in [Daemons -> Daemon] /\ daemon[d] \in Daemon
  BY DEF Typed
<1>2. PICK pausing : pausing = (op = "pause")
  OBVIOUS
<1>3. CASE Stops(op)
  <2>1. daemon' = [daemon EXCEPT ![d].phase = "quitting"] /\ ~Suspends(op)
    BY <1>3 DEF Execute, Stops, Suspends
  <2> QED BY <1>1, <1>3, <2>1 DEF Daemon
<1>4. CASE ~Stops(op) /\ Suspends(op)
  <2>1. daemon' = [daemon EXCEPT ![d].paused = pausing]
    BY <1>2, <1>4 DEF Execute, Stops, Suspends
  <2> QED BY <1>1, <1>2, <1>4, <2>1 DEF Daemon
<1>5. CASE ~Stops(op) /\ ~Suspends(op)
  <2>1. daemon' = daemon
    BY <1>5 DEF Execute, Stops, Suspends
  <2> QED BY <1>5, <2>1
<1> QED BY <1>3, <1>4, <1>5

LEMMA ConnectionsStep == Typed /\ Connections /\ [Next]_vars => Connections'
<1> SUFFICES ASSUME Typed, Connections, [Next]_vars PROVE Connections'
  OBVIOUS
<1>0. /\ proc \in [Procs -> Proc] /\ daemon \in [Daemons -> Daemon]
      /\ \A q \in Procs : proc[q] \in Proc
      /\ \A e \in Daemons : daemon[e] \in Daemon
  BY DEF Typed
<1>1. ASSUME NEW p \in Procs, StillLeads, \A q \in Procs \ {p} : proc'[q] = proc[q],
             proc'[p].stage \in {"backlog", "accepted", "answered"} =>
               /\ LedTo(p)'
               /\ proc'[p].stage = "answered" => proc'[p].result = Obeyed(proc'[p].op)
      PROVE  Connections'
  <2> SUFFICES ASSUME NEW q \in Procs,
                      proc'[q].stage \in {"backlog", "accepted", "answered"}
               PROVE  /\ LedTo(q)'
                      /\ proc'[q].stage = "answered" => proc'[q].result = Obeyed(proc'[q].op)
    BY DEF Connections, Obeyed
  <2>1. CASE q = p
    BY <1>1, <2>1
  <2>2. CASE q # p
    BY <1>1, <2>2, ConnectionStays
  <2> QED BY <2>1, <2>2
<1>2. ASSUME StillLeads, proc' = proc PROVE Connections'
  <2> SUFFICES ASSUME NEW q \in Procs,
                      proc'[q].stage \in {"backlog", "accepted", "answered"}
               PROVE  /\ LedTo(q)'
                      /\ proc'[q].stage = "answered" => proc'[q].result = Obeyed(proc'[q].op)
    BY DEF Connections, Obeyed
  <2> QED BY <1>2, ConnectionStays
<1>3. ASSUME NEW p \in Procs, NEW op \in Calls, Call(p, op) PROVE Connections'
  <2>1. proc'[p].stage = "calling" /\ \A q \in Procs \ {p} : proc'[q] = proc[q]
    BY <1>0, <1>3 DEF Call
  <2>2. daemon' = daemon
    BY <1>3 DEF Call
  <2> QED BY <1>1, <2>1, <2>2, StillLeadsUnchanged
<1>4. ASSUME NEW p \in Procs, NEW x, proc' = [proc EXCEPT ![p] = x],
             x.stage \in {"idle", "spawning", "calling"}, StillLeads
      PROVE  Connections'
  <2>1. proc'[p].stage = x.stage /\ \A q \in Procs \ {p} : proc'[q] = proc[q]
    BY <1>0, <1>4
  <2> QED BY <1>1, <1>4, <2>1
<1>5. \A p \in Procs, reply \in BOOLEAN : Returned(p, reply).stage \in {"idle", "spawning"}
  BY <1>0 DEF Returned, Idle, Proc
<1>6. ASSUME NEW p \in Procs, Connect(p) PROVE Connections'
  <2>1. PICK d \in Daemons : /\ Reachable(d)
                             /\ proc' = [proc EXCEPT ![p] =
                                  IF @.op \in {"isRunning", "controllerStart"} THEN Idle
                                  ELSE [@ EXCEPT !.stage = "backlog", !.peer = d]]
    BY <1>6 DEF Connect
  <2>2. daemon' = daemon /\ StillLeads
    BY <1>6, StillLeadsUnchanged DEF Connect
  <2>3. CASE proc[p].op \in {"isRunning", "controllerStart"}
    <3>1. proc' = [proc EXCEPT ![p] = Idle] /\ Idle.stage = "idle"
      BY <2>1, <2>3 DEF Idle
    <3> QED BY <1>4, <2>2, <3>1
  <2>4. CASE proc[p].op \notin {"isRunning", "controllerStart"}
    <3>1. /\ proc'[p] = [proc[p] EXCEPT !.stage = "backlog", !.peer = d]
          /\ \A q \in Procs \ {p} : proc'[q] = proc[q]
      BY <1>0, <2>1, <2>4
    <3>2. proc'[p].stage = "backlog" /\ proc'[p].peer = d /\ proc'[p].op = proc[p].op
      BY <1>0, <3>1 DEF Proc
    <3>3. daemon[d].listening /\ daemon[d].phase \in {"serving", "quitting"}
      BY <2>1 DEF Reachable, Typed, ListeningInLoop, InEventLoop
    <3>4. LedTo(p)'
      BY <2>2, <2>4, <3>2, <3>3 DEF LedTo
    <3> QED BY <1>1, <2>2, <3>1, <3>2, <3>4
  <2> QED BY <2>3, <2>4
<1>7. ASSUME NEW p \in Procs, ConnectFails(p) PROVE Connections'
  <2>1. daemon' = daemon /\ StillLeads
    BY <1>7, StillLeadsUnchanged DEF ConnectFails
  <2>2. CASE proc[p].op = "controllerStart"
    <3>1. PICK x : x = [proc[p] EXCEPT !.op = "start"]
      OBVIOUS
    <3>2. proc' = [proc EXCEPT ![p] = x]
      BY <1>7, <2>2, <3>1 DEF ConnectFails
    <3>3. x.stage = "calling"
      BY <1>0, <1>7, <3>1 DEF ConnectFails, Proc
    <3> QED BY <1>4, <2>1, <3>2, <3>3
  <2>3. CASE proc[p].op # "controllerStart"
    <3>1. proc' = [proc EXCEPT ![p] = Returned(p, FALSE)]
      BY <1>7, <2>3 DEF ConnectFails
    <3> QED BY <1>4, <1>5, <2>1, <3>1
  <2> QED BY <2>2, <2>3
<1>8. ASSUME NEW p \in Procs, GetReply(p) \/ GetEof(p) PROVE Connections'
  <2>1. daemon' = daemon /\ StillLeads
    BY <1>8, StillLeadsUnchanged DEF GetReply, GetEof
  <2>2. proc[p].result \in BOOLEAN
    BY <1>0 DEF Proc
  <2>3. PICK reply \in BOOLEAN : proc' = [proc EXCEPT ![p] = Returned(p, reply)]
    BY <1>8, <2>2 DEF GetReply, GetEof
  <2> QED BY <1>4, <1>5, <2>1, <2>3
<1>9. ASSUME NEW p \in Procs, Spawn(p) \/ SpawnFails(p) PROVE Connections'
  <2>1. proc' = [proc EXCEPT ![p] = Idle] /\ Idle.stage = "idle"
    BY <1>9 DEF Spawn, SpawnFails, Idle
  <2>2. StillLeads
    <3>1. CASE SpawnFails(p)
      BY <3>1, StillLeadsUnchanged DEF SpawnFails
    <3>2. CASE Spawn(p)
      <4>1. PICK d \in Daemons : /\ daemon[d].phase = "none"
                                 /\ daemon' = [daemon EXCEPT ![d].phase = "spawned"]
        BY <3>2 DEF Spawn
      <4>2. \A e \in Daemons : e # d => daemon'[e] = daemon[e]
        BY <1>0, <4>1
      <4> QED BY <4>1, <4>2 DEF StillLeads, InEventLoop
    <3> QED BY <1>9, <3>1, <3>2
  <2> QED BY <1>4, <2>1, <2>2
<1>10. ASSUME NEW d \in Daemons, SetPath(d) \/ SysCleanup(d) \/ Crash(d)
       PROVE  Connections'
  <2>1. proc' = proc
    BY <1>10 DEF SetPath, SysCleanup, Unlink, Bind, Listen, CloseFd, UnlinkPath, Crash
  <2>2. StillLeads
    <3>1. CASE SetPath(d)
      BY <1>0, <3>1 DEF SetPath, Unlink, Bind, Listen, StillLeads, InEventLoop, Daemon
    <3>2. CASE SysCleanup(d)
      BY <1>0, <3>2 DEF SysCleanup, CloseFd, UnlinkPath, StillLeads, InEventLoop, Daemon
    <3>3. CASE Crash(d)
      BY <1>0, <3>3 DEF Crash, StillLeads, InEventLoop, Daemon
    <3> QED BY <1>10, <3>1, <3>2, <3>3
  <2> QED BY <1>2, <2>1, <2>2
<1>11. ASSUME NEW d \in Daemons, NEW p \in Procs, Accept(d, p) PROVE Connections'
  <2>1. /\ proc[p].stage = "backlog" /\ proc' = [proc EXCEPT ![p].stage = "accepted"]
        /\ daemon' = daemon /\ StillLeads
    BY <1>11, StillLeadsUnchanged DEF Accept
  <2>2. /\ proc'[p].stage = "accepted" /\ proc'[p].peer = proc[p].peer
        /\ proc'[p].op = proc[p].op /\ \A q \in Procs \ {p} : proc'[q] = proc[q]
    BY <1>0, <2>1 DEF Proc
  <2>3. LedTo(p)'
    BY <2>1, <2>2 DEF Connections, LedTo, InEventLoop
  <2> QED BY <1>1, <2>1, <2>2, <2>3
<1>12. ASSUME NEW d \in Daemons, NEW p \in Procs, SlotReady(d, p) PROVE Connections'
  <2>1. /\ proc[p].stage = "accepted" /\ proc[p].peer = d
        /\ proc' = [proc EXCEPT ![p].stage = "answered", ![p].result = Obeyed(proc[p].op)]
        /\ daemon' = Execute(d, proc[p].op)
    BY <1>12 DEF SlotReady
  <2>2. /\ proc'[p].stage = "answered" /\ proc'[p].peer = d /\ proc'[p].op = proc[p].op
        /\ proc'[p].result = Obeyed(proc[p].op)
        /\ \A q \in Procs \ {p} : proc'[q] = proc[q]
    BY <1>0, <2>1 DEF Proc
  <2>3. StillLeads
    <3>1. /\ \A e \in Daemons : e # d => daemon'[e] = daemon[e]
          /\ daemon'[d].listening = daemon[d].listening
          /\ daemon'[d].phase \in {daemon[d].phase, "quitting"}
      BY <2>1, Executed
    <3>2. InEventLoop(d)
      BY <1>12 DEF SlotReady
    <3> QED BY <3>1, <3>2 DEF StillLeads, InEventLoop
  <2>4. LedTo(p)
    BY <2>1 DEF Connections
  <2>5. LedTo(p)'
    BY <2>1, <2>2, <2>3, <2>4 DEF LedTo, StillLeads
  <2> QED BY <1>1, <2>2, <2>3, <2>5
<1>13. CASE UNCHANGED vars
  <2>1. proc' = proc /\ daemon' = daemon
    BY <1>13 DEF vars
  <2> QED BY <1>2, <2>1, StillLeadsUnchanged
<1> QED BY <1>3, <1>6, <1>7, <1>8, <1>9, <1>10, <1>11, <1>12, <1>13 DEF Next, ProcStep

-----------------------------------------------------------------------------
(***************************************************************************)
(* What ServiceControl sees of the state.                                  *)
(***************************************************************************)
Lives == [d \in Daemons |-> LifeOf(d)]
PausedOnes == {d \in Daemons : daemon[d].paused}
CallsSeen == [p \in Procs |-> CallOf(p)]

LEMMA Unseen ==
  ASSUME UNCHANGED <<Lives, PausedOnes, CallsSeen, reckless>>
  PROVE  UNCHANGED Control!vars
BY DEF Control!vars, Lives, PausedOnes, CallsSeen

LEMMA SameCall ==
  ASSUME NEW q \in Procs, proc'[q] = proc[q]
  PROVE  CallOf(q)' = CallOf(q)
BY Zenon DEF CallOf

LEMMA SameLife ==
  ASSUME NEW d \in Daemons, daemon'[d].phase = daemon[d].phase
  PROVE  LifeOf(d)' = LifeOf(d)
BY Zenon DEF LifeOf

LEMMA CallSeen ==
  ASSUME NEW p \in Procs, NEW y, CallOf(p)' = y,
         \A q \in Procs \ {p} : proc'[q] = proc[q]
  PROVE  CallsSeen' = [CallsSeen EXCEPT ![p] = y]
<1>1. \A q \in Procs \ {p} : CallOf(q)' = CallOf(q)
  BY SameCall
<1>2. CallsSeen' = [q \in Procs |-> CallOf(q)']
  BY Zenon DEF CallsSeen
<1>3. [CallsSeen EXCEPT ![p] = y] = [q \in Procs |-> IF q = p THEN y ELSE CallOf(q)]
  BY DEF CallsSeen
<1> QED BY <1>1, <1>2, <1>3

LEMMA CallsUnseen ==
  ASSUME \A q \in Procs : CallOf(q)' = CallOf(q)
  PROVE  CallsSeen' = CallsSeen
<1>1. CallsSeen' = [q \in Procs |-> CallOf(q)']
  BY Zenon DEF CallsSeen
<1> QED BY <1>1 DEF CallsSeen

LEMMA LifeSeen ==
  ASSUME NEW d \in Daemons, NEW l, LifeOf(d)' = l,
         \A e \in Daemons : e # d => daemon'[e] = daemon[e]
  PROVE  Lives' = [Lives EXCEPT ![d] = l]
<1>1. \A e \in Daemons \ {d} : LifeOf(e)' = LifeOf(e)
  BY SameLife
<1>2. Lives' = [e \in Daemons |-> LifeOf(e)']
  BY Zenon DEF Lives
<1>3. [Lives EXCEPT ![d] = l] = [e \in Daemons |-> IF e = d THEN l ELSE LifeOf(e)]
  BY DEF Lives
<1> QED BY <1>1, <1>2, <1>3

LEMMA LivesUnseen ==
  ASSUME \A d \in Daemons : LifeOf(d)' = LifeOf(d)
  PROVE  Lives' = Lives
<1>1. Lives' = [e \in Daemons |-> LifeOf(e)']
  BY Zenon DEF Lives
<1> QED BY <1>1 DEF Lives

LEMMA DaemonsUnseen ==
  ASSUME daemon' = daemon
  PROVE  Lives' = Lives /\ PausedOnes' = PausedOnes
<1>1. \A d \in Daemons : LifeOf(d)' = LifeOf(d)
  BY SameLife
<1> QED BY <1>1, LivesUnseen DEF PausedOnes

\* The fields of a call.
LEMMA CallFields ==
  ASSUME NEW p \in Procs
  PROVE  /\ CallOf(p).op = IF proc[p].op \in StartOps THEN "start" ELSE proc[p].op
         /\ CallOf(p).state = IF proc[p].stage \in {"calling", "backlog", "accepted"}
                              THEN "asking" ELSE proc[p].stage
         /\ CallOf(p).by = IF proc[p].stage \in {"calling", "spawning"} \/ proc[p].peer = NoPeer
                           THEN {} ELSE {proc[p].peer}
         /\ CallOf(p).result = IF proc[p].stage \in {"answered", "idle"}
                               THEN proc[p].result ELSE FALSE
BY DEF CallOf

\* A call by the fields of its process.
Shown(op, peer, stage, result) ==
  [op |-> IF op \in StartOps THEN "start" ELSE op,
   state |-> IF stage \in {"calling", "backlog", "accepted"} THEN "asking" ELSE stage,
   by |-> IF stage \in {"calling", "spawning"} \/ peer = NoPeer THEN {} ELSE {peer},
   result |-> IF stage \in {"answered", "idle"} THEN result ELSE FALSE]

LEMMA CallNext ==
  ASSUME NEW p \in Procs
  PROVE  CallOf(p)' = Shown(proc'[p].op, proc'[p].peer, proc'[p].stage, proc'[p].result)
BY Zenon DEF CallOf, Shown

LEMMA IdleNext ==
  ASSUME NEW p \in Procs, proc'[p] = Idle
  PROVE  CallOf(p)' = Control!Idle
<1>1. Shown("none", NoPeer, "idle", FALSE) = Control!Idle
  BY DEF Shown, Control!Idle, Control!CallIn, StartOps
<1>2. proc'[p].op = "none" /\ proc'[p].peer = NoPeer /\ proc'[p].stage = "idle"
      /\ proc'[p].result = FALSE
  BY DEF Idle
<1>3. CallOf(p)' = Shown("none", NoPeer, "idle", FALSE)
  BY <1>2, CallNext, Zenon
<1> QED BY <1>1, <1>3

\* A start that goes on without a daemon.
LEMMA SpawningNext ==
  ASSUME NEW p \in Procs, proc'[p].op = "start", proc'[p].stage = "spawning"
  PROVE  CallOf(p)' = Control!CallIn("spawning", "start", {}, FALSE)
<1>1. ASSUME NEW peer, NEW result
      PROVE  Shown("start", peer, "spawning", result) =
               Control!CallIn("spawning", "start", {}, FALSE)
  BY DEF Shown, Control!CallIn, StartOps
<1>2. CallOf(p)' = Shown("start", proc'[p].peer, "spawning", proc'[p].result)
  BY CallNext, Zenon
<1> QED BY <1>1, <1>2, Zenon

LEMMA LifeFacts ==
  ASSUME Typed, NEW d \in Daemons
  PROVE  /\ LifeOf(d) = "up" <=> daemon[d].phase = "serving"
         /\ LifeOf(d) \in {"up", "going"} <=> daemon[d].phase \in {"serving", "quitting", "closed"}
         /\ LifeOf(d) \in {"going", "gone"} <=> daemon[d].phase \in {"quitting", "closed", "gone"}
         /\ LifeOf(d) \notin {"none", "gone"} <=> Alive(d)
         /\ LifeOf(d) \in {"coming", "going"} <=> Changing(d)
         /\ LifeOf(d) = "none" <=> daemon[d].phase = "none"
<1>1. daemon[d].phase \in Phases
  BY DEF Typed, Daemon
<1> QED BY <1>1 DEF LifeOf, Alive, Changing, Phases

-----------------------------------------------------------------------------
(***************************************************************************)
(* Every step is one of ServiceControl, or is not seen.                    *)
(***************************************************************************)

AbstractOp(op) == IF op \in StartOps THEN "start" ELSE op

LEMMA InvokeSeen ==
  ASSUME Typed, NEW p \in Procs, NEW op \in Ops, Call(p, op)
  PROVE  Control!Invoke(p, AbstractOp(op))
<1>0. proc \in [Procs -> Proc]
  BY DEF Typed
<1>1. /\ proc[p].stage = "idle" /\ daemon' = daemon
      /\ proc' = [proc EXCEPT ![p] = [op |-> op, peer |-> NoPeer, stage |-> "calling",
                                      result |-> FALSE]]
      /\ reckless' = (reckless \/ Reckless(p, op))
  BY DEF Call
<1>2. /\ proc'[p].op = op /\ proc'[p].peer = NoPeer /\ proc'[p].stage = "calling"
      /\ proc'[p].result = FALSE
      /\ \A q \in Procs \ {p} : proc'[q] = proc[q]
  BY <1>0, <1>1
<1>3. Shown(op, NoPeer, "calling", FALSE) =
        Control!CallIn("asking", AbstractOp(op), {}, FALSE)
  BY DEF Shown, Control!CallIn, AbstractOp
<1>4. CallOf(p)' = Control!CallIn("asking", AbstractOp(op), {}, FALSE)
  <2>1. CallOf(p)' = Shown(op, NoPeer, "calling", FALSE)
    BY <1>2, CallNext, Zenon
  <2> QED BY <1>3, <2>1
<1>5. CallsSeen' = [CallsSeen EXCEPT ![p] =
                      Control!CallIn("asking", AbstractOp(op), {}, FALSE)]
  BY <1>2, <1>4, CallSeen
<1>6. CallsSeen[p].state = "idle"
  BY <1>1, CallFields DEF CallsSeen
<1>7. Reckless(p, op) <=> Control!Overlaps(p, AbstractOp(op))
  <2>1. \A q \in Procs : InCall(q, StartOps \cup {"terminate"})
                         <=> Control!Busy(q, {"start", "terminate"})
    BY <1>0, CallFields DEF InCall, Control!Busy, StartOps, Proc
  <2>2. \A q \in Procs : InCall(q, StartOps) <=> Control!Busy(q, {"start"})
    BY <1>0, CallFields DEF InCall, Control!Busy, StartOps, Proc
  <2>3. (\E d \in Daemons : Changing(d)) <=> \E d \in Daemons : Lives[d] \in {"coming", "going"}
    BY LifeFacts DEF Lives
  <2>4. (AbstractOp(op) = "start" <=> op \in StartOps)
        /\ (AbstractOp(op) = "terminate" <=> op = "terminate")
    BY DEF AbstractOp, StartOps
  <2> QED BY <2>1, <2>2, <2>3, <2>4 DEF Reckless, Control!Overlaps, Lives
<1>8. reckless' = (reckless \/ Control!Overlaps(p, AbstractOp(op)))
  BY <1>1, <1>7, Zenon
<1>9. Lives' = Lives /\ PausedOnes' = PausedOnes
  BY <1>1, DaemonsUnseen
<1> QED BY <1>5, <1>6, <1>8, <1>9 DEF Control!Invoke, Lives, PausedOnes, CallsSeen

\* A step of one process that leaves the daemons alone.
OnlyCall(p) ==
  /\ proc \in [Procs -> Proc] /\ daemon' = daemon /\ reckless' = reckless
  /\ \A q \in Procs \ {p} : proc'[q] = proc[q]

LEMMA OnlyCallSeen ==
  ASSUME NEW p \in Procs, NEW y, OnlyCall(p), CallOf(p)' = y
  PROVE  /\ CallsSeen' = [CallsSeen EXCEPT ![p] = y]
         /\ UNCHANGED <<Lives, PausedOnes, reckless>>
<1>1. CallsSeen' = [CallsSeen EXCEPT ![p] = y]
  BY CallSeen DEF OnlyCall
<1>2. Lives' = Lives /\ PausedOnes' = PausedOnes
  BY DaemonsUnseen DEF OnlyCall
<1> QED BY <1>1, <1>2 DEF OnlyCall

LEMMA OnlyCallUnseen ==
  ASSUME NEW p \in Procs, OnlyCall(p), CallOf(p)' = CallOf(p)
  PROVE  UNCHANGED Control!vars
<1>1. CallsSeen' = CallsSeen
  <2>1. \A q \in Procs : CallOf(q)' = CallOf(q)
    BY SameCall DEF OnlyCall
  <2> QED BY <2>1, CallsUnseen
<1>2. Lives' = Lives /\ PausedOnes' = PausedOnes
  BY DaemonsUnseen DEF OnlyCall
<1> QED BY <1>1, <1>2, Unseen DEF OnlyCall

LEMMA ConnectSeen ==
  ASSUME Typed, NEW p \in Procs, Connect(p)
  PROVE  \E d \in Daemons : Control!Reach(p, d)
<1>1. PICK d \in Daemons : /\ Reachable(d)
                           /\ proc' = [proc EXCEPT ![p] =
                                IF @.op \in {"isRunning", "controllerStart"} THEN Idle
                                ELSE [@ EXCEPT !.stage = "backlog", !.peer = d]]
  BY DEF Connect
<1>2. OnlyCall(p) /\ proc[p].stage = "calling" /\ proc[p] \in Proc
  BY <1>1 DEF Connect, OnlyCall, Typed
<1>3. CallsSeen[p].state = "asking" /\ CallsSeen[p].by = {}
  BY <1>2, CallFields DEF CallsSeen
<1>4. Lives[d] \in {"up", "going"}
  <2>1. daemon[d].phase \in {"serving", "quitting"}
    BY <1>1 DEF Reachable, Typed, ListeningInLoop, InEventLoop
  <2> QED BY <2>1, LifeFacts DEF Lives
<1>5. CASE proc[p].op \in {"isRunning", "controllerStart"}
  <2>1. proc'[p] = Idle
    BY <1>1, <1>2, <1>5 DEF OnlyCall
  <2>2. CallOf(p)' = Control!Idle
    BY <2>1, IdleNext
  <2>3. CallsSeen[p].op \in {"isRunning", "start"}
    BY <1>5, CallFields DEF CallsSeen, StartOps
  <2>4. /\ CallsSeen' = [CallsSeen EXCEPT ![p] = Control!Idle]
        /\ UNCHANGED <<Lives, PausedOnes, reckless>>
    BY <1>2, <2>2, OnlyCallSeen
  <2> QED BY <1>3, <1>4, <2>3, <2>4
          DEF Control!Reach, Control!Answers, Lives, PausedOnes, CallsSeen
<1>6. CASE proc[p].op \notin {"isRunning", "controllerStart"}
  <2>1. proc'[p] = [proc[p] EXCEPT !.stage = "backlog", !.peer = d]
    BY <1>1, <1>2, <1>6 DEF OnlyCall
  <2>2. /\ proc'[p].stage = "backlog" /\ proc'[p].peer = d /\ proc'[p].op = proc[p].op
        /\ proc'[p].result = proc[p].result
    BY <1>2, <2>1 DEF Proc
  <2>3. d # NoPeer
    BY ProcessAssumption DEF Daemons, NoPeer
  <2>4. ASSUME NEW op, NEW result
        PROVE  Shown(op, d, "backlog", result) =
                 Control!CallIn("asking", AbstractOp(op), {d}, FALSE)
    BY <2>3 DEF Shown, Control!CallIn, AbstractOp
  <2>5. CallOf(p)' = Shown(proc[p].op, d, "backlog", proc[p].result)
    BY <2>2, CallNext, Zenon
  <2>6. CallOf(p)' = Control!CallIn("asking", CallsSeen[p].op, {d}, FALSE)
    <3>1. CallsSeen[p].op = AbstractOp(proc[p].op)
      BY CallFields DEF CallsSeen, AbstractOp
    <3> QED BY <2>4, <2>5, <3>1, Zenon
  <2>7. /\ CallsSeen' = [CallsSeen EXCEPT ![p] =
                           Control!CallIn("asking", CallsSeen[p].op, {d}, FALSE)]
        /\ UNCHANGED <<Lives, PausedOnes, reckless>>
    BY <1>2, <2>6, OnlyCallSeen
  <2> QED BY <1>3, <1>4, <2>7
          DEF Control!Reach, Control!Answers, Lives, PausedOnes, CallsSeen
<1> QED BY <1>5, <1>6

\* A call that ends, or the start that goes on, without an answer.
LEMMA GiveUpSeen ==
  ASSUME Typed, NEW p \in Procs, OnlyCall(p),
         proc' = [proc EXCEPT ![p] = Returned(p, FALSE)],
         proc[p].stage \in {"calling", "backlog", "accepted"},
         proc[p].op # "controllerStart",
         CallsSeen[p].by = {} => reckless \/ \A d \in Daemons : Lives[d] # "up",
         \A d \in CallsSeen[p].by : Lives[d] \in {"going", "gone"}
  PROVE  Control!GiveUp(p)
<1>0. proc[p] \in Proc /\ proc'[p] = Returned(p, FALSE)
  BY DEF Typed
<1>1. CallsSeen[p].state = "asking"
  BY CallFields DEF CallsSeen
<1>2. CASE proc[p].op = "start"
  <2>1. proc'[p] = [proc[p] EXCEPT !.stage = "spawning"]
    BY <1>0, <1>2 DEF Returned
  <2>2. proc'[p].op = "start" /\ proc'[p].stage = "spawning"
    BY <1>0, <1>2, <2>1 DEF Proc
  <2>3. CallOf(p)' = Control!CallIn("spawning", "start", {}, FALSE)
    BY <2>2, SpawningNext
  <2>4. CallsSeen[p].op = "start"
    BY <1>2, CallFields DEF CallsSeen, StartOps
  <2>5. /\ CallsSeen' = [CallsSeen EXCEPT ![p] =
                           Control!CallIn("spawning", "start", {}, FALSE)]
        /\ UNCHANGED <<Lives, PausedOnes, reckless>>
    BY <2>3, OnlyCallSeen
  <2> QED BY <1>1, <2>4, <2>5 DEF Control!GiveUp, Lives, PausedOnes, CallsSeen
<1>3. CASE proc[p].op # "start"
  <2>1. proc'[p] = Idle
    BY <1>0, <1>3 DEF Returned
  <2>2. CallOf(p)' = Control!Idle
    BY <2>1, IdleNext
  <2>3. CallsSeen[p].op # "start"
    BY <1>3, CallFields DEF CallsSeen, StartOps
  <2>4. /\ CallsSeen' = [CallsSeen EXCEPT ![p] = Control!Idle]
        /\ UNCHANGED <<Lives, PausedOnes, reckless>>
    BY <2>2, OnlyCallSeen
  <2> QED BY <1>1, <2>3, <2>4 DEF Control!GiveUp, Lives, PausedOnes, CallsSeen
<1> QED BY <1>2, <1>3

\* Nobody can be reached: a start by the controller becomes one by the program,
\* which is the same start; no daemon is up, if starts and stops do not overlap.
LEMMA ConnectFailsSeen ==
  ASSUME IInv, NEW p \in Procs, ConnectFails(p)
  PROVE  Control!GiveUp(p) \/ UNCHANGED Control!vars
<1>0. Typed /\ proc[p] \in Proc
  BY DEF IInv, Typed
<1>1. OnlyCall(p) /\ proc[p].stage = "calling"
  BY <1>0 DEF ConnectFails, OnlyCall, Typed
<1>2. CASE proc[p].op = "controllerStart"
  <2>1. proc'[p] = [proc[p] EXCEPT !.op = "start"]
    BY <1>0, <1>2 DEF ConnectFails, Typed
  <2>2. /\ proc'[p].op = "start" /\ proc'[p].stage = "calling"
        /\ proc'[p].peer = proc[p].peer /\ proc'[p].result = proc[p].result
    BY <1>0, <1>1, <2>1 DEF Proc
  <2>3. CallOf(p) = Shown("controllerStart", proc[p].peer, "calling", proc[p].result)
    BY <1>1, <1>2, Zenon DEF CallOf, Shown
  <2>4. CallOf(p)' = Shown("start", proc[p].peer, "calling", proc[p].result)
    BY <2>2, CallNext, Zenon
  <2>5. ASSUME NEW peer, NEW result
        PROVE  Shown("start", peer, "calling", result)
                 = Shown("controllerStart", peer, "calling", result)
    BY DEF Shown, StartOps
  <2>6. CallOf(p)' = CallOf(p)
    BY <2>3, <2>4, <2>5, Zenon
  <2> QED BY <1>1, <2>6, OnlyCallUnseen
<1>3. CASE proc[p].op # "controllerStart"
  <2>1. proc' = [proc EXCEPT ![p] = Returned(p, FALSE)]
    BY <1>3 DEF ConnectFails
  <2>2. CallsSeen[p].by = {}
    BY <1>1, CallFields DEF CallsSeen
  <2>3. ~reckless => \A d \in Daemons : Lives[d] # "up"
    <3> SUFFICES ASSUME ~reckless, NEW d \in Daemons, Lives[d] = "up" PROVE FALSE
      OBVIOUS
    <3>1. daemon[d].phase = "serving"
      BY <1>0, LifeFacts DEF Lives
    <3>2. Reachable(d)
      BY <3>1 DEF IInv, Careful, FileFollowsPhase, Reachable
    <3> QED BY <3>2 DEF ConnectFails
  <2> QED BY <1>0, <1>1, <1>3, <2>1, <2>2, <2>3, GiveUpSeen
<1> QED BY <1>2, <1>3

\* The connection was closed: its daemon is on its way down, or gone.
LEMMA GetEofSeen ==
  ASSUME Typed, Connections, NEW p \in Procs, GetEof(p)
  PROVE  Control!GiveUp(p)
<1>1. /\ OnlyCall(p) /\ proc[p].stage \in {"backlog", "accepted"} /\ HungUp(p)
      /\ proc' = [proc EXCEPT ![p] = Returned(p, FALSE)]
  BY DEF GetEof, HungUp, OnlyCall, Typed
<1>2. LedTo(p)
  BY <1>1 DEF Connections
<1>3. CallsSeen[p].by = {proc[p].peer}
  <2>1. proc[p].peer # NoPeer
    BY <1>2, ProcessAssumption DEF LedTo, Daemons, NoPeer
  <2> QED BY <1>1, <2>1, CallFields DEF CallsSeen
<1>4. daemon[proc[p].peer].phase \in {"quitting", "closed", "gone"}
  BY <1>1, <1>2 DEF HungUp, LedTo, InEventLoop, Alive
<1>5. Lives[proc[p].peer] \in {"going", "gone"}
  BY <1>2, <1>4, LifeFacts DEF Lives, LedTo
<1> QED BY <1>1, <1>2, <1>3, <1>5, GiveUpSeen DEF LedTo

LEMMA GetReplySeen ==
  ASSUME Typed, Connections, NEW p \in Procs, GetReply(p)
  PROVE  Control!Return(p)
<1>0. proc[p] \in Proc
  BY DEF Typed
<1>1. /\ OnlyCall(p) /\ proc[p].stage = "answered"
      /\ proc' = [proc EXCEPT ![p] = Returned(p, proc[p].result)]
  BY DEF GetReply, OnlyCall, Typed
<1>2. proc'[p] = Returned(p, proc[p].result)
  BY <1>1 DEF OnlyCall
<1>3. /\ CallsSeen[p].state = "answered"
      /\ CallsSeen[p].op = AbstractOp(proc[p].op)
      /\ CallsSeen[p].result = proc[p].result
      /\ CallsSeen[p].by = IF proc[p].peer = NoPeer THEN {} ELSE {proc[p].peer}
  BY <1>1, CallFields DEF CallsSeen, AbstractOp
<1>4. LedTo(p) /\ proc[p].result = Obeyed(proc[p].op)
  BY <1>1 DEF Connections
<1>5. CASE proc[p].op = "terminate" /\ proc[p].result
  <2>1. proc'[p] = [proc[p] EXCEPT !.stage = "idle"]
    BY <1>2, <1>5 DEF Returned
  <2>2. /\ proc'[p].op = "terminate" /\ proc'[p].stage = "idle"
        /\ proc'[p].peer = proc[p].peer /\ proc'[p].result
        /\ proc'[p].result \in BOOLEAN
    BY <1>0, <1>5, <2>1 DEF Proc
  <2>3. ASSUME NEW peer
        PROVE  Shown("terminate", peer, "idle", TRUE)
                 = Control!CallIn("idle", "terminate", IF peer = NoPeer THEN {} ELSE {peer}, TRUE)
    BY DEF Shown, Control!CallIn, StartOps
  <2>4. proc'[p].result = TRUE
    BY <2>2
  <2>5. CallOf(p)' = Shown("terminate", proc[p].peer, "idle", TRUE)
    BY <2>2, <2>4, CallNext, Zenon
  <2>6. CallsSeen[p].op = "terminate"
    BY <1>3, <1>5 DEF AbstractOp, StartOps
  <2>7. CallOf(p)' = Control!CallIn("idle", CallsSeen[p].op, CallsSeen[p].by, TRUE)
    BY <1>3, <2>3, <2>5, <2>6, Zenon
  <2>8. /\ CallsSeen' = [CallsSeen EXCEPT ![p] =
                           Control!CallIn("idle", CallsSeen[p].op, CallsSeen[p].by, TRUE)]
        /\ UNCHANGED <<Lives, PausedOnes, reckless>>
    BY <1>1, <2>7, OnlyCallSeen
  <2>9. CallsSeen[p].op = "terminate" /\ CallsSeen[p].result
    BY <1>3, <1>5, <2>6
  <2> QED BY <1>3, <2>8, <2>9 DEF Control!Return, Lives, PausedOnes, CallsSeen
<1>6. CASE ~(proc[p].op = "terminate" /\ proc[p].result)
  <2>1. proc[p].op = "start" => proc[p].result
    BY <1>4 DEF Obeyed
  <2>2. proc'[p] = Idle
    BY <1>2, <1>6, <2>1 DEF Returned
  <2>3. CallOf(p)' = Control!Idle
    BY <2>2, IdleNext
  <2>4. /\ CallsSeen' = [CallsSeen EXCEPT ![p] = Control!Idle]
        /\ UNCHANGED <<Lives, PausedOnes, reckless>>
    BY <1>1, <2>3, OnlyCallSeen
  <2>5. ~(CallsSeen[p].op = "terminate" /\ CallsSeen[p].result)
    BY <1>3, <1>6 DEF AbstractOp, StartOps
  <2> QED BY <1>3, <2>4, <2>5 DEF Control!Return, Lives, PausedOnes, CallsSeen
<1> QED BY <1>5, <1>6

\* Nobody is alive when a daemon is spawned, if starts and stops do not overlap.
LEMMA SpawnSeen ==
  ASSUME IInv, NEW p \in Procs, Spawn(p) \/ SpawnFails(p)
  PROVE  Control!Spawn(p)
<1>0. Typed /\ daemon \in [Daemons -> Daemon] /\ proc \in [Procs -> Proc]
  BY DEF IInv, Typed
<1>1. /\ proc[p].stage = "spawning" /\ proc' = [proc EXCEPT ![p] = Idle]
      /\ reckless' = reckless
  BY DEF Spawn, SpawnFails
<1>2. proc'[p] = Idle /\ \A q \in Procs \ {p} : proc'[q] = proc[q]
  BY <1>0, <1>1
<1>3. CallsSeen' = [CallsSeen EXCEPT ![p] = Control!Idle] /\ CallsSeen[p].state = "spawning"
  <2>1. CallOf(p)' = Control!Idle
    BY <1>2, IdleNext
  <2>2. CallsSeen' = [CallsSeen EXCEPT ![p] = Control!Idle]
    BY <1>2, <2>1, CallSeen
  <2> QED BY <1>1, <2>2, CallFields DEF CallsSeen
<1>4. CASE SpawnFails(p)
  <2>1. Lives' = Lives /\ PausedOnes' = PausedOnes
    BY <1>4, DaemonsUnseen DEF SpawnFails
  <2> QED BY <1>1, <1>3, <2>1 DEF Control!Spawn, Lives, PausedOnes, CallsSeen
<1>5. CASE Spawn(p)
  <2>1. PICK d \in Daemons : /\ daemon[d].phase = "none"
                             /\ daemon' = [daemon EXCEPT ![d].phase = "spawned"]
    BY <1>5 DEF Spawn
  <2>2. /\ \A e \in Daemons : e # d => daemon'[e] = daemon[e]
        /\ daemon'[d].phase = "spawned" /\ daemon'[d].paused = daemon[d].paused
    BY <1>0, <2>1 DEF Daemon
  <2>3. LifeOf(d)' = "coming"
    BY <2>2 DEF LifeOf
  <2>4. Lives' = [Lives EXCEPT ![d] = "coming"]
    BY <2>2, <2>3, LifeSeen
  <2>5. PausedOnes' = PausedOnes
    BY <2>2 DEF PausedOnes
  <2>6. Lives[d] = "none"
    BY <1>0, <2>1, LifeFacts DEF Lives
  <2>7. ~reckless => \A e \in Daemons : Lives[e] \in {"none", "gone"}
    <3> SUFFICES ASSUME ~reckless, NEW e \in Daemons
                 PROVE  Lives[e] \in {"none", "gone"}
      OBVIOUS
    <3>1. InCall(p, StartOps)
      BY <1>1 DEF IInv, OnlyStartsSpawn, InCall, StartOps
    <3>2. ~Alive(e)
      BY <1>1, <3>1 DEF IInv, Careful, StartUnderWay
    <3> QED BY <1>0, <3>2, LifeFacts DEF Lives
  <2> QED BY <1>1, <1>3, <2>4, <2>5, <2>6, <2>7
          DEF Control!Spawn, Control!Alive, Lives, PausedOnes, CallsSeen
<1> QED BY <1>4, <1>5

\* A step of one daemon that leaves the calls alone.
OnlyDaemon(d) ==
  /\ daemon \in [Daemons -> Daemon] /\ proc' = proc /\ reckless' = reckless
  /\ \A e \in Daemons : e # d => daemon'[e] = daemon[e]

LEMMA OnlyDaemonUnseen ==
  ASSUME NEW d \in Daemons, OnlyDaemon(d), LifeOf(d)' = LifeOf(d),
         daemon'[d].paused = daemon[d].paused
  PROVE  UNCHANGED Control!vars
<1>1. \A e \in Daemons : LifeOf(e)' = LifeOf(e)
  BY SameLife DEF OnlyDaemon
<1>2. Lives' = Lives
  BY <1>1, LivesUnseen
<1>3. PausedOnes' = PausedOnes
  BY DEF PausedOnes, OnlyDaemon
<1>4. CallsSeen' = CallsSeen
  BY SameCall, CallsUnseen DEF OnlyDaemon
<1> QED BY <1>2, <1>3, <1>4, Unseen DEF OnlyDaemon

LEMMA ComeUpSeen ==
  ASSUME NEW d \in Daemons, OnlyDaemon(d), LifeOf(d) = "coming", LifeOf(d)' = "up",
         daemon'[d].paused = daemon[d].paused
  PROVE  Control!ComeUp(d)
<1>1. Lives' = [Lives EXCEPT ![d] = "up"] /\ Lives[d] = "coming"
  BY LifeSeen DEF OnlyDaemon, Lives
<1>2. PausedOnes' = PausedOnes
  BY DEF PausedOnes, OnlyDaemon
<1>3. CallsSeen' = CallsSeen
  BY SameCall, CallsUnseen DEF OnlyDaemon
<1> QED BY <1>1, <1>2, <1>3 DEF OnlyDaemon, Control!ComeUp, Lives, PausedOnes, CallsSeen

LEMMA EndSeen ==
  ASSUME Typed, NEW d \in Daemons, OnlyDaemon(d), Alive(d),
         daemon'[d].phase = "gone", daemon'[d].paused = FALSE
  PROVE  Control!End(d)
<1>1. LifeOf(d)' = "gone"
  BY DEF LifeOf
<1>2. Lives' = [Lives EXCEPT ![d] = "gone"]
  BY <1>1, LifeSeen DEF OnlyDaemon
<1>3. Lives[d] \notin {"none", "gone"}
  BY LifeFacts DEF Lives
<1>4. PausedOnes' = PausedOnes \ {d}
  BY DEF PausedOnes, OnlyDaemon
<1>5. CallsSeen' = CallsSeen
  BY SameCall, CallsUnseen DEF OnlyDaemon
<1> QED BY <1>2, <1>3, <1>4, <1>5
        DEF OnlyDaemon, Control!End, Control!Alive, Lives, PausedOnes, CallsSeen

LEMMA SetPathSeen ==
  ASSUME Typed, NEW d \in Daemons, SetPath(d)
  PROVE  Control!ComeUp(d) \/ UNCHANGED Control!vars
<1>0. daemon \in [Daemons -> Daemon] /\ daemon[d] \in Daemon
  BY DEF Typed
<1>1. OnlyDaemon(d)
  BY <1>0 DEF SetPath, Unlink, Bind, Listen, OnlyDaemon
<1>2. daemon'[d].paused = daemon[d].paused
  BY <1>0 DEF SetPath, Unlink, Bind, Listen, Daemon
<1>3. \/ /\ daemon[d].phase \in {"spawned", "unlinked"}
         /\ daemon'[d].phase \in {"unlinked", "bound"}
      \/ daemon[d].phase \in {"unlinked", "bound"} /\ daemon'[d].phase = "serving"
  BY <1>0 DEF SetPath, Unlink, Bind, Listen, Daemon
<1>4. LifeOf(d) = "coming"
  BY <1>3 DEF LifeOf
<1>5. LifeOf(d)' \in {"coming", "up"}
  BY <1>3 DEF LifeOf
<1> QED BY <1>1, <1>2, <1>4, <1>5, ComeUpSeen, OnlyDaemonUnseen

LEMMA EndsSeen ==
  ASSUME Typed, NEW d \in Daemons, SysCleanup(d) \/ Crash(d)
  PROVE  Control!End(d) \/ UNCHANGED Control!vars
<1>0. daemon \in [Daemons -> Daemon] /\ daemon[d] \in Daemon
  BY DEF Typed
<1>1. OnlyDaemon(d)
  BY <1>0 DEF SysCleanup, CloseFd, UnlinkPath, Crash, OnlyDaemon
<1>2. CASE CloseFd(d)
  <2>1. /\ daemon[d].phase = "quitting" /\ daemon'[d].phase = "closed"
        /\ daemon'[d].paused = daemon[d].paused
    BY <1>0, <1>2 DEF CloseFd, Daemon
  <2>2. LifeOf(d)' = LifeOf(d)
    BY <2>1 DEF LifeOf
  <2> QED BY <1>1, <2>1, <2>2, OnlyDaemonUnseen
<1>3. CASE UnlinkPath(d)
  <2>1. daemon'[d].phase = "gone" /\ daemon'[d].paused = FALSE
    BY <1>0, <1>3 DEF UnlinkPath, Daemon
  <2>2. Alive(d)
    BY <1>3 DEF UnlinkPath, Alive
  <2> QED BY <1>1, <2>1, <2>2, EndSeen
<1>4. CASE Crash(d)
  <2>1. daemon'[d].phase = "gone" /\ daemon'[d].paused = FALSE
    BY <1>0, <1>4 DEF Crash, Daemon
  <2>2. Alive(d)
    BY <1>4 DEF Crash
  <2> QED BY <1>1, <2>1, <2>2, EndSeen
<1> QED BY <1>2, <1>3, <1>4 DEF SysCleanup

LEMMA AcceptUnseen ==
  ASSUME Typed, NEW d \in Daemons, NEW p \in Procs, Accept(d, p)
  PROVE  UNCHANGED Control!vars
<1>0. proc[p] \in Proc
  BY DEF Typed
<1>1. OnlyCall(p) /\ proc[p].stage = "backlog" /\ proc'[p] = [proc[p] EXCEPT !.stage = "accepted"]
  BY DEF Accept, OnlyCall, Typed
<1>2. /\ proc'[p].stage = "accepted" /\ proc'[p].op = proc[p].op
      /\ proc'[p].peer = proc[p].peer /\ proc'[p].result = proc[p].result
  BY <1>0, <1>1 DEF Proc
<1>3. CallOf(p) = Shown(proc[p].op, proc[p].peer, "backlog", proc[p].result)
  BY <1>1, Zenon DEF CallOf, Shown
<1>4. CallOf(p)' = Shown(proc[p].op, proc[p].peer, "accepted", proc[p].result)
  BY <1>2, CallNext, Zenon
<1>5. ASSUME NEW op, NEW peer, NEW result
      PROVE  Shown(op, peer, "backlog", result) = Shown(op, peer, "accepted", result)
  BY DEF Shown
<1>6. CallOf(p)' = CallOf(p)
  BY <1>3, <1>4, <1>5, Zenon
<1> QED BY <1>1, <1>6, OnlyCallUnseen

\* A command is carried out, and answered, in one step of the daemon it reached.
LEMMA SlotReadySeen ==
  ASSUME Typed, Connections, NEW d \in Daemons, NEW p \in Procs, SlotReady(d, p)
  PROVE  Control!CarryOut(p, d)
<1>0. proc \in [Procs -> Proc] /\ proc[p] \in Proc
  BY DEF Typed
<1>1. PICK op : op = proc[p].op
  OBVIOUS
<1>2. /\ InEventLoop(d) /\ proc[p].stage = "accepted" /\ proc[p].peer = d
      /\ daemon' = Execute(d, op) /\ reckless' = reckless
      /\ proc' = [proc EXCEPT ![p].stage = "answered", ![p].result = Obeyed(op)]
  BY <1>1 DEF SlotReady
<1>3. /\ proc'[p].stage = "answered" /\ proc'[p].peer = d /\ proc'[p].op = op
      /\ proc'[p].result = Obeyed(op)
      /\ \A q \in Procs \ {p} : proc'[q] = proc[q]
  BY <1>0, <1>1, <1>2 DEF Proc
<1>4. d # NoPeer
  BY ProcessAssumption DEF Daemons, NoPeer
<1>5. /\ CallsSeen[p].state = "asking" /\ CallsSeen[p].by = {d}
      /\ CallsSeen[p].op = AbstractOp(op)
  BY <1>1, <1>2, <1>4, CallFields DEF CallsSeen, AbstractOp
<1>6. Obeyed(op) = Control!Allowed(AbstractOp(op))
  <2>1. Obeyed(op) <=> Control!Allowed(AbstractOp(op))
    BY DEF Obeyed, Control!Allowed, AbstractOp, StartOps
  <2> QED BY <2>1 DEF Obeyed, Control!Allowed
<1>7. CallsSeen' = [CallsSeen EXCEPT ![p] =
        Control!CallIn("answered", AbstractOp(op), {d}, Control!Allowed(AbstractOp(op)))]
  <2>1. ASSUME NEW o, NEW r
        PROVE  Shown(o, d, "answered", r) = Control!CallIn("answered", AbstractOp(o), {d}, r)
    BY <1>4 DEF Shown, Control!CallIn, AbstractOp
  <2>2. CallOf(p)' = Shown(op, d, "answered", Obeyed(op))
    BY <1>3, CallNext, Zenon
  <2>3. CallOf(p)' = Control!CallIn("answered", AbstractOp(op), {d},
                                    Control!Allowed(AbstractOp(op)))
    BY <1>6, <2>1, <2>2, Zenon
  <2> QED BY <1>3, <2>3, CallSeen
<1>8. Lives[d] \in {"up", "going"}
  BY <1>2, LifeFacts DEF Lives, InEventLoop
<1>9. /\ \A e \in Daemons : e # d => daemon'[e] = daemon[e]
      /\ daemon'[d].phase = IF Stops(op) THEN "quitting" ELSE daemon[d].phase
      /\ daemon'[d].paused = IF Suspends(op) THEN op = "pause" ELSE daemon[d].paused
  BY <1>2, Executed
<1>10. Stops(op) <=> AbstractOp(op) = "terminate" /\ Control!Allowed(AbstractOp(op))
  BY DEF Stops, AbstractOp, StartOps, Control!Allowed
<1>11. Lives' = IF AbstractOp(op) = "terminate" /\ Control!Allowed(AbstractOp(op))
                THEN [Lives EXCEPT ![d] = "going"] ELSE Lives
  <2>1. CASE Stops(op)
    <3>1. daemon'[d].phase = "quitting"
      BY <1>9, <2>1
    <3>2. LifeOf(d)' = "going"
      BY <3>1 DEF LifeOf
    <3> QED BY <1>9, <1>10, <2>1, <3>2, LifeSeen
  <2>2. CASE ~Stops(op)
    <3>1. \A e \in Daemons : daemon'[e].phase = daemon[e].phase
      BY <1>9, <2>2
    <3>2. Lives' = Lives
      BY <3>1, SameLife, LivesUnseen
    <3> QED BY <1>10, <2>2, <3>2
  <2> QED BY <2>1, <2>2
<1>12. PausedOnes' =
         CASE AbstractOp(op) = "pause" /\ Control!Allowed(AbstractOp(op)) -> PausedOnes \cup {d}
           [] AbstractOp(op) = "resume" /\ Control!Allowed(AbstractOp(op)) -> PausedOnes \ {d}
           [] OTHER -> PausedOnes
  <2>1. /\ Suspends(op) /\ op = "pause"
             <=> AbstractOp(op) = "pause" /\ Control!Allowed(AbstractOp(op))
        /\ Suspends(op) /\ op = "resume"
             <=> AbstractOp(op) = "resume" /\ Control!Allowed(AbstractOp(op))
        /\ Suspends(op) => op \in {"pause", "resume"}
    BY DEF Suspends, AbstractOp, StartOps, Control!Allowed
  <2>2. CASE Suspends(op) /\ op = "pause"
    <3>1. daemon'[d].paused
      BY <1>9, <2>2
    <3>2. PausedOnes' = PausedOnes \cup {d}
      BY <1>9, <3>1 DEF PausedOnes
    <3> QED BY <2>1, <2>2, <3>2
  <2>3. CASE Suspends(op) /\ op = "resume"
    <3>1. ~daemon'[d].paused
      BY <1>9, <2>3
    <3>2. PausedOnes' = PausedOnes \ {d}
      BY <1>9, <3>1 DEF PausedOnes
    <3>3. ~(AbstractOp(op) = "pause" /\ Control!Allowed(AbstractOp(op)))
      BY <2>1, <2>3
    <3> QED BY <2>1, <2>3, <3>2, <3>3
  <2>4. CASE ~Suspends(op)
    <3>1. daemon'[d].paused = daemon[d].paused
      BY <1>9, <2>4
    <3>2. PausedOnes' = PausedOnes
      BY <1>9, <3>1 DEF PausedOnes
    <3> QED BY <2>1, <2>4, <3>2
  <2> QED BY <2>1, <2>2, <2>3, <2>4
<1> QED BY <1>2, <1>5, <1>7, <1>8, <1>11, <1>12
        DEF Control!CarryOut, Control!Answers, Lives, PausedOnes, CallsSeen

-----------------------------------------------------------------------------
LEMMA ControlInit == Init => Control!Init
<1> SUFFICES ASSUME Init PROVE Control!Init
  OBVIOUS
<1>1. Lives = [d \in Daemons |-> "none"]
  BY DEF Init, Lives, LifeOf
<1>2. PausedOnes = {}
  BY DEF Init, PausedOnes
<1>3. CallsSeen = [p \in Procs |-> Control!Idle]
  <2>1. ASSUME NEW p \in Procs PROVE CallOf(p) = Control!Idle
    <3>1. CallOf(p) = Shown("none", NoPeer, "idle", FALSE)
      BY DEF Init, CallOf, Shown
    <3> QED BY <3>1 DEF Shown, Control!Idle, Control!CallIn, StartOps
  <2> QED BY <2>1 DEF CallsSeen
<1> QED BY <1>1, <1>2, <1>3 DEF Init, Control!Init, Lives, PausedOnes, CallsSeen

AbstractOps == {"start", "isRunning", "terminate", "pause", "resume", "num"}

LEMMA ControlStep ==
  IInv /\ Connections /\ [Next]_vars => [Control!Next]_(Control!vars)
<1> SUFFICES ASSUME IInv, Connections, [Next]_vars
             PROVE  Control!Next \/ UNCHANGED Control!vars
  OBVIOUS
<1>0. Typed
  BY DEF IInv
<1>1. ASSUME NEW p \in Procs, NEW op \in Calls, Call(p, op) PROVE Control!Next
  <2>1. op \in Ops /\ AbstractOp(op) \in AbstractOps
    BY CallsAssumption DEF Ops, AbstractOp, AbstractOps, StartOps
  <2>2. Control!Invoke(p, AbstractOp(op))
    BY <1>0, <1>1, <2>1, InvokeSeen
  <2> QED BY <2>1, <2>2 DEF Control!Next, AbstractOps
<1>2. ASSUME NEW p \in Procs, ProcStep(p) PROVE Control!Next \/ UNCHANGED Control!vars
  <2>1. \/ \E d \in Daemons : Control!Reach(p, d)
        \/ Control!Return(p) \/ Control!GiveUp(p) \/ Control!Spawn(p)
        \/ UNCHANGED Control!vars
    BY <1>0, <1>2, ConnectSeen, ConnectFailsSeen, GetReplySeen, GetEofSeen, SpawnSeen
       DEF ProcStep
  <2> QED BY <2>1 DEF Control!Next
<1>3. ASSUME NEW d \in Daemons, SetPath(d) \/ SysCleanup(d) \/ Crash(d)
      PROVE  Control!Next \/ UNCHANGED Control!vars
  <2>1. Control!ComeUp(d) \/ Control!End(d) \/ UNCHANGED Control!vars
    BY <1>0, <1>3, SetPathSeen, EndsSeen
  <2> QED BY <2>1 DEF Control!Next
<1>4. ASSUME NEW d \in Daemons, NEW p \in Procs, Accept(d, p) \/ SlotReady(d, p)
      PROVE  Control!Next \/ UNCHANGED Control!vars
  <2>1. Control!CarryOut(p, d) \/ UNCHANGED Control!vars
    BY <1>0, <1>4, AcceptUnseen, SlotReadySeen
  <2> QED BY <2>1 DEF Control!Next
<1>5. CASE UNCHANGED vars
  <2>1. UNCHANGED <<daemon, proc, reckless>>
    BY <1>5 DEF vars
  <2>2. CallsSeen' = CallsSeen
    BY <2>1, SameCall, CallsUnseen
  <2>3. Lives' = Lives /\ PausedOnes' = PausedOnes
    BY <2>1, DaemonsUnseen
  <2> QED BY <2>1, <2>2, <2>3, Unseen
<1> QED BY <1>1, <1>2, <1>3, <1>4, <1>5 DEF Next

\* The commands of sendCmd (qtservice_unix.cpp:94-109), the daemon that carries them
\* out (lines 322-361) and the socket file that leads to it keep what ServiceControl
\* promises: once or not at all, "true" only of what was done, and while starts and
\* stops do not overlap one daemon at a time, which is found whenever it is up.
THEOREM ControlImplemented == Spec => ImplementsServiceControl
<1>1. Init => IInv /\ Connections /\ Control!Init
  BY InitIInv, ConnectionsInit, ControlInit
<1>2. IInv /\ Connections /\ [Next]_vars => Connections'
  BY ConnectionsStep DEF IInv
<1>3. IInv /\ Connections /\ [Next]_vars => [Control!Next]_(Control!vars)
  BY ControlStep
<1> QED BY <1>1, <1>2, <1>3, Invariant, PTL
        DEF Spec, ImplementsServiceControl, Control!Spec

\* The variables keep their types; a connection leads to a daemon of the system.
THEOREM TypeCorrect == Spec => []TypeOK
<1> DEFINE Rest == socketFile \in Daemons \cup {NoFile} /\ crashes \in Nat
<1>1. Init => IInv /\ Connections /\ Rest
  BY InitIInv, ConnectionsInit DEF Init
<1>2. IInv /\ Connections /\ [Next]_vars => Connections'
  BY ConnectionsStep DEF IInv
<1>3. Rest /\ [Next]_vars => Rest'
  <2> SUFFICES ASSUME Rest, [Next]_vars PROVE Rest'
    OBVIOUS
  <2>1. ASSUME NEW p \in Procs, NEW op \in Calls, Call(p, op) PROVE Rest'
    BY <2>1 DEF Call
  <2>2. ASSUME NEW p \in Procs, ProcStep(p) PROVE Rest'
    <3>1. UNCHANGED <<socketFile, crashes>>
      BY <2>2 DEF ProcStep, Connect, ConnectFails, GetReply, GetEof, Spawn, SpawnFails
    <3> QED BY <3>1
  <2>3. ASSUME NEW d \in Daemons, SetPath(d) \/ SysCleanup(d) \/ Crash(d) PROVE Rest'
    <3>1. crashes' \in Nat
      BY <2>3 DEF SetPath, Unlink, Bind, Listen, SysCleanup, CloseFd, UnlinkPath, Crash
    <3>2. socketFile' \in {d, NoFile, socketFile}
      BY <2>3 DEF SetPath, Unlink, Bind, Listen, SysCleanup, CloseFd, UnlinkPath, Crash
    <3> QED BY <3>1, <3>2
  <2>4. ASSUME NEW d \in Daemons, NEW p \in Procs, Accept(d, p) \/ SlotReady(d, p)
        PROVE  Rest'
    BY <2>4 DEF Accept, SlotReady
  <2>5. CASE UNCHANGED vars
    BY <2>5 DEF vars
  <2> QED BY <2>1, <2>2, <2>3, <2>4, <2>5 DEF Next
<1>4. IInv /\ Connections /\ Rest => TypeOK
  <2>1. IInv => /\ daemon \in [Daemons -> Daemon] /\ proc \in [Procs -> Proc]
                /\ reckless \in BOOLEAN
                /\ \A d \in Daemons : daemon[d].listening => InEventLoop(d)
    BY DEF IInv, Typed, ListeningInLoop
  <2>2. Connections => \A p \in Procs : proc[p].stage \in {"backlog", "accepted", "answered"}
                                          => proc[p].peer \in Daemons
    BY DEF Connections, LedTo
  <2> QED BY <2>1, <2>2 DEF TypeOK
<1> HIDE DEF Rest
<1> QED BY <1>1, <1>2, <1>3, <1>4, Invariant, PTL DEF Spec

=============================================================================
