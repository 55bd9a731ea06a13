------------------------- MODULE ServiceDatabaseProofs -------------------------
(***************************************************************************)
(* Proofs about ServiceDatabase, for any processes, rights and accounts.   *)
(*                                                                         *)
(* The inductive invariant says who holds a handle: exactly the processes  *)
(* in the middle of a function.  A handle keeps the entry alive, so what a *)
(* function found or made is still there when it returns.  Every action    *)
(* changes one process and settles the database; Steps says once and for   *)
(* all what such a change must respect.                                    *)
(***************************************************************************)
EXTENDS ServiceDatabase, TLAPS

Holding(x) == x.at \in {"use", "poll", "close"}
Busy(x) == x.at # "idle" /\ x.command \in Changing

\* Handles are open exactly in the middle of a function.
HandlesInCalls == \A p \in Procs : p \in handles <=> Holding(proc[p])

\* An open handle keeps the entry alive; what is marked is kept by a handle or by
\* the service itself.
EntryKept == /\ handles # {} => entry.there
             /\ marked => entry.there /\ ~(handles = {} /\ service = "stopped")

\* A function goes with its command, and has its result when it is about to return;
\* m says that the entry is marked.
InOrder(x, m) ==
  /\ x.fn = "install" => x.command = "-install"
  /\ x.fn = "uninstall" => x.command = "-uninstall"
  /\ x.command \in Changing =>
       /\ x.fn = "isInstalled" \/
          x.fn = (IF x.command = "-install" THEN "install" ELSE "uninstall")
       /\ x.fn = "isInstalled" =>
            x.at \notin {"use", "poll"} /\ (x.at = "close" => x.result)
  /\ x.at = "poll" => x.fn = "stop"
  /\ x.fn = "install" /\ Holding(x) => x.result
  /\ x.fn = "uninstall" /\ x.at = "close" /\ x.result => m

CallsInOrder == \A p \in Procs : InOrder(proc[p], marked)

\* Without overlap one process at a time changes the database, and what it has not
\* found is not there.
AboutToCreate(x) == x.fn = "install" /\ x.at = "open"
OneChanges ==
  ~overlap => /\ \A p, q \in Procs : Busy(proc[p]) /\ Busy(proc[q]) => p = q
              /\ \A p \in Procs : AboutToCreate(proc[p]) => ~entry.there

IInv == TypeOK /\ HandlesInCalls /\ EntryKept /\ CallsInOrder /\ OneChanges

LEMMA InitIInv == Init => IInv
<1> SUFFICES ASSUME Init PROVE IInv
  OBVIOUS
<1>1. TypeOK
  BY DEF Init, TypeOK, Idle, Proc, Commands, Changing, Functions
<1>2. HandlesInCalls /\ EntryKept /\ CallsInOrder /\ OneChanges
  BY DEF Init, HandlesInCalls, EntryKept, CallsInOrder, OneChanges, Idle, NoEntry,
         Changing, InOrder, Holding, Busy, AboutToCreate
<1> QED BY <1>1, <1>2 DEF IInv

-----------------------------------------------------------------------------
\* A process may become x, while the database settles with entry e, mark m and
\* handles hs, and the history with o.
Fits(p, x, e, m, hs, o) ==
  /\ overlap => o
  /\ hs \ {p} = handles \ {p} /\ (p \in hs <=> Holding(x))
  /\ (hs # {} => e.there) /\ (m => e.there) /\ (marked => m)
  /\ InOrder(x, m)
  /\ ~o /\ Busy(x) => \A q \in Procs \ {p} : ~Busy(proc[q])
  /\ ~o /\ AboutToCreate(x) => ~e.there
  /\ e.there => entry.there \/ Busy(proc[p])

Becomes(p, x, e, m, hs, s, o) ==
  /\ Settle(e, m, hs, s) /\ proc' = [proc EXCEPT ![p] = x]
  /\ dbSet' \in BOOLEAN /\ overlap' = o

LEMMA Steps ==
  ASSUME IInv, NEW p \in Procs, NEW x \in Proc,
         NEW e \in Entry \cup {NoEntry}, NEW m \in BOOLEAN, NEW hs \in SUBSET Procs,
         NEW s \in {"stopped", "running", "stopping"}, NEW o \in BOOLEAN,
         Fits(p, x, e, m, hs, o),
         Becomes(p, x, e, m, hs, s, o)
  PROVE  IInv'
<1> USE DEF IInv, Fits, Becomes
<1>1. \A q \in Procs : proc'[q] = IF q = p THEN x ELSE proc[q]
  BY DEF TypeOK
<1>2. proc' \in [Procs -> Proc]
  BY DEF TypeOK
<1>3. /\ entry' \in {e, NoEntry} /\ marked' \in {m, FALSE}
      /\ handles' = hs /\ service' = s
      /\ hs # {} => entry' = e /\ marked' = m
      /\ marked' => m /\ entry' = e /\ ~(hs = {} /\ s = "stopped")
  BY DEF Settle
<1>4. TypeOK'
  BY <1>2, <1>3 DEF TypeOK
<1>5. HandlesInCalls'
  BY <1>1, <1>3 DEF HandlesInCalls
<1>6. EntryKept'
  BY <1>3 DEF EntryKept
<1>7. CallsInOrder'
  <2> SUFFICES ASSUME NEW q \in Procs PROVE InOrder(proc'[q], marked')
    BY DEF CallsInOrder
  <2>1. proc'[q] = (IF q = p THEN x ELSE proc[q]) /\ InOrder(proc'[q], m)
    BY <1>1 DEF CallsInOrder, InOrder
  <2>2. Holding(proc'[q]) => q \in hs
    BY <1>5, <1>3 DEF HandlesInCalls
  <2> QED BY <2>1, <2>2, <1>3 DEF InOrder, Holding
<1>8. OneChanges'
  <2> SUFFICES ASSUME ~overlap' PROVE OneChanges'
    BY DEF OneChanges
  <2>1. \A q, r \in Procs : Busy(proc'[q]) /\ Busy(proc'[r]) => q = r
    BY <1>1 DEF OneChanges
  <2>2. ASSUME NEW q \in Procs, AboutToCreate(proc'[q]) PROVE ~entry'.there
    <3>1. CASE q = p
      BY <3>1, <2>2, <1>1, <1>3 DEF NoEntry
    <3>2. CASE q # p
      <4>1. AboutToCreate(proc[q])
        BY <3>2, <2>2, <1>1
      <4>2. Busy(proc[q]) /\ ~entry.there
        BY <4>1 DEF OneChanges, AboutToCreate, Busy, CallsInOrder, InOrder, Changing
      <4>3. ~Busy(proc[p])
        BY <4>2, <3>2 DEF OneChanges
      <4> QED BY <4>2, <4>3, <1>3 DEF NoEntry
    <3> QED BY <3>1, <3>2
  <2> QED BY <2>1, <2>2 DEF OneChanges
<1> QED BY <1>4, <1>5, <1>6, <1>7, <1>8

\* A call that leaves the database alone leaves it settled.
LEMMA Settled ==
  ASSUME IInv, UNCHANGED scmVars
  PROVE  Settle(entry, marked, handles, service)
BY DEF IInv, TypeOK, EntryKept, Settle, scmVars

\* What holds of a process that is in no function with a handle, and of the others.
LEMMA Facts ==
  ASSUME IInv, NEW p \in Procs
  PROVE  /\ proc[p] \in Proc /\ InOrder(proc[p], marked)
         /\ p \in handles <=> Holding(proc[p])
         /\ entry \in Entry \cup {NoEntry} /\ marked \in BOOLEAN
         /\ handles \in SUBSET Procs /\ service \in {"stopped", "running", "stopping"}
         /\ dbSet \in BOOLEAN /\ overlap \in BOOLEAN
         /\ handles # {} => entry.there
         /\ marked => entry.there
         /\ ~overlap /\ Busy(proc[p]) => \A q \in Procs \ {p} : ~Busy(proc[q])
         /\ ~overlap /\ AboutToCreate(proc[p]) => ~entry.there
BY DEF IInv, TypeOK, HandlesInCalls, EntryKept, CallsInOrder, OneChanges

\* What a process does next when its function returns.
LEMMA ReturnedIs ==
  ASSUME IInv, NEW p \in Procs, InCall(p), NEW r \in BOOLEAN, NEW m \in BOOLEAN
  PROVE  /\ Returned(p, r) \in Proc
         /\ ~Holding(Returned(p, r))
         /\ Returned(p, r).command = proc[p].command
         /\ Busy(Returned(p, r)) => Busy(proc[p])
         /\ InOrder(Returned(p, r), m)
         /\ AboutToCreate(Returned(p, r))
              => proc[p].fn = "isInstalled" /\ ~r /\ proc[p].command = "-install"
<1> DEFINE c == proc[p].command
           checked == proc[p].fn = "isInstalled"
<1>0. proc[p] \in Proc
  BY Facts
<1>1. \/ /\ c = "-install" /\ checked /\ ~r
         /\ Returned(p, r) = Then(p, "install")
      \/ /\ c = "-uninstall" /\ checked /\ r
         /\ Returned(p, r) = Then(p, "uninstall")
      \/ /\ c = "-version" /\ checked
         /\ Returned(p, r) = Then(p, "isRunning")
      \/ \E e \in {"ok", "failed"} : Returned(p, r) = Idle(c, e)
  BY DEF Returned
<1>2. \A f \in Functions : Then(p, f) \in Proc /\ Then(p, f).command = c
                            /\ Then(p, f).fn = f /\ Then(p, f).at = "open"
  BY <1>0 DEF Then, Proc
<1>3. \A e \in {"ok", "failed"} :
        Idle(c, e) \in Proc /\ Idle(c, e).command = c
        /\ Idle(c, e).fn = "isInstalled" /\ Idle(c, e).at = "idle"
  BY <1>0 DEF Idle, Proc, Functions
<1> QED
  BY <1>1, <1>2, <1>3
     DEF Functions, Changing, Holding, Busy, InOrder, AboutToCreate, InCall

-----------------------------------------------------------------------------
(***************************************************************************)
(* The actions.                                                            *)
(***************************************************************************)

\* A function returns, with result r, and the database settles.
LEMMA StepReturn ==
  ASSUME IInv, NEW p \in Procs, InCall(p), NEW r \in BOOLEAN,
         proc' = [proc EXCEPT ![p] = Returned(p, r)],
         Settle(entry, marked, handles \ {p}, service),
         dbSet' \in BOOLEAN, overlap' = overlap,
         proc[p].fn = "isInstalled" /\ ~r /\ proc[p].command = "-install"
           => ~entry.there
  PROVE  IInv'
<1> DEFINE x == Returned(p, r)
<1>1. /\ x \in Proc /\ ~Holding(x) /\ InOrder(x, marked)
      /\ Busy(x) => Busy(proc[p])
      /\ AboutToCreate(x) => ~entry.there
  BY ReturnedIs, Facts
<1> HIDE DEF x
<1>2. proc' = [proc EXCEPT ![p] = x]
  BY DEF x
<1>3. /\ (handles \ {p}) \in SUBSET Procs
      /\ (handles \ {p}) \ {p} = handles \ {p}
      /\ p \in handles \ {p} <=> Holding(x)
      /\ handles \ {p} # {} => entry.there
  BY <1>1, Facts
<1>4. Fits(p, x, entry, marked, handles \ {p}, overlap)
  BY <1>1, <1>3, Facts DEF Fits
<1>5. Becomes(p, x, entry, marked, handles \ {p}, service, overlap)
  BY <1>2 DEF Becomes
<1> QED BY <1>1, <1>3, <1>4, <1>5, Facts, Steps

\* A process goes on in its function, still with its handle.
LEMMA StepInside ==
  ASSUME IInv, NEW p \in Procs, NEW x \in Proc, NEW m \in BOOLEAN,
         NEW s \in {"stopped", "running", "stopping"}, NEW e \in Entry,
         proc[p].at \in {"use", "poll"}, x.at \in {"use", "poll", "close"},
         x.command = proc[p].command, InOrder(x, m), marked => m,
         Becomes(p, x, e, m, handles, s, overlap)
  PROVE  IInv'
<1>1. /\ p \in handles /\ entry.there /\ Holding(x) /\ ~AboutToCreate(x)
      /\ Busy(x) => Busy(proc[p])
  BY Facts DEF Holding, AboutToCreate, Busy
<1>2. e.there
  BY DEF Entry
<1>3. Fits(p, x, e, m, handles, overlap)
  BY <1>1, <1>2, Facts DEF Fits
<1> QED BY <1>3, Facts, Steps

LEMMA StepOpenService ==
  ASSUME IInv, NEW p \in Procs, OpenService(p)
  PROVE  IInv'
<1>0. /\ proc[p].at = "open" /\ proc[p].fn \notin {"install", "setDB"}
      /\ dbSet' = dbSet /\ overlap' = overlap
  BY DEF OpenService
<1>1. p \notin handles /\ InCall(p) /\ handles = handles \ {p}
  BY <1>0, Facts DEF Holding, InCall
<1>2. CASE Found(p) /\ MayOpen(p)
  <2> PICK x : /\ x = IF proc[p].fn = "isInstalled"
                      THEN [proc[p] EXCEPT !.at = "close", !.result = TRUE]
                      ELSE [proc[p] EXCEPT !.at = "use"]
    OBVIOUS
  <2>1. /\ proc' = [proc EXCEPT ![p] = x]
        /\ Settle(entry, marked, handles \cup {p}, service)
    BY <1>2 DEF OpenService
  <2>2. x \in Proc /\ Holding(x) /\ ~AboutToCreate(x) /\ InOrder(x, marked)
        /\ (Busy(x) => Busy(proc[p]))
    BY <1>0, Facts DEF Proc, Holding, InOrder, AboutToCreate, Busy
  <2>3. /\ entry.there /\ (handles \cup {p}) \in SUBSET Procs
        /\ (handles \cup {p}) \ {p} = handles \ {p}
    BY <1>2, Facts DEF Found
  <2>4. Fits(p, x, entry, marked, handles \cup {p}, overlap)
    BY <2>2, <2>3, Facts DEF Fits
  <2>5. Becomes(p, x, entry, marked, handles \cup {p}, service, overlap)
    BY <1>0, <2>1, Facts DEF Becomes
  <2> QED BY <2>2, <2>3, <2>4, <2>5, Facts, Steps
<1>3. CASE ~(Found(p) /\ MayOpen(p))
  <2>1. proc' = [proc EXCEPT ![p] = Returned(p, FALSE)] /\ UNCHANGED scmVars
    BY <1>3 DEF OpenService
  <2>2. proc[p].fn = "isInstalled" => ~entry.there
    BY <1>3 DEF Found, MayOpen
  <2>3. Settle(entry, marked, handles \ {p}, service)
    BY <2>1, <1>1, Settled
  <2> QED BY <1>0, <1>1, <2>1, <2>2, <2>3, Facts, StepReturn
<1> QED BY <1>2, <1>3

LEMMA StepCreateService ==
  ASSUME IInv, NEW p \in Procs, CreateService(p)
  PROVE  IInv'
<1> DEFINE a == proc[p].account
           ok == /\ p \in Admins /\ ~entry.there
                 /\ Act(a) # "unknown" /\ (Interactive(a) => Act(a) = "none")
           new == [account |-> a, interactive |-> Interactive(a),
                   described |-> FALSE, there |-> TRUE]
<1>0. /\ proc[p].at = "open" /\ proc[p].fn = "install"
      /\ dbSet' = dbSet /\ overlap' = overlap
  BY DEF CreateService
<1>1. p \notin handles /\ InCall(p) /\ handles = handles \ {p}
  BY <1>0, Facts DEF Holding, InCall
<1>2. CASE ok
  <2> PICK x : x = [proc[p] EXCEPT !.at = "use", !.result = TRUE]
    OBVIOUS
  <2>1. /\ proc' = [proc EXCEPT ![p] = x]
        /\ Settle(new, FALSE, handles \cup {p}, service)
    BY <1>2 DEF CreateService
  <2>2. x \in Proc /\ Holding(x) /\ ~AboutToCreate(x) /\ InOrder(x, FALSE)
        /\ (Busy(x) => Busy(proc[p])) /\ Busy(proc[p])
    BY <1>0, Facts DEF Proc, Holding, InOrder, AboutToCreate, Busy, Changing
  <2>3. new \in Entry /\ new.there
    BY <1>0, Facts DEF Proc, Entry, Interactive
  <2>4. /\ ~marked /\ (handles \cup {p}) \in SUBSET Procs
        /\ (handles \cup {p}) \ {p} = handles \ {p}
    BY <1>2, Facts
  <2> HIDE DEF new
  <2>5. Fits(p, x, new, marked, handles \cup {p}, overlap)
    BY <2>2, <2>3, <2>4, Facts DEF Fits, InOrder
  <2>6. Becomes(p, x, new, marked, handles \cup {p}, service, overlap)
    BY <1>0, <2>1, <2>4, Facts DEF Becomes, Settle
  <2> QED BY <2>2, <2>3, <2>4, <2>5, <2>6, Facts, Steps
<1>3. CASE ~ok
  <2>1. proc' = [proc EXCEPT ![p] = Returned(p, FALSE)] /\ UNCHANGED scmVars
    BY <1>3 DEF CreateService
  <2>3. Settle(entry, marked, handles \ {p}, service)
    BY <2>1, <1>1, Settled
  <2> QED BY <1>0, <1>1, <2>1, <2>3, Facts, StepReturn
<1> QED BY <1>2, <1>3

\* The actions of a process that has a handle and keeps it.
Uses(p) == \/ Describe(p) \/ DeleteService(p) \/ Query(p) \/ StartService(p)
           \/ ControlStop(p) \/ Poll(p)

LEMMA UseIs ==
  ASSUME IInv, NEW p \in Procs, Uses(p)
  PROVE  /\ proc[p].at \in {"use", "poll"} /\ dbSet' = dbSet /\ overlap' = overlap
         /\ \E x \in Proc, m \in BOOLEAN, s \in {"stopped", "running", "stopping"},
               e \in Entry :
              /\ proc' = [proc EXCEPT ![p] = x] /\ x.at \in {"use", "poll", "close"}
              /\ x.command = proc[p].command /\ InOrder(x, m) /\ (marked => m)
              /\ Settle(e, m, handles, s)
<1> USE DEF Uses
<1>0. proc[p].at \in {"use", "poll"} /\ dbSet' = dbSet /\ overlap' = overlap
  BY DEF Describe, DeleteService, Query, StartService, ControlStop, Poll
<1>1. /\ entry.there /\ proc[p] \in Proc /\ InOrder(proc[p], marked)
      /\ marked \in BOOLEAN /\ service \in {"stopped", "running", "stopping"}
  BY <1>0, Facts DEF Holding
<1>2. entry \in Entry
  BY <1>1, Facts DEF NoEntry
<1>3. UNCHANGED scmVars => Settle(entry, marked, handles, service)
  BY Settled
<1>4. \E x \in Proc, m \in BOOLEAN, s \in {"stopped", "running", "stopping"},
         e \in Entry :
        /\ proc' = [proc EXCEPT ![p] = x] /\ x.at \in {"use", "poll", "close"}
        /\ x.command = proc[p].command /\ InOrder(x, m) /\ (marked => m)
        /\ Settle(e, m, handles, s)
  <2>1. CASE Describe(p)
    <3> DEFINE x == [proc[p] EXCEPT !.at = "close"]
    <3>1. x \in Proc /\ InOrder(x, marked) /\ x.at = "close"
          /\ x.command = proc[p].command
      BY <1>1, <2>1 DEF Describe, Proc, InOrder, Holding
    <3>2. /\ proc' = [proc EXCEPT ![p] = x]
          /\ Settle([entry EXCEPT !.described = ~marked], marked, handles, service)
      BY <2>1 DEF Describe
    <3>3. [entry EXCEPT !.described = ~marked] \in Entry
      BY <1>1, <1>2 DEF Entry
    <3> HIDE DEF x
    <3> QED BY <3>1, <3>2, <3>3, <1>1
  <2>2. CASE DeleteService(p)
    <3> DEFINE x == [proc[p] EXCEPT !.at = "close", !.result = ~marked]
    <3>1. x \in Proc /\ InOrder(x, TRUE) /\ x.at = "close"
          /\ x.command = proc[p].command
      BY <1>1, <2>2 DEF DeleteService, Proc, InOrder, Holding
    <3>2. proc' = [proc EXCEPT ![p] = x] /\ Settle(entry, TRUE, handles, service)
      BY <2>2 DEF DeleteService
    <3> HIDE DEF x
    <3> QED BY <3>1, <3>2, <1>1, <1>2
  <2>3. CASE Query(p)
    <3> DEFINE r == proc[p].fn = "config" \/ service # "stopped"
               x == [proc[p] EXCEPT !.at = "close", !.result = r]
    <3>1. x \in Proc /\ InOrder(x, marked) /\ x.at = "close"
          /\ x.command = proc[p].command
      BY <1>1, <2>3 DEF Query, Proc, InOrder, Holding
    <3>2. proc' = [proc EXCEPT ![p] = x] /\ Settle(entry, marked, handles, service)
      BY <2>3, <1>3 DEF Query, scmVars
    <3> HIDE DEF x
    <3> QED BY <3>1, <3>2, <1>1, <1>2
  <2>4. CASE StartService(p)
    <3> DEFINE ok == service = "stopped" /\ ~marked
               x == [proc[p] EXCEPT !.at = "close", !.result = ok]
               s == IF ok THEN "running" ELSE service
    <3>1. x \in Proc /\ InOrder(x, marked) /\ x.at = "close"
          /\ x.command = proc[p].command
      BY <1>1, <2>4 DEF StartService, Proc, InOrder, Holding
    <3>2. proc' = [proc EXCEPT ![p] = x] /\ Settle(entry, marked, handles, s)
      BY <2>4 DEF StartService
    <3>3. s \in {"stopped", "running", "stopping"}
      BY <1>1
    <3> HIDE DEF x, s
    <3> QED BY <3>1, <3>2, <3>3, <1>1, <1>2
  <2>5. CASE ControlStop(p)
    <3>1. CASE service = "running"
      <4> DEFINE x == [proc[p] EXCEPT !.at = "poll"]
      <4>1. x \in Proc /\ InOrder(x, marked) /\ x.at = "poll"
            /\ x.command = proc[p].command
        BY <1>1, <2>5 DEF ControlStop, Proc, InOrder, Holding
      <4>2. proc' = [proc EXCEPT ![p] = x] /\ Settle(entry, marked, handles, "stopping")
        BY <2>5, <3>1 DEF ControlStop
      <4> HIDE DEF x
      <4> QED BY <4>1, <4>2, <1>1, <1>2
    <3>2. CASE service # "running"
      <4> DEFINE x == [proc[p] EXCEPT !.at = "close"]
      <4>1. x \in Proc /\ InOrder(x, marked) /\ x.at = "close"
            /\ x.command = proc[p].command
        BY <1>1, <2>5 DEF ControlStop, Proc, InOrder, Holding
      <4>2. proc' = [proc EXCEPT ![p] = x] /\ Settle(entry, marked, handles, service)
        BY <2>5, <3>2, <1>3 DEF ControlStop
      <4> HIDE DEF x
      <4> QED BY <4>1, <4>2, <1>1, <1>2
    <3> QED BY <3>1, <3>2
  <2>6. CASE Poll(p)
    <3> DEFINE x == [proc[p] EXCEPT !.at = "close", !.result = (service = "stopped")]
    <3>1. x \in Proc /\ InOrder(x, marked) /\ x.at = "close"
          /\ x.command = proc[p].command
      BY <1>1, <2>6 DEF Poll, Proc, InOrder, Holding, Changing
    <3>2. proc' = [proc EXCEPT ![p] = x] /\ Settle(entry, marked, handles, service)
      BY <2>6, <1>3 DEF Poll, scmVars
    <3> HIDE DEF x
    <3> QED BY <3>1, <3>2, <1>1, <1>2
  <2> QED BY <2>1, <2>2, <2>3, <2>4, <2>5, <2>6
<1> QED BY <1>0, <1>4

LEMMA StepUse ==
  ASSUME IInv, NEW p \in Procs, Uses(p)
  PROVE  IInv'
<1>1. PICK x \in Proc, m \in BOOLEAN, s \in {"stopped", "running", "stopping"},
         e \in Entry :
        /\ proc' = [proc EXCEPT ![p] = x] /\ x.at \in {"use", "poll", "close"}
        /\ x.command = proc[p].command /\ InOrder(x, m) /\ (marked => m)
        /\ Settle(e, m, handles, s)
  BY UseIs
<1>2. proc[p].at \in {"use", "poll"} /\ dbSet' = dbSet /\ overlap' = overlap
  BY UseIs
<1>3. Becomes(p, x, e, m, handles, s, overlap)
  BY <1>1, <1>2, Facts DEF Becomes
<1> QED BY <1>1, <1>2, <1>3, StepInside

LEMMA StepCloseHandle ==
  ASSUME IInv, NEW p \in Procs, CloseHandle(p)
  PROVE  IInv'
<1>1. /\ proc[p].at = "close" /\ dbSet' = dbSet /\ overlap' = overlap
      /\ proc' = [proc EXCEPT ![p] = Returned(p, proc[p].result)]
      /\ Settle(entry, marked, handles \ {p}, service)
  BY DEF CloseHandle
<1>2. proc[p].result \in BOOLEAN
  BY Facts DEF Proc
<1>3. /\ InCall(p)
      /\ ~(proc[p].fn = "isInstalled" /\ ~proc[p].result
           /\ proc[p].command = "-install")
  BY <1>1, Facts DEF InCall, InOrder, Changing
<1> QED BY <1>1, <1>2, <1>3, Facts, StepReturn

LEMMA StepSetDB ==
  ASSUME IInv, NEW p \in Procs, SetDB(p)
  PROVE  IInv'
<1>1. /\ proc[p].at = "open" /\ dbSet' \in {dbSet, TRUE} /\ overlap' = overlap
      /\ proc' = [proc EXCEPT ![p] = Returned(p, TRUE)]
      /\ UNCHANGED scmVars
  BY DEF SetDB, scmVars
<1>2. p \notin handles /\ InCall(p) /\ handles = handles \ {p}
  BY <1>1, Facts DEF Holding, InCall
<1>3. Settle(entry, marked, handles \ {p}, service)
  BY <1>1, <1>2, Settled
<1> QED BY <1>1, <1>2, <1>3, Facts, StepReturn

\* A process that begins or gives up a command.
LEMMA StepBegin ==
  ASSUME IInv, NEW p \in Procs, ExecSome(p) \/ Die(p)
  PROVE  IInv'
<1>1. CASE Die(p)
  <2> PICK x : x = Idle(proc[p].command, "none")
    OBVIOUS
  <2>1. x \in Proc /\ ~Holding(x) /\ ~Busy(x) /\ ~AboutToCreate(x)
        /\ InOrder(x, marked)
    BY Facts DEF Idle, Proc, Functions, Holding, Busy, AboutToCreate, InOrder
  <2>2. Becomes(p, x, entry, marked, handles \ {p}, service, overlap)
    BY <1>1, Facts DEF Die, Becomes
  <2>3. Fits(p, x, entry, marked, handles \ {p}, overlap)
    BY <2>1, Facts DEF Fits
  <2> QED BY <2>1, <2>2, <2>3, Facts, Steps
<1>2. CASE ExecSome(p)
  <2> PICK c \in Calls, a \in Accounts : Exec(p, c, a)
    BY <1>2 DEF ExecSome
  <2> PICK x : x = [command |-> c, account |-> a, fn |-> First(c), at |-> "open",
                    result |-> FALSE, exit |-> "none"]
    OBVIOUS
  <2>1. First(c) \in Functions \ {"install", "uninstall"}
        /\ (c \in Changing => First(c) = "isInstalled")
    BY DEF First, Functions, Changing
  <2>2. x \in Proc /\ ~Holding(x) /\ ~AboutToCreate(x) /\ InOrder(x, marked)
    BY <2>1, CallsAssumption
       DEF Proc, Holding, AboutToCreate, InOrder, Changing
  <2>3. /\ p \notin handles /\ handles \ {p} = handles
        /\ proc' = [proc EXCEPT ![p] = x] /\ UNCHANGED <<scmVars, dbSet>>
    BY Facts DEF Exec, Holding
  <2> PICK o \in BOOLEAN :
           o = \/ overlap
               \/ /\ c \in Changing
                  /\ \E q \in Procs \ {p} : Running(q, Changing)
    OBVIOUS
  <2>4. Settle(entry, marked, handles, service)
    BY <2>3, Settled
  <2>5. Becomes(p, x, entry, marked, handles, service, o)
    BY <2>3, <2>4, Facts DEF Exec, Becomes
  <2>6. Fits(p, x, entry, marked, handles, o)
    BY <2>2, <2>3, Facts DEF Fits, Running, InCall, Busy
  <2> QED BY <2>2, <2>5, <2>6, Facts, Steps
<1> QED BY <1>1, <1>2

LEMMA StepServiceEnds ==
  ASSUME IInv, ServiceEnds
  PROVE  IInv'
<1> USE DEF IInv, ServiceEnds
<1>1. /\ entry' \in {entry, NoEntry} /\ marked' \in {marked, FALSE}
      /\ handles' = handles /\ service' = "stopped" /\ UNCHANGED <<proc, overlap>>
      /\ handles # {} => entry' = entry /\ marked' = marked
      /\ marked' => marked /\ entry' = entry /\ handles # {}
      /\ dbSet' = dbSet
  BY DEF Settle, TypeOK
<1>2. TypeOK'
  BY <1>1 DEF TypeOK
<1>3. HandlesInCalls' /\ EntryKept'
  BY <1>1 DEF HandlesInCalls, EntryKept
<1>4. CallsInOrder'
  BY <1>1 DEF CallsInOrder, InOrder, HandlesInCalls, Holding
<1>5. OneChanges'
  BY <1>1 DEF OneChanges, NoEntry
<1> QED BY <1>2, <1>3, <1>4, <1>5

LEMMA StepIInv == IInv /\ [Next]_vars => IInv'
<1> SUFFICES ASSUME IInv, [Next]_vars PROVE IInv'
  OBVIOUS
<1>1. CASE ServiceEnds
  BY <1>1, StepServiceEnds
<1>2. ASSUME NEW p \in Procs, ExecSome(p) \/ ProcStep(p) PROVE IInv'
  BY <1>2, StepBegin, StepOpenService, StepCreateService, StepUse, StepCloseHandle,
     StepSetDB DEF ProcStep, Uses
<1>3. CASE UNCHANGED vars
  BY <1>3 DEF vars, scmVars, IInv, TypeOK, HandlesInCalls, EntryKept, CallsInOrder,
              OneChanges
<1> QED BY <1>1, <1>2, <1>3 DEF Next

THEOREM Invariance == Spec => []IInv
  BY InitIInv, StepIInv, PTL DEF Spec

-----------------------------------------------------------------------------
(***************************************************************************)
(* What is promised.                                                       *)
(***************************************************************************)

\* Entries, handles and processes are well typed.
THEOREM TypeCorrect == Spec => []TypeOK
<1>1. IInv => TypeOK
  BY DEF IInv
<1> QED BY <1>1, Invariance, PTL

\* Whatever calls fail or are killed, no handle stays open outside of a call: an
\* entry that is marked, of a service that has stopped, waits for a call to end.
THEOREM RemovalIsCompleted == Spec => []RemovalCompletes
<1>1. IInv => RemovalCompletes
  <2> SUFFICES ASSUME IInv, marked, service = "stopped"
               PROVE  \E p \in Procs : InCall(p)
    BY DEF RemovalCompletes
  <2>1. PICK p : p \in handles
    BY DEF IInv, EntryKept
  <2> QED BY <2>1 DEF IInv, TypeOK, HandlesInCalls, Holding, InCall
<1> QED BY <1>1, Invariance, PTL

\* The step with which a command exits: a function returns without a handle, or
\* closes its own.
LEMMA Exits ==
  ASSUME IInv, [Next]_vars, NEW p \in Procs, NEW c, NEW e \in {"ok", "failed"},
         Ends(p, c, e)
  PROVE  \/ OpenService(p) \/ CreateService(p) \/ CloseHandle(p) \/ SetDB(p)
<1>1. /\ proc \in [Procs -> Proc] /\ proc[p].at # "idle"
      /\ proc'[p].at = "idle" /\ proc'[p].exit = e
  BY DEF IInv, TypeOK, Ends, Running, InCall
<1>2. PICK q \in Procs : ExecSome(q) \/ ProcStep(q)
  BY <1>1 DEF Next, vars, ServiceEnds
<1>3. ~ExecSome(p) /\ ~Die(p)
  <2>1. \A x : proc' = [proc EXCEPT ![p] = x] => proc'[p] = x
    BY <1>1
  <2>2. ASSUME NEW k \in Calls, NEW a \in Accounts, Exec(p, k, a) PROVE FALSE
    BY <1>1, <2>1, <2>2 DEF Exec
  <2>3. ~Die(p)
    BY <1>1, <2>1 DEF Die, Idle
  <2> QED BY <2>2, <2>3 DEF ExecSome
<1>4. ~Uses(p)
  BY <1>1, UseIs
<1>5. CASE q # p
  <2>1. CASE Uses(q)
    BY <1>1, <1>5, <2>1, UseIs
  <2>2. CASE ~Uses(q)
    BY <1>1, <1>2, <1>5, <2>2 DEF ProcStep, Uses, ExecSome, Exec, Die,
       OpenService, CreateService, CloseHandle, SetDB
  <2> QED BY <2>1, <2>2
<1> QED BY <1>2, <1>3, <1>4, <1>5 DEF ProcStep, Uses

\* A command that installs or removes is in one of its two functions.
LEMMA InFunction ==
  ASSUME IInv, NEW p \in Procs, Running(p, Changing)
  PROVE  /\ proc[p].command \in Changing /\ InOrder(proc[p], marked)
         /\ proc[p].fn = "isInstalled" \/
            proc[p].fn = IF proc[p].command = "-install" THEN "install"
                         ELSE "uninstall"
BY Facts DEF Running, InOrder

\* When a command exits because its function found no entry, or could not create it.
LEMMA OpenReturns ==
  ASSUME NEW p \in Procs, proc[p] \in Proc, proc \in [Procs -> Proc],
         OpenService(p), proc'[p].at = "idle", proc[p].command \in Changing
  PROVE  /\ ~(Found(p) /\ MayOpen(p))
         /\ \/ proc[p].fn # "isInstalled" /\ proc'[p].exit = "failed"
            \/ proc[p].fn = "isInstalled" /\ proc[p].command = "-uninstall"
<1>1. ~(Found(p) /\ MayOpen(p)) /\ proc'[p] = Returned(p, FALSE)
  <2>1. CASE Found(p) /\ MayOpen(p)
    <3>1. proc'[p].at \in {"close", "use"}
      BY <2>1 DEF OpenService, Proc
    <3> QED BY <3>1
  <2>2. CASE ~(Found(p) /\ MayOpen(p))
    BY <2>2 DEF OpenService
  <2> QED BY <2>1, <2>2
<1>2. CASE proc[p].fn # "isInstalled"
  BY <1>1, <1>2 DEF Returned, Idle, Changing
<1>3. CASE proc[p].fn = "isInstalled" /\ proc[p].command # "-uninstall"
  <2>1. Returned(p, FALSE) = Then(p, "install")
    BY <1>3 DEF Returned, Changing
  <2>2. Then(p, "install").at = "open"
    BY DEF Then, Proc
  <2> QED BY <1>1, <2>1, <2>2
<1> QED BY <1>1, <1>2, <1>3

LEMMA CreateReturns ==
  ASSUME NEW p \in Procs, proc[p] \in Proc, proc \in [Procs -> Proc],
         CreateService(p), proc'[p].at = "idle", proc[p].command \in Changing
  PROVE  proc'[p].exit = "failed"
<1>1. proc'[p] = Returned(p, FALSE) /\ proc[p].fn = "install"
  BY DEF CreateService, Proc
<1> QED BY <1>1 DEF Returned, Idle, Changing

\* -install that exits with 0 leaves an entry, unless it was on its way out.
LEMMA InstallIsTold ==
  ASSUME IInv, [Next]_vars, NEW p \in Procs, Ends(p, "-install", "ok"), ~marked
  PROVE  entry'.there
<1>1. /\ proc[p].command = "-install" /\ proc[p].fn \in {"isInstalled", "install"}
      /\ proc[p] \in Proc /\ proc'[p].at = "idle" /\ proc'[p].exit = "ok"
      /\ proc \in [Procs -> Proc]
  BY InFunction, Facts DEF Ends, Running, Changing, IInv, TypeOK
<1>2. ~OpenService(p)
  <2>1. OpenService(p) => proc[p].fn = "isInstalled"
    BY <1>1 DEF OpenService
  <2>2. proc[p].command \in Changing
    BY <1>1 DEF Changing
  <2> QED BY <1>1, <2>1, <2>2, OpenReturns
<1>3. ~CreateService(p)
  BY <1>1, CreateReturns DEF Changing
<1>4. CloseHandle(p)
  BY <1>1, <1>2, <1>3, Exits DEF SetDB
<1>5. entry.there /\ entry' = entry
  BY <1>4, Facts DEF CloseHandle, Settle, Holding
<1> QED BY <1>5

\* -uninstall that exits with 0 leaves no entry, or one that will go.
LEMMA UninstallIsTold ==
  ASSUME IInv, [Next]_vars, NEW p \in Procs, Ends(p, "-uninstall", "ok")
  PROVE  ~entry'.there \/ marked'
<1>1. /\ proc[p].command = "-uninstall" /\ proc[p].fn \in {"isInstalled", "uninstall"}
      /\ proc[p] \in Proc /\ proc'[p].at = "idle" /\ proc'[p].exit = "ok"
      /\ proc \in [Procs -> Proc] /\ InOrder(proc[p], marked)
  BY InFunction, Facts DEF Ends, Running, Changing, IInv, TypeOK
<1>2. CASE OpenService(p)
  <2>0. proc[p].command \in Changing
    BY <1>1 DEF Changing
  <2>1. proc'[p].exit # "failed"
    BY <1>1
  <2>2. proc[p].fn = "isInstalled" /\ ~(Found(p) /\ MayOpen(p))
    BY <1>1, <1>2, <2>0, <2>1, OpenReturns
  <2>3. ~entry.there /\ entry' = entry
    BY <1>2, <2>2 DEF OpenService, Found, MayOpen, scmVars
  <2> QED BY <2>3
<1>3. CASE CloseHandle(p)
  <2>1. proc'[p] = Returned(p, proc[p].result) /\ proc[p].at = "close"
        /\ Settle(entry, marked, handles \ {p}, service)
    BY <1>1, <1>3 DEF CloseHandle
  <2>2. proc[p].result /\ proc[p].fn = "uninstall"
    <3>1. proc[p].fn = "isInstalled" => proc[p].result
      BY <1>1, <2>1 DEF InOrder, Changing
    <3>2. proc[p].fn = "isInstalled" /\ proc[p].result
            => Returned(p, proc[p].result) = Then(p, "uninstall")
      BY <1>1 DEF Returned, Proc
    <3>3. Then(p, "uninstall").at = "open"
      BY <1>1 DEF Then, Proc
    <3>4. proc[p].fn = "uninstall" /\ ~proc[p].result
            => Returned(p, proc[p].result) = Idle("-uninstall", "failed")
      BY <1>1 DEF Returned, Changing
    <3> QED BY <1>1, <2>1, <3>1, <3>2, <3>3, <3>4 DEF Idle
  <2>3. marked
    BY <1>1, <2>1, <2>2 DEF InOrder
  <2> QED BY <2>1, <2>3 DEF Settle, NoEntry
<1> QED BY <1>1, <1>2, <1>3, Exits DEF CreateService, SetDB

\* Exit code 0 of -install and of -uninstall is true of the entry, whatever other
\* processes do, and wherever they are killed.
THEOREM ExitCodesMean == Spec => ExitCodeMeans
<1>1. IInv /\ [Next]_vars
        => [\A p \in Procs :
              /\ Ends(p, "-install", "ok") /\ ~marked => entry'.there
              /\ Ends(p, "-uninstall", "ok") => ~entry'.there \/ marked']_vars
  BY InstallIsTold, UninstallIsTold
<1> QED BY <1>1, Invariance, PTL DEF Spec, ExitCodeMeans

\* -install fails only without the rights, for an account that does not exist
\* (qtservice_win.cpp:869-893), or when somebody else installs, too.
THEOREM InstallFailure == Spec => InstallFailsOnlyIf
<1>1. ASSUME IInv, [Next]_vars, NEW p \in Procs, Ends(p, "-install", "failed"), ~overlap
      PROVE  p \notin Admins \/ proc[p].account = "unknown"
  <2>1. /\ proc[p].command = "-install" /\ proc[p].fn \in {"isInstalled", "install"}
        /\ proc[p] \in Proc /\ proc'[p].at = "idle" /\ proc'[p].exit = "failed"
        /\ proc \in [Procs -> Proc] /\ InOrder(proc[p], marked)
    BY <1>1, InFunction, Facts DEF Ends, Running, Changing, IInv, TypeOK
  <2>2. ~OpenService(p)
    <3>1. OpenService(p) => proc[p].fn = "isInstalled"
      BY <2>1 DEF OpenService
    <3>2. proc[p].command \in Changing
      BY <2>1 DEF Changing
    <3> QED BY <2>1, <3>1, <3>2, OpenReturns
  <2>3. ~CloseHandle(p)
    <3>1. CloseHandle(p) => proc'[p] = Returned(p, proc[p].result) /\ proc[p].result
      BY <2>1 DEF CloseHandle, InOrder, Holding, Changing
    <3>2. proc[p].result => Returned(p, proc[p].result) = Idle("-install", "ok")
      BY <2>1 DEF Returned
    <3> QED BY <2>1, <3>1, <3>2 DEF Idle
  <2>4. CreateService(p)
    BY <1>1, <2>1, <2>2, <2>3, Exits DEF SetDB
  <2>5. ~(p \in Admins /\ ~entry.there /\ proc[p].account # "unknown")
    <3>1. proc[p].account # "unknown" => Act(proc[p].account) # "unknown"
      BY DEF Act
    <3>2. ASSUME p \in Admins, ~entry.there, Act(proc[p].account) # "unknown"
          PROVE  proc'[p].at = "use"
      BY <2>1, <2>4, <3>2 DEF CreateService, Interactive, Proc
    <3> QED BY <2>1, <2>4, <3>1, <3>2
  <2>6. ~entry.there
    BY <1>1, <2>4, Facts DEF CreateService, AboutToCreate
  <2> QED BY <2>5, <2>6
<1>2. IInv /\ [Next]_vars
        => [\A p \in Procs : Ends(p, "-install", "failed")
              => p \notin Admins \/ overlap \/ proc[p].account = "unknown"]_vars
  BY <1>1
<1> QED BY <1>2, Invariance, PTL DEF Spec, InstallFailsOnlyIf

=============================================================================
