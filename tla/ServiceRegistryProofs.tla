------------------------- MODULE ServiceRegistryProofs -------------------------
(***************************************************************************)
(* Proofs about ServiceRegistry, for any processes, programs and databases. *)
(*                                                                         *)
(* The keys come in two groups, those of -install and those of -setDB.     *)
(* What an uninstallation has seen of a group is all of it or nothing,     *)
(* because it has seen what is stored; so what it removes is a whole group *)
(* of keys, whatever was written in the meantime.                          *)
(***************************************************************************)
EXTENDS ServiceRegistry, TLAPS

InstallKeys == {"path", "automaticStartup"}

\* A set of keys holds each group as a whole or not at all.
WholeGroups(ks) ==
  /\ "path" \in ks <=> "automaticStartup" \in ks
  /\ \A j, k \in DbKeys : j \in ks <=> k \in ks

SeenIsWhole == \A p \in Procs : WholeGroups(proc[p].seen)

\* A command has the value that it was called with.
ValuesFit ==
  \A p \in Procs : proc[p].stage # "idle" =>
    /\ proc[p].command = "install" => proc[p].value \in Programs
    /\ proc[p].command = "setDB" => proc[p].value \in Databases

\* Without overlap one process at a time installs or removes, and what is about to
\* be installed is not there.
OneChanges ==
  ~overlap =>
    /\ \A p, q \in Procs : Running(p, {"install", "uninstall"})
                           /\ Running(q, {"install", "uninstall"}) => p = q
    /\ \A p \in Procs : proc[p].stage = "change" /\ proc[p].command = "install"
                        => settings["path"] = NoValue

IInv == TypeOK /\ GroupsAreWhole /\ SeenIsWhole /\ ValuesFit /\ OneChanges

LEMMA Values ==
  /\ NoValue \notin Programs /\ NoValue \notin Databases
  /\ StartupType \in {"AutoStartup", "ManualStartup"} /\ StartupType # NoValue
  /\ Keys = {"path", "automaticStartup"} \cup DbKeys
  /\ "path" \notin DbKeys /\ "automaticStartup" \notin DbKeys
BY ValuesAssumption, StartupAssumption DEF NoValue, Keys, DbKeys

LEMMA InitIInv == Init => IInv
<1> SUFFICES ASSUME Init PROVE IInv
  OBVIOUS
<1>1. TypeOK
  BY DEF Init, TypeOK, Idle, Proc, Commands, Keys
<1>2. GroupsAreWhole
  BY DEF Init, GroupsAreWhole, Keys, DbKeys
<1>3. SeenIsWhole /\ ValuesFit /\ OneChanges
  BY DEF Init, SeenIsWhole, ValuesFit, OneChanges, WholeGroups, Idle, Running
<1> QED BY <1>1, <1>2, <1>3 DEF IInv

-----------------------------------------------------------------------------
\* A process goes on as x, which may be about to install only what is not there.
LEMMA ProcSteps ==
  ASSUME IInv, NEW p \in Procs, NEW x \in Proc,
         proc' = [proc EXCEPT ![p] = x], UNCHANGED overlap,
         WholeGroups(x.seen),
         x.stage # "idle" =>
           /\ proc[p].stage # "idle" /\ x.command = proc[p].command
           /\ x.value = proc[p].value,
         x.stage = "change" /\ x.command = "install" /\ ~overlap
           => settings'["path"] = NoValue,
         \A q \in Procs \ {p} :
           ~overlap /\ proc[q].stage = "change" /\ proc[q].command = "install"
             => settings'["path"] = NoValue
  PROVE  proc' \in [Procs -> Proc] /\ overlap' \in BOOLEAN
         /\ SeenIsWhole' /\ ValuesFit' /\ OneChanges'
<1>1. /\ proc \in [Procs -> Proc] /\ overlap \in BOOLEAN
      /\ SeenIsWhole /\ ValuesFit /\ OneChanges
  BY DEF IInv, TypeOK
<1>2. proc' \in [Procs -> Proc] /\ overlap' \in BOOLEAN
  BY <1>1
<1>3. \A q \in Procs : proc'[q] = IF q = p THEN x ELSE proc[q]
  BY <1>1
<1>4. SeenIsWhole'
  BY <1>1, <1>3 DEF SeenIsWhole
<1>5. ValuesFit'
  BY <1>1, <1>3 DEF ValuesFit
<1>6. OneChanges'
  <2>1. \A q \in Procs : Running(q, {"install", "uninstall"})'
                         => Running(q, {"install", "uninstall"})
    BY <1>3 DEF Running
  <2>2. \A q \in Procs :
          ~overlap' /\ proc'[q].stage = "change" /\ proc'[q].command = "install"
            => settings'["path"] = NoValue
    BY <1>3
  <2> QED
    BY <1>1, <2>1, <2>2 DEF OneChanges
<1> QED BY <1>2, <1>4, <1>5, <1>6

LEMMA CallStep ==
  ASSUME IInv, NEW p \in Procs, CallSome(p)
  PROVE  IInv'
<1>1. PICK command \in Commands, value \in Programs \cup Databases \cup {NoValue} :
        /\ Call(p, command, value)
        /\ command = "install" => value \in Programs
        /\ command = "setDB" => value \in Databases
  BY DEF CallSome, Commands
<1> DEFINE x == [command |-> command, value |-> value, stage |-> "called",
                 seen |-> {}, result |-> FALSE]
<1>2. /\ proc \in [Procs -> Proc] /\ overlap \in BOOLEAN
      /\ SeenIsWhole /\ ValuesFit /\ OneChanges /\ TypeOK /\ GroupsAreWhole
  BY DEF IInv, TypeOK
<1>3. /\ proc' = [proc EXCEPT ![p] = x] /\ settings' = settings
      /\ overlap' = (overlap \/ (command # "setDB" /\
                      \E q \in Procs \ {p} : Running(q, {"install", "uninstall"})))
  BY <1>1 DEF Call
<1>4. x \in Proc
  BY DEF Proc
<1>5. \A q \in Procs : proc'[q] = IF q = p THEN x ELSE proc[q]
  BY <1>2, <1>3
<1>6. TypeOK' /\ GroupsAreWhole'
  <2>1. proc' \in [Procs -> Proc]
    BY <1>2, <1>3, <1>4
  <2>2. overlap' \in BOOLEAN
    BY <1>2, <1>3
  <2> QED BY <2>1, <2>2, <1>2, <1>3 DEF TypeOK, GroupsAreWhole
<1>7. SeenIsWhole'
  BY <1>2, <1>5 DEF SeenIsWhole, WholeGroups
<1>8. ValuesFit'
  BY <1>1, <1>2, <1>5 DEF ValuesFit
<1>9. OneChanges'
  <2> SUFFICES ASSUME ~overlap' PROVE
        /\ \A q, r \in Procs : Running(q, {"install", "uninstall"})'
                               /\ Running(r, {"install", "uninstall"})' => q = r
        /\ \A q \in Procs : proc'[q].stage = "change" /\ proc'[q].command = "install"
                            => settings'["path"] = NoValue
    BY DEF OneChanges
  <2>1. ~overlap /\ (command = "setDB" \/
          \A q \in Procs \ {p} : ~Running(q, {"install", "uninstall"}))
    BY <1>3
  <2>2. \A q \in Procs \ {p} : Running(q, {"install", "uninstall"})'
                               <=> Running(q, {"install", "uninstall"})
    BY <1>5 DEF Running
  <2>3. Running(p, {"install", "uninstall"})' => command # "setDB"
    BY <1>5 DEF Running
  <2>4. \A q, r \in Procs : Running(q, {"install", "uninstall"})'
                            /\ Running(r, {"install", "uninstall"})' => q = r
    BY <1>2, <2>1, <2>2, <2>3 DEF OneChanges
  <2>5. \A q \in Procs : proc'[q].stage = "change" /\ proc'[q].command = "install"
                         => settings'["path"] = NoValue
    BY <1>2, <1>3, <1>5, <2>1 DEF OneChanges
  <2> QED BY <2>4, <2>5
<1> QED BY <1>6, <1>7, <1>8, <1>9 DEF IInv

\* A command that ends, or begins to change something, leaves the settings alone.
LEMMA BeginStep ==
  ASSUME IInv, NEW p \in Procs,
         BeginInstall(p) \/ BeginUninstall(p) \/ AccessError(p)
  PROVE  IInv'
<1>1. /\ proc \in [Procs -> Proc] /\ overlap \in BOOLEAN /\ settings' = settings
      /\ SeenIsWhole /\ ValuesFit /\ OneChanges /\ TypeOK /\ GroupsAreWhole
      /\ UNCHANGED overlap /\ proc[p].stage # "idle" /\ proc[p] \in Proc
  BY DEF IInv, TypeOK, BeginInstall, BeginUninstall, AccessError
<1>2. WholeGroups(Stored) /\ Stored \subseteq Keys
  BY <1>1, Values DEF WholeGroups, Stored, GroupsAreWhole
<1>3. PICK x \in Proc :
        /\ proc' = [proc EXCEPT ![p] = x]
        /\ WholeGroups(x.seen)
        /\ x.stage # "idle" => x.command = proc[p].command /\ x.value = proc[p].value
        /\ x.stage = "change" /\ x.command = "install" => settings["path"] = NoValue
  <2>0. WholeGroups({}) /\ WholeGroups(proc[p].seen)
    BY <1>1 DEF WholeGroups, SeenIsWhole
  <2>a. ASSUME NEW c \in Commands, NEW ok \in BOOLEAN,
               proc' = [proc EXCEPT ![p] = Idle(c, ok)]
        PROVE  \E x \in Proc :
        /\ proc' = [proc EXCEPT ![p] = x]
        /\ WholeGroups(x.seen)
        /\ x.stage # "idle" => x.command = proc[p].command /\ x.value = proc[p].value
        /\ x.stage = "change" /\ x.command = "install" => settings["path"] = NoValue
    <3>1. Idle(c, ok) \in Proc /\ Idle(c, ok).stage = "idle" /\ Idle(c, ok).seen = {}
      BY DEF Idle, Proc
    <3> QED BY <3>1, <2>0, <2>a
  <2>1. CASE BeginInstall(p)
    <3>1. CASE IsInstalled
      <4>1. proc' = [proc EXCEPT ![p] = Idle("install", TRUE)]
        BY <2>1, <3>1 DEF BeginInstall
      <4> QED BY <4>1, <2>a DEF Commands
    <3>2. CASE ~IsInstalled
      <4> DEFINE x == [proc[p] EXCEPT !.stage = "change"]
      <4>1. proc' = [proc EXCEPT ![p] = x]
        BY <2>1, <3>2 DEF BeginInstall
      <4>2. /\ x \in Proc /\ x.seen = proc[p].seen /\ x.command = proc[p].command
            /\ x.value = proc[p].value
        BY <1>1 DEF Proc
      <4>3. settings["path"] = NoValue
        BY <3>2, Values DEF IsInstalled, Stored
      <4> QED BY <4>1, <4>2, <4>3, <2>0
    <3> QED BY <3>1, <3>2
  <2>2. CASE BeginUninstall(p)
    <3>1. CASE ~IsInstalled
      <4>1. proc' = [proc EXCEPT ![p] = Idle("uninstall", TRUE)]
        BY <2>2, <3>1 DEF BeginUninstall
      <4> QED BY <4>1, <2>a DEF Commands
    <3>2. CASE IsInstalled
      <4> DEFINE x == [proc[p] EXCEPT !.stage = "change", !.seen = Stored]
      <4>1. proc' = [proc EXCEPT ![p] = x] /\ proc[p].command = "uninstall"
        BY <2>2, <3>2 DEF BeginUninstall
      <4>2. /\ x \in Proc /\ x.seen = Stored /\ x.command = proc[p].command
            /\ x.value = proc[p].value
        BY <1>1, <1>2 DEF Proc
      <4> QED BY <4>1, <4>2, <1>2
    <3> QED BY <3>1, <3>2
  <2>3. CASE AccessError(p)
    <3>1. proc' = [proc EXCEPT ![p] = Idle(proc[p].command, proc[p].command = "setDB")]
      BY <1>1, <2>3 DEF AccessError
    <3>2. proc[p].command \in Commands
      BY <1>1 DEF Proc
    <3> QED BY <3>1, <3>2, <2>a
  <2> QED BY <2>1, <2>2, <2>3
<1>4. \A q \in Procs \ {p} :
        ~overlap /\ proc[q].stage = "change" /\ proc[q].command = "install"
          => settings'["path"] = NoValue
  BY <1>1 DEF OneChanges
<1>5. proc' \in [Procs -> Proc] /\ overlap' \in BOOLEAN
      /\ SeenIsWhole' /\ ValuesFit' /\ OneChanges'
  BY <1>1, <1>3, <1>4, ProcSteps
<1>6. TypeOK' /\ GroupsAreWhole'
  BY <1>1, <1>5 DEF TypeOK, GroupsAreWhole
<1> QED BY <1>5, <1>6 DEF IInv

\* A command that writes ends; what it writes is a whole group.
LEMMA WriteStep ==
  ASSUME IInv, NEW p \in Procs, Install(p) \/ Uninstall(p) \/ SetDB(p)
  PROVE  IInv'
<1>1. /\ proc \in [Procs -> Proc] /\ overlap \in BOOLEAN /\ proc[p] \in Proc
      /\ SeenIsWhole /\ ValuesFit /\ OneChanges /\ GroupsAreWhole
      /\ UNCHANGED overlap /\ proc[p].stage # "idle"
      /\ settings \in [Keys -> Programs \cup Databases \cup
                               {"AutoStartup", "ManualStartup", NoValue}]
      /\ settings["path"] \in Programs \cup {NoValue}
  BY DEF IInv, TypeOK, Install, Uninstall, SetDB
<1>2. PICK c \in Commands : proc' = [proc EXCEPT ![p] = Idle(c, TRUE)]
  BY DEF Install, Uninstall, SetDB, Commands
<1>3. /\ Idle(c, TRUE) \in Proc /\ Idle(c, TRUE).stage = "idle"
      /\ WholeGroups(Idle(c, TRUE).seen)
  BY DEF Idle, Proc, WholeGroups
<1>4. /\ settings' \in [Keys -> Programs \cup Databases \cup
                                {"AutoStartup", "ManualStartup", NoValue}]
      /\ settings'["path"] \in Programs \cup {NoValue}
      /\ \A j, k \in DbKeys : settings'[j] = settings'[k]
      /\ settings'["path"] = NoValue <=> settings'["automaticStartup"] = NoValue
      /\ \A q \in Procs \ {p} :
           ~overlap /\ proc[q].stage = "change" /\ proc[q].command = "install"
             => settings'["path"] = NoValue
  <2>0. \A q \in Procs \ {p} :
          ~overlap /\ proc[q].stage = "change" /\ proc[q].command = "install"
            => settings["path"] = NoValue
    BY <1>1 DEF OneChanges
  <2>1. CASE Install(p)
    <3>1. /\ proc[p].command = "install" /\ proc[p].value \in Programs
          /\ settings' = [settings EXCEPT !["path"] = proc[p].value,
                                          !["automaticStartup"] = StartupType]
      BY <1>1, <2>1 DEF Install, ValuesFit
    <3>2. /\ settings'["path"] = proc[p].value
          /\ settings'["automaticStartup"] = StartupType
          /\ \A k \in DbKeys : settings'[k] = settings[k]
      BY <1>1, <3>1, Values
    <3>3. settings' \in [Keys -> Programs \cup Databases \cup
                                 {"AutoStartup", "ManualStartup", NoValue}]
      BY <1>1, <3>1, Values
    <3>4. \A q \in Procs \ {p} :
            ~overlap => ~(proc[q].stage = "change" /\ proc[q].command = "install")
      BY <1>1, <3>1 DEF OneChanges, Running
    <3>5. \A j, k \in DbKeys : settings'[j] = settings'[k]
      BY <1>1, <3>2 DEF GroupsAreWhole
    <3> QED BY <3>1, <3>2, <3>3, <3>4, <3>5, Values
  <2>2. CASE Uninstall(p)
    <3>1. /\ settings' = [k \in Keys |-> IF k \in proc[p].seen THEN NoValue
                                         ELSE settings[k]]
          /\ WholeGroups(proc[p].seen)
      BY <1>1, <2>2 DEF Uninstall, SeenIsWhole
    <3>2. settings' \in [Keys -> Programs \cup Databases \cup
                                 {"AutoStartup", "ManualStartup", NoValue}]
      BY <1>1, <3>1
    <3>3. /\ settings'["path"] \in Programs \cup {NoValue}
          /\ settings'["path"] = NoValue <=> settings'["automaticStartup"] = NoValue
          /\ settings["path"] = NoValue => settings'["path"] = NoValue
      BY <1>1, <3>1, Values DEF WholeGroups, GroupsAreWhole
    <3>4. \A j, k \in DbKeys : settings'[j] = settings'[k]
      BY <1>1, <3>1, Values DEF WholeGroups, GroupsAreWhole
    <3> QED BY <3>2, <3>3, <3>4, <2>0
  <2>3. CASE SetDB(p)
    <3>1. /\ settings' = [k \in Keys |-> IF k \in DbKeys THEN proc[p].value
                                         ELSE settings[k]]
          /\ proc[p].value \in Databases
      BY <1>1, <2>3 DEF SetDB, ValuesFit
    <3>2. settings' \in [Keys -> Programs \cup Databases \cup
                                 {"AutoStartup", "ManualStartup", NoValue}]
      BY <1>1, <3>1
    <3>3. /\ settings'["path"] = settings["path"]
          /\ settings'["automaticStartup"] = settings["automaticStartup"]
          /\ \A j, k \in DbKeys : settings'[j] = settings'[k]
      BY <3>1, Values
    <3> QED BY <1>1, <2>0, <3>2, <3>3 DEF GroupsAreWhole
  <2> QED BY <2>1, <2>2, <2>3
<1>5. proc' \in [Procs -> Proc] /\ overlap' \in BOOLEAN
      /\ SeenIsWhole' /\ ValuesFit' /\ OneChanges'
  BY <1>1, <1>2, <1>3, <1>4, ProcSteps
<1> QED BY <1>4, <1>5 DEF IInv, TypeOK, GroupsAreWhole

LEMMA NextIInv == IInv /\ [Next]_vars => IInv'
<1> SUFFICES ASSUME IInv, [Next]_vars PROVE IInv'
  OBVIOUS
<1>1. CASE UNCHANGED vars
  BY <1>1 DEF vars, IInv, TypeOK, GroupsAreWhole, SeenIsWhole, ValuesFit, OneChanges,
              Running
<1>2. CASE Next
  BY <1>2, CallStep, BeginStep, WriteStep DEF Next
<1> QED BY <1>1, <1>2

-----------------------------------------------------------------------------
\* The keys and the commands stay what they are, under any overlap of commands of
\* any number of processes.
THEOREM TypeCorrect == Spec => []TypeOK
<1>1. IInv => TypeOK
  BY DEF IInv
<1> QED BY InitIInv, NextIInv, <1>1, PTL DEF Spec

\* What is stored is a whole installation and the parameters of one -setDB, or none:
\* uninstall() removes whole groups even when others write in the meantime.
THEOREM WholeGroupsStored == Spec => []GroupsAreWhole
<1>1. IInv => GroupsAreWhole
  BY DEF IInv
<1> QED BY InitIInv, NextIInv, <1>1, PTL DEF Spec

\* install() never replaces an installation, if installations and removals do not
\* overlap: whoever is about to install found nothing, and nobody else could.
THEOREM FirstInstallStays == Spec => FirstInstallWins
<1>1. IInv /\ [Next]_vars =>
        [~overlap /\ settings["path"] # NoValue
           => settings'["path"] \in {settings["path"], NoValue}]_vars
  <2> SUFFICES ASSUME IInv, Next, ~overlap, settings["path"] # NoValue
               PROVE  settings'["path"] \in {settings["path"], NoValue}
    OBVIOUS
  <2>1. PICK p \in Procs : \/ CallSome(p)
                           \/ BeginInstall(p) \/ Install(p)
                           \/ BeginUninstall(p) \/ Uninstall(p)
                           \/ SetDB(p) \/ AccessError(p)
    BY DEF Next
  <2>2. CASE CallSome(p) \/ BeginInstall(p) \/ BeginUninstall(p) \/ AccessError(p)
    BY <2>2 DEF CallSome, Call, BeginInstall, BeginUninstall, AccessError
  <2>3. CASE Install(p)
    BY <2>3 DEF Install, IInv, OneChanges
  <2>4. CASE Uninstall(p)
    BY <2>4, Values DEF Uninstall
  <2>5. CASE SetDB(p)
    BY <2>5, Values DEF SetDB
  <2> QED BY <2>1, <2>2, <2>3, <2>4, <2>5
<1> QED BY InitIInv, NextIInv, <1>1, PTL DEF Spec, FirstInstallWins

-----------------------------------------------------------------------------
\* An uninstallation that overlaps with no other command but -setDB has seen the
\* path that it removes.
SeesPath ==
  ~overlap => \A p \in Procs :
    proc[p].stage = "change" /\ proc[p].command = "uninstall" /\ settings["path"] # NoValue
      => "path" \in proc[p].seen

\* Of two processes one installs or removes.
LEMMA OneAtATime ==
  ASSUME IInv, ~overlap, NEW p \in Procs, NEW q \in Procs,
         Running(p, {"install", "uninstall"}), Running(q, {"install", "uninstall"})
  PROVE  p = q
BY DEF IInv, OneChanges

LEMMA SeesPathStep == IInv /\ SeesPath /\ [Next]_vars => SeesPath'
<1> SUFFICES ASSUME IInv, SeesPath, [Next]_vars, ~overlap', NEW q \in Procs,
                    proc'[q].stage = "change", proc'[q].command = "uninstall",
                    settings'["path"] # NoValue
             PROVE  "path" \in proc'[q].seen
  BY DEF SeesPath
<1>1. proc \in [Procs -> Proc] /\ "path" \in Keys /\ "path" \notin DbKeys
  BY Values DEF IInv, TypeOK
<1>2. CASE proc'[q] = proc[q] /\ settings'["path"] = settings["path"] /\ ~overlap
  BY <1>2 DEF SeesPath
<1>3. CASE UNCHANGED vars
  BY <1>2, <1>3 DEF vars
<1>4. ASSUME NEW p \in Procs, CallSome(p) PROVE "path" \in proc'[q].seen
  <2>1. PICK x : x.stage = "called" /\ proc' = [proc EXCEPT ![p] = x]
    BY <1>4 DEF CallSome, Call
  <2>2. settings' = settings /\ ~overlap
    BY <1>4 DEF CallSome, Call
  <2>3. q # p
    BY <1>1, <2>1
  <2> QED BY <1>1, <1>2, <2>1, <2>2, <2>3
<1>5. ASSUME NEW p \in Procs, BeginInstall(p) \/ BeginUninstall(p) \/ AccessError(p)
      PROVE  "path" \in proc'[q].seen
  <2>0. UNCHANGED <<settings, overlap>>
    BY <1>5 DEF BeginInstall, BeginUninstall, AccessError
  <2>1. settings' = settings /\ ~overlap
    BY <2>0
  <2>2. CASE q # p
    <3>1. proc'[q] = proc[q]
      BY <1>1, <1>5, <2>2 DEF BeginInstall, BeginUninstall, AccessError
    <3> QED BY <1>2, <2>1, <3>1
  <2>3. CASE q = p
    <3>0. proc[p] \in Proc
      BY <1>1
    <3>1. CASE BeginInstall(p)
      <4>1. proc'[p] = Idle("install", TRUE) \/ proc'[p] = [proc[p] EXCEPT !.stage = "change"]
        BY <1>1, <3>1 DEF BeginInstall
      <4>2. proc[p].command = "install"
        BY <3>1 DEF BeginInstall
      <4>3. proc'[p].command = "install"
        BY <3>0, <4>1, <4>2 DEF Idle, Proc
      <4> QED BY <2>3, <4>3
    <3>2. CASE BeginUninstall(p)
      <4>1. \/ proc'[p] = Idle("uninstall", TRUE)
            \/ proc'[p] = [proc[p] EXCEPT !.stage = "change", !.seen = Stored]
        BY <1>1, <3>2 DEF BeginUninstall
      <4>2. proc'[p] # Idle("uninstall", TRUE)
        BY <2>3 DEF Idle
      <4>3. proc'[p].seen = Stored
        BY <3>0, <4>1, <4>2 DEF Proc
      <4>4. "path" \in Stored
        BY <1>1, <2>1 DEF Stored
      <4> QED BY <2>3, <4>3, <4>4
    <3>3. CASE AccessError(p)
      <4>1. proc'[p].stage = "idle"
        BY <1>1, <3>3 DEF AccessError, Idle
      <4> QED BY <2>3, <4>1
    <3> QED BY <1>5, <3>1, <3>2, <3>3
  <2> QED BY <2>2, <2>3
<1>6. ASSUME NEW p \in Procs, Install(p) \/ Uninstall(p) \/ SetDB(p)
      PROVE  "path" \in proc'[q].seen
  <2>1. PICK c : proc' = [proc EXCEPT ![p] = Idle(c, TRUE)]
    BY <1>6 DEF Install, Uninstall, SetDB
  <2>2. q # p /\ proc'[q] = proc[q] /\ ~overlap
    <3>1. q # p
      BY <1>1, <2>1 DEF Idle
    <3>2. ~overlap
      BY <1>6 DEF Install, Uninstall, SetDB
    <3> QED BY <1>1, <2>1, <3>1, <3>2
  <2>3. Running(q, {"install", "uninstall"})
    BY <2>2 DEF Running
  <2>4. CASE Install(p) \/ Uninstall(p)
    <3>1. Running(p, {"install", "uninstall"})
      BY <2>4 DEF Running, Install, Uninstall
    <3> QED BY <2>2, <2>3, <3>1, OneAtATime
  <2>5. CASE SetDB(p)
    <3>1. settings'["path"] = settings["path"]
      BY <1>1, <2>5 DEF SetDB
    <3> QED BY <1>2, <2>2, <3>1
  <2> QED BY <1>6, <2>4, <2>5
<1> QED BY <1>3, <1>4, <1>5, <1>6 DEF Next

\* What exit code 0 of -install and -uninstall means: uninstall() removes the path,
\* which it has seen, and isInstalled() finds a whole installation or the parameters
\* of a -setDB.
THEOREM ExitCodesMean == Spec => ExitCodeMeans
<1>1. Init => SeesPath
  BY DEF Init, SeesPath, Idle
<1>2. IInv /\ SeesPath /\ [Next]_vars =>
        [\A p \in Procs : ExitsWithZero(p) /\ ~overlap =>
           /\ proc[p].command = "uninstall" => settings'["path"] = NoValue
           /\ proc[p].command = "install" =>
                settings'["path"] # NoValue \/ \A k \in DbKeys : settings[k] # NoValue]_vars
  <2> SUFFICES ASSUME IInv, SeesPath, Next, ~overlap, NEW q \in Procs,
                      ExitsWithZero(q)
               PROVE  /\ proc[q].command = "uninstall" => settings'["path"] = NoValue
                      /\ proc[q].command = "install" =>
                           settings'["path"] # NoValue \/ \A k \in DbKeys : settings[k] # NoValue
    OBVIOUS
  <2>0. /\ proc \in [Procs -> Proc] /\ "path" \in Keys /\ NoValue \notin Programs
        /\ DOMAIN settings = Keys
        /\ \A k \in Keys : k \in DbKeys \/ k = "path" \/ k = "automaticStartup"
    BY Values DEF IInv, TypeOK
  <2>1. proc[q].stage # "idle" /\ proc'[q].stage = "idle" /\ proc'[q].result
    BY DEF ExitsWithZero
  <2>2. ASSUME NEW p \in Procs, CallSome(p) PROVE FALSE
    <3>1. PICK x : x.stage = "called" /\ proc' = [proc EXCEPT ![p] = x]
      BY <2>2 DEF CallSome, Call
    <3> QED BY <2>0, <2>1, <3>1
  <2>3. ASSUME NEW p \in Procs, BeginInstall(p)
        PROVE  proc[q].command = "install"
               /\ (settings'["path"] # NoValue \/ \A k \in DbKeys : settings[k] # NoValue)
    <3>1. q = p
      BY <2>0, <2>1, <2>3 DEF BeginInstall
    <3>2. proc[p] \in Proc
      BY <2>0
    <3>3. IsInstalled
      <4> SUFFICES ASSUME ~IsInstalled PROVE FALSE
        OBVIOUS
      <4>1. proc'[p] = [proc[p] EXCEPT !.stage = "change"]
        BY <2>0, <2>3 DEF BeginInstall
      <4>2. proc[p] \in Proc => [proc[p] EXCEPT !.stage = "change"].stage = "change"
        BY DEF Proc
      <4> QED BY <2>1, <3>1, <3>2, <4>1, <4>2
    <3>4. PICK k \in Keys : settings[k] # NoValue
      BY <3>3 DEF IsInstalled, Stored
    <3>5. settings["path"] # NoValue \/ \A j \in DbKeys : settings[j] # NoValue
      BY <2>0, <3>4 DEF IInv, GroupsAreWhole
    <3> QED BY <2>3, <3>1, <3>5 DEF BeginInstall
  <2>4. ASSUME NEW p \in Procs, BeginUninstall(p)
        PROVE  proc[q].command = "uninstall" /\ settings'["path"] = NoValue
    <3>1. q = p
      BY <2>0, <2>1, <2>4 DEF BeginUninstall
    <3>2. proc[p] \in Proc
      BY <2>0
    <3>3. ~IsInstalled
      <4> SUFFICES ASSUME IsInstalled PROVE FALSE
        OBVIOUS
      <4>1. proc'[p] = [proc[p] EXCEPT !.stage = "change", !.seen = Stored]
        BY <2>0, <2>4 DEF BeginUninstall
      <4>2. proc[p] \in Proc =>
              [proc[p] EXCEPT !.stage = "change", !.seen = Stored].stage = "change"
        BY DEF Proc
      <4> QED BY <2>1, <3>1, <3>2, <4>1, <4>2
    <3>4. settings["path"] = NoValue
      BY <2>0, <3>3 DEF IsInstalled, Stored
    <3> QED BY <2>4, <3>1, <3>4 DEF BeginUninstall
  <2>5. ASSUME NEW p \in Procs, AccessError(p) PROVE proc[q].command = "setDB"
    <3>1. q = p
      BY <2>0, <2>1, <2>5 DEF AccessError
    <3>2. PICK ok : ok = (proc[p].command = "setDB")
      OBVIOUS
    <3>3. proc'[p] = Idle(proc[p].command, ok)
      BY <2>0, <2>5, <3>2 DEF AccessError
    <3>4. Idle(proc[p].command, ok).result = ok
      BY DEF Idle
    <3> QED BY <2>1, <3>1, <3>2, <3>3, <3>4
  <2>6. ASSUME NEW p \in Procs, Install(p)
        PROVE  proc[q].command = "install" /\ settings'["path"] # NoValue
    <3>1. q = p
      BY <2>0, <2>1, <2>6 DEF Install
    <3>2. proc[p].command = "install" /\ proc[p].value \in Programs
      BY <2>6 DEF Install, IInv, ValuesFit
    <3>3. settings'["path"] = proc[p].value
      BY <2>0, <2>6 DEF Install
    <3> QED BY <2>0, <3>1, <3>2, <3>3
  <2>7. ASSUME NEW p \in Procs, Uninstall(p)
        PROVE  proc[q].command = "uninstall" /\ settings'["path"] = NoValue
    <3>1. q = p
      BY <2>0, <2>1, <2>7 DEF Uninstall
    <3>2. settings["path"] # NoValue => "path" \in proc[p].seen
      BY <2>7 DEF Uninstall, SeesPath
    <3> QED BY <2>0, <2>7, <3>1, <3>2 DEF Uninstall
  <2>8. ASSUME NEW p \in Procs, SetDB(p) PROVE proc[q].command = "setDB"
    BY <2>0, <2>1, <2>8 DEF SetDB
  <2> QED BY <2>2, <2>3, <2>4, <2>5, <2>6, <2>7, <2>8 DEF Next
<1> QED BY InitIInv, NextIInv, SeesPathStep, <1>1, <1>2, PTL DEF Spec, ExitCodeMeans

=============================================================================
