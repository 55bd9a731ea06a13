----------------------------- MODULE ParserDaemon -----------------------------
(***************************************************************************)
(* The parser daemon as a whole: one event loop that serves the control    *)
(* socket (CommandChannel), arms the timer of the crawl (ParseSchedule)    *)
(* and runs the crawl itself (ParserMain), through restarts and crashes.   *)
(*                                                                         *)
(* ParserService connects the three: start() reads the settings and        *)
(* creates the crawl scheduler, pause() and resume() pass the commands on. *)
(* The socket file and processes that start the daemon are the subject of  *)
(* UnixService; here the daemon is down, or can be reached.                *)
(***************************************************************************)
EXTENDS CommandChannel, ParseSchedule

CONSTANTS MaxStarts,  \* bound: times that the daemon is started
          MaxClock,   \* bound: the time of the last start
          MaxThreadsCount, DbRows, LastPage, MaxLinks, MaxDbErrors \* of ParserMain

ASSUME StartsAssumption == MaxStarts \in Nat /\ MaxClock \in Nat
ASSUME CrawlSettingsAssumption ==
  /\ MaxThreadsCount \in Nat /\ DbRows \in Nat /\ LastPage \in Nat \ {0}
  /\ MaxLinks \in Nat /\ MaxDbErrors \in Nat

VARIABLES
  process,  \* "down"; "starting" until slotStart; "running"; "quitting"
  starts,   \* starts so far
  \* The variables of ParserMain.
  disabled, phase, sitedbOpen, parserOffset, workers_count, pageActiveLoaderCount,
  categoryPages, productLinks, pageLoaders, linkLoaders, stamped, suppressed,
  dbErrors, rowsDone, linksFound, productsDone,
  \* History, read by properties only.
  lastLoad, \* over all starts: when the last crawl began, the time that its timer
            \* was set to, and the interval
  quiet,    \* clients in a call of pause during which nobody resumes
  held      \* one of them was told that the service pauses, and nobody resumed it

PM == INSTANCE ParserMain

crawlVars ==
  <<disabled, phase, sitedbOpen, parserOffset, workers_count, pageActiveLoaderCount,
    categoryPages, productLinks, pageLoaders, linkLoaders, stamped, suppressed,
    dbErrors, rowsDone, linksFound, productsDone>>
vars == <<channelVars, scheduleVars, crawlVars, process, starts, lastLoad, quiet, held>>

Init ==
  /\ ChannelInit /\ ScheduleInit /\ PM!Init
  /\ process = "down" /\ starts = 0
  /\ lastLoad = [at |-> Never, due |-> Never, pi |-> 0]
  /\ quiet = {} /\ held = FALSE

Alive == process # "down"
InEventLoop == process \in {"running", "quitting"}

-----------------------------------------------------------------------------
(***************************************************************************)
(* The life of the process.                                                *)
(***************************************************************************)

\* The detached process begins; clients can connect as soon as sysSetPath() has
\* run.
Start ==
  /\ process = "down" /\ starts < MaxStarts
  /\ process' = "starting" /\ starts' = starts + 1
  /\ clock' \in clock..(IF clock > MaxClock THEN clock ELSE MaxClock)
  /\ UNCHANGED <<channelVars, ParseInterval, due, crawlVars, lastLoad, quiet, held>>

\* The process is gone, and with it all that was in its memory.
Ends ==
  /\ process' = "down" /\ quiet' = {} /\ held' = FALSE
  /\ ChannelEnds
  /\ ParseInterval' = 0 /\ due' = Never
  /\ disabled' = FALSE /\ phase' = "armed" /\ sitedbOpen' = FALSE
  /\ parserOffset' = 0 /\ workers_count' = 0 /\ pageActiveLoaderCount' = 0
  /\ categoryPages' = <<>> /\ productLinks' = <<>>
  /\ pageLoaders' = <<>> /\ linkLoaders' = <<>>
  /\ stamped' = FALSE /\ suppressed' = FALSE
  /\ dbErrors' = 0 /\ rowsDone' = 0 /\ linksFound' = 0 /\ productsDone' = 0

\* ParserService::start, the first thing the event loop does: the settings are
\* read and the timer is armed.  An interval of 0 is divided by.
SlotStart ==
  /\ process = "starting"
  /\ \E pi \in Intervals :
       \/ /\ pi = 0
          /\ Ends
          /\ UNCHANGED <<clock, starts, lastLoad>>
       \/ /\ pi # 0
          /\ process' = "running"
          /\ ParseInterval' = pi /\ due' = Armed(clock, pi)
          /\ UNCHANGED <<channelVars, clock, crawlVars, starts, lastLoad, quiet, held>>

\* parseTimer: load(), which exits when the database cannot be opened.
TimerFires ==
  /\ InEventLoop /\ phase = "armed" /\ due # Never
  /\ clock' \in FiringTimes(clock, due)
  /\ \/ /\ PM!Load
        /\ lastLoad' = [at |-> clock', due |-> due, pi |-> ParseInterval]
        /\ UNCHANGED <<channelVars, ParseInterval, due, process, starts, quiet, held>>
     \/ /\ Ends
        /\ UNCHANGED <<starts, lastLoad>>

CrawlStep ==
  /\ InEventLoop
  /\ PM!JobStep
  /\ UNCHANGED <<channelVars, scheduleVars, process, starts, lastLoad, quiet, held>>

\* The event loop has ended after quit(), or the process dies.
Gone == Alive /\ Ends /\ UNCHANGED <<clock, starts, lastLoad>>

-----------------------------------------------------------------------------
(***************************************************************************)
(* The commands.                                                           *)
(***************************************************************************)

\* ParserService::pause() and resume() do nothing themselves.
Execute_Ignores(command) ==
  /\ process' = IF command = "terminate" THEN "quitting" ELSE process
  /\ UNCHANGED crawlVars

\* What slotReady() does about a command.  The service can be stopped and suspended.
Execute(command) ==
  /\ process' = IF command = "terminate" THEN "quitting" ELSE process
  /\ IF command = "pause" /\ ~disabled THEN PM!Pause
     ELSE IF command = "resume" /\ disabled THEN PM!Resume
     ELSE UNCHANGED crawlVars

ReadyRead(a) ==
  LET q == Cached(a)
  IN  /\ InEventLoop
      /\ SlotReady(a, HasCommand(q) /\ Command(q) \in Commands)
      /\ IF HasCommand(q) THEN Execute(Command(q)) ELSE UNCHANGED <<process, crawlVars>>
      /\ UNCHANGED <<scheduleVars, starts, lastLoad, quiet, held>>

\* A resume is on its way, or its sender was killed and it may be executed yet.
Resuming == \/ \E c \in Clients : InCall(c) /\ client[c].cmd = "resume"
            \/ \E a \in Addrs : \E i \in DOMAIN Cached(a) : Cached(a)[i].cmd = "resume"

Call(c) ==
  \E cmd \in Sent, a \in Addrs :
    /\ Alive /\ Connect(c, cmd, a)
    /\ quiet' = CASE cmd = "pause" /\ ~Resuming -> quiet \cup {c}
                  [] cmd = "resume"             -> {}
                  [] OTHER                      -> quiet
    /\ held' = (held /\ cmd # "resume")

CallReturns(c) ==
  /\ GetReply(c)
  /\ quiet' = quiet \ {c}
  /\ held' = (held \/ (c \in quiet /\ client[c].reply = "true" /\ ~torn))

ClientStep(c) ==
  /\ \/ Call(c) \/ CallReturns(c)
     \/ Write(c) /\ UNCHANGED <<quiet, held>>
     \/ Die(c) /\ quiet' = quiet \ {c} /\ UNCHANGED held
  /\ UNCHANGED <<scheduleVars, crawlVars, process, starts, lastLoad>>

Closed(a) ==
  /\ InEventLoop /\ SlotClosed(a)
  /\ UNCHANGED <<scheduleVars, crawlVars, process, starts, lastLoad, quiet, held>>

-----------------------------------------------------------------------------
Next == \/ Start \/ SlotStart \/ TimerFires \/ CrawlStep \/ Gone
        \/ \E c \in Clients : ClientStep(c)
        \/ \E a \in Addrs : ReadyRead(a) \/ Closed(a)

Spec == Init /\ [][Next]_vars

-----------------------------------------------------------------------------
(***************************************************************************)
(* Properties.                                                             *)
(***************************************************************************)

\* A command that arrives in pieces is executed once and as it was sent, and
\* answered then and only then, unless a client was killed in the middle of one:
\* the next command at the address of its socket is then taken for another.
ExecutedAsSent ==
  ~torn => \A c \in Clients : InCall(c) =>
             ran[c] = IF client[c].reply = "none" THEN <<>> ELSE <<client[c].cmd>>

\* Whatever a killed client left at an address, a call executes no command that its
\* caller did not send, or one "num:" command that began before it; and it returns
\* true if it executed one of these, false if none was to be made out.
NothingForged ==
  \A c \in Clients : InCall(c) =>
    ran[c] \in CASE client[c].reply = "none"  -> {<<>>}
                [] client[c].reply = "true"  -> {<<client[c].cmd>>, <<"num">>}
                [] client[c].reply = "false" -> {<<"unknown">>}

\* Once a client has been told that the service pauses, no category page is opened
\* until somebody sends a resume or the service is started again.
PauseHolds == [][held /\ held' => ~PM!OpensPage]_vars

\* However often the service is restarted, two crawls are an interval apart (one
\* that divides the day), less what the timer is off.  A restart repeats a crawl
\* only if that one came early and the time that it was meant for is still to come.
LoadsApart ==
  [][/\ phase = "armed" /\ phase' = "crawling"
     /\ lastLoad.at # Never /\ lastLoad.pi = ParseInterval
     /\ Usable(ParseInterval) /\ Day % ParseInterval = 0
     => \/ clock' - lastLoad.at >= ParseInterval - (Early + Late)
        \/ lastLoad.at < lastLoad.due /\ due = lastLoad.due]_vars

\* A daemon that runs and will never crawl was given an interval that the timer
\* cannot hold; any other is on its way to the next multiple.
SilentOnlyIf ==
  process = "running" /\ phase = "armed" /\ Usable(ParseInterval)
    => due > clock - 1 /\ due - clock <= ParseInterval

=============================================================================
