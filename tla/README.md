# Specifications of the parser service

The parser service is a daemon that crawls the category pages of shops, follows
the product links, reads each product with a script and has its text translated.
It is built on Qt: the crawl runs on the browser engine, the daemon part is the
QtService solution in `qtservice/`, with one implementation for Unix and one for
Windows. This directory holds TLA+ modules translated from that code, TLC runs
that check them on small instances, and proofs, checked by TLAPS, that hold for
every value of the constants.

Line numbers below are those of the files in the repository (`parsermain.cpp`,
`qtservice/src/...`).

1. [The system](#1-the-system)
2. [The modules](#2-the-modules)
3. [The runs, their bounds and their fairness](#3-the-runs-their-bounds-and-their-fairness)
4. [What is proved](#4-what-is-proved)
5. [Disagreements between code and documentation](#5-disagreements-between-code-and-documentation)
6. [What is not modelled](#6-what-is-not-modelled)
7. [Plan](#7-plan)
8. [How to run everything](#8-how-to-run-everything)

## 1. The system

| Component | State it keeps | Operations | Talks to |
|---|---|---|---|
| **ParserMain** (`parsermain.cpp`), the crawl scheduler | two queues (`categoryPages`, `productLinks`), two counters (`workers_count`, `pageActiveLoaderCount`), `parserOffset`, the flag `disabled`, a single-shot timer, the connection `sitedb` | `load`, `pause`, `resume`, `manage_links`, `manage_category_page`, `manage_parsers`, `wpFinished`, `loadPage`, `loadDbData` | MySQL; WebPages; the two parsers, by signals |
| **WebPage** (`webpage.cpp`) and the page scripts (`*.js`) | the row or link the page is for | `loadFinished` → `wpFinished` | ParserMain, the browser engine |
| **PageParser** (`pageparser.cpp`), the job of a category page | none of its own: two script callbacks | emits `getedLink`, then `pageParseEnd` or `parserEnd` | ParserMain |
| **ProductParser** (`productparser.cpp`), the job of a product page | the list of languages, the translated titles so far | script callback, `translate`, `productCreate` | ParserMain (`parserEnd`), MySQL, the translation service |
| **ParserService**, **ParserSettings**, `main.cpp` | the settings read from the database | `start` (creates ParserMain, whose constructor arms the timer), `pause`, `resume` | QtService, ParserMain, MySQL |
| **Unix daemon** (`qtservice_unix.cpp`, `qtunixserversocket.cpp`, `qtunixsocket.cpp`) | a socket file, a listening socket, connections, and `cache`: their text so far, by the address of the socket object | `sysSetPath`, `incomingConnection`, `slotReady`, `getCommand`, `slotClosed`, `sysCleanup` | controllers, through the socket; the service's `stop`/`pause`/`resume`/`processCommand` |
| **QtServiceController on Unix** | none | `isRunning`, `start`, `stop`, `pause`, `resume`, `sendCommand` | the daemon |
| **Windows service** (`qtservice_win.cpp`) | `status`, a mutex, a condition, two semaphores, posted events, three threads | `serviceMain`, `handler`, `handleCustomEvent`, `start`, `sysCleanup` | the service control manager (SCM), controllers |
| **Service database on Windows** (`qtservice_win.cpp`) | the entry of the service in the SCM, handles of it | `install`, `uninstall`, `start`, `stop`, `isInstalled`, the queries | the SCM |
| **Settings and command line** (`qtservice.cpp`, parts of the two others) | a group of QSettings keys | `-install`, `-uninstall`, `-setDB`, `-exec`, `-terminate`, `-pause`, ... | the controllers, the settings file |

**How they interact.** `ParserService::start` runs inside the daemon and creates
ParserMain, whose timer starts the crawl. From then on ParserMain is driven only
by events of its own pages: a page finishes loading (`wpFinished`), a script
answers, a parser ends. The parsers are moved to threads of their own
(`parsermain.cpp` 188–212) and talk to it by signals; the slots of ParserMain, the
pages, the timer and the control socket are handlers of the event loop of the main
thread. On Windows two more threads announce the start and receive the controls.
Controllers are other processes. On Unix the daemon and the
controllers share a socket file and nothing else, on Windows they share what the
SCM knows.

**What is hard here**, and what makes each component correct:

- *ParserMain.* Two counters are maintained by hand in five handlers that can be
  entered in any order, and the next work is started only by the end of other
  work. It is correct when the counters are exactly the pages in flight (no slot
  leaks, none is given away twice), when nothing found or read is lost or parsed
  twice, when there is always somebody left to start what waits, and when the
  table is stamped as parsed only once it is.
- *ProductParser.* The replies of the translation service arrive in any order,
  and the end is recognised by comparing two sizes. It is correct when
  `parserEnd` comes once, on the last reply, with all languages filed under their
  own keys, and when it does come: the slot in ParserMain depends on it.
- *Timer.* The first crawl is at the next multiple of an interval that comes from a
  table or from uninitialised memory, in milliseconds that an `int` has to hold, and the
  timer is coarse. It is correct when a usable interval is never missed and two crawls are
  an interval apart, but for what the timer is off, however often the service is restarted.
- *Control socket.* A command arrives in pieces, and what is kept of it outlives its
  socket. It is correct when each command is executed once, as it was sent, and then
  answered, and when a pause that was answered holds.
- *Unix daemon.* Starting is "ask, then act" across processes, `setPath` removes
  a file that may belong to somebody else, so does the cleanup, and a daemon can
  die between any two system calls. It is correct when there is one daemon, when
  that daemon can be reached, and when no caller waits for ever although
  `sendCmd` waits without a timeout.
- *Windows service.* Three threads, events that wake every waiting handler,
  a last status report outside the mutex, a stop that comes while the service still
  starts, time-outs on both sides. It is correct
  when the SCM shows what the application did, when no handler waits for an event
  that nobody handles, and when a service shown as stopped has ended.
- *Service database.* A removed entry goes when its last handle is closed, and every
  function opens one and has several ways out. It is correct when no way leaves a
  handle behind, and when what `-install` and `-uninstall` answer is true.
- *Settings.* Commands check first and write later. They are correct when what is
  stored is always the whole of one command.

The `hazards` of `PROJECT.json` list, line by line, what can go wrong and a test
would hardly reach, with the properties that watch it.

## 2. The modules

| Module | Models | Proofs |
|---|---|---|
| `Crawl` | what a crawl promises: the abstract specification of `ParserMain` | |
| `ServiceControl` | what a service promises to its callers: the abstract specification of `UnixService` | |
| `ServiceLife` | what a service promises the SCM: the abstract specification of `WinService` | |
| `ParserMain` | the scheduler, with the parsers and pages as it sees them | `ParserMainProofs` (counters, queues, the stamp), `CrawlOrderProofs` (order, progress, refinement) |
| `ProductParser` (`MCProductParser` gives the languages) | one product page | `ProductParserProofs` |
| `ParseSchedule` | the arithmetic of the timer | with `ParserDaemon` |
| `CommandChannel` | commands in pieces, sockets, `cache` | with `ParserDaemon` |
| `ParserDaemon` (`MCParserDaemon` gives the intervals) | the daemon: `CommandChannel`, `ParseSchedule` and `ParserMain` on one event loop, through restarts | `ParserDaemonProofs` |
| `UnixService` | daemons, controllers and the socket file | `UnixServiceProofs` |
| `WinService` | the three threads of the service process, the SCM, controllers | `WinServiceProofs` |
| `ServiceDatabase` | installing and removing the service on Windows | `ServiceDatabaseProofs` |
| `ServiceRegistry` | the commands that change the settings, on Unix | `ServiceRegistryProofs` |

`ParserDaemon` extends the two small modules and has `ParserMain` as an instance:
its steps are those of the three, conjoined where the code calls from one into the
other. `ParserMain` implements `Crawl`, `UnixService` implements `ServiceControl` and
`WinService` implements `ServiceLife`. The others stand alone: what they share with
the daemon is a socket file (`UnixService`) or the state that the SCM keeps
(`WinService`, of whose process `ServiceDatabase` sees the state only).

Conventions. An action is one whole handler, or, between processes and threads,
one step that another process or thread can observe. Names are those of the code
where TLA+ allows it. History variables are named as such, and only properties
read them. A definition called `<definition>_<Bug>` is a mutant: the definition
with a plausible bug, which nothing else uses; with it put in place of the
definition, the property that `PROJECT.json` names for it must fail.

### ParserMain

`disabled`, `parserOffset`, `workers_count`, `pageActiveLoaderCount`,
`categoryPages` and `productLinks` are the members of the same names. `phase`
abstracts the timer and the life of the process: *armed* until the timeout,
*crawling* after `load()`, *exited* when `load()` could not open the database and
called `exit(0)`. `pageLoaders` and `linkLoaders` are the live WebPages, each
with its parser; a category page goes through *loading*, *parsing* and *linked*,
because PageParser runs two scripts whose answers arrive in the order they were
asked for. A row is its id and the number of its current page, a link is where it
was found. `stamped` is `date_last_parse`, which the code writes for all rows.

| Action | Code |
|---|---|
| `Load`, `LoadFails` | `load`, 37–68 |
| `Pause`, `Resume` | 27–35 |
| `PageLoaded`, `LinkLoaded` | `wpFinished`, 184–214 |
| `GetedLink(i, n)` | `manage_links` for the n links of a page, 70–92 |
| `NextPage(i)` | `manage_category_page`, 94–116 |
| `NoNextPage(i)`, `ProductEnd(i)` | `manage_parsers`, 118–177, for the end of a category and of a product |

The loops "while something waits and a slot is free" are `Started`: how many
entries such a loop starts. `GetedLink` stands for all links of one script answer,
because PageParser emits them in one loop without returning to the event loop. A
failing SELECT is kept as the code has it: `QSqlQuery::size()` is -1, is added to
the offset, and the row before the window is read again. The history variables
count what was read, found and finished (`rowsDone`, `linksFound`,
`productsDone`, `dbErrors`); `suppressed` says that a pause kept `loadPage` or
`loadDbData` from doing anything.

`Crawl` is the promise behind it: rows are read in the order of the table and once
each, links are found only by a row that is in hand, each is fetched once, and the
stamp comes when nothing is left. The mapping (`RowStatus`, `OpenLinkSet`) forgets
windows, queues, slots and counters; a link is mapped together with the row whose
selectors its page is parsed with. A pause may hold rows back for good and a failing
SELECT may repeat one: both are inputs of `Crawl`, and weaken it where it says so.

`CrawlProgresses` is the safety side of "the crawl ends": the steps that the pages of the table
have still to take (`PagesAhead`), with those of the links on them (`LinksAhead`), get fewer with
every handler (`WorkLeft`), so the scheduler cannot go in circles. A failing SELECT makes a row be
read again, so it is stated while none has failed. A shop can: the code follows any next link, also
one that leads back (`pageparser.cpp` 38–41, `parsermain.cpp` 94–116), and would then crawl the same
pages for ever. That the pages of a category end (`LastPage`) is an assumption about the shops, on
which `CrawlProgresses`, `CrawlCompletes` and what follows from them depend.

### ProductParser

`languages` is the table `avaible_languages`, `title` the map
`product_item.title`, with the language of a text for the text. A language is the
sequence of its letters, as the code cuts it out of the reply: `Key` is
`right(indexOf('-'))`, which takes the position of the dash for a length.
`Translate` is the script callback with the loop of requests, `ProductCreate(i)`
the reply for the i-th language, `ProductCreateError(i)` a reply without
translation, whose `text.at(0)` reads past the end of an empty list: the process
dies, or something is filed under the empty key.

### ParseSchedule, CommandChannel and ParserDaemon

`ParseSchedule` counts whole seconds from a midnight, as the constructor of ParserMain
does (`parsermain.cpp` 5–24): `FirstTimer` is the time to the next multiple, with the
remainder of C++, and `Armed` what the `int` of `QTimer::setInterval` makes of it in
milliseconds. `Milli` and `MaxInt` are constants, so that a small instance meets the end
of the int. `ParseInterval` may be anything that a row of `site_settings`, or
uninitialised memory, can hold. The code leaves the timer type of QTimer at its default, a
coarse timer, which may fire before or after its time: `FiringTimes` is a window of `Early`
and `Late` seconds around it, any numbers, so that a busy event loop is part of `Late`.

`CommandChannel` is `sendCmd`, `incomingConnection`, `slotReady`, `getCommand` and
`slotClosed` (`qtservice_unix.cpp` 94–108 and 311–378). A command is two pieces, the second
with the line break. `cache` is kept by address and not cleared by `slotClosed`, and a new
socket may get an address that was used before, so what a killed client leaves can precede
the next command (`torn` is history: that may have happened).

`ParserDaemon` puts them together. `SlotStart` is `ParserService::start`: an interval of 0
is divided by and ends the process. `TimerFires` is the timeout with `load()`, which may
call `exit(0)`, at any of the `FiringTimes`; `CrawlStep` any other step of ParserMain; `ReadyRead` passes a command on
(`Execute`), `Gone` is the end after `quit()`, or a signal, at any moment, and forgets all
that was in memory. `lastLoad`, `quiet` and `held` are history.

### UnixService

`socketFile` says whose socket the file in `/var/tmp` names. A daemon is a record
of its phase (spawned, unlinked, bound, serving, quitting, closed, gone), whether
it listens and whether it remembers its path; a controller is a record of its call
and of how far its connection has come (backlog, accepted, answered).

| Action | Code |
|---|---|
| `Call`, `Connect`, `ConnectFails`, `GetReply`, `GetEof` | `sendCmd`, `isRunning`, `start`, `stop`, ..., `qtservice_unix.cpp` 94–108, 212–265 |
| `Spawn`, `SpawnFails` | `QtServiceBasePrivate::start`, 407–417 |
| `Unlink`, `Bind`, `Listen` | `setPath`, `qtunixserversocket.cpp` 64–82, one system call each |
| `Accept`, `SlotReady` | `incomingConnection`, `slotReady`, 311–361 |
| `CloseFd`, `UnlinkPath` | `close`, `qtunixserversocket.cpp` 85–92 |
| `Crash` | a signal, or `exit(0)` in `ParserMain::load` |

`reckless` is history: somebody started or stopped the service while another start
or stop was still going on. Properties that hold for careful callers say
`~reckless`; the runs `unix_unseen` and `unix_stop_early` show what the others meet.

`ServiceControl` is what callers may rely on: a command is carried out by one daemon at one
moment between call and return, or not at all; "true" is said only of a command that was; and
that there is no service is said only when none is up. `LifeOf` forgets the socket file and the
system calls on the way up and down, `CallOf` forgets connections: a call that was accepted has
reached its daemon, one with an answer in its buffer is answered. That commands overlap
(`careless`) is an input, and weakens what is said of the number of daemons and of finding one.

### WinService

`scm` is what the SCM knows and `status` the field `dwCurrentState`; they differ
because the last report of `handler()` (657) is made after the unlock, from a
status read before. `main` is the main thread, `thread` holds serviceMain and the
dispatcher, both of which run `handler()`; `queue` holds the posted events. There
is no variable for the mutex: each critical section ends in one action (`Enter`
is from `lock()` to `wait()`, `Complete` from the end of `wait()` to `unlock()`,
`RunCallback` and `WakeAll` are `handleCustomEvent` before and under the mutex).
Only what is outside a critical section is split: `ReadStatus` and `Report`.

The SCM is external and modelled as far as the code relies on it: it sends one
control at a time, none to a service that is not up or is stopping, none that the
service does not accept, and none after a shutdown; it stops waiting for a handler
after some time (`TimeOut`). While a service starts it is sent a stop and nothing else
(`Deliverable`): this one says that it accepts a stop from `sysInit` on (952), with the
first status that it reports (611). `overtaken` is history: handlers overlapped, because
one set or waited for a status while the other's was still to come (a stop during the
start) or to be reported (a report that comes late); a start begins with a clean record.

`ServiceLife` is the same service without threads, events and time-outs: a control is
announced, carried out by the application, once, and then shown as done; the start is first,
nothing comes after the stop, and "stopped" is shown of what has ended. When codes overlapped
(`raced`, which is `overtaken`) another state may be shown, though "stopped" only when it is true,
and other codes be announced; they are still carried out once each and in their order, after the
start. Only two things may begin a race: a stop of a service that starts, and a late report.

### ServiceDatabase

One action is one call into the SCM: a command of `QtServiceBase::exec` (`Exec`) runs through
the functions of the controller (`qtservice_win.cpp` 134–348, 855–936), each of which opens the
entry (`OpenService`), does one thing with it (`Query`, `DeleteService`, `StartService`,
`ControlStop`, `Poll`, `Describe`) and closes it (`CloseHandle`). `Settle` is the SCM: an entry
that was marked for deletion goes when the service has stopped and the last handle is closed.
`-install` passes on the account that it was given, so `CreateService` fails for one that does not
exist ("unknown"). `Die` kills a process anywhere.

### ServiceRegistry

`settings` is the group of QSettings keys of the service. A command reads the
file when it opens it and writes its changes in one `sync()`: so each command is
a check (`BeginInstall`, `BeginUninstall`) and a write (`Install`, `Uninstall`,
`SetDB`), and those of two commands interleave. `overlap` is history.

## 3. The runs, their bounds and their fairness

| Run | Configuration | Distinct states | Shows |
|---|---|---|---|
| `crawl` | `ParserMain.cfg` | 266,612 | the whole crawl with pauses at any moment: safety, its end, that it does not go in circles, and that it implements `Crawl` |
| `product` | `ProductParser.cfg` | 2,426 | every table of languages, every order of replies |
| `daemon` | `ParserDaemon.cfg` | 2,788,490 | commands in pieces, no command that nobody sent, pauses that hold, and the time of the crawl, through restarts |
| `unix_daemon` | `UnixService.cfg` | 115,188 | one reachable daemon for careful callers; stale files come from crashes only; every call returns; implements `ServiceControl` |
| `win_service` | `WinService.cfg` | 346,395 | the threads, the SCM and every control, over two starts; implements `ServiceLife` |
| `win_install` | `ServiceDatabase.cfg` | 291,194 | no handle stays open; what -install and -uninstall answer is true |
| `registry` | `ServiceRegistry.cfg` | 2,856 | commands at the same time leave the whole of one command; what exit codes say |
| `crawl_resume`, `unix_unseen`, `unix_stop_early`, `win_cleanup`, `registry_install` | | | a disagreement each, see section 5 |

**Bounds.**

- *crawl*: two slots, three rows, two pages per category, at most two links per
  page, one failing SELECT. Three rows make two SELECT windows, the second of which is
  not full; two links with two slots make links wait while a page holds a slot, and let
  a row go on to its next page with links of the page before it still queued.
- *product*: up to three languages out of "ru", "hr" and "mhr", sources of two and
  of three letters. "hr" and "mhr" share a key after a source of two letters and not
  after one of three; equal rows in the table are included; two error replies are
  the number at which the error key, too, is shared.
- *daemon*: two clients with one call each, two addresses, so that an address is used again
  after a killed client; two starts within a day of six seconds; intervals of -2, 0, 3, 4
  and 9, of which 4 does not divide the day and 9 does not fit into an `int` that ends at 15,
  with two milliseconds to the second. A service starts up to two seconds after midnight, and
  timers fire up to a second early or late, which is enough for a crawl that comes early or late,
  a restart, and a second crawl from the other side. The crawl has one slot, two rows of one page, one link.
- *unix_daemon*: two controllers, which are enough for "check, then act" races, two daemons
  and one crash. The proofs cover more.
- *win_service*: one controller is enough because a time-out sets it free while its
  control is still being handled, so the next one overlaps with it; two starts show
  what the state of one process leaves to the next.
- *win_install*: two processes, one of them without the rights of an administrator, with all
  commands and every kind of account (none, one of the system, a user's, one that does not exist),
  in any number of calls.
- *registry*: two commands, two executables, two databases.

**Fairness**, each where the scheduling of the code justifies it:

- *ParserMain*: weak fairness of the timer and of the pages in flight as a whole:
  the browser reports the end of a load whether or not it succeeded, scripts answer
  and a product ends (for that, see `SlotLeaksOnlyIf` below: it does not always).
  No fairness makes the operator pause or resume.
- *ProductParser*: weak fairness of the next step: the script answers, and the
  service sends some reply to every request.
- *UnixService*: weak fairness of each process, of each daemon's way up and down
  and of each connection in the event loop. No call and no crash has to happen.
- *WinService*: weak fairness of the main thread and of both others; strong
  fairness of leaving the event loop after `quit()`, because the loop takes up its
  exit flag between two events and so is not kept from it for ever; weak fairness of
  the exit of a process whose `start()` has returned.
- *ParserDaemon*, *ServiceDatabase* and *ServiceRegistry*: none; their properties are
  invariants and say what a step may never do.

**Properties that deserve a remark.**

- `WaitOnlyWhenFull` and `NeverStalled` together say that waiting work always has
  somebody who will fetch it. They are the safety side of `CrawlCompletes`. A pause that
  falls into a handler's `loadPage` is excused (`suppressed`); `crawl_resume` shows that
  it has to be.
- `SlotLeaksOnlyIf` names exactly what keeps a product page from ever giving its
  slot back: an empty table of languages, two languages under one key, or two error
  replies. Outside these `ProductEnds` shows that it ends. ParserMain assumes that
  products end: in one of those cases its liveness does not apply.
- `NobodyWaitsInVain` is about behaviours in which no handlers overlapped; `HandlersReturn`,
  `StartIsShown`, `StopEndsProcess` and `StoppedMeansEnded` hold with a stop during the start and
  with late reports, too.
- `SilentOnlyIf` says which daemons will crawl: all whose interval is positive and fits
  into the timer. An interval that does not fit may still fire, at a wrong time, or never.
- `PauseHolds` begins when a client has been answered, not when it has sent the pause, and
  ends when anybody sends a resume or the process does. `ExecutedAsSent` excuses what follows
  a client that was killed between its pieces (`torn`).
- `NothingForged` says what may happen then: a call executes what its caller sent, or one
  "num:" command that was begun before it at its address (the beginning of the killed client's,
  with the caller's command as the rest of its text), or nothing; a stop, a pause
  or a resume is executed for nobody who has not sent it.
- `ExitCodeMeans` (of `ServiceRegistry`) is about commands that do not overlap: `-uninstall` that exits with 0 leaves no
  installation; `-install` that does leaves one, or had met the parameters of a `-setDB`, which
  it takes for one (section 5).
- `LoadsApart` needs an interval that divides the day: multiples are counted from midnight. Two
  crawls may be closer than the interval by what the two timers were off, and a service that is
  restarted after a crawl that came early repeats it, because the time that it was meant for is
  still to come; nothing else brings crawls closer.
- `InstallFailsOnlyIf` knows the accounts that exist; other refusals of the SCM are not modelled
  (section 6).
- Deadlock is checked except where a run really may stop: a crawl that has ended or
  whose process has exited, a product with all its replies, a daemon that has been started
  as often as the bound allows.

## 4. What is proved

All proofs are for every value of the constants, under the assumptions named in the
modules: the bounds are natural numbers (`CrawlAssumption`: at least one page per
category), intervals are integers, the day, the second and the int are positive, timers are off by
natural numbers of seconds, the flags
and the calls are some of those that exist, and languages are non-empty sequences of
letters. No theorem assumes anything of fairness. Every safety property that a run checks
is a theorem.

| Module | Theorem: property |
|---|---|
| `ParserMainProofs` | `TypeCorrect`: `TypeOK`; `SlotsExact`: `SlotsAreExact`; `WaitingMeansFull`: `WaitOnlyWhenFull`; `NothingIsLost`: `NothingLost`; `NoStall`: `NeverStalled`; `StampIsLast`: `StampEndsWork`; `StampIsTrue`: `StampedMeansCrawled` |
| `CrawlOrderProofs` | `ProductsFirst`: `LinksBeforePages`; `OnePlace`: `RowInOnePlace`; `CrawlImplemented`: `ImplementsCrawl`; `CrawlNeverCircles`: `CrawlProgresses` |
| `ProductParserProofs` | `EndsOnce`: `EndsOnceOnLastReply`; `Translated`: `EndedMeansTranslated`; `LeaksOnlyIf`: `SlotLeaksOnlyIf` |
| `ParserDaemonProofs` | `UsableIsNeverSilent`: `SilentOnlyIf`; `CrawlsAreApart`: `LoadsApart`; `CommandsRunAsSent`: `ExecutedAsSent`; `CommandsAreNotForged`: `NothingForged`; `PauseIsKept`: `PauseHolds`; `CrawlIsSafeInDaemon`: the safety of ParserMain, inside the daemon |
| `UnixServiceProofs` | `OneDaemonAtATime`: `OneDaemon`; `RunningDaemonReachable`: `ServingIsReachable`; `StaleFileIsOfCrash`: `StaleFileMeansCrash`; `ControlImplemented`: `ImplementsServiceControl`; `TypeCorrect` |
| `WinServiceProofs` | `TypeCorrect`; `StoppedHasEnded`: `StoppedMeansEnded`; `StatusIsTrue`; `NobodyIsForgotten`: `NobodyWaitsInVain`; `StartIsFirst`; `OwnEventWakes`; `LifeImplemented`: `ImplementsServiceLife` |
| `ServiceDatabaseProofs` | `TypeCorrect`; `RemovalIsCompleted`: `RemovalCompletes`; `ExitCodesMean`: `ExitCodeMeans`; `InstallFailure`: `InstallFailsOnlyIf` |
| `ServiceRegistryProofs` | `TypeCorrect`; `WholeGroupsStored`: `GroupsAreWhole`; `FirstInstallStays`: `FirstInstallWins`; `ExitCodesMean`: `ExitCodeMeans` |

**ParserMainProofs.** The inductive invariant is `TypeOK`, the properties and three facts
that these need and do not say: `Phases` (before `load()` nothing has happened, and the
connection is open exactly from `load()` to the stamp), `OffsetBounded` (the offset does not
pass the table) and `StampedAfterLastRow` (an undisturbed stamp follows a window that was
empty). The properties cannot be proved one by one: that a slot is always free for the loop
in `NextPage` rests on `SlotAccounting`, that a queued link is always behind a full house
rests on both counters, and `NeverStalled` on all of them. A lemma for each loop
(`LoadPageMoves` and its like) says what it moves; then there is one lemma per action.

**CrawlOrderProofs.** `OInv` adds the order to that invariant (`InOrder`): the links in the
queue and with loaders are all different, the rows in hand are different and have been read
(without a failing SELECT), and an open link lies on a page that its row has left behind, or
on the one that it has just told of. So a link that is found is new, a row that a SELECT
delivers is in no other place, and each handler becomes, under the mapping, one step of
`Crawl` or none: `Find` for `GetedLink`, `Fetch` and `Finish`, with what is read on, for the
ends of a product and of a category. `StampedIsDone` shows that the stamp is a step that
`Crawl` allows. `CrawlNeverCircles` rests on the same invariant: no step that
is ahead is added by moving a row or a link between queue and slot, a row that a SELECT delivers
was ahead already, and since a row and a link are in one place, what a handler has done is ahead
of nobody else.

**ProductParserProofs.** The invariant counts: titles and requests without a reply
are together at most the languages (`Counted`). So a map as large as the table leaves
no request open, which is why the end comes with the last reply and only once; and
a map that has as many keys as there are languages, all from replies (`Filed`), has a
key for each, so no text was overwritten. For `LeaksOnlyIf` the other direction is needed:
with different keys and at most one error, every reply has added a title.

**ParserDaemonProofs.** An invariant for each question. `TInv`: while the daemon waits
for the timer the clock stands where the timer was armed, `due` is what `Armed` made of it,
and the last crawl was meant for a multiple of its interval and came in the window around it; the
rest is arithmetic of multiples (`MultiplesFollow`): the next one is the same, and then the last crawl
came early, or a whole interval later.
`ChannelInv`: each client and each socket know of each other (`Connected`), and unless a
client was killed in the middle of a command (`torn`), an address holds nothing, one piece or
the whole of a command exactly as its client has written it (`InOrder`). `ForgeInv` does without
`torn`: a line break is never in `cache`, because `slotReady` takes out every whole command before
it returns, and one in a socket is the end of the command of the client that waits there; what
precedes it can only be beginnings of commands, and only "num:" goes on to accept any text.
`PauseInv`: who is
`quiet` is in a call of pause while no resume is on its way, so once it has been answered the
service is `disabled`, and stays so until somebody resumes it. `PauseIsKept` needs more: that a
paused scheduler opens no page is a lemma of `CrawlOrderProofs` about an invariant of the crawl,
which is carried over by an instance of that module (`CrawlInvariant`): a step of the daemon is
a step of the crawl, none of it, or the end of the process, after which the crawl begins anew.
`CrawlIsSafeInDaemon` follows from it: what is proved of ParserMain by itself is not lost in the
composition.

**UnixServiceProofs.** While nobody was reckless, a start that is under way excludes
every other start or stop and every daemon on its way up or down, and once its
connection stands, its peer is the only living daemon (`StartUnderWay`): so an
unanswered "alive" means that there is none. `FileFollowsPhase` says what the phase of
a daemon implies for the socket file. `StaleFileIsOfCrash` holds for reckless callers, too; its
invariant (`FileHasOwner`) is that whoever the file names is still in `setPath()`, or remembers
the path and will remove it, or has crashed. For `ControlImplemented` `Connections` says of
each connection that its peer came up and that what its caller is told is what the daemon did.
That, with `StartUnderWay` for careful callers, makes every handler one step of
`ServiceControl`, or none.

**WinServiceProofs.** For `StoppedHasEnded` the status reported without the mutex is the crux:
the invariant adds that no thread is about to report "STOPPED" (`NoReportOfStopped`),
which holds because `handler()` skips its last report when it reads that status. The others
rest on the order of the events. `StartInv`: no control is delivered until serviceMain has
announced the start, and no other than a stop until it has shown it; while `start()` has not run, its
event is the first in the queue, whoever else posts. `WaitInv`: in the event loop there is at most
one event, in the queue or in its callback, and it is that of the one thread that waits. `QuitInv`:
after `quit()` no control is delivered, and only the stop is being handled. `StatusInv`: the SCM shows
the status, and the status is that of the handler on its way. The last three, and what `StartInv` says
of the time after the announcement, hold until handlers overlap. `StartIsFirst` needs only what holds
afterwards as well. `LifeImplemented` needs all of them at once, and says something of states with
overlaps, too: `LifeInv` adds, until then, that a control is on its way only while the service is shown
as running or paused, or to stop one that starts, and that a change is shown as pending only while its
handler waits.

**ServiceDatabaseProofs.** A process has a handle exactly in the middle of a function
(`HandlesInCalls`), and a handle keeps the entry alive, marked or not (`EntryKept`): what a
function has found or made is still there when it returns. `OneChanges` adds, for commands that
do not overlap, that nobody is about to create an entry that exists.

**ServiceRegistryProofs.** The keys come in two groups. What an uninstallation has seen of a
group is all of it or nothing (`SeenIsWhole`), so what it removes is a whole group, whatever was
written in the meantime; and without overlap, whoever is about to install has found nothing.
`ExitCodesMean` adds what a command has seen of the path (`SeesPath`): without overlap it is still
so when the command writes, so what it answers is true of what it leaves.

**Proved beside the runs.** What `ServiceLife` implies no run repeats: that no callback precedes
`start()` (`StartRunsFirst`), that what is shown is what was done (`ShownIsDone`), and how the threads
come to that (`WokenByOwnEvent`) are theorems of `WinServiceProofs` only. The same goes for the type
invariants but that of ParserMain.

**Only model-checked.** Everything under fairness (`CrawlCompletes`,
`PausedServiceGoesIdle`, `ProductEnds`, `CallsReturn`, `StopStops`,
`HandlersReturn`, `StartIsShown`, `StopEndsProcess`): TLAPS does not reach liveness under fairness
or ENABLED. Their safety sides are proved: `CrawlNeverCircles` with `NoStall` for the crawl,
`LeaksOnlyIf` for a product, `NobodyIsForgotten` for the handlers, `StoppedHasEnded` for the stop.

## 5. Disagreements between code and documentation

| Run | The documentation | The code |
|---|---|---|
| `crawl_resume` | `qtservice.cpp:949`: `resume()` is reimplemented "to continue the service after a call to pause()" | `resume()` clears a flag (`parsermain.cpp:34`). If the timer fired or the last page ended during the pause, nothing is in flight and nothing continues. |
| `unix_unseen` | `qtservice.cpp:260`: `isRunning()` "Returns true if the service is running; otherwise returns false" | `setPath()` and `close()` unlink a path that may belong to another daemon by then: a start right after another start or after a stop leaves a running daemon without a socket file. |
| `unix_stop_early` | `qtservice.cpp:373`: `stop()` "Returns true if a running service was successfully stopped" | `slotReady()` answers right after `quit()` was called; the daemon still has its cleanup before it. |
| `win_cleanup` | `qtservice_win.cpp:569`: `handler()` "is called from the thread that called StartServiceCtrlDispatcher" | serviceMain calls it as well (561), and `start()` waits only for the dispatcher (845) before the mutex and the condition are deleted. |
| `registry_install` | `qtservice.cpp:302`: `install()` "returns true if the service is installed successfully; otherwise returns false" | `-setDB` creates the group that `isInstalled()` looks for, so `-install` then exits with 0 and installs nothing. |

Met on the way, without a run: the stamp after a pause that empties the pipeline, the
single-shot timer that never starts again, two different names for the key of the startup
type, `-setDB` reading its arguments past the end, and on Windows a stop that is sent while
the start is pending: the start's handler shows "running" (`qtservice_win.cpp` 614) over the
pending stop (617), and a pause that is sent then may be woken by the event of the stop (599)
and answered with true although `pause()` has not run (`qtservice.cpp:387` says it has).

## 6. What is not modelled

- **The TotalStop branch of `manage_parsers`**: `stopAllThread` is emitted in `load()`,
  before the first parser exists, and by a destructor that nobody calls, so no
  parser ever reports it. The same goes for `ProductParser::stop`.
- **A second `loadFinished` of one page**, which a redirect by a script can cause: it would
  create a second parser for the page. What the browser engine does then is not in the code.
- **Days that are not 86,400 seconds long**, and clocks that are set back while the service is down.
- **Paging that leads back**: a next link to a page that was crawled before makes the code go round
  for ever. The models have a last page in every category.
- **On Windows**: the refusals of `CreateService` for a display name in use, an invalid name and want
  of resources; what the configuration of an entry contains (`config` only opens and closes),
  the event log, which keeps no state of the service, `advapi32` that cannot be loaded, and
  `RegisterServiceCtrlHandler` failing, which a comment calls impossible.
- **On Unix**: `socket()` failing, a path that is too long for the address, a full backlog.
- **What is displayed or logged**, `-version` on Unix, `-help`, jQuery, the build files, and
  the DOM queries of the page scripts, which read foreign pages and keep no state.

Three hazards have no property: the second `loadFinished`, a next link that leads back, and `-setDB`
reading past the end of its arguments. `load()` sets the interval of an expired single-shot timer, which does not start it: in the
models `load()` runs once. The two names of the key for the startup type would only be repeated by
a model.

## 7. Plan

Written, in this order: ParserMain and its proofs (the purpose of the program), ProductParser
(it decides when a slot comes back), UnixService, WinService, ServiceRegistry, then Crawl and the
refinement, ServiceDatabase, ParseSchedule, CommandChannel, and ParserDaemon, which composes
the crawl with its timer and its control socket; the proofs of every safety property; and
ServiceLife and ServiceControl with the proofs that the two services implement them.

What could follow, in the order of its weight:

1. **A second `loadFinished`** in ParserMain, with identities for pages beside the slots, once it
   is known when the engine emits one.
2. **UnixService over CommandChannel**: the calls of several controllers, in pieces, against
   daemons that come and go. Both parts are checked and proved; together they exceed TLC.
3. **ProductParser inside the crawl**: a product that leaks its slot makes `CrawlCompletes` fail;
   `SlotLeaksOnlyIf` names when.

## 8. How to run everything

    tlc -workers 2 -config ParserMain.cfg ParserMain.tla
    tlapm ParserMainProofs.tla

`PROJECT.json` lists every run with its module, configuration and properties, the mutant that
each property catches, the source lines behind every definition, the hazards, the findings and
the theorems.
