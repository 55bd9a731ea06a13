-------------------------- MODULE ParserDaemonProofs --------------------------
(***************************************************************************)
(* Theorems about the times of the crawl, for any intervals, any length of *)
(* the day and of the int, and any number of restarts.                     *)
(***************************************************************************)
EXTENDS ParserDaemon, SequenceTheorems, WellFoundedInduction, TLAPS

\* The theorems about the crawl by itself.
CrawlProofs == INSTANCE CrawlOrderProofs

-----------------------------------------------------------------------------
(***************************************************************************)
(* Remainders.                                                             *)
(***************************************************************************)

LEMMA ModRange ==
  ASSUME NEW a \in Int, NEW b \in Nat \ {0}
  PROVE  a % b \in 0..(b - 1)
OBVIOUS

LEMMA DivMod ==
  ASSUME NEW a \in Int, NEW b \in Nat \ {0}
  PROVE  a \div b \in Int /\ a = b * (a \div b) + (a % b)
OBVIOUS

\* A multiple of b.
LEMMA ModZero ==
  ASSUME NEW a \in Int, NEW b \in Nat \ {0}, a % b = 0
  PROVE  \E k \in Int : a = b * k
<1>1. PICK k \in Int : k = a \div b
  BY DivMod
<1>2. a = b * k + 0
  BY <1>1, DivMod
<1>3. a = b * k
  BY <1>2
<1> QED
  BY <1>3

LEMMA ModUnique ==
  ASSUME NEW b \in Nat \ {0}, NEW q \in Int, NEW r \in 0..(b - 1),
         NEW a \in Int, a = b * q + r
  PROVE  a % b = r /\ a \div b = q
<1>1. a % b = r
  OBVIOUS
<1>2. a \div b = q
  OBVIOUS
<1> QED
  BY <1>1, <1>2

LEMMA SmallMod ==
  ASSUME NEW b \in Nat \ {0}, NEW r \in 0..(b - 1)
  PROVE  r % b = r
OBVIOUS

\* Midnight does not matter to an interval that divides the day.
LEMMA ModOfMod ==
  ASSUME NEW t \in Nat, NEW d \in Nat \ {0}, NEW b \in Nat \ {0}, d % b = 0
  PROVE  (t % d) % b = t % b
<1>1. PICK q \in Int : q = t \div d
  BY DivMod
<1>2. PICK r \in 0..(d - 1) : r = t % d
  BY ModRange
<1>3. t = d * q + r
  BY <1>1, <1>2, DivMod
<1>4. PICK e \in Int : d = b * e
  BY ModZero
<1>5. PICK f \in Int : f = r \div b
  BY DivMod
<1>6. PICK s \in 0..(b - 1) : s = r % b
  BY ModRange
<1>7. r = b * f + s
  BY <1>5, <1>6, DivMod
<1>8. t = b * (e * q + f) + s
  BY <1>3, <1>4, <1>7
<1>9. PICK g \in Int : g = e * q + f
  OBVIOUS
<1>10. t % b = s
  BY <1>8, <1>9, ModUnique
<1> QED
  BY <1>2, <1>6, <1>10

\* Two multiples of b, with t between the first and the next after it.
LEMMA MultiplesApart ==
  ASSUME NEW b \in Nat \ {0}, NEW a \in Nat, NEW t \in Nat, a <= t, a % b = 0
  PROVE  /\ t + (b - (t % b)) - a >= b
         /\ (t + (b - (t % b))) % b = 0
<1>1. PICK k \in Int : a = b * k
  BY ModZero
<1>2. PICK q \in Int, r \in 0..(b - 1) : t = b * q + r /\ r = t % b
  <2>1. PICK q \in Int : q = t \div b
    BY DivMod
  <2>2. PICK r \in 0..(b - 1) : r = t % b
    BY ModRange
  <2>3. t = b * q + r
    BY <2>1, <2>2, DivMod
  <2> QED
    BY <2>2, <2>3
<1>3. k <= q
  <2> SUFFICES ASSUME k >= q + 1 PROVE FALSE
    OBVIOUS
  <2>1. b * k >= b * (q + 1)
    OBVIOUS
  <2> QED
    BY <2>1, <1>1, <1>2
<1>4. PICK n \in Int : n = q + 1
  OBVIOUS
<1>5. t + (b - r) = b * n
  BY <1>2, <1>4
<1>6. b * n - b * k >= b
  <2>1. b * (n - k) >= b * 1
    BY <1>3, <1>4
  <2> QED
    BY <2>1
<1>8. t + (b - r) - a >= b
  BY <1>1, <1>5, <1>6
<1>7. (t + (b - r)) % b = 0
  <2>1. PICK m \in Int : m = t + (b - r)
    OBVIOUS
  <2>2. m = b * n + 0
    BY <2>1, <1>5
  <2>3. m % b = 0
    BY <2>2, ModUnique
  <2> QED
    BY <2>1, <2>3
<1> QED
  BY <1>2, <1>7, <1>8

\* No multiple of b lies between one and the next.
LEMMA MultiplesFollow ==
  ASSUME NEW b \in Nat \ {0}, NEW l \in Int, NEW m \in Int,
         l % b = 0, m % b = 0, m > l - b
  PROVE  m = l \/ m - l >= b
<1>1. PICK k \in Int : l = b * k
  BY ModZero
<1>2. PICK n \in Int : m = b * n
  BY ModZero
<1>3. n >= k
  <2> SUFFICES ASSUME n <= k - 1 PROVE FALSE
    OBVIOUS
  <2>1. b * n <= b * (k - 1)
    OBVIOUS
  <2> QED
    BY <1>1, <1>2, <2>1
<1>4. CASE n = k
  BY <1>1, <1>2, <1>4
<1>5. CASE n >= k + 1
  <2>1. b * n >= b * (k + 1)
    BY <1>5
  <2> QED
    BY <1>1, <1>2, <2>1
<1> QED
  BY <1>3, <1>4, <1>5

-----------------------------------------------------------------------------
(***************************************************************************)
(* The timer.                                                              *)
(***************************************************************************)

LEMMA ArmedType ==
  ASSUME NEW t \in Nat, NEW pi \in Int, pi # 0
  PROVE  Armed(t, pi) = Never \/ (Armed(t, pi) \in Nat /\ Armed(t, pi) >= t)
<1>1. PICK n \in Int : n = FirstTimer(t % Day, pi) * Milli
  <2>1. t % Day \in Int
    BY DayAssumption, ModRange
  <2>2. PICK b \in Nat \ {0} : b = IF pi < 0 THEN -pi ELSE pi
    OBVIOUS
  <2>3. (t % Day) % b \in Int
    BY <2>1, ModRange
  <2>4. FirstTimer(t % Day, pi) \in Int
    BY <2>2, <2>3 DEF FirstTimer
  <2> QED
    BY <2>4, DayAssumption
<1>2. PICK ms \in Int : ms = ToInt(n)
  <2>1. (n + MaxInt + 1) % (2 * (MaxInt + 1)) \in Int
    <3>1. 2 * (MaxInt + 1) \in Nat \ {0} /\ n + MaxInt + 1 \in Int
      BY DayAssumption
    <3>2. PICK b \in Nat \ {0} : b = 2 * (MaxInt + 1)
      BY <3>1
    <3>3. PICK a \in Int : a = n + MaxInt + 1
      BY <3>1
    <3>4. a % b \in Int
      BY ModRange
    <3> QED
      BY <3>2, <3>3, <3>4
  <2> QED
    BY <2>1, DayAssumption DEF ToInt
<1>3. ms >= 0 => ms \div Milli \in Nat
  BY DayAssumption
<1>4. Armed(t, pi) = IF ms < 0 THEN Never ELSE t + ms \div Milli
  BY <1>1, <1>2 DEF Armed
<1> QED
  BY <1>3, <1>4

\* The int of the timer holds what is left of a usable interval.
LEMMA ArmedUsable ==
  ASSUME NEW t \in Nat, NEW pi \in Int, Usable(pi)
  PROVE  /\ Armed(t, pi) = t + (pi - ((t % Day) % pi))
         /\ (t % Day) % pi \in 0..(pi - 1)
<1>1. pi \in Nat \ {0} /\ pi * Milli <= MaxInt
  BY DEF Usable
<1>2. PICK u \in Int : u = t % Day
  BY DayAssumption, ModRange
<1>3. PICK r \in 0..(pi - 1) : r = u % pi
  BY <1>1, ModRange
<1>4. PICK left \in 1..pi : left = pi - r
  BY <1>1, <1>3
<1>5. FirstTimer(t % Day, pi) = left
  BY <1>1, <1>2, <1>3, <1>4 DEF FirstTimer
<1>6. PICK n \in Nat : n = left * Milli
  BY DayAssumption
<1>7. n <= MaxInt
  <2>1. left * Milli <= pi * Milli
    BY <1>1, <1>4, DayAssumption
  <2> QED
    BY <1>1, <1>6, <2>1, DayAssumption
<1>8. ToInt(n) = n
  <2>1. PICK b \in Nat \ {0} : b = 2 * (MaxInt + 1)
    BY DayAssumption
  <2>2. PICK a \in 0..(b - 1) : a = n + MaxInt + 1
    BY <1>7, <2>1, DayAssumption
  <2>3. a % b = a
    BY SmallMod
  <2> QED
    BY <2>1, <2>2, <2>3, DayAssumption DEF ToInt
<1>9. n \div Milli = left
  <2>1. n = Milli * left + 0
    BY <1>6, DayAssumption
  <2> QED
    BY <2>1, ModUnique, DayAssumption
<1>10. Armed(t, pi) = t + left
  BY <1>5, <1>6, <1>8, <1>9 DEF Armed
<1> QED
  BY <1>2, <1>3, <1>4, <1>10

-----------------------------------------------------------------------------
(***************************************************************************)
(* The invariant.                                                          *)
(***************************************************************************)

\* While the crawl is still to come, its timer is the one that start() armed, and
\* the clock has not moved since.
ArmedForNext ==
  InEventLoop /\ phase = "armed" =>
    ParseInterval # 0 /\ due = Armed(clock, ParseInterval)

\* The timer of the last crawl was set to a multiple of its interval, and fired
\* after it was set and not later than it may.
LastLoadWasDue ==
  lastLoad.at # Never =>
    /\ lastLoad.at \in Nat /\ lastLoad.at <= clock /\ lastLoad.due \in Nat
    /\ lastLoad.at <= lastLoad.due + Late
    /\ Usable(lastLoad.pi) /\ Day % lastLoad.pi = 0 =>
         lastLoad.due % lastLoad.pi = 0 /\ lastLoad.due - lastLoad.at <= lastLoad.pi

TInv == /\ clock \in Nat /\ ParseInterval \in Int /\ starts \in Nat
        /\ lastLoad \in [at : Int, due : Int, pi : Int]
        /\ ArmedForNext /\ LastLoadWasDue

LEMMA JobKeepsPhase == PM!JobStep => phase' = phase
BY DEF PM!JobStep, PM!PageStep, PM!LinkStep, PM!PageLoaded, PM!GetedLink, PM!NextPage,
       PM!NoNextPage, PM!LinkLoaded, PM!ProductEnd

LEMMA TInvInit == Init => TInv
BY DEF Init, ScheduleInit, TInv, ArmedForNext, InEventLoop, LastLoadWasDue, Never

LEMMA TimerStep ==
  ASSUME TInv, TimerFires
  PROVE  TInv'
<1>1. /\ clock \in Nat /\ ParseInterval \in Int \ {0}
      /\ due = Armed(clock, ParseInterval) /\ due # Never
      /\ clock' \in FiringTimes(clock, due)
  BY DEF TInv, ArmedForNext, TimerFires
<1>2. due \in Nat /\ due >= clock
  BY <1>1, ArmedType
<1>3. clock' \in Nat /\ clock' >= clock /\ clock' <= due + Late
  BY <1>1, <1>2, TimerAssumption DEF FiringTimes
<1>4. CASE /\ PM!Load
           /\ lastLoad' = [at |-> clock', due |-> due, pi |-> ParseInterval]
           /\ UNCHANGED <<channelVars, ParseInterval, due, process, starts, quiet, held>>
  <2>1. phase' = "crawling"
    BY <1>4 DEF PM!Load
  <2>2. ASSUME Usable(ParseInterval), Day % ParseInterval = 0
        PROVE  due % ParseInterval = 0 /\ due - clock <= ParseInterval
    <3>1. ParseInterval \in Nat \ {0}
      BY <1>1, <2>2 DEF Usable
    <3>2. PICK r \in 0..(ParseInterval - 1) : r = clock % ParseInterval
      BY <1>1, <3>1, ModRange
    <3>3. (clock % Day) % ParseInterval = r
      BY <1>1, <2>2, <3>1, <3>2, ModOfMod, DayAssumption
    <3>4. due = clock + (ParseInterval - r)
      BY <1>1, <2>2, <3>3, ArmedUsable
    <3>5. (clock + (ParseInterval - r)) % ParseInterval = 0
      <4>1. 0 % ParseInterval = 0
        BY <3>1, SmallMod
      <4> QED
        BY <1>1, <3>1, <3>2, <4>1, MultiplesApart
    <3> QED
      BY <1>1, <3>1, <3>2, <3>4, <3>5
  <2>3. PICK t \in Nat : t = clock'
    BY <1>3
  <2>4. /\ lastLoad'.at = t /\ lastLoad'.due = due /\ lastLoad'.pi = ParseInterval
        /\ lastLoad' \in [at : Int, due : Int, pi : Int]
    BY <1>1, <1>2, <1>4, <2>3
  <2>5. LastLoadWasDue'
    <3>1. ASSUME Usable(ParseInterval), Day % ParseInterval = 0
          PROVE  due - t <= ParseInterval
      BY <1>1, <1>2, <1>3, <2>2, <2>3, <3>1
    <3> QED
      BY <1>2, <1>3, <2>2, <2>3, <2>4, <3>1 DEF LastLoadWasDue, Usable
  <2>6. ArmedForNext'
    BY <2>1 DEF ArmedForNext
  <2> QED
    BY <1>1, <1>3, <1>4, <2>4, <2>5, <2>6 DEF TInv
<1>5. CASE Ends /\ UNCHANGED <<starts, lastLoad>>
  <2>1. ArmedForNext'
    BY <1>5 DEF Ends, ArmedForNext, InEventLoop
  <2>2. LastLoadWasDue'
    <3>1. clock \in Int /\ clock' \in Int /\ clock <= clock'
      BY <1>1, <1>3
    <3> QED
      BY <1>5, <3>1 DEF TInv, LastLoadWasDue, Usable
  <2> QED
    BY <1>1, <1>3, <1>5, <2>1, <2>2 DEF TInv, Ends
<1> QED
  BY <1>4, <1>5 DEF TimerFires

LEMMA TInvStep == TInv /\ [Next]_vars => TInv'
<1> SUFFICES ASSUME TInv, [Next]_vars PROVE TInv'
  OBVIOUS
<1>1. ASSUME UNCHANGED <<clock, ParseInterval, due, starts, lastLoad>>,
             InEventLoop' /\ phase' = "armed" => InEventLoop /\ phase = "armed"
      PROVE  TInv'
  BY <1>1 DEF TInv, ArmedForNext, LastLoadWasDue
<1>2. CASE Start
  <2>1. clock' \in Nat /\ clock' >= clock
    BY <1>2, StartsAssumption DEF Start, TInv
  <2>2. ArmedForNext'
    BY <1>2 DEF Start, ArmedForNext, InEventLoop
  <2>3. LastLoadWasDue'
    BY <1>2, <2>1 DEF Start, TInv, LastLoadWasDue, Usable
  <2> QED
    BY <1>2, <2>1, <2>2, <2>3 DEF Start, TInv
<1>3. CASE SlotStart
  <2>1. PICK pi \in Intervals :
          \/ pi = 0 /\ Ends /\ UNCHANGED <<clock, starts, lastLoad>>
          \/ /\ pi # 0
             /\ process' = "running"
             /\ ParseInterval' = pi /\ due' = Armed(clock, pi)
             /\ UNCHANGED <<channelVars, clock, crawlVars, starts, lastLoad, quiet, held>>
    BY <1>3 DEF SlotStart
  <2>2. LastLoadWasDue'
    BY <2>1 DEF TInv, LastLoadWasDue
  <2>3. ArmedForNext'
    BY <2>1 DEF Ends, ArmedForNext, InEventLoop
  <2>4. ParseInterval' \in Int
    BY <2>1, IntervalsAssumption DEF Ends
  <2> QED
    BY <2>1, <2>2, <2>3, <2>4 DEF TInv
<1>4. CASE TimerFires
  BY <1>4, TimerStep
<1>5. CASE CrawlStep
  <2>1. phase' = phase
    BY <1>5, JobKeepsPhase DEF CrawlStep
  <2> QED
    BY <1>1, <1>5, <2>1 DEF CrawlStep, scheduleVars, InEventLoop
<1>6. CASE Gone
  <2>1. ArmedForNext' /\ ParseInterval' \in Int
    BY <1>6 DEF Gone, Ends, ArmedForNext, InEventLoop
  <2>2. LastLoadWasDue'
    BY <1>6 DEF Gone, TInv, LastLoadWasDue
  <2> QED
    BY <1>6, <2>1, <2>2 DEF Gone, TInv
<1>7. ASSUME NEW c \in Clients, ClientStep(c) PROVE TInv'
  BY <1>1, <1>7 DEF ClientStep, scheduleVars, crawlVars, InEventLoop
<1>8. ASSUME NEW a \in Addrs, ReadyRead(a) PROVE TInv'
  <2>1. phase' = phase
    BY <1>8 DEF ReadyRead, Execute, crawlVars, PM!Pause, PM!Resume
  <2>2. InEventLoop
    BY <1>8 DEF ReadyRead
  <2> QED
    BY <1>1, <1>8, <2>1, <2>2 DEF ReadyRead, scheduleVars
<1>9. ASSUME NEW a \in Addrs, Closed(a) PROVE TInv'
  BY <1>1, <1>9 DEF Closed, scheduleVars, crawlVars, InEventLoop
<1>10. CASE UNCHANGED vars
  BY <1>1, <1>10 DEF vars, scheduleVars, crawlVars, InEventLoop
<1> QED
  BY <1>2, <1>3, <1>4, <1>5, <1>6, <1>7, <1>8, <1>9, <1>10 DEF Next

LEMMA TimeInvariant == Spec => []TInv
BY TInvInit, TInvStep, PTL DEF Spec

-----------------------------------------------------------------------------
\* The arithmetic of the constructor (parsermain.cpp:16-23) leaves no daemon
\* without a crawl whose interval is positive and fits into the timer.
THEOREM UsableIsNeverSilent == Spec => []SilentOnlyIf
<1>1. TInv => SilentOnlyIf
  <2> SUFFICES ASSUME TInv, process = "running", phase = "armed", Usable(ParseInterval)
               PROVE  due > clock - 1 /\ due - clock <= ParseInterval
    BY DEF SilentOnlyIf
  <2>1. clock \in Nat /\ ParseInterval \in Int /\ due = Armed(clock, ParseInterval)
    BY DEF TInv, ArmedForNext, InEventLoop
  <2>2. PICK r \in 0..(ParseInterval - 1) : r = (clock % Day) % ParseInterval
    BY <2>1, ArmedUsable
  <2>3. due = clock + (ParseInterval - r)
    BY <2>1, <2>2, ArmedUsable
  <2> QED
    BY <2>1, <2>2, <2>3
<1> QED
  BY <1>1, TimeInvariant, PTL

\* What the next load() of the same interval finds.
LEMMA NextLoad ==
  ASSUME TInv, lastLoad.at # Never, lastLoad.pi = ParseInterval,
         Usable(ParseInterval), Day % ParseInterval = 0
  PROVE  \/ Armed(clock, ParseInterval) - lastLoad.at >= ParseInterval - Late
         \/ lastLoad.at < lastLoad.due /\ Armed(clock, ParseInterval) = lastLoad.due
<1>1. PICK pi \in Nat \ {0} : pi = ParseInterval
  BY DEF TInv, Usable
<1>2. PICK t \in Nat : t = clock
  BY DEF TInv
<1>3. PICK at \in Nat, set \in Nat : at = lastLoad.at /\ set = lastLoad.due
  BY DEF TInv, LastLoadWasDue
<1>4. at <= t /\ at <= set + Late /\ set % pi = 0 /\ set - at <= pi
  BY <1>1, <1>2, <1>3 DEF TInv, LastLoadWasDue
<1>5. PICK r \in 0..(pi - 1) : r = t % pi
  BY ModRange
<1>6. (t % Day) % pi = r
  <2>1. Day % pi = 0
    BY <1>1
  <2>2. Day \in Nat \ {0}
    BY DayAssumption
  <2> QED
    BY <1>5, <2>1, <2>2, ModOfMod
<1>7. PICK m \in Int : m = t + (pi - r)
  OBVIOUS
<1>8. Armed(t, pi) = m
  <2>1. Usable(pi)
    BY <1>1
  <2> QED
    BY <1>6, <1>7, <2>1, ArmedUsable
<1>9. m % pi = 0 /\ m > t
  <2>1. 0 % pi = 0
    BY SmallMod
  <2>2. (t + (pi - r)) % pi = 0
    BY <1>5, <2>1, MultiplesApart
  <2> QED
    BY <1>7, <2>2
<1>10. CASE set <= t
  <2>1. m - set >= pi
    <3>1. t + (pi - (t % pi)) - set >= pi
      BY <1>4, <1>10, MultiplesApart
    <3> QED
      BY <1>5, <1>7, <3>1
  <2>2. m - at >= pi - Late
    BY <1>4, <2>1, TimerAssumption
  <2> QED
    BY <1>1, <1>2, <1>3, <1>8, <2>2
<1>11. CASE set > t
  <2>1. m > set - pi
    <3>1. at <= t /\ set - at <= pi /\ m > t
      BY <1>4, <1>9
    <3> QED
      BY <3>1
  <2>2. m = set \/ m - set >= pi
    <3>1. set % pi = 0 /\ m % pi = 0
      BY <1>4, <1>9
    <3>2. set \in Int /\ m \in Int /\ pi \in Nat \ {0}
      OBVIOUS
    <3> QED
      BY <2>1, <3>1, <3>2, MultiplesFollow, Zenon
  <2>3. at < set
    BY <1>4, <1>11
  <2>4. m = set \/ m - at >= pi - Late
    BY <2>2, <2>3, TimerAssumption
  <2> QED
    BY <1>1, <1>2, <1>3, <1>8, <2>3, <2>4
<1> QED
  BY <1>10, <1>11

\* The crawls of one interval that divides the day are that interval apart, less
\* what a coarse timer (parsermain.cpp:20-24) is off, however often the service is
\* restarted between them; only a crawl that came early is repeated at its time.
THEOREM CrawlsAreApart == Spec => LoadsApart
<1> DEFINE Apart ==
      /\ phase = "armed" /\ phase' = "crawling"
      /\ lastLoad.at # Never /\ lastLoad.pi = ParseInterval
      /\ Usable(ParseInterval) /\ Day % ParseInterval = 0
      => \/ clock' - lastLoad.at >= ParseInterval - (Early + Late)
         \/ lastLoad.at < lastLoad.due /\ due = lastLoad.due
<1>1. TInv /\ [Next]_vars => [Apart]_vars
  <2> SUFFICES ASSUME TInv, Next, phase = "armed", phase' = "crawling",
                      lastLoad.at # Never, lastLoad.pi = ParseInterval,
                      Usable(ParseInterval), Day % ParseInterval = 0
               PROVE  \/ clock' - lastLoad.at >= ParseInterval - (Early + Late)
                      \/ lastLoad.at < lastLoad.due /\ due = lastLoad.due
    OBVIOUS
  <2>1. TimerFires
    <3>1. CASE Start \/ SlotStart \/ Gone
      BY <3>1 DEF Start, SlotStart, Gone, Ends, crawlVars
    <3>2. CASE CrawlStep
      BY <3>2, JobKeepsPhase DEF CrawlStep
    <3>3. ASSUME NEW c \in Clients, ClientStep(c) PROVE FALSE
      BY <3>3 DEF ClientStep, crawlVars
    <3>4. ASSUME NEW a \in Addrs, ReadyRead(a) \/ Closed(a) PROVE FALSE
      <4>1. CASE ReadyRead(a)
        BY <4>1 DEF ReadyRead, Execute, crawlVars, PM!Pause, PM!Resume
      <4>2. CASE Closed(a)
        BY <4>2 DEF Closed, crawlVars
      <4> QED
        BY <3>4, <4>1, <4>2
    <3> QED
      BY <3>1, <3>2, <3>3, <3>4 DEF Next
  <2>2. /\ due = Armed(clock, ParseInterval) /\ due # Never
        /\ clock' \in FiringTimes(clock, due)
    BY <2>1 DEF TimerFires, TInv, ArmedForNext
  <2>3. due \in Nat /\ clock' \in Int /\ clock' >= due - Early
    <3>1. due \in Nat
      BY <2>2, ArmedType DEF TInv, Usable
    <3> QED
      BY <2>2, <3>1, TimerAssumption DEF FiringTimes
  <2>4. \/ due - lastLoad.at >= ParseInterval - Late
        \/ lastLoad.at < lastLoad.due /\ due = lastLoad.due
    BY <2>2, NextLoad
  <2>5. lastLoad.at \in Int /\ ParseInterval \in Int
    BY DEF TInv
  <2> QED
    BY <2>3, <2>4, <2>5, TimerAssumption
<1> QED
  BY <1>1, TimeInvariant, PTL DEF LoadsApart, Spec

-----------------------------------------------------------------------------
(***************************************************************************)
(* The connections.                                                        *)
(***************************************************************************)

\* The two pieces of a command.
FirstPiece(cmd) == [cmd |-> cmd, last |-> FALSE]
LastPiece(cmd) == [cmd |-> cmd, last |-> TRUE]

Sock == [of : {{}} \cup {{c} : c \in Clients}, buf : Seq(Piece), eof : BOOLEAN]

\* The types, and whose socket a client talks to.
Connected ==
  /\ client \in [Clients -> Client] /\ sock \in [Addrs -> Sock]
  /\ cache \in [Addrs -> Seq(Piece)] /\ torn \in BOOLEAN
  /\ ran \in [Clients -> Seq(Commands \cup {"unknown"})]
  /\ \A c \in Clients : client[c].addr = {} => client[c].reply = "none"
  /\ \A c \in Clients, a \in Addrs :
       client[c].addr = {a} => sock[a].of = {c} /\ ~sock[a].eof

Nothing(a) == cache[a] = <<>> /\ sock[a].buf = <<>>
HalfOnly(a, cmd) ==
  \/ cache[a] = <<>> /\ sock[a].buf = <<FirstPiece(cmd)>>
  \/ cache[a] = <<FirstPiece(cmd)>> /\ sock[a].buf = <<>>
Whole(a, cmd) ==
  \/ cache[a] = <<>> /\ sock[a].buf = <<FirstPiece(cmd), LastPiece(cmd)>>
  \/ cache[a] = <<FirstPiece(cmd)>> /\ sock[a].buf = <<LastPiece(cmd)>>

\* What the daemon has of the command of c, which is connected to a.
Served(c, a) ==
  \/ /\ client[c].reply = "none" /\ ran[c] = <<>>
     /\ \/ client[c].pieces = 0 /\ Nothing(a)
        \/ client[c].pieces = 1 /\ HalfOnly(a, client[c].cmd)
        \/ client[c].pieces = 2 /\ Whole(a, client[c].cmd)
  \/ /\ client[c].reply # "none" /\ ran[c] = <<client[c].cmd>>
     /\ client[c].pieces = 2 /\ Nothing(a)

\* What a client leaves behind: nothing, or a command that is still to be read.
Left(a) ==
  \/ Nothing(a)
  \/ sock[a].of # {} /\ \E cmd \in Commands : Whole(a, cmd)

InOrderAt(a) ==
  /\ \A c \in Clients : client[c].addr = {a} => Served(c, a)
  /\ (\A c \in Clients : client[c].addr # {a}) => Left(a)
InOrder == \A a \in Addrs : InOrderAt(a)

ChannelInv == Connected /\ (~torn => InOrder)

-----------------------------------------------------------------------------
LEMMA HalfCommand ==
  ASSUME NEW cmd \in Commands, NEW q, q = <<FirstPiece(cmd)>>
  PROVE  ~HasCommand(q) /\ AfterCommand(q) = q
<1>1. Breaks(q) = {}
  BY DEF Breaks, FirstPiece
<1> QED
  BY <1>1 DEF HasCommand, AfterCommand

LEMMA WholeCommand ==
  ASSUME NEW cmd \in Commands, NEW q, q = <<FirstPiece(cmd), LastPiece(cmd)>>
  PROVE  HasCommand(q) /\ Command(q) = cmd /\ AfterCommand(q) = <<>>
<1>1. Breaks(q) = {2}
  <2>1. DOMAIN q = 1..2 /\ ~q[1].last /\ q[2].last
    BY DEF FirstPiece, LastPiece
  <2>2. \A i : i \in Breaks(q) <=> i = 2
    BY <2>1 DEF Breaks
  <2> QED
    BY <2>2
<1>2. PICK b : b = CHOOSE i \in Breaks(q) : \A j \in Breaks(q) : i <= j
  OBVIOUS
<1>3. b = 2
  BY <1>1, <1>2
<1>4. q \in Seq({FirstPiece(cmd), LastPiece(cmd)}) /\ Len(q) = 2
  OBVIOUS
<1>5. SubSeq(q, 1, 2) = q
  BY <1>4, SubSeqFull
<1>6. SubSeq(q, 3, 2) = <<>>
  BY <1>4, SubSeqEmpty
<1>7. Spelled(q) = cmd
  BY <1>4 DEF Spelled, FirstPiece, LastPiece
<1>8. HasCommand(q)
  BY <1>1 DEF HasCommand
<1>9. Command(q) = Spelled(SubSeq(q, 1, b))
  BY <1>2 DEF Command
<1>10. AfterCommand(q) = SubSeq(q, 1 + b, Len(q))
  BY <1>2, <1>8 DEF AfterCommand
<1>11. 1 + b = 3
  BY <1>3
<1> QED
  BY <1>3, <1>4, <1>5, <1>6, <1>7, <1>8, <1>9, <1>10, <1>11

LEMMA SecondAppended == ASSUME NEW x, NEW y PROVE Append(<<x>>, y) = <<x, y>>
<1>1. PICK S, s, t : S = {x, y} /\ s = <<x>> /\ t = <<x, y>>
  OBVIOUS
<1>2. s \in Seq(S) /\ y \in S /\ Len(s) = 1 /\ s[1] = x
  BY <1>1
<1>3. /\ Append(s, y) \in Seq(S) /\ Len(Append(s, y)) = 2
      /\ Append(s, y)[1] = x /\ Append(s, y)[2] = y
  <2>0. s \in Seq(S) /\ y \in S
    BY <1>2
  <2>1. Append(s, y) \in Seq(S) /\ Len(Append(s, y)) = Len(s) + 1
    BY <2>0, AppendProperties
  <2>2. \A i \in 1..Len(s) : Append(s, y)[i] = s[i]
    BY <2>0, AppendProperties
  <2>3. Append(s, y)[Len(s) + 1] = y
    BY <2>0, AppendProperties
  <2> QED
    BY <1>2, <2>1, <2>2, <2>3
<1>4. t \in Seq(S) /\ Len(t) = 2 /\ t[1] = x /\ t[2] = y
  BY <1>1
<1>5. \A i \in 1..2 : Append(s, y)[i] = t[i]
  BY <1>3, <1>4
<1>6. PICK a : a = Append(s, y)
  OBVIOUS
<1>7. a = t
  <2>1. a \in Seq(S) /\ Len(a) = Len(t) /\ \A i \in 1..Len(a) : a[i] = t[i]
    BY <1>3, <1>4, <1>5, <1>6
  <2> QED
    BY <1>4, <2>1, SeqEqual
<1> QED
  BY <1>1, <1>6, <1>7

LEMMA ConcatTwo == ASSUME NEW x, NEW y PROVE <<x>> \o <<y>> = <<x, y>>
<1>1. PICK S, s : S = {x, y} /\ s = <<x>>
  OBVIOUS
<1>2. s \in Seq(S) /\ y \in S
  BY <1>1
<1>3. Append(s, y) = s \o <<y>>
  BY <1>2, AppendIsConcat
<1> QED
  BY <1>1, <1>3, SecondAppended

LEMMA ConnectedInit == ChannelInit => ChannelInv
<1> SUFFICES ASSUME ChannelInit PROVE ChannelInv
  OBVIOUS
<1>1. Idle \in Client /\ Free \in Sock
  BY DEF Idle, Client, Commands, Free, Sock
<1>2. /\ client \in [Clients -> Client] /\ sock \in [Addrs -> Sock]
      /\ cache \in [Addrs -> Seq(Piece)] /\ torn \in BOOLEAN
      /\ ran \in [Clients -> Seq(Commands \cup {"unknown"})]
  BY <1>1, EmptySeq DEF ChannelInit
<1>3. \A c \in Clients : client[c].addr = {} /\ client[c].reply = "none"
  BY DEF ChannelInit, Idle
<1>4. \A a \in Addrs : Nothing(a)
  BY DEF ChannelInit, Free, Nothing
<1> QED
  BY <1>2, <1>3, <1>4 DEF ChannelInv, Connected, InOrder, InOrderAt, Left

LEMMA ChannelEndsStep == ChannelEnds /\ Connected => ChannelInv'
<1> SUFFICES ASSUME ChannelEnds, Connected PROVE ChannelInv'
  OBVIOUS
<1>1. Idle \in Client /\ Free \in Sock
  BY DEF Idle, Client, Commands, Free, Sock
<1>2. /\ client' \in [Clients -> Client] /\ sock' \in [Addrs -> Sock]
      /\ cache' \in [Addrs -> Seq(Piece)] /\ torn' \in BOOLEAN
      /\ ran' \in [Clients -> Seq(Commands \cup {"unknown"})]
  BY <1>1, EmptySeq DEF ChannelEnds, Connected
<1>3. \A c \in Clients : client'[c].addr = {} /\ client'[c].reply = "none"
  BY DEF ChannelEnds, Idle
<1>4. \A a \in Addrs : Nothing(a)'
  BY DEF ChannelEnds, Free, Nothing
<1> QED
  BY <1>2, <1>3, <1>4 DEF ChannelInv, Connected, InOrder, InOrderAt, Left

-----------------------------------------------------------------------------
\* A step at one address leaves the others in order.
LEMMA Elsewhere ==
  ASSUME InOrder, NEW a \in Addrs, InOrderAt(a)',
         \A b \in Addrs \ {a} :
           /\ cache'[b] = cache[b]
           /\ sock'[b].buf = sock[b].buf /\ sock'[b].of = sock[b].of
           /\ \A d \in Clients :
                /\ client'[d].addr = {b} <=> client[d].addr = {b}
                /\ client[d].addr = {b} => client'[d] = client[d] /\ ran'[d] = ran[d]
  PROVE  InOrder'
<1> SUFFICES ASSUME NEW b \in Addrs \ {a} PROVE InOrderAt(b)'
  BY DEF InOrder
<1>1. InOrderAt(b)
  BY DEF InOrder
<1>2. /\ Nothing(b)' <=> Nothing(b)
      /\ \A cmd : (HalfOnly(b, cmd)' <=> HalfOnly(b, cmd)) /\ (Whole(b, cmd)' <=> Whole(b, cmd))
  BY DEF Nothing, HalfOnly, Whole
<1>3. ASSUME NEW d \in Clients, client'[d].addr = {b} PROVE Served(d, b)'
  <2>1. Served(d, b)
    BY <1>1, <1>3 DEF InOrderAt
  <2>2. client'[d] = client[d] /\ ran'[d] = ran[d]
    BY <1>3
  <2>3. /\ HalfOnly(b, client[d].cmd)' <=> HalfOnly(b, client[d].cmd)
        /\ Whole(b, client[d].cmd)' <=> Whole(b, client[d].cmd)
    BY <2>2 DEF HalfOnly, Whole
  <2> QED
    BY <1>2, <2>1, <2>2, <2>3 DEF Served
<1>4. ASSUME \A d \in Clients : client'[d].addr # {b} PROVE Left(b)'
  <2>1. Left(b)
    BY <1>1, <1>4 DEF InOrderAt
  <2> QED
    BY <1>2, <2>1 DEF Left
<1> QED
  BY <1>3, <1>4 DEF InOrderAt

\* No two clients talk to one socket.
LEMMA OneClient ==
  ASSUME Connected, NEW a \in Addrs, NEW c \in Clients, NEW d \in Clients,
         client[c].addr = {a}, client[d].addr = {a}
  PROVE  c = d
<1>1. sock[a].of = {c} /\ sock[a].of = {d}
  BY DEF Connected
<1> QED
  BY <1>1

LEMMA ConnectStep ==
  ASSUME ChannelInv, NEW c \in Clients, NEW a \in Addrs, NEW cmd \in Commands,
         Connect(c, cmd, a)
  PROVE  ChannelInv'
<1>1. /\ client \in [Clients -> Client] /\ sock \in [Addrs -> Sock]
      /\ client[c].addr = {} /\ sock[a] = Free
  BY DEF ChannelInv, Connected, Connect, InCall
<1>2. PICK new : new = [Idle EXCEPT !.cmd = cmd, !.addr = {a}]
  OBVIOUS
<1>3. /\ new.cmd = cmd /\ new.addr = {a} /\ new.pieces = 0 /\ new.reply = "none"
      /\ new \in Client
  <2>1. new = [cmd |-> cmd, addr |-> {a}, pieces |-> 0, reply |-> "none"]
    BY <1>2 DEF Idle
  <2>2. {a} \in {{}} \cup {{b} : b \in Addrs} /\ 0 \in 0..2
    OBVIOUS
  <2> QED
    BY <2>1, <2>2 DEF Client
<1>4. client' = [client EXCEPT ![c] = new]
  BY <1>2 DEF Connect
<1>5. PICK s \in Sock : s = [sock[a] EXCEPT !.of = {c}]
  BY <1>1 DEF Sock
<1>6. s.of = {c} /\ s.buf = <<>> /\ ~s.eof
  BY <1>1, <1>5 DEF Free
<1>7. sock' = [sock EXCEPT ![a] = s]
  BY <1>5 DEF Connect
<1>8. /\ client'[c] = new /\ \A d \in Clients \ {c} : client'[d] = client[d]
      /\ sock'[a] = s /\ \A b \in Addrs \ {a} : sock'[b] = sock[b]
  BY <1>1, <1>4, <1>7
<1>9. /\ cache' = cache /\ torn' = torn /\ ran'[c] = <<>>
      /\ ran' \in [Clients -> Seq(Commands \cup {"unknown"})]
      /\ \A d \in Clients \ {c} : ran'[d] = ran[d]
  <2>1. ran' = [ran EXCEPT ![c] = <<>>] /\ cache' = cache /\ torn' = torn
    BY DEF Connect
  <2>2. ran \in [Clients -> Seq(Commands \cup {"unknown"})]
    BY DEF ChannelInv, Connected
  <2>3. <<>> \in Seq(Commands \cup {"unknown"})
    BY EmptySeq
  <2> QED
    BY <2>1, <2>2, <2>3
<1>10. \A d \in Clients : client[d].addr # {a}
  <2>1. sock[a].of = {}
    BY <1>1 DEF Free
  <2> QED
    BY <2>1 DEF ChannelInv, Connected
<1>11. Connected'
  <2>1. client' \in [Clients -> Client] /\ sock' \in [Addrs -> Sock]
    BY <1>1, <1>3, <1>4, <1>5, <1>7
  <2>2. cache' \in [Addrs -> Seq(Piece)] /\ torn' \in BOOLEAN
    BY <1>9 DEF ChannelInv, Connected
  <2>3. ASSUME NEW d \in Clients, NEW b \in Addrs, client'[d].addr = {b}
        PROVE  sock'[b].of = {d} /\ ~sock'[b].eof
    <3>1. CASE d = c
      BY <1>3, <1>6, <1>8, <2>3, <3>1
    <3>2. CASE d # c
      <4>1. client[d].addr = {b} /\ b # a
        BY <1>8, <1>10, <2>3, <3>2
      <4> QED
        BY <1>8, <4>1 DEF ChannelInv, Connected
    <3> QED
      BY <3>1, <3>2
  <2>4. ASSUME NEW d \in Clients, client'[d].addr = {} PROVE client'[d].reply = "none"
    BY <1>3, <1>8, <2>4 DEF ChannelInv, Connected
  <2> QED
    BY <1>9, <2>1, <2>2, <2>3, <2>4 DEF Connected
<1>12. ASSUME ~torn PROVE InOrder'
  <2>1. InOrder
    BY <1>12 DEF ChannelInv
  <2>2. Nothing(a)
    <3>1. Left(a)
      BY <1>10, <2>1 DEF InOrder, InOrderAt
    <3>2. sock[a].of = {}
      BY <1>1 DEF Free
    <3> QED
      BY <3>1, <3>2 DEF Left
  <2>3. Nothing(a)'
    BY <1>6, <1>8, <1>9, <2>2 DEF Nothing
  <2>4. InOrderAt(a)'
    <3>1. \A d \in Clients : client'[d].addr = {a} <=> d = c
      BY <1>3, <1>8, <1>10
    <3>2. Served(c, a)'
      BY <1>3, <1>8, <1>9, <2>3 DEF Served
    <3> QED
      BY <3>1, <3>2 DEF InOrderAt
  <2>5. ASSUME NEW b \in Addrs \ {a}
        PROVE  /\ cache'[b] = cache[b]
               /\ sock'[b].buf = sock[b].buf /\ sock'[b].of = sock[b].of
               /\ \A d \in Clients :
                    /\ client'[d].addr = {b} <=> client[d].addr = {b}
                    /\ client[d].addr = {b} => client'[d] = client[d] /\ ran'[d] = ran[d]
    BY <1>1, <1>3, <1>8, <1>9
  <2> QED
    BY <2>1, <2>4, <2>5, Elsewhere
<1> QED
  BY <1>9, <1>11, <1>12 DEF ChannelInv

-----------------------------------------------------------------------------
LEMMA WriteStep ==
  ASSUME ChannelInv, NEW c \in Clients, Write(c)
  PROVE  ChannelInv'
<1>1. /\ client \in [Clients -> Client] /\ sock \in [Addrs -> Sock]
      /\ client[c].addr # {} /\ client[c] \in Client
  BY DEF ChannelInv, Connected, Write, InCall
<1>2. PICK a \in Addrs : client[c].addr = {a}
  BY <1>1 DEF Client
<1>3. PICK n \in 1..2 : n = client[c].pieces + 1
  BY <1>1 DEF Write, Client
<1>4. PICK cmd \in Commands : cmd = client[c].cmd
  BY <1>1 DEF Client
<1>5. PICK new : new = [client[c] EXCEPT !.pieces = n]
  OBVIOUS
<1>6. /\ new.cmd = cmd /\ new.addr = {a} /\ new.pieces = n
      /\ new.reply = client[c].reply /\ new \in Client
  <2>1. n \in 0..2
    BY <1>3
  <2> QED
    BY <1>1, <1>2, <1>4, <1>5, <2>1 DEF Client
<1>7. client' = [client EXCEPT ![c] = new]
  <2>1. client' = [client EXCEPT ![c].pieces = client[c].pieces + 1]
    BY DEF Write
  <2> QED
    BY <1>1, <1>3, <1>5, <2>1
<1>8. PICK p : p = [cmd |-> cmd, last |-> n = 2]
  OBVIOUS
<1>81. p \in Piece
  <2>1. (n = 2) \in BOOLEAN
    OBVIOUS
  <2> QED
    BY <1>8, <2>1 DEF Piece
<1>9. PICK buf \in Seq(Piece) : buf = Append(sock[a].buf, p)
  <2>1. sock[a].buf \in Seq(Piece)
    BY <1>1 DEF Sock
  <2> QED
    BY <1>81, <2>1, AppendProperties
<1>10. PICK s \in Sock : s = [sock[a] EXCEPT !.buf = buf]
  BY <1>1 DEF Sock
<1>11. s.of = sock[a].of /\ s.buf = buf /\ s.eof = sock[a].eof
  BY <1>1, <1>10 DEF Sock
<1>12. \A b \in Addrs : sock'[b] = IF b = a THEN s ELSE sock[b]
  BY <1>2, <1>3, <1>4, <1>8, <1>9, <1>10 DEF Write
<1>13. sock' \in [Addrs -> Sock]
  <2>1. sock' = [b \in Addrs |-> IF b = a THEN s ELSE sock[b]]
    <3>1. PICK f : f = sock'
      OBVIOUS
    <3>2. f = [b \in Addrs |-> f[b]]
      BY <3>1 DEF Write
    <3> QED
      BY <1>12, <3>1, <3>2
  <2> QED
    BY <1>1, <1>10, <2>1
<1>14. client'[c] = new /\ \A d \in Clients \ {c} : client'[d] = client[d]
  BY <1>1, <1>7
<1>15. cache' = cache /\ torn' = torn /\ ran' = ran
  BY DEF Write
<1>16. Connected'
  <2>1. client' \in [Clients -> Client]
    BY <1>1, <1>6, <1>7
  <2>2. ASSUME NEW d \in Clients, NEW b \in Addrs, client'[d].addr = {b}
        PROVE  sock'[b].of = {d} /\ ~sock'[b].eof
    <3>1. client[d].addr = {b}
      BY <1>2, <1>6, <1>14, <2>2
    <3>2. sock[b].of = {d} /\ ~sock[b].eof
      BY <3>1 DEF ChannelInv, Connected
    <3> QED
      BY <1>11, <1>12, <3>2
  <2>3. /\ cache' \in [Addrs -> Seq(Piece)] /\ torn' \in BOOLEAN
        /\ ran' \in [Clients -> Seq(Commands \cup {"unknown"})]
    BY <1>15 DEF ChannelInv, Connected
  <2>4. ASSUME NEW d \in Clients, client'[d].addr = {} PROVE client'[d].reply = "none"
    BY <1>6, <1>14, <2>4 DEF ChannelInv, Connected
  <2> QED
    BY <1>13, <2>1, <2>2, <2>3, <2>4 DEF Connected
<1>17. ASSUME ~torn PROVE InOrder'
  <2>1. InOrder
    BY <1>17 DEF ChannelInv
  <2>2. Served(c, a)
    BY <1>2, <2>1 DEF InOrder, InOrderAt
  <2>3. /\ client[c].reply = "none" /\ ran[c] = <<>>
        /\ \/ n = 1 /\ Nothing(a)
           \/ n = 2 /\ HalfOnly(a, cmd)
    BY <1>1, <1>3, <1>4, <2>2 DEF Served, Client
  <2>4. sock'[a].buf = Append(sock[a].buf, p) /\ cache'[a] = cache[a]
    BY <1>9, <1>11, <1>12, <1>15
  <2>5. \/ n = 1 /\ HalfOnly(a, cmd)'
        \/ n = 2 /\ Whole(a, cmd)'
    <3>0. \A y : Append(<<>>, y) = <<y>>
      OBVIOUS
    <3>1. \A x, y : Append(<<x>>, y) = <<x, y>>
      BY SecondAppended
    <3>2. CASE n = 1
      <4>1. p = FirstPiece(cmd)
        <5>1. (n = 2) = FALSE
          BY <3>2
        <5> QED
          BY <1>8, <5>1, Zenon DEF FirstPiece
      <4>2. sock[a].buf = <<>> /\ cache[a] = <<>>
        BY <2>3, <3>2 DEF Nothing
      <4> QED
        BY <2>4, <3>0, <3>2, <4>1, <4>2 DEF HalfOnly
    <3>3. CASE n = 2
      <4>1. p = LastPiece(cmd)
        BY <1>8, <3>3 DEF LastPiece
      <4>2. HalfOnly(a, cmd)
        BY <2>3, <3>3
      <4>3. CASE cache[a] = <<>> /\ sock[a].buf = <<FirstPiece(cmd)>>
        <5>1. sock'[a].buf = <<FirstPiece(cmd), LastPiece(cmd)>>
          BY <2>4, <3>1, <4>1, <4>3
        <5> QED
          BY <2>4, <3>3, <4>3, <5>1 DEF Whole
      <4>4. CASE cache[a] = <<FirstPiece(cmd)>> /\ sock[a].buf = <<>>
        <5>1. sock'[a].buf = <<LastPiece(cmd)>>
          BY <2>4, <3>0, <4>1, <4>4
        <5> QED
          BY <2>4, <3>3, <4>4, <5>1 DEF Whole
      <4> QED
        BY <4>2, <4>3, <4>4 DEF HalfOnly
    <3> QED
      BY <3>2, <3>3
  <2>6. Served(c, a)'
    <3>1. client'[c].pieces = n /\ client'[c].reply = "none" /\ client'[c].cmd = cmd
      BY <1>6, <1>14, <2>3
    <3>2. ran'[c] = <<>>
      BY <1>15, <2>3
    <3> QED
      BY <2>5, <3>1, <3>2 DEF Served
  <2>7. InOrderAt(a)'
    <3>1. \A d \in Clients : client'[d].addr = {a} <=> d = c
      BY <1>2, <1>6, <1>14, OneClient DEF ChannelInv
    <3> QED
      BY <2>6, <3>1 DEF InOrderAt
  <2>8. ASSUME NEW b \in Addrs \ {a}
        PROVE  /\ cache'[b] = cache[b]
               /\ sock'[b].buf = sock[b].buf /\ sock'[b].of = sock[b].of
               /\ \A d \in Clients :
                    /\ client'[d].addr = {b} <=> client[d].addr = {b}
                    /\ client[d].addr = {b} => client'[d] = client[d] /\ ran'[d] = ran[d]
    BY <1>2, <1>6, <1>12, <1>14, <1>15
  <2> QED
    BY <2>1, <2>7, <2>8, Elsewhere
<1> QED
  BY <1>15, <1>16, <1>17 DEF ChannelInv

-----------------------------------------------------------------------------
\* A client that returns, or is killed, gives up its connection.
LEMMA HangUpMoves ==
  ASSUME Connected, NEW c \in Clients, HangUp(c)
  PROVE  /\ client' \in [Clients -> Client] /\ sock' \in [Addrs -> Sock]
         /\ client'[c] = Idle /\ \A d \in Clients \ {c} : client'[d] = client[d]
         /\ \A b \in Addrs :
              /\ sock'[b].of = sock[b].of /\ sock'[b].buf = sock[b].buf
              /\ client[c].addr # {b} => sock'[b] = sock[b]
         /\ \A d \in Clients : client'[d].addr = {} => client'[d].reply = "none"
         /\ \A d \in Clients, b \in Addrs :
              client'[d].addr = {b} => sock'[b].of = {d} /\ ~sock'[b].eof
<1>1. client \in [Clients -> Client] /\ sock \in [Addrs -> Sock]
  BY DEF Connected
<1>2. Idle \in Client /\ Idle.addr = {} /\ Idle.reply = "none"
  BY DEF Idle, Client, Commands
<1>3. client' = [client EXCEPT ![c] = Idle]
  BY DEF HangUp
<1>4. PICK f \in [Addrs -> Sock] :
        /\ f = [b \in Addrs |-> IF b \in client[c].addr
                                THEN [sock[b] EXCEPT !.eof = TRUE] ELSE sock[b]]
  <2>1. \A b \in Addrs : [sock[b] EXCEPT !.eof = TRUE] \in Sock
    BY <1>1 DEF Sock
  <2> QED
    BY <1>1, <2>1
<1>5. sock' = f
  BY <1>4 DEF HangUp
<1>6. ASSUME NEW b \in Addrs
      PROVE  /\ f[b].of = sock[b].of /\ f[b].buf = sock[b].buf
             /\ client[c].addr # {b} => f[b] = sock[b]
  <2>1. sock[b] \in Sock
    BY <1>1
  <2>2. f[b] = IF b \in client[c].addr THEN [sock[b] EXCEPT !.eof = TRUE] ELSE sock[b]
    BY <1>4
  <2>3. b \in client[c].addr => client[c].addr = {b}
    BY <1>1 DEF Client
  <2> QED
    BY <2>1, <2>2, <2>3 DEF Sock
<1>7. client'[c] = Idle /\ \A d \in Clients \ {c} : client'[d] = client[d]
  BY <1>1, <1>3
<1>8. ASSUME NEW d \in Clients, NEW b \in Addrs, client'[d].addr = {b}
      PROVE  sock'[b].of = {d} /\ ~sock'[b].eof
  <2>1. d # c /\ client[d].addr = {b}
    BY <1>2, <1>7, <1>8
  <2>2. client[c].addr # {b}
    BY <2>1, OneClient
  <2>3. sock'[b] = sock[b]
    BY <1>5, <1>6, <2>2
  <2> QED
    BY <2>1, <2>3 DEF Connected
<1>9. \A d \in Clients : client'[d].addr = {} => client'[d].reply = "none"
  BY <1>2, <1>7 DEF Connected
<1>10. client' \in [Clients -> Client] /\ sock' \in [Addrs -> Sock]
  BY <1>1, <1>2, <1>3, <1>4, <1>5
<1> QED
  BY <1>5, <1>6, <1>7, <1>8, <1>9, <1>10

\* What remains at the address is what Left allows.
LEMMA HangUpStep ==
  ASSUME ChannelInv, NEW c \in Clients, HangUp(c), cache' = cache, ran' = ran,
         torn' \in BOOLEAN, ~torn' => ~torn,
         NEW a \in Addrs, client[c].addr = {a},
         ~torn' => Nothing(a) \/ Whole(a, client[c].cmd)
  PROVE  ChannelInv'
<1>1. Connected
  BY DEF ChannelInv
<1>2. /\ client' \in [Clients -> Client] /\ sock' \in [Addrs -> Sock]
      /\ client'[c] = Idle /\ \A d \in Clients \ {c} : client'[d] = client[d]
      /\ \A b \in Addrs :
           /\ sock'[b].of = sock[b].of /\ sock'[b].buf = sock[b].buf
           /\ client[c].addr # {b} => sock'[b] = sock[b]
      /\ \A d \in Clients : client'[d].addr = {} => client'[d].reply = "none"
      /\ \A d \in Clients, b \in Addrs :
           client'[d].addr = {b} => sock'[b].of = {d} /\ ~sock'[b].eof
  BY <1>1, HangUpMoves
<1>3. Connected'
  BY <1>1, <1>2 DEF Connected
<1>4. ASSUME ~torn' PROVE InOrder'
  <2>1. InOrder
    BY <1>4 DEF ChannelInv
  <2>2. Idle.addr = {}
    BY DEF Idle
  <2>3. ASSUME NEW d \in Clients, client'[d].addr = {a} PROVE FALSE
    <3>1. d # c
      BY <1>2, <2>2, <2>3
    <3>2. client[d].addr = {a}
      BY <1>2, <2>3, <3>1
    <3> QED
      BY <1>1, <3>1, <3>2, OneClient
  <2>4. Left(a)'
    <3>1. sock[a].of # {} /\ client[c].cmd \in Commands
      BY <1>1 DEF Connected, Client
    <3>2. /\ Nothing(a)' <=> Nothing(a)
          /\ Whole(a, client[c].cmd) => \E cmd \in Commands : Whole(a, cmd)'
      BY <1>2, <3>1 DEF Nothing, Whole
    <3> QED
      BY <1>2, <1>4, <3>1, <3>2 DEF Left
  <2>5. InOrderAt(a)'
    BY <2>3, <2>4 DEF InOrderAt
  <2>6. ASSUME NEW b \in Addrs \ {a}
        PROVE  /\ cache'[b] = cache[b]
               /\ sock'[b].buf = sock[b].buf /\ sock'[b].of = sock[b].of
               /\ \A d \in Clients :
                    /\ client'[d].addr = {b} <=> client[d].addr = {b}
                    /\ client[d].addr = {b} => client'[d] = client[d] /\ ran'[d] = ran[d]
    BY <1>2, <2>2
  <2> QED
    BY <2>1, <2>5, <2>6, Elsewhere
<1> QED
  BY <1>3, <1>4 DEF ChannelInv

LEMMA AddressOfCall ==
  ASSUME Connected, NEW c \in Clients, client[c].addr # {}
  PROVE  \E a \in Addrs : client[c].addr = {a}
<1>1. client[c] \in Client
  BY DEF Connected
<1> QED
  BY <1>1 DEF Client

LEMMA GetReplyStep ==
  ASSUME ChannelInv, NEW c \in Clients, GetReply(c)
  PROVE  ChannelInv'
<1>1. client[c].addr # {}
  BY DEF ChannelInv, Connected, GetReply
<1>2. PICK a \in Addrs : client[c].addr = {a}
  BY <1>1, AddressOfCall DEF ChannelInv
<1>3. ~torn => Nothing(a)
  BY <1>2 DEF ChannelInv, InOrder, InOrderAt, Served, GetReply
<1>4. cache' = cache /\ ran' = ran /\ torn' = torn /\ HangUp(c) /\ torn \in BOOLEAN
  BY DEF GetReply, ChannelInv, Connected
<1> QED
  BY <1>2, <1>3, <1>4, HangUpStep

LEMMA DieStep ==
  ASSUME ChannelInv, NEW c \in Clients, Die(c)
  PROVE  ChannelInv'
<1>1. client[c].addr # {}
  BY DEF Die, InCall
<1>2. PICK a \in Addrs : client[c].addr = {a}
  BY <1>1, AddressOfCall DEF ChannelInv
<1>3. cache' = cache /\ ran' = ran /\ HangUp(c) /\ torn \in BOOLEAN
  BY DEF Die, ChannelInv, Connected
<1>4. torn' = (torn \/ client[c].pieces = 1)
  BY DEF Die
<1>5. ASSUME ~torn' PROVE ~torn /\ (Nothing(a) \/ Whole(a, client[c].cmd))
  <2>1. ~torn /\ client[c].pieces # 1
    BY <1>4, <1>5
  <2>2. Served(c, a)
    BY <1>2, <2>1 DEF ChannelInv, InOrder, InOrderAt
  <2> QED
    BY <2>1, <2>2 DEF Served
<1>6. torn' \in BOOLEAN
  BY <1>4
<1> QED
  BY <1>2, <1>3, <1>5, <1>6, HangUpStep

-----------------------------------------------------------------------------
LEMMA LeastNat ==
  ASSUME NEW T, T \subseteq Nat, T # {}
  PROVE  \E x \in T : \A y \in T : x <= y
<1>1. PICK R : R = OpToRel(<, Nat)
  OBVIOUS
<1>2. IsWellFoundedOn(R, Nat)
  BY <1>1, NatLessThanWellFounded
<1>3. PICK x \in T : \A y \in T : ~ (<<y, x>> \in R)
  BY <1>2, WFMin
<1>4. \A y \in T : ~(y < x)
  BY <1>1, <1>3 DEF OpToRel
<1> QED
  BY <1>4

\* A command is cut off at a line break that has arrived; nothing is made up.
LEMMA CommandCut ==
  ASSUME NEW S, NEW q \in Seq(S)
  PROVE  /\ AfterCommand(q) \in Seq(S)
         /\ HasCommand(q) => \E m \in 1..Len(q) : Command(q) = Spelled(SubSeq(q, 1, m))
<1>1. Len(q) \in Nat /\ DOMAIN q = 1..Len(q) /\ \A i \in 1..Len(q) : q[i] \in S
  BY LenProperties, ElementOfSeq
<1>2. CASE ~HasCommand(q)
  BY <1>2 DEF AfterCommand
<1>3. CASE HasCommand(q)
  <2>1. Breaks(q) \subseteq Nat /\ Breaks(q) # {}
    BY <1>1, <1>3 DEF Breaks, HasCommand
  <2>2. PICK m : m = CHOOSE i \in Breaks(q) : \A j \in Breaks(q) : i <= j
    OBVIOUS
  <2>3. m \in Breaks(q)
    BY <2>1, <2>2, LeastNat
  <2>4. m \in 1..Len(q)
    BY <1>1, <2>3 DEF Breaks
  <2>5. AfterCommand(q) = SubSeq(q, 1 + m, Len(q))
    BY <1>3, <2>2 DEF AfterCommand
  <2>6. SubSeq(q, 1 + m, Len(q)) \in Seq(S)
    <3>1. 1 + m \in Int /\ Len(q) \in Int /\ \A i \in (1 + m)..Len(q) : q[i] \in S
      BY <1>1, <2>4
    <3>2. PICK k : k = 1 + m
      OBVIOUS
    <3>3. k \in Int /\ \A i \in k..Len(q) : q[i] \in S
      BY <3>1, <3>2
    <3>4. SubSeq(q, k, Len(q)) \in Seq(S)
      BY <3>1, <3>3, SubSeqProperties
    <3> QED
      BY <3>2, <3>4
  <2>7. Command(q) = Spelled(SubSeq(q, 1, m))
    BY <2>2 DEF Command
  <2> QED
    BY <2>4, <2>5, <2>6, <2>7
<1> QED
  BY <1>2, <1>3

\* It is the command of its first piece, or none.
LEMMA SpelledByFirst ==
  ASSUME NEW S, NEW q \in Seq(S), NEW m \in 1..Len(q)
  PROVE  q[1] \in S /\ Spelled(SubSeq(q, 1, m)) \in {q[1].cmd, "unknown"}
<1>1. Len(q) \in Nat /\ \A i \in 1..Len(q) : q[i] \in S
  BY LenProperties, ElementOfSeq
<1>2. PICK r : r = SubSeq(q, 1, m)
  OBVIOUS
<1>3. r[1] = q[1]
  <2>1. \A i \in 1..m : q[i] \in S
    BY <1>1
  <2>2. m \in Int /\ 1 \in Int
    OBVIOUS
  <2>3. \A i \in 1..(m - 1 + 1) : SubSeq(q, 1, m)[i] = q[1 + i - 1]
    BY <2>1, <2>2, SubSeqProperties
  <2>4. 1 \in 1..(m - 1 + 1) /\ 1 + 1 - 1 = 1
    OBVIOUS
  <2> QED
    BY <1>2, <2>3, <2>4
<1>4. Spelled(r) \in {r[1].cmd, "unknown"}
  BY DEF Spelled
<1> QED
  BY <1>1, <1>2, <1>3, <1>4

LEMMA CommandKnown ==
  ASSUME NEW q \in Seq(Piece), HasCommand(q)
  PROVE  Command(q) \in Commands \cup {"unknown"}
<1>1. PICK m \in 1..Len(q) : Command(q) = Spelled(SubSeq(q, 1, m))
  BY CommandCut
<1>2. q[1] \in Piece /\ Spelled(SubSeq(q, 1, m)) \in {q[1].cmd, "unknown"}
  BY SpelledByFirst
<1> QED
  BY <1>1, <1>2 DEF Piece

\* What readAll() completes, or leaves incomplete, at the address a.
LEMMA AllRead ==
  ASSUME NEW a, NEW cmd \in Commands, Whole(a, cmd)
  PROVE  /\ HasCommand(Cached(a)) /\ Command(Cached(a)) = cmd
         /\ AfterCommand(Cached(a)) = <<>>
<1>1. PICK q : q = Cached(a)
  OBVIOUS
<1>2. q = <<FirstPiece(cmd), LastPiece(cmd)>>
  <2>1. \A x, y : <<>> \o <<x, y>> = <<x, y>>
    OBVIOUS
  <2>2. \A x, y : <<x>> \o <<y>> = <<x, y>>
    BY ConcatTwo
  <2> QED
    BY <1>1, <2>1, <2>2 DEF Whole, Cached
<1> QED
  BY <1>1, <1>2, WholeCommand

LEMMA OnlyHalfRead ==
  ASSUME NEW a, NEW cmd \in Commands, HalfOnly(a, cmd), sock[a].buf # <<>>
  PROVE  /\ Cached(a) = <<FirstPiece(cmd)>> /\ ~HasCommand(Cached(a))
         /\ AfterCommand(Cached(a)) = <<FirstPiece(cmd)>>
<1>1. PICK q : q = Cached(a)
  OBVIOUS
<1>2. q = <<FirstPiece(cmd)>>
  <2>1. \A x : <<>> \o <<x>> = <<x>>
    OBVIOUS
  <2> QED
    BY <1>1, <2>1 DEF HalfOnly, Cached
<1> QED
  BY <1>1, <1>2, HalfCommand

LEMMA SlotReadyStep ==
  ASSUME ChannelInv, NEW a \in Addrs, NEW obeyed \in BOOLEAN, SlotReady(a, obeyed)
  PROVE  ChannelInv'
<1>1. /\ client \in [Clients -> Client] /\ sock \in [Addrs -> Sock]
      /\ cache \in [Addrs -> Seq(Piece)] /\ torn \in BOOLEAN
      /\ ran \in [Clients -> Seq(Commands \cup {"unknown"})]
  BY DEF ChannelInv, Connected
<1>2. PICK q : q = Cached(a)
  OBVIOUS
<1>3. q \in Seq(Piece)
  <2>1. cache[a] \in Seq(Piece) /\ sock[a].buf \in Seq(Piece)
    BY <1>1 DEF Sock
  <2> QED
    BY <1>2, <2>1, ConcatProperties DEF Cached
<1>4. PICK to : to = {c \in sock[a].of : client[c].addr = {a}}
  OBVIOUS
<1>5. /\ sock[a].buf # <<>>
      /\ cache' = [cache EXCEPT ![a] = AfterCommand(q)]
      /\ sock' = [sock EXCEPT ![a].buf = <<>>]
      /\ client' = [c \in Clients |->
                      IF c \in to /\ HasCommand(q)
                      THEN [client[c] EXCEPT !.reply = IF obeyed THEN "true" ELSE "false"]
                      ELSE client[c]]
      /\ ran' = [c \in Clients |-> IF c \in to /\ HasCommand(q)
                                   THEN Append(ran[c], Command(q)) ELSE ran[c]]
      /\ torn' = torn
  BY <1>2, <1>4 DEF SlotReady
<1>6. PICK s : s = [sock[a] EXCEPT !.buf = <<>>]
  OBVIOUS
<1>7. s \in Sock /\ s.of = sock[a].of /\ s.buf = <<>> /\ s.eof = sock[a].eof
  BY <1>1, <1>6, EmptySeq DEF Sock
<1>8. /\ sock' \in [Addrs -> Sock]
      /\ sock'[a] = s /\ \A b \in Addrs \ {a} : sock'[b] = sock[b]
  BY <1>1, <1>5, <1>6, <1>7
<1>9. /\ cache' \in [Addrs -> Seq(Piece)]
      /\ cache'[a] = AfterCommand(q) /\ \A b \in Addrs \ {a} : cache'[b] = cache[b]
  <2>1. AfterCommand(q) \in Seq(Piece)
    BY <1>3, CommandCut
  <2> QED
    BY <1>1, <1>5, <2>1
<1>10. \A c \in Clients : c \in to <=> client[c].addr = {a}
  BY <1>4 DEF ChannelInv, Connected
<1>11. PICK answer \in {"true", "false"} : answer = IF obeyed THEN "true" ELSE "false"
  OBVIOUS
<1>12. ASSUME NEW c \in Clients
       PROVE  /\ client'[c] \in Client /\ client'[c].addr = client[c].addr
              /\ client'[c].cmd = client[c].cmd /\ client'[c].pieces = client[c].pieces
              /\ ran'[c] \in Seq(Commands \cup {"unknown"})
              /\ ~(c \in to /\ HasCommand(q)) => client'[c] = client[c] /\ ran'[c] = ran[c]
              /\ c \in to /\ HasCommand(q) =>
                   client'[c].reply = answer /\ ran'[c] = Append(ran[c], Command(q))
  <2>1. client[c] \in Client
    BY <1>1
  <2>2. CASE ~(c \in to /\ HasCommand(q))
    BY <1>1, <1>5, <2>1, <2>2
  <2>3. CASE c \in to /\ HasCommand(q)
    <3>1. PICK new : new = [client[c] EXCEPT !.reply = answer]
      OBVIOUS
    <3>2. /\ new \in Client /\ new.addr = client[c].addr /\ new.cmd = client[c].cmd
          /\ new.pieces = client[c].pieces /\ new.reply = answer
      BY <2>1, <3>1 DEF Client
    <3>3. client'[c] = new
      BY <1>5, <1>11, <2>3, <3>1
    <3>4. ran'[c] = Append(ran[c], Command(q))
      BY <1>5, <2>3
    <3>5. Append(ran[c], Command(q)) \in Seq(Commands \cup {"unknown"})
      <4>1. Command(q) \in Commands \cup {"unknown"}
        BY <1>3, <2>3, CommandKnown
      <4>2. ran[c] \in Seq(Commands \cup {"unknown"})
        BY <1>1
      <4> QED
        BY <4>1, <4>2, AppendProperties
    <3> QED
      BY <2>3, <3>2, <3>3, <3>4, <3>5
  <2> QED
    BY <2>2, <2>3
<1>13. Connected'
  <2>1. client' \in [Clients -> Client] /\ ran' \in [Clients -> Seq(Commands \cup {"unknown"})]
    <3>1. PICK f, g : f = client' /\ g = ran'
      OBVIOUS
    <3>2. f = [c \in Clients |-> f[c]] /\ g = [c \in Clients |-> g[c]]
      BY <1>5, <3>1
    <3>3. \A c \in Clients : f[c] \in Client /\ g[c] \in Seq(Commands \cup {"unknown"})
      BY <1>12, <3>1
    <3> QED
      BY <3>1, <3>2, <3>3
  <2>2. ASSUME NEW c \in Clients, client'[c].addr = {} PROVE client'[c].reply = "none"
    <3>1. client[c].addr = {} /\ c \notin to
      BY <1>10, <1>12, <2>2
    <3> QED
      BY <1>12, <3>1 DEF ChannelInv, Connected
  <2>3. ASSUME NEW c \in Clients, NEW b \in Addrs, client'[c].addr = {b}
        PROVE  sock'[b].of = {c} /\ ~sock'[b].eof
    <3>1. sock[b].of = {c} /\ ~sock[b].eof
      BY <1>12, <2>3 DEF ChannelInv, Connected
    <3> QED
      BY <1>7, <1>8, <3>1
  <2> QED
    BY <1>1, <1>5, <1>8, <1>9, <2>1, <2>2, <2>3 DEF Connected
<1>14. ASSUME ~torn PROVE InOrder'
  <2>1. InOrder
    BY <1>14 DEF ChannelInv
  <2>2. InOrderAt(a)
    BY <2>1 DEF InOrder
  <2>3. ASSUME NEW cmd \in Commands, Whole(a, cmd)
        PROVE  HasCommand(q) /\ Command(q) = cmd /\ Nothing(a)'
    <3>2. HasCommand(q) /\ Command(q) = cmd /\ AfterCommand(q) = <<>>
      BY <1>2, <2>3, AllRead
    <3> QED
      BY <1>7, <1>8, <1>9, <3>2 DEF Nothing
  <2>4. ASSUME NEW c \in Clients, client'[c].addr = {a} PROVE Served(c, a)'
    <3>1. client[c].addr = {a} /\ c \in to
      BY <1>10, <1>12, <2>4
    <3>2. Served(c, a)
      BY <2>2, <3>1 DEF InOrderAt
    <3>3. PICK cmd \in Commands : cmd = client[c].cmd
      BY <1>1 DEF Client
    <3>4. /\ client[c].reply = "none" /\ ran[c] = <<>>
          /\ \/ client[c].pieces = 1 /\ HalfOnly(a, cmd)
             \/ client[c].pieces = 2 /\ Whole(a, cmd)
      BY <1>5, <3>2, <3>3 DEF Served, Nothing
    <3>5. CASE client[c].pieces = 1 /\ HalfOnly(a, cmd)
      <4>3. q = <<FirstPiece(cmd)>> /\ ~HasCommand(q) /\ AfterCommand(q) = <<FirstPiece(cmd)>>
        BY <1>2, <1>5, <3>5, OnlyHalfRead
      <4>4. client'[c] = client[c] /\ ran'[c] = ran[c]
        BY <1>12, <4>3
      <4>5. HalfOnly(a, cmd)'
        BY <1>7, <1>8, <1>9, <4>3 DEF HalfOnly
      <4>6. client'[c].pieces = 1 /\ client'[c].reply = "none" /\ client'[c].cmd = cmd
        BY <3>3, <3>4, <3>5, <4>4
      <4> QED
        BY <3>4, <4>4, <4>5, <4>6 DEF Served
    <3>6. CASE client[c].pieces = 2 /\ Whole(a, cmd)
      <4>1. HasCommand(q) /\ Command(q) = cmd /\ Nothing(a)'
        BY <2>3, <3>6
      <4>2. /\ client'[c].reply = answer /\ ran'[c] = Append(<<>>, cmd)
            /\ client'[c].pieces = 2 /\ client'[c].cmd = cmd
        BY <1>12, <3>1, <3>3, <3>4, <3>6, <4>1
      <4>3. Append(<<>>, cmd) = <<cmd>> /\ answer # "none"
        OBVIOUS
      <4> QED
        BY <4>1, <4>2, <4>3 DEF Served
    <3> QED
      BY <3>4, <3>5, <3>6
  <2>5. ASSUME \A c \in Clients : client'[c].addr # {a} PROVE Left(a)'
    <3>1. Left(a)
      BY <1>12, <2>2, <2>5 DEF InOrderAt
    <3>2. PICK cmd \in Commands : Whole(a, cmd)
      BY <1>5, <3>1 DEF Left, Nothing
    <3>3. Nothing(a)'
      BY <2>3, <3>2
    <3> QED
      BY <3>3 DEF Left
  <2>6. InOrderAt(a)'
    BY <2>4, <2>5 DEF InOrderAt
  <2>7. ASSUME NEW b \in Addrs \ {a}
        PROVE  /\ cache'[b] = cache[b]
               /\ sock'[b].buf = sock[b].buf /\ sock'[b].of = sock[b].of
               /\ \A d \in Clients :
                    /\ client'[d].addr = {b} <=> client[d].addr = {b}
                    /\ client[d].addr = {b} => client'[d] = client[d] /\ ran'[d] = ran[d]
    <3>1. cache'[b] = cache[b] /\ sock'[b] = sock[b]
      BY <1>8, <1>9
    <3>2. ASSUME NEW d \in Clients
          PROVE  /\ client'[d].addr = {b} <=> client[d].addr = {b}
                 /\ client[d].addr = {b} => client'[d] = client[d] /\ ran'[d] = ran[d]
      <4>1. client[d].addr = {b} => d \notin to
        BY <1>10
      <4> QED
        BY <1>12, <4>1
    <3> QED
      BY <3>1, <3>2
  <2> QED
    BY <2>1, <2>6, <2>7, Elsewhere
<1> QED
  BY <1>5, <1>13, <1>14 DEF ChannelInv

LEMMA SlotClosedStep ==
  ASSUME ChannelInv, NEW a \in Addrs, SlotClosed(a)
  PROVE  ChannelInv'
<1>1. sock \in [Addrs -> Sock] /\ sock[a].eof /\ sock[a].buf = <<>>
  BY DEF ChannelInv, Connected, SlotClosed
<1>2. Free \in Sock /\ Free.of = {} /\ Free.buf = <<>>
  BY EmptySeq DEF Free, Sock
<1>3. /\ sock' \in [Addrs -> Sock]
      /\ sock'[a] = Free /\ \A b \in Addrs \ {a} : sock'[b] = sock[b]
  BY <1>1, <1>2 DEF SlotClosed
<1>4. UNCHANGED <<client, cache, torn, ran>>
  BY DEF SlotClosed
<1>5. \A c \in Clients : client[c].addr # {a}
  BY <1>1 DEF ChannelInv, Connected
<1>6. Connected'
  <2>1. ASSUME NEW c \in Clients, NEW b \in Addrs, client'[c].addr = {b}
        PROVE  sock'[b].of = {c} /\ ~sock'[b].eof
    BY <1>3, <1>4, <1>5, <2>1 DEF ChannelInv, Connected
  <2> QED
    BY <1>3, <1>4, <2>1 DEF ChannelInv, Connected
<1>7. ASSUME ~torn PROVE InOrder'
  <2>1. InOrder
    BY <1>7 DEF ChannelInv
  <2>2. Left(a)
    BY <1>5, <2>1 DEF InOrder, InOrderAt
  <2>3. Nothing(a)'
    BY <1>1, <1>2, <1>3, <1>4, <2>2 DEF Left, Nothing, Whole
  <2>4. InOrderAt(a)'
    BY <1>4, <1>5, <2>3 DEF InOrderAt, Left
  <2> QED
    BY <1>3, <1>4, <2>1, <2>4, Elsewhere
<1> QED
  BY <1>4, <1>6, <1>7 DEF ChannelInv

-----------------------------------------------------------------------------
(***************************************************************************)
(* The commands that are on their way during a pause.                      *)
(***************************************************************************)

\* A piece of any command but resume.
Other == {p \in Piece : p.cmd # "resume"}

NoneResumes ==
  /\ \A c \in Clients : InCall(c) => client[c].cmd # "resume"
  /\ \A a \in Addrs : cache[a] \in Seq(Other) /\ sock[a].buf \in Seq(Other)

\* Who is told that the service pauses can rely on it.
PauseInv ==
  /\ quiet \subseteq Clients
  /\ \A c \in quiet : InCall(c) /\ client[c].cmd = "pause"
  /\ quiet # {} \/ held => NoneResumes
  /\ ~torn => \A c \in quiet : client[c].reply = "true" => disabled
  /\ held => disabled

-----------------------------------------------------------------------------
LEMMA FunctionIsSeq ==
  ASSUME NEW S, NEW n \in Nat, NEW f \in [1..n -> S]
  PROVE  f \in Seq(S)
OBVIOUS

LEMMA NotResuming ==
  ASSUME Connected, ~Resuming
  PROVE  NoneResumes
<1>1. ASSUME NEW a \in Addrs PROVE cache[a] \in Seq(Other) /\ sock[a].buf \in Seq(Other)
  <2>1. PICK m, b : m = cache[a] /\ b = sock[a].buf
    OBVIOUS
  <2>2. m \in Seq(Piece) /\ b \in Seq(Piece)
    BY <2>1 DEF Connected, Sock
  <2>3. /\ m \o b \in Seq(Piece) /\ Len(m \o b) = Len(m) + Len(b)
        /\ \A i \in 1..Len(m) : (m \o b)[i] = m[i]
        /\ \A i \in 1..Len(b) : (m \o b)[Len(m) + i] = b[i]
    BY <2>2, ConcatProperties
  <2>4. /\ Len(m) \in Nat /\ DOMAIN m = 1..Len(m) /\ m = [i \in 1..Len(m) |-> m[i]]
        /\ Len(b) \in Nat /\ DOMAIN b = 1..Len(b) /\ b = [i \in 1..Len(b) |-> b[i]]
    BY <2>2, LenProperties
  <2>5. \A i \in 1..(Len(m) + Len(b)) : (m \o b)[i].cmd # "resume"
    <3>1. DOMAIN (m \o b) = 1..(Len(m) + Len(b))
      BY <2>3, LenProperties
    <3> QED
      BY <2>1, <3>1 DEF Resuming, Cached
  <2>6. \A i \in 1..Len(m) : m[i] \in Other
    <3>1. \A i \in 1..Len(m) : m[i] \in Piece /\ i \in 1..(Len(m) + Len(b))
      BY <2>2, <2>4, ElementOfSeq
    <3> QED
      BY <2>3, <2>5, <3>1 DEF Other
  <2>7. \A i \in 1..Len(b) : b[i] \in Other
    <3>1. \A i \in 1..Len(b) : b[i] \in Piece /\ Len(m) + i \in 1..(Len(m) + Len(b))
      BY <2>2, <2>4, ElementOfSeq
    <3> QED
      BY <2>3, <2>5, <3>1 DEF Other
  <2>8. m \in Seq(Other) /\ b \in Seq(Other)
    <3>1. m \in [1..Len(m) -> Other] /\ b \in [1..Len(b) -> Other]
      BY <2>4, <2>6, <2>7
    <3> QED
      BY <2>4, <3>1, FunctionIsSeq
  <2> QED
    BY <2>1, <2>8
<1> QED
  BY <1>1 DEF NoneResumes, Resuming

LEMMA QuietConnect ==
  ASSUME Connected, NoneResumes, NEW c \in Clients, NEW a \in Addrs, NEW cmd \in Commands,
         cmd # "resume", Connect(c, cmd, a)
  PROVE  NoneResumes'
<1>1. client \in [Clients -> Client] /\ sock \in [Addrs -> Sock]
  BY DEF Connected
<1>2. \A b \in Addrs : cache'[b] = cache[b] /\ sock'[b].buf = sock[b].buf
  BY <1>1 DEF Connect, Sock
<1>3. \A d \in Clients : client'[d].cmd = IF d = c THEN cmd ELSE client[d].cmd
  BY <1>1 DEF Connect, Idle
<1>4. \A d \in Clients \ {c} : client'[d] = client[d]
  BY <1>1 DEF Connect
<1> QED
  BY <1>2, <1>3, <1>4 DEF NoneResumes, InCall

LEMMA QuietWrite ==
  ASSUME Connected, NoneResumes, NEW c \in Clients, Write(c)
  PROVE  NoneResumes'
<1>1. /\ client \in [Clients -> Client] /\ sock \in [Addrs -> Sock]
      /\ client[c].cmd # "resume" /\ client[c] \in Client
  BY DEF Connected, Write, NoneResumes
<1>2. PICK p : p = [cmd |-> client[c].cmd, last |-> client[c].pieces + 1 = 2]
  OBVIOUS
<1>3. p \in Other
  <2>1. (client[c].pieces + 1 = 2) \in BOOLEAN /\ client[c].cmd \in Commands
    BY <1>1 DEF Client
  <2>2. p \in Piece
    BY <1>2, <2>1, Zenon DEF Piece
  <2>3. p.cmd = client[c].cmd
    BY <1>2
  <2> QED
    BY <1>1, <2>2, <2>3 DEF Other
<1>4. ASSUME NEW b \in Addrs PROVE sock'[b].buf \in Seq(Other)
  <2>1. sock[b].buf \in Seq(Other) /\ sock[b] \in Sock
    BY <1>1 DEF NoneResumes
  <2>2. \/ sock'[b] = sock[b]
        \/ sock'[b] = [sock[b] EXCEPT !.buf = Append(@, p)]
    BY <1>2 DEF Write
  <2>3. Append(sock[b].buf, p) \in Seq(Other)
    BY <1>3, <2>1, AppendProperties
  <2> QED
    BY <2>1, <2>2, <2>3 DEF Sock
<1>5. \A d \in Clients : client'[d].cmd = client[d].cmd /\ client'[d].addr = client[d].addr
  BY <1>1 DEF Write, Client
<1>6. cache' = cache
  BY DEF Write
<1> QED
  BY <1>4, <1>5, <1>6 DEF NoneResumes, InCall

LEMMA QuietHangUp ==
  ASSUME Connected, NoneResumes, NEW c \in Clients, HangUp(c), cache' = cache
  PROVE  NoneResumes'
<1>1. /\ client'[c] = Idle /\ \A d \in Clients \ {c} : client'[d] = client[d]
      /\ \A b \in Addrs : sock'[b].buf = sock[b].buf
  BY HangUpMoves
<1>2. Idle.addr = {}
  BY DEF Idle
<1> QED
  BY <1>1, <1>2 DEF NoneResumes, InCall

LEMMA QuietSlotReady ==
  ASSUME Connected, NoneResumes, NEW a \in Addrs, NEW obeyed, SlotReady(a, obeyed)
  PROVE  NoneResumes'
<1>1. client \in [Clients -> Client] /\ sock \in [Addrs -> Sock] /\ cache \in [Addrs -> Seq(Piece)]
  BY DEF Connected
<1>2. PICK q : q = Cached(a)
  OBVIOUS
<1>3. q \in Seq(Other)
  <2>1. cache[a] \in Seq(Other) /\ sock[a].buf \in Seq(Other)
    BY DEF NoneResumes
  <2> QED
    BY <1>2, <2>1, ConcatProperties DEF Cached
<1>4. AfterCommand(q) \in Seq(Other)
  BY <1>3, CommandCut
<1>5. \A b \in Addrs : cache'[b] = IF b = a THEN AfterCommand(q) ELSE cache[b]
  BY <1>1, <1>2 DEF SlotReady
<1>6. \A b \in Addrs : sock'[b].buf = IF b = a THEN <<>> ELSE sock[b].buf
  BY <1>1 DEF SlotReady, Sock
<1>7. <<>> \in Seq(Other)
  BY EmptySeq
<1>8. \A d \in Clients : client'[d].cmd = client[d].cmd /\ client'[d].addr = client[d].addr
  BY <1>1 DEF SlotReady, Client
<1> QED
  BY <1>4, <1>5, <1>6, <1>7, <1>8 DEF NoneResumes, InCall

LEMMA QuietSlotClosed ==
  ASSUME Connected, NoneResumes, NEW a \in Addrs, SlotClosed(a)
  PROVE  NoneResumes'
<1>1. \A b \in Addrs : sock'[b].buf = sock[b].buf
  BY DEF Connected, SlotClosed, Free
<1> QED
  BY <1>1 DEF SlotClosed, NoneResumes, InCall

\* No daemon takes what is on its way for a resume.
LEMMA NoResumeExecuted ==
  ASSUME Connected, NoneResumes, NEW a \in Addrs, HasCommand(Cached(a))
  PROVE  Command(Cached(a)) # "resume"
<1>1. PICK q : q = Cached(a)
  OBVIOUS
<1>2. q \in Seq(Other)
  <2>1. cache[a] \in Seq(Other) /\ sock[a].buf \in Seq(Other)
    BY DEF NoneResumes
  <2> QED
    BY <1>1, <2>1, ConcatProperties DEF Cached
<1>3. PICK m \in 1..Len(q) : Command(q) = Spelled(SubSeq(q, 1, m))
  BY <1>1, <1>2, CommandCut
<1>4. q[1] \in Other /\ Spelled(SubSeq(q, 1, m)) \in {q[1].cmd, "unknown"}
  BY <1>2, SpelledByFirst
<1>5. Spelled(SubSeq(q, 1, m)) # "resume"
  BY <1>4 DEF Other
<1> QED
  BY <1>1, <1>3, <1>5

-----------------------------------------------------------------------------
LEMMA JobKeepsDisabled == PM!JobStep \/ PM!Load => disabled' = disabled
BY DEF PM!JobStep, PM!PageStep, PM!LinkStep, PM!PageLoaded, PM!GetedLink, PM!NextPage,
       PM!NoNextPage, PM!LinkLoaded, PM!ProductEnd, PM!Load

LEMMA PauseInvInit == Init => PauseInv
BY DEF Init, PauseInv

LEMMA EndsPauseInv == Ends => PauseInv'
BY DEF Ends, PauseInv

LEMMA CallPauseInv ==
  ASSUME ChannelInv, PauseInv, NEW c \in Clients, Call(c), disabled' = disabled
  PROVE  PauseInv'
<1>1. PICK cmd \in Commands, a \in Addrs :
        /\ Connect(c, cmd, a)
        /\ quiet' = CASE cmd = "pause" /\ ~Resuming -> quiet \cup {c}
                      [] cmd = "resume"             -> {}
                      [] OTHER                      -> quiet
        /\ held' = (held /\ cmd # "resume")
  BY SentAssumption DEF Call
<1>2. CASE cmd = "resume"
  <2>1. quiet' = {} /\ ~held'
    BY <1>1, <1>2
  <2> QED
    BY <2>1 DEF PauseInv
<1>3. CASE cmd # "resume"
  <2>1. Connected /\ client \in [Clients -> Client] /\ client[c].addr = {} /\ torn' = torn
    BY <1>1 DEF ChannelInv, Connected, Connect, InCall
  <2>2. /\ client'[c].addr = {a} /\ client'[c].cmd = cmd /\ client'[c].reply = "none"
        /\ \A d \in Clients \ {c} : client'[d] = client[d]
    BY <1>1, <2>1 DEF Connect, Idle
  <2>3. c \notin quiet
    BY <2>1 DEF PauseInv, InCall
  <2>4. \A d \in quiet : client'[d] = client[d]
    BY <2>2, <2>3 DEF PauseInv
  <2>5. quiet' = quiet \/ (quiet' = quiet \cup {c} /\ cmd = "pause" /\ ~Resuming)
    BY <1>1, <1>3
  <2>6. held' => held
    BY <1>1
  <2>7. ASSUME quiet' # {} \/ held' PROVE NoneResumes'
    <3>1. NoneResumes
      BY <2>1, <2>5, <2>6, <2>7, NotResuming DEF PauseInv
    <3> QED
      BY <1>1, <1>3, <2>1, <3>1, QuietConnect
  <2>8. \A d \in quiet' : InCall(d)' /\ client'[d].cmd = "pause"
    BY <2>2, <2>4, <2>5 DEF PauseInv, InCall
  <2>9. ~torn' => \A d \in quiet' : client'[d].reply = "true" => disabled'
    BY <2>1, <2>2, <2>4, <2>5 DEF PauseInv
  <2>10. quiet' \subseteq Clients /\ (held' => disabled')
    BY <2>5, <2>6 DEF PauseInv
  <2> QED
    BY <2>7, <2>8, <2>9, <2>10 DEF PauseInv
<1> QED
  BY <1>2, <1>3

LEMMA ClientPauseInv ==
  ASSUME ChannelInv, PauseInv, NEW c \in Clients, ClientStep(c)
  PROVE  PauseInv'
<1>1. disabled' = disabled /\ Connected /\ client \in [Clients -> Client]
  BY DEF ClientStep, crawlVars, ChannelInv, Connected
<1>2. CASE Call(c)
  BY <1>1, <1>2, CallPauseInv
<1>3. CASE CallReturns(c)
  <2>1. HangUp(c) /\ cache' = cache /\ torn' = torn
    BY <1>3 DEF CallReturns, GetReply
  <2>2. /\ quiet' = quiet \ {c}
        /\ held' = (held \/ (c \in quiet /\ client[c].reply = "true" /\ ~torn))
    BY <1>3 DEF CallReturns
  <2>3. \A d \in quiet' : d \in quiet /\ client'[d] = client[d]
    BY <1>1, <2>1, <2>2, HangUpMoves DEF PauseInv
  <2>4. NoneResumes => NoneResumes'
    BY <1>1, <2>1, QuietHangUp
  <2>5. held' => disabled'
    BY <1>1, <2>2 DEF PauseInv
  <2>6. quiet' # {} \/ held' => quiet # {} \/ held
    BY <2>2
  <2>7. quiet' \subseteq Clients
    BY <2>2 DEF PauseInv
  <2> QED
    BY <1>1, <2>1, <2>3, <2>4, <2>5, <2>6, <2>7 DEF PauseInv, InCall
<1>4. CASE Write(c) /\ UNCHANGED <<quiet, held>>
  <2>1. \A d \in Clients : /\ client'[d].cmd = client[d].cmd /\ client'[d].addr = client[d].addr
                           /\ client'[d].reply = client[d].reply
    BY <1>1, <1>4 DEF Write, Client
  <2>2. NoneResumes => NoneResumes'
    BY <1>1, <1>4, QuietWrite
  <2>3. torn' = torn
    BY <1>4 DEF Write
  <2> QED
    BY <1>1, <1>4, <2>1, <2>2, <2>3 DEF PauseInv, InCall
<1>5. CASE Die(c) /\ quiet' = quiet \ {c} /\ UNCHANGED held
  <2>1. HangUp(c) /\ cache' = cache /\ (~torn' => ~torn)
    BY <1>5 DEF Die
  <2>2. \A d \in quiet' : d \in quiet /\ client'[d] = client[d]
    BY <1>1, <1>5, <2>1, HangUpMoves DEF PauseInv
  <2>3. NoneResumes => NoneResumes'
    BY <1>1, <2>1, QuietHangUp
  <2>4. quiet' \subseteq Clients
    BY <1>5 DEF PauseInv
  <2> QED
    BY <1>1, <1>5, <2>1, <2>2, <2>3, <2>4 DEF PauseInv, InCall
<1> QED
  BY <1>2, <1>3, <1>4, <1>5 DEF ClientStep

\* The answer "true" to a pause comes from a daemon that has just paused or was
\* paused already.
LEMMA ReadPauseInv ==
  ASSUME ChannelInv, PauseInv, NEW a \in Addrs, ReadyRead(a)
  PROVE  PauseInv'
<1>1. PICK q : q = Cached(a)
  OBVIOUS
<1>2. PICK obeyed \in BOOLEAN : obeyed = (HasCommand(q) /\ Command(q) \in Commands)
  OBVIOUS
<1>3. /\ SlotReady(a, obeyed) /\ UNCHANGED <<quiet, held>> /\ torn' = torn
      /\ IF HasCommand(q) THEN Execute(Command(q)) ELSE UNCHANGED <<process, crawlVars>>
  BY <1>1, <1>2 DEF ReadyRead, SlotReady
<1>4. Connected /\ client \in [Clients -> Client]
  BY DEF ChannelInv, Connected
<1>5. \A d \in Clients : client'[d].cmd = client[d].cmd /\ client'[d].addr = client[d].addr
  BY <1>3, <1>4 DEF SlotReady, Client
<1>6. NoneResumes => NoneResumes'
  BY <1>3, <1>4, QuietSlotReady
<1>7. ASSUME NoneResumes, disabled PROVE disabled'
  <2>1. CASE HasCommand(q)
    <3>1. Command(q) # "resume"
      BY <1>1, <1>4, <1>7, <2>1, NoResumeExecuted
    <3> QED
      BY <1>3, <1>7, <2>1, <3>1 DEF Execute, crawlVars
  <2>2. CASE ~HasCommand(q)
    BY <1>3, <1>7, <2>2 DEF crawlVars
  <2> QED
    BY <2>1, <2>2
<1>8. ASSUME ~torn', NEW c \in quiet', client'[c].reply = "true" PROVE disabled'
  <2>1. c \in quiet /\ c \in Clients /\ ~torn /\ client[c].cmd = "pause" /\ NoneResumes
    BY <1>3, <1>8 DEF PauseInv
  <2>2. CASE client[c].reply = "true"
    BY <1>7, <2>1, <2>2 DEF PauseInv
  <2>3. CASE client[c].reply # "true"
    <3>1. client[c].addr = {a} /\ HasCommand(q)
      BY <1>1, <1>3, <1>4, <1>8, <2>1, <2>3 DEF SlotReady
    <3>2. Served(c, a)
      BY <2>1, <3>1 DEF ChannelInv, InOrder, InOrderAt
    <3>3. HalfOnly(a, "pause") \/ Whole(a, "pause")
      BY <1>3, <2>1, <3>2 DEF Served, Nothing, SlotReady
    <3>4. CASE HalfOnly(a, "pause")
      <4>1. sock[a].buf # <<>> /\ "pause" \in Commands
        BY <1>3 DEF SlotReady, Commands
      <4>2. ~HasCommand(Cached(a))
        BY <3>4, <4>1, OnlyHalfRead
      <4> QED
        BY <1>1, <3>1, <4>2
    <3>5. CASE Whole(a, "pause")
      <4>1. Command(q) = "pause"
        BY <1>1, <3>5, AllRead DEF Commands
      <4>2. Execute("pause")
        BY <1>3, <3>1, <4>1
      <4> QED
        BY <4>2 DEF Execute, PM!Pause, crawlVars
    <3> QED
      BY <3>3, <3>4, <3>5
  <2> QED
    BY <2>2, <2>3
<1>9. held' => disabled'
  BY <1>3, <1>7 DEF PauseInv
<1> QED
  BY <1>3, <1>5, <1>6, <1>8, <1>9 DEF PauseInv, InCall

LEMMA PauseInvStep == ChannelInv /\ PauseInv /\ [Next]_vars => PauseInv'
<1> SUFFICES ASSUME ChannelInv, PauseInv, [Next]_vars PROVE PauseInv'
  OBVIOUS
<1>1. ASSUME UNCHANGED <<channelVars, quiet, held>>, disabled' = disabled PROVE PauseInv'
  BY <1>1 DEF channelVars, PauseInv, NoneResumes, InCall
<1>2. CASE Start
  BY <1>1, <1>2 DEF Start, crawlVars
<1>3. CASE SlotStart
  BY <1>1, <1>3, EndsPauseInv DEF SlotStart, crawlVars
<1>4. CASE TimerFires
  BY <1>1, <1>4, JobKeepsDisabled, EndsPauseInv DEF TimerFires
<1>5. CASE CrawlStep
  BY <1>1, <1>5, JobKeepsDisabled DEF CrawlStep
<1>6. CASE Gone
  BY <1>6, EndsPauseInv DEF Gone
<1>7. ASSUME NEW c \in Clients, ClientStep(c) PROVE PauseInv'
  BY <1>7, ClientPauseInv
<1>8. ASSUME NEW a \in Addrs, ReadyRead(a) PROVE PauseInv'
  BY <1>8, ReadPauseInv
<1>9. ASSUME NEW a \in Addrs, Closed(a) PROVE PauseInv'
  <2>1. Connected /\ SlotClosed(a) /\ disabled' = disabled /\ UNCHANGED <<quiet, held>>
    BY <1>9 DEF Closed, crawlVars, ChannelInv
  <2>2. client' = client /\ torn' = torn
    BY <2>1 DEF SlotClosed
  <2>3. NoneResumes => NoneResumes'
    BY <2>1, QuietSlotClosed
  <2> QED
    BY <2>1, <2>2, <2>3 DEF PauseInv, InCall
<1>10. CASE UNCHANGED vars
  BY <1>1, <1>10 DEF vars, crawlVars
<1> QED
  BY <1>2, <1>3, <1>4, <1>5, <1>6, <1>7, <1>8, <1>9, <1>10 DEF Next

-----------------------------------------------------------------------------
LEMMA ChannelInvStep == ChannelInv /\ [Next]_vars => ChannelInv'
<1> SUFFICES ASSUME ChannelInv, [Next]_vars PROVE ChannelInv'
  OBVIOUS
<1>1. ASSUME UNCHANGED channelVars PROVE ChannelInv'
  <2>1. UNCHANGED <<client, sock, cache, torn, ran>>
    BY <1>1 DEF channelVars
  <2>2. Connected'
    BY <2>1 DEF ChannelInv, Connected
  <2>3. ASSUME InOrder PROVE InOrder'
    <3>1. ASSUME NEW a \in Addrs, NEW c \in Clients, Served(c, a) PROVE Served(c, a)'
      BY <2>1, <3>1 DEF Served, Nothing, HalfOnly, Whole
    <3>2. ASSUME NEW a \in Addrs, Left(a) PROVE Left(a)'
      BY <2>1, <3>2 DEF Left, Nothing, Whole
    <3> QED
      BY <2>1, <2>3, <3>1, <3>2 DEF InOrder, InOrderAt
  <2> QED
    BY <2>1, <2>2, <2>3 DEF ChannelInv
<1>2. ASSUME Ends PROVE ChannelInv'
  BY <1>2, ChannelEndsStep DEF Ends, ChannelInv
<1>3. CASE Start \/ SlotStart \/ TimerFires \/ CrawlStep \/ Gone
  BY <1>1, <1>2, <1>3 DEF Start, SlotStart, TimerFires, CrawlStep, Gone
<1>4. ASSUME NEW c \in Clients, ClientStep(c) PROVE ChannelInv'
  <2>1. CASE Call(c)
    <3>1. PICK cmd \in Commands, a \in Addrs : Connect(c, cmd, a)
      BY <2>1, SentAssumption DEF Call
    <3> QED
      BY <3>1, ConnectStep
  <2>2. CASE CallReturns(c)
    BY <2>2, GetReplyStep DEF CallReturns
  <2>3. CASE Write(c)
    BY <2>3, WriteStep
  <2>4. CASE Die(c)
    BY <2>4, DieStep
  <2> QED
    BY <1>4, <2>1, <2>2, <2>3, <2>4 DEF ClientStep
<1>5. ASSUME NEW a \in Addrs, ReadyRead(a) PROVE ChannelInv'
  <2>1. PICK obeyed \in BOOLEAN :
          obeyed = (HasCommand(Cached(a)) /\ Command(Cached(a)) \in Commands)
    OBVIOUS
  <2>2. SlotReady(a, obeyed)
    BY <1>5, <2>1 DEF ReadyRead
  <2> QED
    BY <2>2, SlotReadyStep
<1>6. ASSUME NEW a \in Addrs, Closed(a) PROVE ChannelInv'
  BY <1>6, SlotClosedStep DEF Closed
<1>7. CASE UNCHANGED vars
  BY <1>1, <1>7 DEF vars, channelVars
<1> QED
  BY <1>3, <1>4, <1>5, <1>6, <1>7 DEF Next

LEMMA CommandInvariant == Spec => [](ChannelInv /\ PauseInv)
<1>1. Init => ChannelInv /\ PauseInv
  BY ConnectedInit, PauseInvInit DEF Init
<1>2. ChannelInv /\ PauseInv /\ [Next]_vars => (ChannelInv /\ PauseInv)'
  BY ChannelInvStep, PauseInvStep
<1> QED
  BY <1>1, <1>2, PTL DEF Spec

-----------------------------------------------------------------------------
\* However a command is split, and whatever the addresses of earlier sockets, it
\* is executed once, as it was sent, and then answered (slotReady and getCommand,
\* qtservice_unix.cpp:322-378), unless a client died in the middle of one.
THEOREM CommandsRunAsSent == Spec => []ExecutedAsSent
<1>1. ChannelInv => ExecutedAsSent
  <2> SUFFICES ASSUME ChannelInv, ~torn, NEW c \in Clients, InCall(c)
               PROVE  ran[c] = IF client[c].reply = "none" THEN <<>> ELSE <<client[c].cmd>>
    BY DEF ExecutedAsSent
  <2>1. PICK a \in Addrs : client[c].addr = {a}
    BY AddressOfCall DEF ChannelInv, InCall
  <2>2. Served(c, a)
    BY <2>1 DEF ChannelInv, InOrder, InOrderAt
  <2> QED
    BY <2>2 DEF Served
<1> QED
  BY <1>1, CommandInvariant, PTL

-----------------------------------------------------------------------------
(***************************************************************************)
(* What a killed client leaves behind cannot make a command.               *)
(***************************************************************************)

\* A line break is in the buffer or it was cut off with its command: the cache
\* holds none.
OneBreak(a) ==
  /\ \A i \in DOMAIN cache[a] : ~cache[a][i].last
  /\ \A i, j \in DOMAIN sock[a].buf :
       sock[a].buf[i].last /\ sock[a].buf[j].last => i = j

\* It ends the command of the client, which waits for the answer.
OwnBreak(c, a) ==
  /\ client[c].reply # "none" => client[c].pieces = 2
  /\ \A i \in DOMAIN sock[a].buf : sock[a].buf[i].last =>
       /\ client[c].pieces = 2 /\ client[c].reply = "none"
       /\ sock[a].buf[i].cmd = client[c].cmd

Answered(c) ==
  /\ client[c].reply = "none" => ran[c] = <<>>
  /\ client[c].reply = "true" => ran[c] \in {<<client[c].cmd>>, <<"num">>}
  /\ client[c].reply = "false" => ran[c] = <<"unknown">>

ForgeInv ==
  /\ \A a \in Addrs : OneBreak(a)
  /\ \A c \in Clients, a \in Addrs : client[c].addr = {a} => OwnBreak(c, a) /\ Answered(c)

\* Nothing is said of an address that is read by nobody.
LEMMA NothingToForge ==
  ASSUME \A a \in Addrs : cache[a] = <<>> /\ sock[a].buf = <<>>,
         \A c \in Clients : client[c].addr = {}
  PROVE  ForgeInv
BY DEF ForgeInv, OneBreak

LEMMA NothingToForgeNext ==
  ASSUME \A a \in Addrs : cache'[a] = <<>> /\ sock'[a].buf = <<>>,
         \A c \in Clients : client'[c].addr = {}
  PROVE  ForgeInv'
BY DEF ForgeInv, OneBreak

\* A call stays as it was when nothing of it changes but what is read of its socket.
LEMMA CallUntouched ==
  ASSUME NEW d \in Clients, NEW b \in Addrs, OwnBreak(d, b) /\ Answered(d),
         client'[d] = client[d], ran'[d] = ran[d],
         sock'[b].buf = <<>> \/ sock'[b].buf = sock[b].buf
  PROVE  OwnBreak(d, b)' /\ Answered(d)'
<1>1. Answered(d)'
  BY DEF Answered
<1>2. OwnBreak(d, b)'
  <2>1. CASE sock'[b].buf = <<>>
    <3>1. DOMAIN sock'[b].buf = {}
      BY <2>1
    <3> QED BY <3>1 DEF OwnBreak
  <2>2. CASE sock'[b].buf = sock[b].buf
    BY <2>2 DEF OwnBreak
  <2> QED BY <2>1, <2>2
<1> QED BY <1>1, <1>2

LEMMA ForgeQuiet ==
  ASSUME ForgeInv, client' = client, cache' = cache, ran' = ran,
         \A b \in Addrs : sock'[b].buf = sock[b].buf
  PROVE  ForgeInv'
<1>1. \A b \in Addrs : OneBreak(b)'
  BY DEF ForgeInv, OneBreak
<1>2. ASSUME NEW d \in Clients, NEW b \in Addrs, client'[d].addr = {b}
      PROVE  OwnBreak(d, b)' /\ Answered(d)'
  <2>1. OwnBreak(d, b) /\ Answered(d)
    BY <1>2 DEF ForgeInv
  <2> QED BY <2>1, CallUntouched
<1> QED BY <1>1, <1>2 DEF ForgeInv

LEMMA ForgeConnect ==
  ASSUME Connected, ForgeInv, NEW c \in Clients, NEW a \in Addrs, NEW cmd \in Commands,
         Connect(c, cmd, a)
  PROVE  ForgeInv'
<1>1. /\ client \in [Clients -> Client] /\ sock \in [Addrs -> Sock]
      /\ ran \in [Clients -> Seq(Commands \cup {"unknown"})] /\ sock[a] = Free
      /\ client' = [client EXCEPT ![c] = [Idle EXCEPT !.cmd = cmd, !.addr = {a}]]
      /\ sock' = [sock EXCEPT ![a].of = {c}]
      /\ ran' = [ran EXCEPT ![c] = <<>>] /\ cache' = cache
  BY DEF Connected, Connect
<1>2. /\ client'[c] = [Idle EXCEPT !.cmd = cmd, !.addr = {a}] /\ ran'[c] = <<>>
      /\ \A d \in Clients \ {c} : client'[d] = client[d] /\ ran'[d] = ran[d]
  BY <1>1
<1>3. client'[c].addr = {a} /\ client'[c].reply = "none"
  BY <1>2 DEF Idle
<1>4. \A b \in Addrs : sock'[b].buf = sock[b].buf
  BY <1>1 DEF Sock
<1>5. sock[a].buf = <<>> /\ sock[a].of = {}
  BY <1>1 DEF Free
<1>6. \A d \in Clients : client[d].addr # {a}
  BY <1>5 DEF Connected
<1>7. \A b \in Addrs : OneBreak(b)'
  BY <1>1, <1>4 DEF ForgeInv, OneBreak
<1>8. ASSUME NEW d \in Clients, NEW b \in Addrs, client'[d].addr = {b}
      PROVE  OwnBreak(d, b)' /\ Answered(d)'
  <2>1. CASE d = c
    <3>1. b = a /\ sock'[b].buf = <<>>
      BY <1>3, <1>4, <1>5, <1>8, <2>1
    <3>2. DOMAIN sock'[b].buf = {}
      BY <3>1
    <3>3. OwnBreak(d, b)'
      BY <1>3, <2>1, <3>2 DEF OwnBreak
    <3>4. Answered(d)'
      BY <1>2, <1>3, <2>1 DEF Answered
    <3> QED BY <3>3, <3>4
  <2>2. CASE d # c
    <3>1. client'[d] = client[d] /\ ran'[d] = ran[d] /\ client[d].addr = {b}
      BY <1>2, <1>8, <2>2
    <3>2. OwnBreak(d, b) /\ Answered(d)
      BY <3>1 DEF ForgeInv
    <3> QED BY <1>4, <3>1, <3>2, CallUntouched
  <2> QED BY <2>1, <2>2
<1> QED BY <1>7, <1>8 DEF ForgeInv

LEMMA ForgeWrite ==
  ASSUME Connected, ForgeInv, NEW c \in Clients, Write(c)
  PROVE  ForgeInv'
<1>1. /\ client \in [Clients -> Client] /\ sock \in [Addrs -> Sock]
      /\ client[c].addr # {} /\ client[c] \in Client
  BY DEF Connected, Write, InCall
<1>2. PICK a \in Addrs : client[c].addr = {a}
  BY <1>1, AddressOfCall
<1>3. PICK n \in 1..2 : n = client[c].pieces + 1
  BY <1>1 DEF Write, Client
<1>4. /\ client' = [client EXCEPT ![c].pieces = n] /\ cache' = cache /\ ran' = ran
      /\ sock' = [b \in Addrs |->
                    IF b \in client[c].addr
                    THEN [sock[b] EXCEPT !.buf =
                            Append(@, [cmd |-> client[c].cmd, last |-> n = 2])]
                    ELSE sock[b]]
  BY <1>3 DEF Write
<1>5. /\ client'[c].pieces = n /\ client'[c].cmd = client[c].cmd
      /\ client'[c].addr = {a} /\ client'[c].reply = client[c].reply
      /\ \A d \in Clients \ {c} : client'[d] = client[d]
  BY <1>1, <1>2, <1>4 DEF Client
<1>6. PICK p : p = [cmd |-> client[c].cmd, last |-> n = 2]
  OBVIOUS
<1>7. p.cmd = client[c].cmd /\ p.last = (n = 2)
  BY <1>6
<1>8. /\ sock'[a].buf = Append(sock[a].buf, p)
      /\ \A b \in Addrs \ {a} : sock'[b] = sock[b]
  BY <1>1, <1>2, <1>4, <1>6 DEF Sock
<1>9. PICK s \in Seq(Piece) : s = sock[a].buf
  BY <1>1 DEF Sock
<1>10. OwnBreak(c, a) /\ Answered(c) /\ OneBreak(a)
  BY <1>2 DEF ForgeInv
<1>11. client[c].pieces # 2 /\ client[c].reply = "none"
  BY <1>1, <1>3, <1>10 DEF OwnBreak, Client
<1>12. \A i \in DOMAIN s : ~s[i].last
  BY <1>9, <1>10, <1>11 DEF OwnBreak
<1>13. PICK t : t = Append(s, p)
  OBVIOUS
<1>14. /\ Len(s) \in Nat /\ DOMAIN s = 1..Len(s) /\ DOMAIN t = 1..(Len(s) + 1)
       /\ t[Len(s) + 1] = p /\ \A i \in 1..Len(s) : t[i] = s[i]
  BY <1>9, <1>13
<1>15. \A i \in DOMAIN t : t[i].last => i = Len(s) + 1 /\ t[i] = p
  <2> SUFFICES ASSUME NEW i \in DOMAIN t, t[i].last PROVE i = Len(s) + 1
    BY <1>14
  <2>1. i \in 1..Len(s) => FALSE
    BY <1>12, <1>14
  <2> QED BY <1>14, <2>1
<1>16. sock'[a].buf = t
  BY <1>8, <1>9, <1>13
<1>17. \A b \in Addrs : OneBreak(b)'
  <2>1. OneBreak(a)'
    BY <1>4, <1>10, <1>15, <1>16 DEF OneBreak
  <2>2. \A b \in Addrs \ {a} : OneBreak(b)'
    BY <1>4, <1>8 DEF ForgeInv, OneBreak
  <2> QED BY <2>1, <2>2
<1>18. OwnBreak(c, a)' /\ Answered(c)'
  <2>1. \A i \in DOMAIN t : t[i].last => n = 2 /\ t[i].cmd = client[c].cmd
    BY <1>7, <1>15
  <2>2. OwnBreak(c, a)'
    BY <1>5, <1>11, <1>16, <2>1 DEF OwnBreak
  <2> QED BY <1>4, <1>5, <1>10, <2>2 DEF Answered
<1>19. ASSUME NEW d \in Clients, NEW b \in Addrs, client'[d].addr = {b}
       PROVE  OwnBreak(d, b)' /\ Answered(d)'
  <2>1. CASE d = c
    BY <1>5, <1>18, <1>19, <2>1
  <2>2. CASE d # c
    <3>1. client'[d] = client[d] /\ client[d].addr = {b}
      BY <1>5, <1>19, <2>2
    <3>2. b # a
      <4> SUFFICES ASSUME b = a PROVE FALSE
        OBVIOUS
      <4>1. client[c].addr = {a} /\ client[d].addr = {a}
        BY <1>2, <3>1
      <4>2. c = d
        BY <4>1, OneClient
      <4> QED BY <2>2, <4>2
    <3>3. OwnBreak(d, b) /\ Answered(d)
      BY <3>1 DEF ForgeInv
    <3> QED BY <1>4, <1>8, <3>1, <3>2, <3>3, CallUntouched
  <2> QED BY <2>1, <2>2
<1> QED BY <1>17, <1>19 DEF ForgeInv

LEMMA ForgeHangUp ==
  ASSUME Connected, ForgeInv, NEW c \in Clients, HangUp(c), cache' = cache, ran' = ran
  PROVE  ForgeInv'
<1>1. /\ client'[c] = Idle /\ \A d \in Clients \ {c} : client'[d] = client[d]
      /\ \A b \in Addrs : sock'[b].buf = sock[b].buf
  BY HangUpMoves
<1>2. ASSUME NEW d \in Clients, NEW b \in Addrs, client'[d].addr = {b}
      PROVE  OwnBreak(d, b)' /\ Answered(d)'
  <2>1. d # c
    BY <1>1, <1>2 DEF Idle
  <2>2. client'[d] = client[d] /\ OwnBreak(d, b) /\ Answered(d)
    BY <1>1, <1>2, <2>1 DEF ForgeInv
  <2> QED BY <1>1, <2>2, CallUntouched
<1> QED BY <1>1, <1>2 DEF ForgeInv, OneBreak

-----------------------------------------------------------------------------
\* A command is cut off at its line break, its first.
LEMMA CutAtBreak ==
  ASSUME NEW q \in Seq(Piece), HasCommand(q)
  PROVE  \E m \in 1..Len(q) :
           /\ q[m].last /\ \A i \in 1..Len(q) : q[i].last => m <= i
           /\ Command(q) = Spelled(SubSeq(q, 1, m))
           /\ AfterCommand(q) = SubSeq(q, 1 + m, Len(q))
<1>1. Len(q) \in Nat /\ DOMAIN q = 1..Len(q)
  BY LenProperties
<1>2. Breaks(q) \subseteq Nat /\ Breaks(q) # {}
  BY <1>1 DEF Breaks, HasCommand
<1>3. PICK m : m = CHOOSE i \in Breaks(q) : \A j \in Breaks(q) : i <= j
  OBVIOUS
<1>4. m \in Breaks(q) /\ \A j \in Breaks(q) : m <= j
  BY <1>2, <1>3, LeastNat
<1>5. m \in 1..Len(q) /\ q[m].last /\ \A i \in 1..Len(q) : q[i].last => m <= i
  BY <1>1, <1>4 DEF Breaks
<1>6. Command(q) = Spelled(SubSeq(q, 1, m)) /\ AfterCommand(q) = SubSeq(q, 1 + m, Len(q))
  BY <1>3 DEF Command, AfterCommand
<1> QED BY <1>5, <1>6

\* It is what its last piece says, or "num", or nothing that slotReady knows.
LEMMA SpelledByLast ==
  ASSUME NEW q \in Seq(Piece), NEW m \in 1..Len(q)
  PROVE  Spelled(SubSeq(q, 1, m)) \in {q[m].cmd, "num", "unknown"}
<1>1. Len(q) \in Nat /\ \A i \in 1..Len(q) : q[i] \in Piece
  BY LenProperties, ElementOfSeq
<1>2. PICK r : r = SubSeq(q, 1, m)
  OBVIOUS
<1>3. Len(r) = m /\ \A i \in 1..m : r[i] = q[i]
  <2>1. \A i \in 1..m : q[i] \in Piece
    BY <1>1
  <2>2. m \in Int /\ 1 \in Int /\ m - 1 + 1 = m
    OBVIOUS
  <2>3. /\ \A i \in 1..(m - 1 + 1) : SubSeq(q, 1, m)[i] = q[1 + i - 1]
        /\ Len(SubSeq(q, 1, m)) = IF 1 <= m THEN m - 1 + 1 ELSE 0
    BY <2>1, <2>2, SubSeqProperties
  <2>4. \A i \in 1..m : 1 + i - 1 = i
    OBVIOUS
  <2> QED BY <1>2, <2>2, <2>3, <2>4
<1>4. Spelled(r) \in {q[m].cmd, "num", "unknown"}
  <2>1. CASE r[1].cmd = "num"
    BY <2>1 DEF Spelled
  <2>2. CASE r[1].cmd # "num" /\ Len(r) = 2 /\ r[1].cmd = r[2].cmd
    <3>1. m = 2 /\ r[2] = q[m]
      BY <1>3, <2>2
    <3> QED BY <2>2, <3>1 DEF Spelled
  <2>3. CASE r[1].cmd # "num" /\ ~(Len(r) = 2 /\ r[1].cmd = r[2].cmd)
    BY <2>3 DEF Spelled
  <2> QED BY <2>1, <2>2, <2>3
<1> QED BY <1>2, <1>4

\* What readAll() and getCommand() make of what has come.
LEMMA BreakIsOwn ==
  ASSUME Connected, NEW a \in Addrs, OneBreak(a)
  PROVE  /\ \A i \in DOMAIN AfterCommand(Cached(a)) : ~AfterCommand(Cached(a))[i].last
         /\ HasCommand(Cached(a)) =>
              \E i \in DOMAIN sock[a].buf :
                 sock[a].buf[i].last /\ Command(Cached(a)) \in {sock[a].buf[i].cmd, "num", "unknown"}
<1>0. cache[a] \in Seq(Piece) /\ sock[a].buf \in Seq(Piece)
  BY DEF Connected, Sock
<1>0a. PICK x \in Seq(Piece) : x = cache[a]
  BY <1>0
<1>0b. PICK y \in Seq(Piece) : y = sock[a].buf
  BY <1>0
<1>1. x = cache[a] /\ y = sock[a].buf
  BY <1>0a, <1>0b
<1>2. PICK q \in Seq(Piece) : q = Cached(a) /\ q = x \o y
  <2>1. Cached(a) = x \o y
    BY <1>1 DEF Cached
  <2>2. x \o y \in Seq(Piece)
    OBVIOUS
  <2> QED BY <2>1, <2>2
<1>3. /\ Len(x) \in Nat /\ Len(y) \in Nat /\ Len(q) = Len(x) + Len(y)
      /\ DOMAIN x = 1..Len(x) /\ DOMAIN y = 1..Len(y) /\ DOMAIN q = 1..Len(q)
      /\ \A i \in 1..Len(x) : q[i] = x[i]
      /\ \A i \in 1..Len(q) : i > Len(x) => q[i] = y[i - Len(x)]
  BY <1>2
<1>4. /\ \A i \in 1..Len(x) : ~x[i].last
      /\ \A i, j \in 1..Len(y) : y[i].last /\ y[j].last => i = j
  BY <1>1, <1>3 DEF OneBreak
<1>5. \A i \in 1..Len(q) : q[i].last =>
         i > Len(x) /\ i - Len(x) \in 1..Len(y) /\ q[i] = y[i - Len(x)]
  BY <1>3, <1>4
<1>6. \A i, j \in 1..Len(q) : q[i].last /\ q[j].last => i = j
  <2> SUFFICES ASSUME NEW i \in 1..Len(q), NEW j \in 1..Len(q), q[i].last, q[j].last
               PROVE  i = j
    OBVIOUS
  <2>1. /\ i - Len(x) \in 1..Len(y) /\ y[i - Len(x)].last
        /\ j - Len(x) \in 1..Len(y) /\ y[j - Len(x)].last
    BY <1>5
  <2>2. i - Len(x) = j - Len(x)
    BY <1>4, <2>1
  <2> QED BY <1>3, <2>2
<1>7. CASE ~HasCommand(q)
  <2>1. AfterCommand(q) = q /\ \A i \in DOMAIN q : ~q[i].last
    BY <1>7 DEF AfterCommand, HasCommand, Breaks
  <2> QED BY <1>2, <1>7, <2>1
<1>8. CASE HasCommand(q)
  <2>1. PICK m \in 1..Len(q) :
           /\ q[m].last
           /\ Command(q) = Spelled(SubSeq(q, 1, m))
           /\ AfterCommand(q) = SubSeq(q, 1 + m, Len(q))
    BY <1>8, CutAtBreak
  <2>2. Command(q) \in {q[m].cmd, "num", "unknown"}
    BY <2>1, SpelledByLast
  <2>3. PICK i : i = m - Len(x)
    OBVIOUS
  <2>4. i \in DOMAIN sock[a].buf /\ sock[a].buf[i] = q[m]
    BY <1>1, <1>3, <1>5, <2>1, <2>3
  <2>5. \A k \in DOMAIN SubSeq(q, 1 + m, Len(q)) : ~SubSeq(q, 1 + m, Len(q))[k].last
    <3>1. PICK r : r = SubSeq(q, 1 + m, Len(q))
      OBVIOUS
    <3>2. \A k \in DOMAIN r : m + k \in 1..Len(q) /\ k > 0 /\ k \in Nat /\ r[k] = q[m + k]
      BY <1>3, <3>1
    <3>3. \A k \in DOMAIN r : ~r[k].last
      <4> SUFFICES ASSUME NEW k \in DOMAIN r, r[k].last PROVE FALSE
        OBVIOUS
      <4>1. m + k \in 1..Len(q) /\ k \in Nat /\ k > 0 /\ q[m + k].last
        BY <3>2
      <4>2. m + k = m
        BY <1>6, <2>1, <4>1
      <4> QED BY <1>3, <4>1, <4>2
    <3> QED BY <3>1, <3>3
  <2> QED BY <1>2, <2>1, <2>2, <2>4, <2>5
<1> QED BY <1>2, <1>7, <1>8

LEMMA ForgeSlotReady ==
  ASSUME Connected, ForgeInv, NEW a \in Addrs,
         SlotReady(a, HasCommand(Cached(a)) /\ Command(Cached(a)) \in Commands)
  PROVE  ForgeInv'
<1>1. PICK q : q = Cached(a)
  OBVIOUS
<1>2. PICK obeyed \in BOOLEAN : obeyed = (HasCommand(q) /\ Command(q) \in Commands)
  OBVIOUS
<1>3. PICK to : to = {c \in sock[a].of : client[c].addr = {a}}
  OBVIOUS
<1>4. /\ cache' = [cache EXCEPT ![a] = AfterCommand(q)]
      /\ sock' = [sock EXCEPT ![a].buf = <<>>]
      /\ client' = [c \in Clients |->
                      IF c \in to /\ HasCommand(q)
                      THEN [client[c] EXCEPT !.reply = IF obeyed THEN "true" ELSE "false"]
                      ELSE client[c]]
      /\ ran' = [c \in Clients |-> IF c \in to /\ HasCommand(q)
                                   THEN Append(ran[c], Command(q)) ELSE ran[c]]
  BY <1>1, <1>2, <1>3 DEF SlotReady
<1>5. client \in [Clients -> Client] /\ sock \in [Addrs -> Sock]
      /\ cache \in [Addrs -> Seq(Piece)]
  BY DEF Connected
<1>6. OneBreak(a)
  BY DEF ForgeInv
<1>7. /\ \A i \in DOMAIN AfterCommand(q) : ~AfterCommand(q)[i].last
      /\ HasCommand(q) =>
           \E i \in DOMAIN sock[a].buf :
              sock[a].buf[i].last /\ Command(q) \in {sock[a].buf[i].cmd, "num", "unknown"}
  BY <1>1, <1>6, BreakIsOwn
<1>8. /\ cache'[a] = AfterCommand(q) /\ sock'[a].buf = <<>>
      /\ \A b \in Addrs \ {a} : cache'[b] = cache[b] /\ sock'[b] = sock[b]
  BY <1>4, <1>5 DEF Sock
<1>9. \A b \in Addrs : OneBreak(b)'
  <2>1. OneBreak(a)'
    BY <1>7, <1>8 DEF OneBreak
  <2>2. \A b \in Addrs \ {a} : OneBreak(b)'
    BY <1>8 DEF ForgeInv, OneBreak
  <2> QED BY <2>1, <2>2
<1>10. ASSUME NEW d \in Clients, NEW b \in Addrs, client'[d].addr = {b}
       PROVE  OwnBreak(d, b)' /\ Answered(d)'
  <2>0. client[d] \in Client
    BY <1>5
  <2>1. CASE ~(d \in to /\ HasCommand(q))
    <3>1. client'[d] = client[d] /\ ran'[d] = ran[d]
      BY <1>4, <2>1
    <3>2. OwnBreak(d, b) /\ Answered(d)
      BY <1>10, <3>1 DEF ForgeInv
    <3>3. sock'[b].buf = <<>> \/ sock'[b].buf = sock[b].buf
      BY <1>8
    <3> QED BY <3>1, <3>2, <3>3, CallUntouched
  <2>2. CASE d \in to /\ HasCommand(q)
    <3>1. PICK reply \in {"true", "false"} : reply = IF obeyed THEN "true" ELSE "false"
      OBVIOUS
    <3>2. client'[d] = [client[d] EXCEPT !.reply = reply] /\ ran'[d] = Append(ran[d], Command(q))
      BY <1>4, <2>2, <3>1
    <3>3. /\ client'[d].reply = reply /\ client'[d].addr = client[d].addr
          /\ client'[d].cmd = client[d].cmd /\ client'[d].pieces = client[d].pieces
      BY <2>0, <3>2 DEF Client
    <3>4. b = a /\ client[d].addr = {a}
      BY <1>3, <1>10, <2>2, <3>3
    <3>5. OwnBreak(d, a) /\ Answered(d)
      BY <3>4 DEF ForgeInv
    <3>6. /\ client[d].pieces = 2 /\ client[d].reply = "none"
          /\ Command(q) \in {client[d].cmd, "num", "unknown"}
      BY <1>7, <2>2, <3>5 DEF OwnBreak
    <3>7. ran[d] = <<>>
      BY <3>5, <3>6 DEF Answered
    <3>8. PICK command : command = Command(q)
      OBVIOUS
    <3>9. ran'[d] = <<command>>
      BY <3>2, <3>7, <3>8
    <3>10. client[d].cmd \in Commands /\ "num" \in Commands /\ "unknown" \notin Commands
      BY <2>0 DEF Client, Commands
    <3>11. /\ reply = "true" => command \in {client[d].cmd, "num"}
           /\ reply = "false" => command = "unknown"
      BY <1>2, <2>2, <3>1, <3>6, <3>8, <3>10
    <3>12. Answered(d)'
      BY <3>1, <3>3, <3>9, <3>11 DEF Answered
    <3>13. OwnBreak(d, b)'
      BY <1>8, <3>3, <3>4, <3>6 DEF OwnBreak
    <3> QED BY <3>12, <3>13
  <2> QED BY <2>1, <2>2
<1> QED BY <1>9, <1>10 DEF ForgeInv

LEMMA ForgeSlotClosed ==
  ASSUME Connected, ForgeInv, NEW a \in Addrs, SlotClosed(a)
  PROVE  ForgeInv'
<1>1. sock \in [Addrs -> Sock] /\ sock[a].buf = <<>>
  BY DEF Connected, SlotClosed
<1>2. sock' = [sock EXCEPT ![a] = Free] /\ UNCHANGED <<client, cache, ran>>
  BY DEF SlotClosed
<1>3. \A b \in Addrs : sock'[b].buf = sock[b].buf
  BY <1>1, <1>2 DEF Free
<1> QED BY <1>2, <1>3, ForgeQuiet

LEMMA ForgeInvStep == Connected /\ ForgeInv /\ [Next]_vars => ForgeInv'
<1> SUFFICES ASSUME Connected, ForgeInv, [Next]_vars PROVE ForgeInv'
  OBVIOUS
<1>1. ASSUME UNCHANGED channelVars PROVE ForgeInv'
  <2>1. client' = client /\ cache' = cache /\ ran' = ran /\ sock' = sock
    BY <1>1 DEF channelVars
  <2> QED BY <2>1, ForgeQuiet
<1>2. ASSUME Ends PROVE ForgeInv'
  <2>1. ChannelEnds
    BY <1>2 DEF Ends
  <2>2. \A a \in Addrs : cache'[a] = <<>> /\ sock'[a].buf = <<>>
    BY <2>1 DEF ChannelEnds, Free
  <2>3. \A c \in Clients : client'[c].addr = {}
    BY <2>1 DEF ChannelEnds, Idle
  <2> QED BY <2>2, <2>3, NothingToForgeNext
<1>3. CASE Start \/ SlotStart \/ TimerFires \/ CrawlStep \/ Gone
  BY <1>1, <1>2, <1>3 DEF Start, SlotStart, TimerFires, CrawlStep, Gone
<1>4. ASSUME NEW c \in Clients, ClientStep(c) PROVE ForgeInv'
  <2>1. CASE Call(c)
    <3>1. PICK cmd \in Commands, a \in Addrs : Connect(c, cmd, a)
      BY <2>1, SentAssumption DEF Call
    <3> QED BY <3>1, ForgeConnect
  <2>2. CASE CallReturns(c) \/ Die(c)
    <3>1. HangUp(c) /\ cache' = cache /\ ran' = ran
      BY <2>2 DEF CallReturns, GetReply, Die
    <3> QED BY <3>1, ForgeHangUp
  <2>3. CASE Write(c)
    BY <2>3, ForgeWrite
  <2> QED BY <1>4, <2>1, <2>2, <2>3 DEF ClientStep
<1>5. ASSUME NEW a \in Addrs, ReadyRead(a) PROVE ForgeInv'
  BY <1>5, ForgeSlotReady DEF ReadyRead
<1>6. ASSUME NEW a \in Addrs, Closed(a) PROVE ForgeInv'
  BY <1>6, ForgeSlotClosed DEF Closed
<1>7. CASE UNCHANGED vars
  BY <1>1, <1>7 DEF vars
<1> QED BY <1>3, <1>4, <1>5, <1>6, <1>7 DEF Next

\* The cache is never cleared when a socket closes (slotClosed,
\* qtservice_unix.cpp:363-367): all the same a call executes what its caller sent,
\* or a "num:" command that was begun at its address, or nothing, and the answer
\* tells these two from the third, whoever is killed in the middle of a command.
THEOREM CommandsAreNotForged == Spec => []NothingForged
<1>1. Init => ForgeInv
  <2> SUFFICES ASSUME ChannelInit PROVE ForgeInv
    BY DEF Init
  <2>1. \A a \in Addrs : cache[a] = <<>> /\ sock[a].buf = <<>>
    BY DEF ChannelInit, Free
  <2>2. \A c \in Clients : client[c].addr = {}
    BY DEF ChannelInit, Idle
  <2> QED BY <2>1, <2>2, NothingToForge
<1>2. ChannelInv /\ ForgeInv /\ [Next]_vars => ForgeInv'
  BY ForgeInvStep DEF ChannelInv
<1>3. ChannelInv /\ ForgeInv => NothingForged
  <2>1. ASSUME Connected, ForgeInv, NEW c \in Clients, InCall(c)
        PROVE  ran[c] \in CASE client[c].reply = "none"  -> {<<>>}
                            [] client[c].reply = "true"  -> {<<client[c].cmd>>, <<"num">>}
                            [] client[c].reply = "false" -> {<<"unknown">>}
    <3>1. PICK a \in Addrs : client[c].addr = {a}
      BY <2>1, AddressOfCall DEF InCall
    <3>2. Answered(c)
      BY <2>1, <3>1 DEF ForgeInv
    <3>3. client[c].reply \in {"none", "true", "false"}
      BY <2>1 DEF Connected, Client
    <3> QED BY <3>2, <3>3 DEF Answered
  <2> QED BY <2>1 DEF NothingForged, ChannelInv
<1> QED BY <1>1, <1>2, <1>3, CommandInvariant, PTL DEF Spec

-----------------------------------------------------------------------------
(***************************************************************************)
(* The crawl inside the daemon: what ParserMainProofs shows of the         *)
(* scheduler by itself holds in the daemon, through restarts.              *)
(***************************************************************************)

LEMMA CrawlInit == CrawlProofs!Init => CrawlProofs!IInv
BY CrawlProofs!InitIInv, CrawlSettingsAssumption

LEMMA CrawlRestarts == CrawlProofs!Init' => CrawlProofs!IInv'
BY CrawlInit, PTL

LEMMA CrawlNext ==
  CrawlProofs!IInv /\ [CrawlProofs!Next]_(CrawlProofs!vars) => CrawlProofs!IInv'
BY CrawlProofs!NextIInv, CrawlSettingsAssumption

LEMMA CrawlPaused ==
  CrawlProofs!IInv /\ disabled /\ [CrawlProofs!Next]_(CrawlProofs!vars)
     => ~CrawlProofs!OpensPage
BY CrawlProofs!PausedOpensNone, CrawlSettingsAssumption DEF CrawlProofs!IInv

LEMMA EndsRestartsCrawl == Ends => CrawlProofs!Init'
BY DEF Ends, CrawlProofs!Init

\* Both instances of ParserMain mean the same.
LEMMA SamePageLoaded ==
  \A i : PM!PageLoaded(i) => CrawlProofs!PageLoaded(i)
BY DEF PM!PageLoaded, PM!counters, PM!queues, PM!loaders, PM!history,
       CrawlProofs!PageLoaded, CrawlProofs!counters, CrawlProofs!queues,
       CrawlProofs!loaders, CrawlProofs!history

LEMMA SameLinkLoaded ==
  \A i : PM!LinkLoaded(i) => CrawlProofs!LinkLoaded(i)
BY DEF PM!LinkLoaded, PM!counters, PM!queues, PM!loaders, PM!history,
       CrawlProofs!LinkLoaded, CrawlProofs!counters, CrawlProofs!queues,
       CrawlProofs!loaders, CrawlProofs!history

LEMMA SameGetedLink ==
  \A i, n : PM!GetedLink(i, n) => CrawlProofs!GetedLink(i, n)
BY DEF PM!GetedLink, PM!LinksOf, PM!OpenLinks, PM!Rest, PM!Started,
       CrawlProofs!GetedLink, CrawlProofs!LinksOf, CrawlProofs!OpenLinks,
       CrawlProofs!Rest, CrawlProofs!Started

LEMMA SameDrainLinks ==
  \A w, lls : PM!DrainLinks(w, lls) => CrawlProofs!DrainLinks(w, lls)
BY DEF PM!DrainLinks, PM!OpenLinks, PM!Rest, PM!Started, CrawlProofs!DrainLinks,
       CrawlProofs!OpenLinks, CrawlProofs!Rest, CrawlProofs!Started

LEMMA SameLoadPage ==
  \A q, w, active, pls :
     PM!LoadPage(q, w, active, pls) => CrawlProofs!LoadPage(q, w, active, pls)
BY DEF PM!LoadPage, PM!OpenPages, PM!Rest, PM!Started, CrawlProofs!LoadPage,
       CrawlProofs!OpenPages, CrawlProofs!Rest, CrawlProofs!Started

LEMMA SameQuery ==
  \A offset, size :
     /\ PM!QuerySizes(offset) = CrawlProofs!QuerySizes(offset)
     /\ PM!LoadDbData(offset, size) => CrawlProofs!LoadDbData(offset, size)
     /\ \A q : PM!QueueAfterQuery(q, offset, size)
                = CrawlProofs!QueueAfterQuery(q, offset, size)
BY DEF PM!QuerySizes, PM!RowsAvailable, PM!LoadDbData, PM!QueueAfterQuery,
       PM!FetchedRows, CrawlProofs!QuerySizes, CrawlProofs!RowsAvailable,
       CrawlProofs!LoadDbData, CrawlProofs!QueueAfterQuery, CrawlProofs!FetchedRows

LEMMA SameManageParsers ==
  \A w, active, pls, lls :
     PM!ManageParsers(w, active, pls, lls)
       => CrawlProofs!ManageParsers(w, active, pls, lls)
BY SameDrainLinks, SameLoadPage, SameQuery
DEF PM!ManageParsers, PM!Complete, CrawlProofs!ManageParsers, CrawlProofs!Complete

LEMMA SameNextPage ==
  \A i : PM!NextPage(i) => CrawlProofs!NextPage(i)
BY SameDrainLinks, SameLoadPage
DEF PM!NextPage, PM!RemoveAt, CrawlProofs!NextPage, CrawlProofs!RemoveAt

LEMMA SameNoNextPage ==
  \A i : PM!NoNextPage(i) => CrawlProofs!NoNextPage(i)
BY SameManageParsers
DEF PM!NoNextPage, PM!RemoveAt, CrawlProofs!NoNextPage, CrawlProofs!RemoveAt

LEMMA SameProductEnd ==
  \A i : PM!ProductEnd(i) => CrawlProofs!ProductEnd(i)
BY SameManageParsers
DEF PM!ProductEnd, PM!RemoveAt, CrawlProofs!ProductEnd, CrawlProofs!RemoveAt

LEMMA SameJobStep ==
  PM!JobStep => CrawlProofs!JobStep
BY SamePageLoaded, SameLinkLoaded, SameGetedLink, SameNextPage, SameNoNextPage,
   SameProductEnd
DEF PM!JobStep, PM!PageStep, PM!LinkStep, CrawlProofs!JobStep,
       CrawlProofs!PageStep, CrawlProofs!LinkStep

LEMMA SameLoad == PM!Load => CrawlProofs!Load
BY DEF PM!Load, PM!LoadPage, PM!LoadDbData, PM!QueueAfterQuery, PM!QuerySizes,
       PM!RowsAvailable, PM!FetchedRows, PM!OpenPages, PM!Rest, PM!Started,
       CrawlProofs!Load, CrawlProofs!LoadPage, CrawlProofs!LoadDbData,
       CrawlProofs!QueueAfterQuery, CrawlProofs!QuerySizes, CrawlProofs!RowsAvailable,
       CrawlProofs!FetchedRows, CrawlProofs!OpenPages, CrawlProofs!Rest,
       CrawlProofs!Started

LEMMA SamePause ==
  (PM!Pause => CrawlProofs!Pause) /\ (PM!Resume => CrawlProofs!Resume)
BY DEF PM!Pause, PM!Resume, PM!counters, PM!queues, PM!loaders, PM!history,
       CrawlProofs!Pause, CrawlProofs!Resume, CrawlProofs!counters,
       CrawlProofs!queues, CrawlProofs!loaders, CrawlProofs!history

\* A step of the daemon is a step of the crawl, none, or the end of the process.
LEMMA StepOfCrawl ==
  ASSUME [Next]_vars
  PROVE  [CrawlProofs!Next]_(CrawlProofs!vars) \/ Ends
<1>1. ASSUME UNCHANGED crawlVars PROVE [CrawlProofs!Next]_(CrawlProofs!vars)
  BY <1>1 DEF crawlVars, CrawlProofs!vars, CrawlProofs!counters, CrawlProofs!queues,
              CrawlProofs!loaders, CrawlProofs!history
<1>2. CASE Start \/ SlotStart \/ Gone
  BY <1>1, <1>2 DEF Start, SlotStart, Gone
<1>3. CASE TimerFires
  BY <1>3, SameLoad DEF TimerFires, CrawlProofs!Next
<1>4. CASE CrawlStep
  BY <1>4, SameJobStep DEF CrawlStep, CrawlProofs!Next
<1>5. ASSUME NEW c \in Clients, ClientStep(c) PROVE [CrawlProofs!Next]_(CrawlProofs!vars)
  BY <1>1, <1>5 DEF ClientStep
<1>6. ASSUME NEW a \in Addrs, ReadyRead(a) PROVE [CrawlProofs!Next]_(CrawlProofs!vars)
  BY <1>1, <1>6, SamePause DEF ReadyRead, Execute, CrawlProofs!Next
<1>7. ASSUME NEW a \in Addrs, Closed(a) PROVE [CrawlProofs!Next]_(CrawlProofs!vars)
  BY <1>1, <1>7 DEF Closed
<1>8. CASE UNCHANGED vars
  BY <1>1, <1>8 DEF vars
<1> QED
  BY <1>2, <1>3, <1>4, <1>5, <1>6, <1>7, <1>8 DEF Next

LEMMA CrawlInvariant == Spec => []CrawlProofs!IInv
<1>1. Init => CrawlProofs!IInv
  <2>1. PM!Init => CrawlProofs!Init
    BY DEF PM!Init, CrawlProofs!Init
  <2> QED
    BY <2>1, CrawlInit DEF Init
<1>2. CrawlProofs!IInv /\ [Next]_vars => CrawlProofs!IInv'
  <2> SUFFICES ASSUME CrawlProofs!IInv, [Next]_vars PROVE CrawlProofs!IInv'
    OBVIOUS
  <2>1. CASE Ends
    BY <2>1, EndsRestartsCrawl, CrawlRestarts
  <2>2. CASE [CrawlProofs!Next]_(CrawlProofs!vars)
    BY <2>2, CrawlNext
  <2> QED
    BY <2>1, <2>2, StepOfCrawl
<1> QED
  BY <1>1, <1>2, PTL DEF Spec

-----------------------------------------------------------------------------
\* Whatever the timer, the clients and the crashes of the daemon do: the counters of
\* ParserMain are exact, nothing read or found is lost, what waits has somebody who
\* fetches it, and date_last_parse is true of the crawl that wrote it.  A restart
\* begins all this anew (parsermain.cpp:5-25); nothing of it outlives the process.
THEOREM CrawlIsSafeInDaemon == Spec => []CrawlProofs!CrawlIsSafe
<1>1. CrawlProofs!IInv => CrawlProofs!CrawlIsSafe
  BY CrawlProofs!IInvIsSafe, CrawlSettingsAssumption
<1> QED
  BY <1>1, CrawlInvariant, PTL

-----------------------------------------------------------------------------
\* What "true" promises to who has sent a pause (the flag of parsermain.cpp:27): no
\* category page is opened until somebody resumes the service or it ends, whatever
\* else clients send.
THEOREM PauseIsKept == Spec => PauseHolds
<1>1. ASSUME CrawlProofs!IInv, PauseInv, [Next]_vars, held, held' PROVE ~PM!OpensPage
  <2>1. ~Ends
    BY <1>1 DEF Ends
  <2>2. [CrawlProofs!Next]_(CrawlProofs!vars) /\ disabled
    BY <1>1, <2>1, StepOfCrawl DEF PauseInv
  <2>3. ~CrawlProofs!OpensPage
    BY <1>1, <2>2, CrawlPaused
  <2> QED
    BY <2>3 DEF CrawlProofs!OpensPage, PM!OpensPage
<1>2. CrawlProofs!IInv /\ PauseInv /\ [Next]_vars => [held /\ held' => ~PM!OpensPage]_vars
  BY <1>1
<1> QED
  BY <1>2, CrawlInvariant, CommandInvariant, PTL DEF PauseHolds, Spec

=============================================================================
