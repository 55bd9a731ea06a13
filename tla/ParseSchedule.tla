---------------------------- MODULE ParseSchedule ----------------------------
(***************************************************************************)
(* When the crawl starts: ParserService::start reads parse_interval from   *)
(* the table site_settings and the constructor of ParserMain arms a        *)
(* single-shot timer for the next multiple of it since midnight.           *)
(*                                                                         *)
(* Time is counted in whole seconds, as toTime_t() does, from a midnight.  *)
(* The timer takes an int of milliseconds; Milli and MaxInt are constants  *)
(* so that a small instance meets the end of the int as well.  A QTimer is *)
(* coarse unless it is told otherwise: it may fire before and after its    *)
(* time, by up to 5 % or rounded to whole seconds, and later if the event  *)
(* loop is busy.                                                           *)
(***************************************************************************)
EXTENDS Integers

CONSTANTS Intervals,  \* what ParseInterval can hold after start()
          Day,        \* seconds of a day
          Milli,      \* milliseconds of a second
          MaxInt,     \* the largest int
          Early, Late \* seconds that the timer may fire before and after its time

ASSUME IntervalsAssumption == Intervals \subseteq Int
ASSUME DayAssumption == Day \in Nat \ {0} /\ Milli \in Nat \ {0} /\ MaxInt \in Nat \ {0}
ASSUME TimerAssumption == Early \in Nat /\ Late \in Nat

VARIABLES
  clock,          \* the time, when somebody last looked at it
  ParseInterval,  \* settings->ParseInterval; the table's, or garbage when the
                  \* SELECT delivered no row
  due             \* when parseTimer shall fire, or Never

scheduleVars == <<clock, ParseInterval, due>>
Never == -1

ScheduleInit == clock = 0 /\ ParseInterval = 0 /\ due = Never

\* A qint64 that is passed to an int.
ToInt(n) == ((n + MaxInt + 1) % (2 * (MaxInt + 1))) - (MaxInt + 1)

\* The definitions named <definition>_<Bug> are mutants: <definition> with a
\* plausible bug.  No other definition uses them.

\* No time is left when the start itself is at a multiple.
FirstTimer_AtOnce(t, pi) == IF pi > 0 THEN (pi - (t % pi)) % pi ELSE pi - (t % -pi)

\* The difference is taken the wrong way round.
FirstTimer_Negative(t, pi) == (t % (IF pi < 0 THEN -pi ELSE pi)) - pi

\* firstTimer, t seconds after midnight; C++ takes the remainder of a t >= 0 by
\* the absolute value of the divisor, which is not 0 here.
FirstTimer(t, pi) == pi - (t % (IF pi < 0 THEN -pi ELSE pi))

\* setInterval() and start(): a timer with a negative interval never fires.
Armed(t, pi) ==
  LET ms == ToInt(FirstTimer(t % Day, pi) * Milli)
  IN  IF ms < 0 THEN Never ELSE t + ms \div Milli

\* When a timer that shall fire at d may do so, not before the time is t.
FiringTimes(t, d) == {f \in (d - Early)..(d + Late) : f >= t}

\* The intervals that the int of the timer can hold.
Usable(pi) == pi > 0 /\ pi * Milli <= MaxInt

=============================================================================
