-------------------------------- MODULE Cron --------------------------------
(***************************************************************************)
(* cron.rs: parsing of a cron expression and the search for its next fire, *)
(* iteration by iteration of the loop, on a calendar whose units and dates *)
(* are constants (the code's: 60 seconds, 60 minutes, 24 hours, weeks of 7 *)
(* days, 12 months, the Gregorian dates, 100 years), and the way back from *)
(* local time to unix time in a zone whose clocks go forward and back.     *)
(*                                                                         *)
(* A local datetime is its number of seconds since day 0 of the calendar.  *)
(***************************************************************************)
EXTENDS Integers, FiniteSetsExt

CONSTANTS
    SECONDS, MINUTES, HOURS,    \* in a minute, an hour, a day
    DAYS, MONTHS,               \* days of the longest month, months of a year
    WEEK,                       \* days of a week
    LAST_DAY, DateOf,           \* the calendar: the dates of days 0 .. LAST_DAY
    CAP_YEARS,                  \* the search gives up after this many years
    SHIFT,                      \* seconds the clocks go forward and back
    Gaps, Folds,                \* unix times when they go forward, and back
    Froms,                      \* values of from_unix
    Texts(_, _)                 \* what may be written in a field of lo .. hi

Dates == [year : Nat, month : 1 .. MONTHS, day : 1 .. DAYS]

(* The date after d: the next day, or the first of the next month or year  *)
Follows(d, next) ==
    \/ next = [d EXCEPT !.day = @ + 1]
    \/ next = [year |-> d.year, month |-> d.month + 1, day |-> 1]
    \/ d.month = MONTHS /\ next = [year |-> d.year + 1, month |-> 1, day |-> 1]

DayOf(t) == t \div (SECONDS * MINUTES * HOURS)

ASSUME UnitsAssumption ==
    /\ {SECONDS, MINUTES, HOURS, DAYS, MONTHS, WEEK} \subseteq Nat \ {0}
    /\ {LAST_DAY, CAP_YEARS, SHIFT} \cup Gaps \cup Folds \cup Froms \subseteq Nat

(* Months and years of any length, each with a first day *)
ASSUME CalendarAssumption ==
    /\ DateOf \in [0 .. LAST_DAY -> Dates]
    /\ \A n \in 0 .. LAST_DAY - 1 : Follows(DateOf[n], DateOf[n + 1])

(* The calendar does not end before the search does: chrono's has 262142   *)
(* years to go.                                                            *)
ASSUME RangeAssumption ==
    \A u \in Froms :
      /\ DayOf(u + SHIFT + 1) <= LAST_DAY
      /\ DateOf[DayOf(u + SHIFT + 1)].year + CAP_YEARS + 1 < DateOf[LAST_DAY].year

(* Clocks that went forward do not go back before the time they skipped    *)
(* has passed once more.                                                   *)
ASSUME ZoneAssumption == \A gap \in Gaps, fold \in Folds : gap < fold => gap + SHIFT <= fold

(* A part of a field, `start-end/step`; `*` and a value are ranges too. *)
Part == [start : Nat, end : Nat, step : Nat]

ASSUME TextAssumption ==
    \A lo \in {0, 1}, hi \in {SECONDS - 1, MINUTES - 1, HOURS - 1, DAYS, MONTHS, WEEK - 1} :
      \A text \in Texts(lo, hi) : text \subseteq Part

VARIABLES
    sched,          \* the parsed expression: a set of values per field
    zone,           \* when the clocks of this zone change
    from_unix,
    cand,           \* the candidate, a local datetime
    phase           \* "search", "zone" (back to unix time), "found", "failed"

cronvars == <<sched, zone, from_unix, cand, phase>>

----------------------------------------------------------------------------
(* chrono: the calendar and the clock *)

DayNumber(date) == CHOOSE n \in 0 .. LAST_DAY : DateOf[n] = date

make_dt(date, h, m, s) == ((DayNumber(date) * HOURS + h) * MINUTES + m) * SECONDS + s

Second(t) == t % SECONDS
Minute(t) == (t \div SECONDS) % MINUTES
Hour(t) == (t \div (SECONDS * MINUTES)) % HOURS
Date(t) == DateOf[DayOf(t)]
Weekday(t) == DayOf(t) % WEEK
Midnight(t) == make_dt(Date(t), 0, 0, 0)
NextDay(t) == Midnight(t) + SECONDS * MINUTES * HOURS

(* The zone: Local of a unix time, and the unix times of a local one (none *)
(* in a gap, two when the clocks went back).                               *)
Local(u) == u + IF zone.gap <= u /\ u < zone.fold THEN SHIFT ELSE 0
from_local_datetime(t) == {u \in {t, t - SHIFT} : Local(u) = t}
Repeated(u) == \E v \in from_local_datetime(Local(u)) : v < u

----------------------------------------------------------------------------
(* CronSchedule::parse *)

(* The set of a field, empty if it is refused: a part out of range, with   *)
(* its ends swapped, or with step 0.                                       *)
parse_field(field, lo, hi) ==
    IF \E p \in field : p.start < lo \/ p.end > hi \/ p.start > p.end \/ p.step = 0
    THEN {}
    ELSE UNION {{v \in p.start .. p.end : (v - p.start) % p.step = 0} : p \in field}

Field(lo, hi) == {parse_field(text, lo, hi) : text \in Texts(lo, hi)} \ {{}}

(* Expressions of five fields (second 0) and of six *)
Schedules ==
    [seconds : Field(0, SECONDS - 1), minutes : Field(0, MINUTES - 1),
     hours : Field(0, HOURS - 1), days : Field(1, DAYS), months : Field(1, MONTHS),
     dows : Field(0, WEEK - 1)]

matches(t) ==
    /\ Second(t) \in sched.seconds
    /\ Minute(t) \in sched.minutes
    /\ Hour(t) \in sched.hours
    /\ Date(t).day \in sched.days
    /\ Date(t).month \in sched.months
    /\ Weekday(t) \in sched.dows

CronInit ==
    /\ sched \in Schedules
    /\ zone \in [gap : Gaps, fold : Folds]
    /\ from_unix \in Froms
    /\ cand = Local(from_unix) + 1
    /\ phase = "search"

----------------------------------------------------------------------------
(* cron_next_after_naive *)

CapYear == Date(Local(from_unix) + 1).year + CAP_YEARS

cron_day_matches(t) == Date(t).day \in sched.days /\ Weekday(t) \in sched.dows

(* next_or_first: the next value of the field, or the first one wrapped *)
Wraps(set, current) == \A v \in set : v < current
NextOrFirst(set, current) == IF Wraps(set, current) THEN Min(set) ELSE Min({v \in set : v >= current})

MonthFits == Date(cand).month \in sched.months
DayFits == MonthFits /\ cron_day_matches(cand)
HourFits == DayFits /\ Hour(cand) \in sched.hours
MinuteFits == HourFits /\ Minute(cand) \in sched.minutes

Continue(t) ==
    /\ phase = "search"
    /\ Date(cand).year <= CapYear
    /\ cand' = t
    /\ UNCHANGED <<sched, zone, from_unix, phase>>

skip_month ==
    /\ ~MonthFits
    /\ LET month == Date(cand).month
           year == Date(cand).year + IF Wraps(sched.months, month) THEN 1 ELSE 0
       IN  Continue(make_dt([year |-> year, month |-> NextOrFirst(sched.months, month), day |-> 1],
                            0, 0, 0))

MutantSkipDay ==
    /\ MonthFits /\ ~DayFits
    /\ Continue(Midnight(cand))

skip_day ==
    /\ MonthFits /\ ~DayFits
    /\ Continue(NextDay(cand))

MutantSkipHour ==
    /\ DayFits /\ ~HourFits
    /\ LET next == NextOrFirst(sched.hours, Hour(cand))
       IN  Continue((IF Wraps(sched.hours, Hour(cand)) THEN NextDay(cand) ELSE Midnight(cand))
                      + next * MINUTES * SECONDS + Minute(cand) * SECONDS)

skip_hour ==
    /\ DayFits /\ ~HourFits
    /\ LET next == NextOrFirst(sched.hours, Hour(cand))
       IN  Continue((IF Wraps(sched.hours, Hour(cand)) THEN NextDay(cand) ELSE Midnight(cand))
                      + next * MINUTES * SECONDS)

HourStart(t) == make_dt(Date(t), Hour(t), 0, 0)

skip_minute ==
    /\ HourFits /\ ~MinuteFits
    /\ LET next == NextOrFirst(sched.minutes, Minute(cand))
       IN  Continue(HourStart(cand) + next * SECONDS
                      + IF Wraps(sched.minutes, Minute(cand)) THEN MINUTES * SECONDS ELSE 0)

skip_second ==
    /\ MinuteFits /\ Second(cand) \notin sched.seconds
    /\ LET next == NextOrFirst(sched.seconds, Second(cand))
       IN  Continue(HourStart(cand) + Minute(cand) * SECONDS + next
                      + IF Wraps(sched.seconds, Second(cand)) THEN SECONDS ELSE 0)

(* Everything fits: the code asks matches() once more. *)
match ==
    /\ phase = "search"
    /\ Date(cand).year <= CapYear
    /\ MinuteFits /\ Second(cand) \in sched.seconds
    /\ IF matches(cand) THEN phase' = "zone" /\ UNCHANGED cand
                        ELSE cand' = cand + 1 /\ UNCHANGED phase
    /\ UNCHANGED <<sched, zone, from_unix>>

give_up ==
    /\ phase = "search"
    /\ Date(cand).year > CapYear
    /\ phase' = "failed"
    /\ UNCHANGED <<sched, zone, from_unix, cand>>

(* next_after_unix_in_tz: a datetime that exists, once or twice; one that  *)
(* the clocks skip moves on by a second.  A gap ends long before the       *)
(* hundred years after which the code gives up here too, and a calendar    *)
(* that goes on (RangeAssumption) has a datetime for every timestamp.      *)
resolve ==
    /\ phase = "zone"
    /\ IF from_local_datetime(cand) = {}
       THEN cand' = cand + 1 /\ UNCHANGED phase
       ELSE phase' = "found" /\ UNCHANGED cand
    /\ UNCHANGED <<sched, zone, from_unix>>

(* The answer: of two unix times the earlier *)
next_after_unix == Min(from_local_datetime(cand))

CronNext ==
    \/ skip_month \/ skip_day \/ skip_hour \/ skip_minute \/ skip_second
    \/ match \/ give_up \/ resolve

(* The loop runs on. *)
CronSpec == CronInit /\ [][CronNext]_cronvars /\ WF_cronvars(CronNext)

----------------------------------------------------------------------------
(* The answer is the first match of the expression after from_unix: the    *)
(* skips over months, days, hours and minutes pass over no match, and a    *)
(* match in a gap moves to the end of the gap.                             *)
NextIsLeast ==
    phase = "found" =>
      \E t \in Local(from_unix) + 1 .. cand :
        /\ matches(t)
        /\ \A x \in Local(from_unix) + 1 .. t - 1 : ~matches(x)
        /\ \A x \in t .. cand - 1 : from_local_datetime(x) = {}

(* The search fails only if nothing matches in the years it covers. *)
FailsWithoutMatch ==
    phase = "failed" => \A t \in Local(from_unix) + 1 .. cand - 1 : ~matches(t)

(* The answer is later than from_unix, if from_unix is not in the hour     *)
(* that the clocks repeat.                                                 *)
FiresLater == phase = "found" /\ ~Repeated(from_unix) => next_after_unix > from_unix

(* What the scheduler relies on: the first match, later than the clock, or *)
(* an error if there is none.                                              *)
SearchIsRight == NextIsLeast /\ FailsWithoutMatch /\ FiresLater

(* "Return the unix timestamp of the next boundary strictly after          *)
(* `from_unix`" (cron.rs, next_after_unix).                                *)
StrictlyAfter == phase = "found" => next_after_unix > from_unix

(* Every search ends: each iteration moves the candidate on. *)
SearchEnds == <>(phase \in {"found", "failed"})
=============================================================================
