-------------------------------- MODULE CronExpr --------------------------------
(* The next time of a cron expression (cronexpr.Next): from the minute after a *)
(* given one the search skips whole months, days and hours that do not match,  *)
(* and gives up after two years.  Times are minutes of a small calendar, in    *)
(* UTC as with all callers; fields are the parts that parse splits them into.  *)
EXTENDS Naturals, Sequences

CONSTANTS MinutesPerHour, HoursPerDay, DaysPerWeek, MonthsPerYear,
          FirstDay,  \* the first day of each month of some years, and the day after them
          Fields,    \* expressions: five fields, each a set of parts
          Froms      \* times after which a next one is asked for

VARIABLES
  expr,    \* the expression
  from,    \* the time given
  t,       \* where the search is
  found    \* what Next returned, Unknown before

cronVars == <<expr, from, t, found>>

Star == [lo |-> 0, hi |-> 0, step |-> 0]   \* stands for "*"
Unknown == 0

MinutesPerDay == MinutesPerHour * HoursPerDay
Day(m) == m \div MinutesPerDay
Months == 1..(Len(FirstDay) - 1)
MonthOf(m) == CHOOSE k \in Months :
                FirstDay[k] <= Day(m) /\ Day(m) < FirstDay[k + 1]
DayOfMonth(m) == Day(m) - FirstDay[MonthOf(m)] + 1
TwoYearsAfter(m) ==
  (FirstDay[MonthOf(m) + 2 * MonthsPerYear] + DayOfMonth(m) - 1) * MinutesPerDay
  + (m % MinutesPerDay)

\* Months follow one another, from the first day of a year on, and go on for two
\* years after any time given.
Calendar ==
  /\ {MinutesPerHour, HoursPerDay, DaysPerWeek, MonthsPerYear} \subseteq Nat \ {0}
  /\ FirstDay \in Seq(Nat) /\ Months # {} /\ FirstDay[1] = 0
  /\ \A k, l \in DOMAIN FirstDay : k < l => FirstDay[k] < FirstDay[l]
  /\ Froms \subseteq Nat
  /\ \A m \in Froms : MonthOf(m) + 2 * MonthsPerYear \in DOMAIN FirstDay
                    /\ TwoYearsAfter(m) \in 0..(FirstDay[Len(FirstDay)] * MinutesPerDay)

\* A part is a star, or the values from lo to hi in steps.
parseField(field, min, max) ==
  UNION {IF p = Star THEN min..max
         ELSE {v \in min..max : p.lo <= v /\ v <= p.hi /\ (v - p.lo) % p.step = 0} : p \in field}

parse ==
  [minute |-> parseField(expr.minute, 0, MinutesPerHour - 1),
   hour |-> parseField(expr.hour, 0, HoursPerDay - 1),
   dom |-> parseField(expr.dom, 1, 31),
   month |-> parseField(expr.month, 1, MonthsPerYear),
   dow |-> parseField(expr.dow, 0, DaysPerWeek - 1)]

\* A field is restricted unless it is a single star.
Restricted(field) == field # {Star}

MonthMatches(m) == ((MonthOf(m) - 1) % MonthsPerYear) + 1 \in parse.month
HourMatches(m) == (m \div MinutesPerHour) % HoursPerDay \in parse.hour
MinuteMatches(m) == m % MinutesPerHour \in parse.minute

\* Of two restricted fields one is enough.
DayMatches(m) ==
  LET dom == DayOfMonth(m) \in parse.dom  dow == Day(m) % DaysPerWeek \in parse.dow
  IN IF Restricted(expr.dom) /\ Restricted(expr.dow) THEN dom \/ dow ELSE dom /\ dow

CronInit ==
  /\ expr \in Fields /\ from \in Froms
  /\ t = from + 1 /\ found = Unknown

\* The first time of the next month, day or hour, or the next minute.
NextMonth(m) == FirstDay[MonthOf(m) + 1] * MinutesPerDay

NextDay(m) == (Day(m) + 1) * MinutesPerDay
NextHour(m) == (m \div MinutesPerHour + 1) * MinutesPerHour

\* One iteration of the loop of Next.
Search ==
  /\ found = Unknown /\ t < TwoYearsAfter(from)
  /\ \/ ~MonthMatches(t) /\ t' = NextMonth(t) /\ UNCHANGED found
     \/ MonthMatches(t) /\ ~DayMatches(t) /\ t' = NextDay(t) /\ UNCHANGED found
     \/ MonthMatches(t) /\ DayMatches(t) /\ ~HourMatches(t) /\ t' = NextHour(t) /\ UNCHANGED found
     \/ /\ MonthMatches(t) /\ DayMatches(t) /\ HourMatches(t)
        /\ IF MinuteMatches(t) THEN found' = t /\ UNCHANGED t ELSE t' = t + 1 /\ UNCHANGED found
  /\ UNCHANGED <<expr, from>>

\* Next gives up: it answers an hour after the time given.
GiveUp ==
  /\ found = Unknown /\ t >= TwoYearsAfter(from) /\ found' = from + MinutesPerHour
  /\ UNCHANGED <<expr, from, t>>

CronNext == Search \/ GiveUp
CronSpec == CronInit /\ [][CronNext]_cronVars

------------------------------------------------------------------------------
CronTypeOK ==
  /\ expr \in Fields /\ from \in Froms /\ t \in Nat
  /\ found \in Nat

Matches(m) == MonthMatches(m) /\ DayMatches(m) /\ HourMatches(m) /\ MinuteMatches(m)
Times == {m \in (from + 1)..(TwoYearsAfter(from) - 1) : Matches(m)}

\* What is skipped holds no time of the expression: the answer is the first of
\* the next two years.  Excepted is an expression that has none in two years,
\* as one for 29 February most of the time.
NextIsFirst ==
  found # Unknown /\ Times # {} => found \in Times /\ \A m \in Times : found <= m
==============================================================================
