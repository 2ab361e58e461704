\* Rules of five tokens; one key with a burst of two and two requests;
\* schedules and a calendar of twelve days to start from; up to three host
\* calls; five requests, files of two entries, two rotated files and one
\* clearing; one project, with a timer and a console that back up in two
\* seconds.
SPECIFICATION MCSpec
CONSTANTS
  LimitKeys = {"k1"}
  LimitReqs = {"r1", "r2"}
  ClearReqs = {"c1"}
  SavedProjects = {"p1"}
  Timers = {"t1"}
  Consoles = {"c1"}
  MaxTokens = 5
  Burst = 2
  Period = 2
  MaxTicks = 5
  MinutesPerHour = 2
  HoursPerDay = 2
  DaysPerWeek = 3
  MonthsPerYear = 2
  FirstDay <- FourYears
  Fields <- Expressions
  Froms <- TwoYears
  MaxCalls = 3
  ChanSize = 2
  MaxLogSize = 2
  MaxLogBackups = 2
  MaxLogged = 5
  MaxSeconds = 2
  MaxChanges = 2
INVARIANTS
  TypeOK
  DecisionsAreRight
  
PROPERTIES
  EveryRunEnds
CHECK_DEADLOCK FALSE
