--------------------------------- MODULE Node ---------------------------------
(* What a node does while it serves: the limit on requests, the execution of a *)
(* function, the next time of a schedule, the request log and backups.  They   *)
(* share no state, so a behaviour belongs to one of them, chosen in the        *)
(* initial state.                                                              *)
EXTENDS Integers, Sequences, FiniteSets

CONSTANTS LimitKeys, LimitReqs, Burst, Period, MaxTicks, MaxCalls, ChanSize,
          MaxLogSize, MaxLogBackups, MaxLogged, ClearReqs, SavedProjects,
          MaxSeconds, Timers, Consoles, MaxChanges, MinutesPerHour,
          HoursPerDay, DaysPerWeek, MonthsPerYear, FirstDay, Fields, Froms

NodeBounds ==
  /\ {Burst, Period, MaxTicks, MaxCalls, ChanSize, MaxLogSize, MaxLogged} \subseteq Nat
  /\ {MaxLogBackups, MaxSeconds, MaxChanges} \subseteq Nat \ {0}
ASSUME NodeAssumption == NodeBounds

VARIABLES focus,
  ticks, limiters, buckets, judging, admitted,
  parent, outcome, worker, dialed, answer, call, made, effects, expired,
  sampling,
  logged, channel, paths, files, handle, logSize, shifting, flushing,
  exposed,
  second, live, saved, making, finished, since, unopened, mixed,
  expr, from, t, found

Limiter == INSTANCE RateLimit
Worker == INSTANCE FunctionWorker
Requests == INSTANCE RequestLog
Copies == INSTANCE Backups
Schedule == INSTANCE CronExpr

ASSUME CalendarAssumption == Schedule!Calendar

limiterVars == <<ticks, limiters, buckets, judging, admitted>>
workerVars == <<parent, outcome, worker, dialed, answer, call, made,
                effects, expired, sampling>>
requestsVars == <<logged, channel, paths, files, handle, logSize, shifting,
                  flushing, exposed>>
copiesVars == <<second, live, saved, making, finished, since, unopened,
                mixed>>
scheduleVars == <<expr, from, t, found>>
nodeVars == <<focus, limiterVars, workerVars, requestsVars, copiesVars,
              scheduleVars>>

Parts == {"limit", "worker", "log", "backups", "cron"}

PartsInit ==
  /\ Limiter!LimitInit /\ Worker!WorkerInit /\ Requests!LogInit /\
     Copies!BackupInit /\ Schedule!CronInit
  /\ focus = "backups" \/ live = Copies!None   \* the others once, not once per
  /\ \/ focus = "cron"                         \* choice of these
     \/ <<expr, from>> = CHOOSE asked \in Fields \X Froms : TRUE

Init == focus \in Parts /\ PartsInit

LimiterStep ==
  /\ focus = "limit" /\ Limiter!LimitNext
  /\ UNCHANGED <<focus, workerVars, requestsVars, copiesVars, scheduleVars>>

WorkerStep ==
  /\ focus = "worker" /\ Worker!WorkerNext
  /\ UNCHANGED <<focus, limiterVars, requestsVars, copiesVars, scheduleVars>>

RequestsStep ==
  /\ focus = "log" /\ Requests!LogNext
  /\ UNCHANGED <<focus, limiterVars, workerVars, copiesVars, scheduleVars>>

CopiesStep ==
  /\ focus = "backups" /\ Copies!BackupNext
  /\ UNCHANGED <<focus, limiterVars, workerVars, requestsVars, scheduleVars>>

ScheduleStep ==
  /\ focus = "cron" /\ Schedule!CronNext
  /\ UNCHANGED <<focus, limiterVars, workerVars, requestsVars, copiesVars>>

Next == LimiterStep \/ WorkerStep \/ RequestsStep \/ CopiesStep \/ ScheduleStep

Spec == Init /\ [][Next]_nodeVars /\ Worker!WorkerFairness

(* Every component keeps its variables in their types.                         *)
TypeOK ==
  /\ focus = "limit" => Limiter!LimitTypeOK
  /\ focus = "worker" => Worker!WorkerTypeOK
  /\ focus = "log" => Requests!LogTypeOK
  /\ focus = "backups" => Copies!BackupTypeOK
  /\ focus = "cron" => Schedule!CronTypeOK

(* Requests are admitted within the rate of their key; a run reported as a     *)
(* success came to its end with all its host calls; what the request log       *)
(* writes is listed, in order; a completed backup has one state of each        *)
(* project, but for the overlaps named in the modules; and what is given as    *)
(* the next time of a schedule is its first.                                   *)
ReportsAreTrue ==
  /\ focus = "limit" => Limiter!AdmittedWithinRate
  /\ focus = "worker" => Worker!SuccessIsComplete
  /\ focus = "log" => Requests!WrittenIsListed
  /\ focus = "log" => Requests!LogIsInOrder
  /\ focus = "backups" => Copies!BackupsAreWhole
  /\ focus = "cron" => Schedule!NextIsFirst

(* Whatever a function and its worker do, the caller gets an outcome.          *)
EveryRunEnds == focus = "worker" => Worker!EveryRunEnds
==============================================================================
