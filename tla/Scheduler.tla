------------------------------- MODULE Scheduler -------------------------------
(* Scheduled jobs of one project (scheduler.Store): jobs and their next fire   *)
(* times in memory, jobs in Pebble.  The store's mutex makes Create, Update    *)
(* and Delete one step each.  tick collects the due jobs in one step and then, *)
(* job by job, starts the execution and writes the next fire time: requests    *)
(* come between.  The execution records its outcome in the database, which a   *)
(* reload or a deletion of the project may have closed; that panics, and the   *)
(* process starts again.                                                       *)
EXTENDS Naturals, FiniteSets

CONSTANTS Jobs, Schedules,
          MaxFailures   \* failed saves

VARIABLES
  jobs,       \* jobs in memory
  saved,      \* jobs in Pebble
  fires,      \* next fire time: the schedule it was computed from, and whether it has come
  due,        \* jobs the running tick collected, as they were
  running,    \* executions in progress
  database,   \* whether the engine under the store is open
  cached,     \* the store exists and ticks
  overtaken,  \* history: jobs whose fire time is older than the job
  failures

schedVars == <<jobs, saved, fires, due, running, database, cached, overtaken, failures>>

NoJob == [enabled |-> FALSE, schedule |-> "none"]
Never == [schedule |-> "none", come |-> FALSE]
JobRecords == [enabled : BOOLEAN, schedule : Schedules]
nextCron(schedule) == [schedule |-> schedule, come |-> FALSE]

\* loadAll
Loaded(records) == [j \in Jobs |-> IF records[j].enabled THEN nextCron(records[j].schedule) ELSE Never]

SchedInit ==
  /\ jobs = [j \in Jobs |-> NoJob] /\ saved = jobs
  /\ fires = [j \in Jobs |-> Never]
  /\ due = {} /\ running = {}
  /\ database = "open" /\ cached = FALSE
  /\ overtaken = {} /\ failures = 0

Opened == cached /\ database = "open"
SaveFails == failures < MaxFailures /\ failures' = failures + 1 /\ UNCHANGED <<jobs, saved>>
Save(j, job) == saved' = [saved EXCEPT ![j] = job] /\ jobs' = [jobs EXCEPT ![j] = job] /\ UNCHANGED failures

\* StartProjectSchedulers and projectSchedulerCached build the store.
projectSchedulerCached ==
  /\ ~cached /\ database = "open"
  /\ jobs' = saved /\ fires' = Loaded(saved)
  /\ cached' = TRUE /\ overtaken' = {}
  /\ UNCHANGED <<saved, due, running, database, failures>>

\* A job may come with the identifier of another one, which it replaces.  The
\* fire time is set before the job is saved.
Create(j, job) ==
  /\ Opened
  /\ fires' = IF job.enabled THEN [fires EXCEPT ![j] = nextCron(job.schedule)] ELSE fires
  /\ \/ Save(j, job) /\ overtaken' = overtaken \ {j}
     \/ SaveFails /\ overtaken' = overtaken \cup {j}
  /\ UNCHANGED <<due, running, database, cached>>

\* Mutant of Update: an enabled job keeps the fire time it has.
UpdateKeepsTime(j, job) ==
  /\ Opened /\ jobs[j] # NoJob
  /\ fires' = [fires EXCEPT ![j] = IF job.enabled THEN @ ELSE Never]
  /\ \/ Save(j, job) /\ overtaken' = overtaken \ {j}
     \/ SaveFails /\ overtaken' = overtaken \cup {j}
  /\ UNCHANGED <<due, running, database, cached>>

Update(j, job) ==
  /\ Opened /\ jobs[j] # NoJob
  /\ fires' = [fires EXCEPT ![j] = IF job.enabled THEN nextCron(job.schedule) ELSE Never]
  /\ \/ Save(j, job) /\ overtaken' = overtaken \ {j}
     \/ SaveFails /\ overtaken' = overtaken \cup {j}
  /\ UNCHANGED <<due, running, database, cached>>

Delete(j) ==
  /\ Opened
  /\ \/ Save(j, NoJob) /\ fires' = [fires EXCEPT ![j] = Never] /\ overtaken' = overtaken \ {j}
     \/ SaveFails /\ UNCHANGED <<fires, overtaken>>
  /\ UNCHANGED <<due, running, database, cached>>

\* A fire time comes.
TimePasses(j) ==
  /\ fires[j] # Never /\ ~fires[j].come
  /\ fires' = [fires EXCEPT ![j].come = TRUE]
  /\ UNCHANGED <<jobs, saved, due, running, database, cached, overtaken, failures>>

\* tick, under the mutex: the due jobs as they are now.
tick ==
  /\ cached /\ due = {}
  /\ due' = {[j |-> j, job |-> jobs[j]] : j \in {k \in Jobs : fires[k].come /\ jobs[k].enabled}}
  /\ due' # {}
  /\ UNCHANGED <<jobs, saved, fires, running, database, cached, overtaken, failures>>

\* tick, per job: start it and set its next fire time, whatever became of it.
FireJob(d) ==
  /\ d \in due
  /\ due' = due \ {d}
  /\ running' = running \cup {d.j}
  /\ fires' = [fires EXCEPT ![d.j] = nextCron(d.job.schedule)]
  /\ overtaken' = IF jobs[d.j] = d.job THEN overtaken ELSE overtaken \cup {d.j}
  /\ UNCHANGED <<jobs, saved, database, cached, failures>>

\* The process ends and starts again, and with it every schedule.
Restarted(records) ==
  /\ jobs' = records /\ fires' = Loaded(records)
  /\ due' = {} /\ running' = {}
  /\ database' = "open" /\ cached' = TRUE
  /\ overtaken' = {}

\* execute comes to its end and records the execution.
recordExecution(j) ==
  /\ j \in running
  /\ IF database = "open"
     THEN running' = running \ {j} /\ UNCHANGED <<jobs, fires, due, database, cached, overtaken>>
     ELSE Restarted(saved)
  /\ UNCHANGED <<saved, failures>>

RestartScheduler == Restarted(saved) /\ UNCHANGED <<saved, failures>>

\* The project's environment is closed by a reload; the cached store stays.
CloseEngine ==
  /\ database = "open" /\ database' = "closed"
  /\ UNCHANGED <<jobs, saved, fires, due, running, cached, overtaken, failures>>

SchedNext ==
  \/ \E j \in Jobs, job \in JobRecords : Create(j, job) \/ Update(j, job)
  \/ \E j \in Jobs : Delete(j) \/ TimePasses(j) \/ recordExecution(j)
  \/ \E d \in due : FireJob(d)
  \/ projectSchedulerCached \/ tick \/ CloseEngine \/ RestartScheduler

SchedSpec == SchedInit /\ [][SchedNext]_schedVars

------------------------------------------------------------------------------
SchedTypeOK ==
  /\ {jobs, saved} \subseteq [Jobs -> JobRecords \cup {NoJob}]
  /\ fires \in [Jobs -> [schedule : Schedules \cup {"none"}, come : BOOLEAN]]
  /\ due \subseteq [j : Jobs, job : JobRecords]
  /\ running \subseteq Jobs
  /\ database \in {"open", "closed"} /\ cached \in BOOLEAN
  /\ overtaken \subseteq Jobs /\ failures \in 0..MaxFailures

\* An enabled job has a next fire time, computed from its present schedule,
\* through any overlap of ticks and requests; excepted are jobs that a running
\* tick overtook or whose save failed, until they are updated again.
EnabledJobsAreScheduled ==
  cached => \A j \in Jobs \ overtaken :
    jobs[j].enabled => fires[j].schedule = jobs[j].schedule
==============================================================================
