-------------------------- MODULE ProjectFunctions --------------------------
(* Functions of a project: the store (functions.Store), which keeps a record   *)
(* per function and a key per name; the watcher that runs functions on a       *)
(* schedule; the executor.  Neither the store nor its handlers take a lock: a  *)
(* request reads, writes one batch, and then has the watcher compute its times *)
(* anew, and other requests and ticks come between.                            *)
EXTENDS Naturals, FiniteSets

CONSTANTS Ids, FnNames, FnReqs,
          Triggers,   \* "http", "record", and the schedules of scheduled functions
          MaxEdits,   \* bound: edits of functions
          MaxRuns     \* bound: executions in progress

VARIABLES
  fns,        \* function records
  names,      \* name keys: the identifier each points to
  drawn,      \* identifiers that were given out
  edits,      \* requests: what they read and what they have still to do
  times,      \* the watcher's next time of a function, the schedule it comes from
  count,      \* edits so far
  executing,    \* executions in progress
  contended   \* history: two edits overlapped

fnVars == <<fns, names, drawn, edits, times, count, executing, contended>>

NoFn == [name |-> "none", trigger |-> "http", enabled |-> FALSE]
NoEdit == [pc |-> "done", id |-> "none", fn |-> NoFn]
Records == [name : FnNames, trigger : Triggers, enabled : BOOLEAN]
FnSchedules == Triggers \ {"http", "record"}
Unwatched == [schedule |-> "none", come |-> FALSE]
Next_(schedule) == [schedule |-> schedule, come |-> FALSE]

FnInit ==
  /\ fns = [i \in Ids |-> NoFn] /\ names = [n \in FnNames |-> "none"] /\ drawn = {}
  /\ edits = [r \in FnReqs |-> NoEdit]
  /\ times = [i \in Ids |-> Unwatched]
  /\ count = 0 /\ executing = {} /\ contended = FALSE

------------------------------------------------------------------------------
GetByName(n) == IF names[n] = "none" THEN NoFn ELSE fns[names[n]]
ListByTrigger(triggers) == {i \in Ids : fns[i].enabled /\ fns[i].trigger \in triggers}

Begin(r, pc, i, fn) ==
  /\ edits[r].pc = "done" /\ count < MaxEdits /\ count' = count + 1
  /\ edits' = [edits EXCEPT ![r] = [pc |-> pc, id |-> i, fn |-> fn]]
  /\ contended' = (contended \/ \E q \in FnReqs : edits[q].pc \in {"write", "remove"})
  /\ UNCHANGED <<fns, names, drawn, times, executing>>

\* Create finds the name free; a new function is enabled.
handleAdminCreateFunction(r, fn) ==
  /\ names[fn.name] = "none" /\ fn.enabled
  /\ \E i \in Ids \ drawn : Begin(r, "write", i, fn)

\* Update reads the function and finds the name free or its own.
handleAdminUpdateFunction(r, i, fn) ==
  /\ fns[i] # NoFn /\ names[fn.name] \in {"none", i}
  /\ Begin(r, "write", i, fn)

handleAdminDeleteFunction(r, i) == fns[i] # NoFn /\ Begin(r, "remove", i, fns[i])

\* Mutant of Commit: a new name gets no key.
CommitKeepsNames(r) ==
  LET e == edits[r] IN
  /\ e.pc = "write"
  /\ fns' = [fns EXCEPT ![e.id] = e.fn]
  /\ names' = IF fns[e.id] = NoFn THEN [names EXCEPT ![e.fn.name] = e.id] ELSE names
  /\ drawn' = drawn \cup {e.id}
  /\ edits' = [edits EXCEPT ![r].pc = "refresh"]
  /\ UNCHANGED <<count, times, executing, contended>>

\* The batch of Create and of Update: the record and the key of its name; the
\* key of a former name stays.
Commit(r) ==
  LET e == edits[r] IN
  /\ e.pc = "write"
  /\ fns' = [fns EXCEPT ![e.id] = e.fn]
  /\ names' = [names EXCEPT ![e.fn.name] = e.id]
  /\ drawn' = drawn \cup {e.id}
  /\ edits' = [edits EXCEPT ![r].pc = "refresh"]
  /\ UNCHANGED <<count, times, executing, contended>>

Delete(r) ==
  LET e == edits[r] IN
  /\ e.pc = "remove"
  /\ fns' = [fns EXCEPT ![e.id] = NoFn]
  /\ names' = [names EXCEPT ![e.fn.name] = "none"]
  /\ edits' = [edits EXCEPT ![r].pc = "refresh"]
  /\ UNCHANGED <<count, drawn, times, executing, contended>>

\* Mutant of Refreshed: times that are set stay as they are.
RefreshedKeepsTimes == [i \in Ids |->
  IF i \notin ListByTrigger(FnSchedules) THEN Unwatched
  ELSE IF times[i] = Unwatched THEN Next_(fns[i].trigger) ELSE times[i]]

\* refreshProjectLocked: the next time of every scheduled function, from now.
Refreshed == [i \in Ids |->
  IF i \in ListByTrigger(FnSchedules) THEN Next_(fns[i].trigger) ELSE Unwatched]

refreshFunctionSchedule(r) ==
  /\ edits[r].pc = "refresh"
  /\ times' = Refreshed
  /\ edits' = [edits EXCEPT ![r] = NoEdit]
  /\ UNCHANGED <<count, fns, names, drawn, executing, contended>>

------------------------------------------------------------------------------
\* Executions, which go on with the function as it was when they began.
Executing(ids) ==
  /\ Cardinality(executing \cup ids) <= MaxRuns
  /\ executing' = executing \cup ids

InvokeHTTP(n) ==
  LET i == names[n] IN
  /\ i # "none" /\ fns[i].trigger = "http" /\ fns[i].enabled
  /\ Executing({i})
  /\ UNCHANGED <<count, fns, names, drawn, edits, times, contended>>

handleFunctionHTTP(n) == GetByName(n) # NoFn /\ InvokeHTTP(n)

\* The console tests a function whatever its state; a function for HTTP goes
\* by its name.
handleAdminTestFunction(i) ==
  /\ fns[i] # NoFn
  /\ IF fns[i].trigger = "http" THEN InvokeHTTP(fns[i].name)
     ELSE Executing({i}) /\ UNCHANGED <<count, fns, names, drawn, edits, times, contended>>

FireEvent ==
  /\ ListByTrigger({"record"}) # {} /\ Executing(ListByTrigger({"record"}))
  /\ UNCHANGED <<count, fns, names, drawn, edits, times, contended>>

FnTimePasses(i) ==
  /\ times[i] # Unwatched /\ ~times[i].come
  /\ times' = [times EXCEPT ![i].come = TRUE]
  /\ UNCHANGED <<count, fns, names, drawn, edits, executing, contended>>

\* tick, under the watcher's mutex; functions that are no longer to be watched
\* drop out here.
tick ==
  LET come == {i \in Ids : times[i].come}
      due  == {i \in come : fns[i].enabled /\ fns[i].trigger \in FnSchedules} IN
  /\ come # {}
  /\ times' = [i \in Ids |-> IF i \in due THEN Next_(fns[i].trigger)
                             ELSE IF i \in come THEN Unwatched ELSE times[i]]
  /\ Executing(due)
  /\ UNCHANGED <<count, fns, names, drawn, edits, contended>>

\* Outcomes go into the log; records are meant to be pruned there.
logExecution(i) ==
  /\ i \in executing
  /\ executing' = executing \ {i}
  /\ UNCHANGED <<count, fns, names, drawn, edits, times, contended>>

\* A restart: InitFunctionRuntime registers every store with the watcher.
InitFunctionRuntime ==
  /\ edits' = [r \in FnReqs |-> NoEdit] /\ executing' = {}
  /\ times' = Refreshed
  /\ UNCHANGED <<count, fns, names, drawn, contended>>

FnNext ==
  \/ \E r \in FnReqs :
       \/ \E fn \in Records : \/ handleAdminCreateFunction(r, fn)
                              \/ \E i \in Ids : handleAdminUpdateFunction(r, i, fn)
       \/ \E i \in Ids : handleAdminDeleteFunction(r, i)
       \/ Commit(r) \/ Delete(r) \/ refreshFunctionSchedule(r)
  \/ \E n \in FnNames : handleFunctionHTTP(n)
  \/ \E i \in Ids : handleAdminTestFunction(i) \/ FnTimePasses(i) \/ logExecution(i)
  \/ FireEvent \/ tick \/ InitFunctionRuntime

FnSpec == FnInit /\ [][FnNext]_fnVars

------------------------------------------------------------------------------
FnTypeOK ==
  /\ fns \in [Ids -> Records \cup {NoFn}]
  /\ names \in [FnNames -> Ids \cup {"none"}]
  /\ drawn \subseteq Ids /\ executing \subseteq drawn
  /\ count \in 0..MaxEdits
  /\ edits \in [FnReqs -> [pc : {"done", "write", "remove", "refresh"}, id : Ids \cup {"none"},
                           fn : Records \cup {NoFn}]]
  /\ times \in [Ids -> [schedule : FnSchedules \cup {"none"}, come : BOOLEAN]]
  /\ contended \in BOOLEAN

\* Where edits did not overlap, every function is found under the name it has,
\* through any sequence of renames, deletions and new functions.
FunctionsAreFound ==
  ~contended => \A i \in Ids : fns[i] # NoFn => names[fns[i].name] = i

\* Once no request has the watcher still to tell, it has a time for exactly the
\* functions that are enabled on a schedule, and that time comes from their
\* present schedule, however requests and ticks overlapped.
WatcherKnowsSchedules ==
  (\A r \in FnReqs : edits[r].pc # "refresh") => \A i \in ListByTrigger(FnSchedules) :
    times[i].schedule = fns[i].trigger
==============================================================================
