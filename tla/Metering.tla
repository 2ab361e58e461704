------------------------------- MODULE Metering -------------------------------
(* Usage counters of a project (metering.MeterStore): a delta per counter in   *)
(* memory, which requests add to without a lock, and a total per counter in    *)
(* Pebble.  flush moves one delta after the other into a batch and commits the *)
(* batch at the end; requests and readers come between any two of its steps.   *)
EXTENDS Integers, Sequences

CONSTANTS Methods,    \* HTTP methods
          MeterReqs,  \* requests that count or read
          MaxCount    \* bound: increments of a counter

VARIABLES
  delta,      \* counters in memory
  totals,     \* counters in Pebble
  batch,      \* what flush has collected: the new totals
  flushing,   \* counters a running flush has still to visit, "idle" between flushes
  counting,   \* counters a request has still to add to
  reading,    \* a read between Pebble and memory: the counter and what Pebble said
  made,       \* history: increments of each counter
  lost        \* history: counters that a failed commit or a crash took counts from

meterVars == <<delta, totals, batch, flushing, counting, reading, made, lost>>

Access(m) == IF m = "GET" THEN "reads" ELSE "writes"
Counters == {"total"} \cup Methods \cup {Access(m) : m \in Methods}
Idle == {"idle"}
Zero == [c \in Counters |-> 0]
None == -1
NoBatch == [c \in Counters |-> None]
NotReading == [counter |-> "none", pebble |-> 0]

\* NewMeterStore
MeterInit ==
  /\ delta = Zero /\ totals = Zero /\ made = Zero
  /\ batch = NoBatch /\ flushing = Idle
  /\ counting = [r \in MeterReqs |-> <<>>]
  /\ reading = [r \in MeterReqs |-> NotReading]
  /\ lost = {}

------------------------------------------------------------------------------
\* Requests, as the middleware of the API and the loggers of the console count
\* them when they are served: all together, by method, and by what they did.
Counts(r, list) ==
  /\ counting[r] = <<>> /\ reading[r] = NotReading
  /\ counting' = [counting EXCEPT ![r] = list]
  /\ UNCHANGED <<delta, totals, batch, flushing, reading, made, lost>>

IncMethod(m) == <<"total", m>>
MeteringMiddleware(r, m) == Counts(r, IncMethod(m))
adminLogger(r, m) == Counts(r, Append(IncMethod(m), Access(m)))
projectLogger(r, m) == adminLogger(r, m)

Inc(r) ==
  LET c == Head(counting[r]) IN
  /\ counting[r] # <<>> /\ made[c] < MaxCount
  /\ delta' = [delta EXCEPT ![c] = @ + 1] /\ made' = [made EXCEPT ![c] = @ + 1]
  /\ counting' = [counting EXCEPT ![r] = Tail(@)]
  /\ UNCHANGED <<totals, batch, flushing, reading, lost>>

------------------------------------------------------------------------------
\* flush, counter by counter: the delta is swapped with zero and the new total
\* put into the batch.
flush ==
  /\ flushing = Idle /\ flushing' = Counters
  /\ UNCHANGED <<delta, totals, batch, counting, reading, made, lost>>

\* Mutant of Collect: the delta is read and not reset.
CollectKeepsDelta(c) ==
  /\ c \in flushing
  /\ batch' = IF delta[c] = 0 THEN batch ELSE [batch EXCEPT ![c] = totals[c] + delta[c]]
  /\ flushing' = flushing \ {c}
  /\ UNCHANGED <<delta, totals, counting, reading, made, lost>>

Collect(c) ==
  /\ c \in flushing
  /\ delta' = [delta EXCEPT ![c] = 0]
  /\ batch' = IF delta[c] = 0 THEN batch ELSE [batch EXCEPT ![c] = totals[c] + delta[c]]
  /\ flushing' = flushing \ {c}
  /\ UNCHANGED <<totals, counting, reading, made, lost>>

InBatch == {c \in Counters : batch[c] # None}
Batched(c) == IF c \in InBatch THEN batch[c] ELSE totals[c]

\* The commit, whose error nobody looks at.
Commit ==
  /\ flushing = {} /\ flushing' = Idle
  /\ \/ totals' = [c \in Counters |-> Batched(c)] /\ UNCHANGED lost
     \/ lost' = lost \cup InBatch /\ InBatch # {} /\ UNCHANGED totals
  /\ batch' = NoBatch
  /\ UNCHANGED <<delta, counting, reading, made>>

------------------------------------------------------------------------------
\* readInt64WithDelta: the total in Pebble, then the delta in memory.
readInt64WithDelta(r, c) ==
  /\ counting[r] = <<>> /\ reading[r] = NotReading
  /\ reading' = [reading EXCEPT ![r] = [counter |-> c, pebble |-> totals[c]]]
  /\ UNCHANGED <<delta, totals, batch, flushing, counting, made, lost>>

Answer(r) == reading[r].pebble + delta[reading[r].counter]

ReadDelta(r) ==
  /\ reading[r] # NotReading
  /\ reading' = [reading EXCEPT ![r] = NotReading]
  /\ UNCHANGED <<delta, totals, batch, flushing, counting, made, lost>>

\* Whoever reads: the usage pages of the console, for one project or for all.
Get(r) == \E c \in Counters : readInt64WithDelta(r, c)
handleProjectUsage(r) == Get(r)
handleUsageStats(r) == readInt64WithDelta(r, "total")

\* Close lets the loop flush once more; a crash does not.
CrashMeter ==
  /\ lost' = lost \cup InBatch \cup {c \in Counters : delta[c] > 0}
  /\ delta' = Zero /\ batch' = NoBatch /\ flushing' = Idle
  /\ counting' = [r \in MeterReqs |-> <<>>]
  /\ reading' = [r \in MeterReqs |-> NotReading]
  /\ UNCHANGED <<totals, made>>

MeterNext ==
  \/ \E r \in MeterReqs :
       \/ \E m \in Methods : MeteringMiddleware(r, m) \/ projectLogger(r, m)
       \/ Inc(r) \/ ReadDelta(r) \/ handleProjectUsage(r) \/ handleUsageStats(r)
  \/ \E c \in Counters : Collect(c)
  \/ flush \/ Commit \/ CrashMeter

MeterSpec == MeterInit /\ [][MeterNext]_meterVars

------------------------------------------------------------------------------
MeterTypeOK ==
  /\ {delta, totals, made} \subseteq [Counters -> 0..MaxCount]
  /\ batch \in [Counters -> (0..MaxCount) \cup {None}]
  /\ flushing = Idle \/ flushing \subseteq Counters
  /\ counting \in [MeterReqs -> Seq(Counters)]
  /\ reading \in [MeterReqs -> [counter : Counters \cup {"none"}, pebble : 0..MaxCount]]
  /\ lost \subseteq Counters

\* Every increment is in memory, in the batch or in Pebble, and in one of them
\* only, through increments that arrive while a flush runs; counts get lost in
\* a crash and in a commit that fails.  A read may miss what a flush has in
\* hand, but it never reports more than was counted.
CountsAddUp ==
  /\ \A c \in Counters \ lost : Batched(c) + delta[c] = made[c]
  /\ \A r \in MeterReqs : reading[r] # NotReading => Answer(r) <= made[reading[r].counter]
==============================================================================
