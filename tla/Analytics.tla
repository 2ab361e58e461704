------------------------------- MODULE Analytics -------------------------------
(* The analytics of a project: events are collected in the memory of a store,  *)
(* which is cached per project, and added to a count in the database when a    *)
(* batch is full.  No timer empties the memory: the loop that would is never   *)
(* started.                                                                    *)
EXTENDS Naturals, FiniteSets

CONSTANTS EventReqs,  \* requests with an event each
          BatchSize,  \* events of a batch
          MaxEvents,  \* bound: events of all requests
          MaxStores   \* bound: stores made

VARIABLES
  newest,    \* the newest store, 0 before the first
  current,   \* the cached one, 0 for none
  memory,    \* events a store holds
  total,     \* the count in the database
  ingests,   \* requests: where they are, their store, and the batch they add
  accepted,  \* history: events taken
  excused    \* history: two batches were added at once, a commit failed, a
             \* cached store was replaced, or the process died

analyticsVars == <<newest, current, memory, total, ingests, accepted, excused>>

Rest == [pc |-> "rest", store |-> 0, batch |-> 0, read |-> 0]
Ids == 0..MaxStores

AnalyticsInit ==
  /\ newest = 0 /\ current = 0 /\ memory = [s \in Ids |-> 0] /\ total = 0
  /\ ingests = [r \in EventReqs |-> Rest]
  /\ accepted = 0 /\ excused = FALSE

------------------------------------------------------------------------------
\* handleIngestEvents looks for the cached store, and caches a new one when it
\* found none; by then there may be another, with events in its memory.
handleIngestEvents(r) ==
  /\ ingests[r].pc = "rest" /\ accepted < MaxEvents
  /\ ingests' = [ingests EXCEPT ![r] = IF current = 0 THEN [Rest EXCEPT !.pc = "make"]
                                       ELSE [Rest EXCEPT !.pc = "collect", !.store = current]]
  /\ UNCHANGED <<newest, current, memory, total, accepted, excused>>

NewStore(r, pc) ==
  /\ newest < MaxStores /\ newest' = newest + 1 /\ current' = newest + 1
  /\ ingests' = [ingests EXCEPT ![r] = [Rest EXCEPT !.pc = pc, !.store = newest + 1]]

CacheStore(r) ==
  /\ ingests[r].pc = "make" /\ NewStore(r, "collect")
  /\ excused' = (excused \/ current # 0)
  /\ UNCHANGED <<memory, total, accepted>>

\* The console looks again under the lock.
getProjectAnalyticsStore ==
  /\ current = 0 /\ newest < MaxStores /\ newest' = newest + 1 /\ current' = newest + 1
  /\ UNCHANGED <<memory, total, ingests, accepted, excused>>

\* Mutant of Full: a batch that fills to the brim stays in memory.
FullLate(n) == n > BatchSize

Full(n) == n >= BatchSize

Ingest(r) ==
  LET s == ingests[r].store IN
    /\ ingests[r].pc = "collect" /\ accepted < MaxEvents
    /\ memory' = [memory EXCEPT ![s] = @ + 1] /\ accepted' = accepted + 1
    /\ ingests' = [ingests EXCEPT ![r] = IF Full(memory[s] + 1) THEN [@ EXCEPT !.pc = "flush"] ELSE Rest]
    /\ UNCHANGED <<newest, current, total, excused>>

\* flush takes the memory under the lock, and adds it to the count without.
flush(r) ==
  LET s == ingests[r].store IN
    /\ ingests[r].pc = "flush" /\ memory' = [memory EXCEPT ![s] = 0]
    /\ ingests' = [ingests EXCEPT ![r] = IF memory[s] = 0 THEN Rest
                                         ELSE [@ EXCEPT !.pc = "read", !.batch = memory[s]]]
    /\ UNCHANGED <<newest, current, total, accepted, excused>>

ReadCount(r) ==
  /\ ingests[r].pc = "read"
  /\ ingests' = [ingests EXCEPT ![r] = [@ EXCEPT !.pc = "commit", !.read = total]]
  /\ UNCHANGED <<newest, current, memory, total, accepted, excused>>

\* Mutant of CommitCount: the count becomes that of the batch.
CommitBatchOnly(r) ==
  /\ ingests[r].pc = "commit" /\ ingests' = [ingests EXCEPT ![r] = Rest]
  /\ total' = ingests[r].batch /\ excused' = (excused \/ total # ingests[r].read)
  /\ UNCHANGED <<newest, current, memory, accepted>>

CommitCount(r) ==
  /\ ingests[r].pc = "commit" /\ ingests' = [ingests EXCEPT ![r] = Rest]
  /\ \/ total' = ingests[r].read + ingests[r].batch /\ excused' = (excused \/ total # ingests[r].read)
     \/ excused' = TRUE /\ UNCHANGED total    \* an error nobody sees
  /\ UNCHANGED <<newest, current, memory, accepted>>

AnalyticsCrash ==
  /\ current # 0 /\ current' = 0 /\ memory' = [s \in Ids |-> 0] /\ excused' = TRUE
  /\ ingests' = [r \in EventReqs |-> Rest]
  /\ UNCHANGED <<newest, total, accepted>>

AnalyticsNext ==
  \/ \E r \in EventReqs :
       \/ handleIngestEvents(r) \/ CacheStore(r) \/ Ingest(r)
       \/ flush(r) \/ ReadCount(r) \/ CommitCount(r)
  \/ getProjectAnalyticsStore \/ AnalyticsCrash

AnalyticsSpec == AnalyticsInit /\ [][AnalyticsNext]_analyticsVars

------------------------------------------------------------------------------
AnalyticsTypeOK ==
  /\ {newest, current} \subseteq Ids /\ {total, accepted} \subseteq 0..MaxEvents
  /\ memory \in [Ids -> 0..MaxEvents] /\ excused \in BOOLEAN
  /\ ingests \in [EventReqs -> [pc : {"rest", "make", "collect", "flush", "read", "commit"},
                                store : Ids, batch : 0..MaxEvents, read : 0..MaxEvents]]

\* The summary of the dashboard counts what is in the database.
Summary == total
Pairs(f) == UNION {{x} \X (1..f[x]) : x \in DOMAIN f}
Sum(f) == Cardinality(Pairs(f))
InMemory == Sum(memory)
UnderWay == Sum([r \in EventReqs |-> ingests[r].batch])

\* Every event that was accepted is in the summary, in memory or under way, and
\* memory holds less than a batch unless a request is about to take it.
\* Excepted are the four ways in which counts get lost.
EventsAreCounted ==
  /\ ~excused => Summary + InMemory + UnderWay = accepted
  /\ \A s \in Ids : memory[s] >= BatchSize => \E r \in EventReqs : ingests[r].pc = "flush" /\ ingests[r].store = s
==============================================================================
