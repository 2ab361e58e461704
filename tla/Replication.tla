----------------------------- MODULE Replication -----------------------------
(***************************************************************************)
(* One master, its concurrent writers, and the followers (heirs and        *)
(* readers) that stream its write-ahead log.                               *)
(*                                                                         *)
(* src/internal/replication/cluster.go  writeNS, ApplyEntry, applyMutation *)
(* src/internal/replication/stream.go   StreamServer, StreamClient         *)
(* src/cmd/sovrabase/replication.go     the follower's apply loop          *)
(*                                                                         *)
(* The WAL is the append-only log that ReplicationLog implements; an LSN is *)
(* an index into it.  Replicated documents belong to existing collections, *)
(* so that each key is independent of the others.                          *)
(***************************************************************************)
EXTENDS Naturals, Sequences, FiniteSets

CONSTANTS
    Key,        \* document ids
    Value,      \* document contents
    Absent,     \* the content of a document that does not exist
    Writer,     \* requests running on the master
    Follower,   \* heirs and readers
    QueueCap,   \* capacity of StreamClient.entriesCh (256 in the code)
    MaxLog,     \* bound: WAL entries the model explores
    MaxFault    \* bound: disconnections, failed dials, crashes, failed appends

ASSUME AbsentAssumption == Absent \notin Value
ASSUME WriterAssumption == IsFiniteSet(Writer)
ASSUME BoundAssumption == QueueCap \in Nat /\ MaxLog \in Nat /\ MaxFault \in Nat

Doc == Value \cup {Absent}
Docs == [Key -> Doc]

(* A mutation: OpInsert, OpUpdate or OpDelete of one document. *)
Entry == [op : {"insert", "update"}, key : Key, val : Value]
            \cup [op : {"delete"}, key : Key, val : {Absent}]

VARIABLES
    docs,       \* the master's engine
    wal,        \* the master's WAL
    lsnCounter, \* the master's ClusterNode.lsnCounter
    request,    \* per writer: how far its writeNS has come, and with what
    masterUp,   \* whether the master's process runs
    fdocs,      \* per follower: its engine
    link,       \* per follower: its process and the state of its StreamClient
    next,       \* per follower: nextLSN of the master's StreamFrom goroutine
    lastLSN,    \* per follower: StreamClient.lastLSN, the LSN it resumes from
    queue,      \* per follower: StreamClient.entriesCh, as LSNs
    lastApplied,\* per follower: ClusterNode.lastApplied
    pos,        \* history: the last LSN the apply loop took since the process started
    reach,      \* history: the highest LSN the apply loop ever took
    dropped,    \* history: LSNs the client dropped since the process started
    snap,       \* history: snap[n + 1] is what the first n WAL entries produce
    torn,       \* history: keys whose writes overlapped or were cut short
    failed,     \* history: appends that failed since the master started
    faults      \* number of faults so far

master == <<docs, wal, lsnCounter, request, masterUp, snap, torn, failed>>
follower == <<fdocs, link, next, lastLSN, queue, lastApplied, pos, reach, dropped>>
vars == <<docs, wal, lsnCounter, request, masterUp, snap, torn, failed,
          fdocs, link, next, lastLSN, queue, lastApplied, pos, reach, dropped, faults>>

Idle == [at |-> "idle"]
Active == {w \in Writer : request[w].at # "idle"}
Numbered == {w \in Writer : request[w].at = "numbered"}
InFlight(k) == {w \in Active : request[w].entry.key = k}

(* Insert overwrites; Update and Delete require the document to exist. *)
Accepts(doc, e) == e.op = "insert" \/ doc # Absent

(* applyMutation on one engine: an error leaves the engine unchanged. *)
ApplyMutation(d, e) == IF Accepts(d[e.key], e) THEN [d EXCEPT ![e.key] = e.val] ELSE d

Init == /\ docs = [k \in Key |-> Absent]
        /\ wal = << >>
        /\ lsnCounter = 0
        /\ request = [w \in Writer |-> Idle]
        /\ masterUp = TRUE
        /\ fdocs = [f \in Follower |-> [k \in Key |-> Absent]]
        /\ link = [f \in Follower |-> "stopped"]
        /\ next = [f \in Follower |-> 1]
        /\ lastLSN = [f \in Follower |-> 0]
        /\ queue = [f \in Follower |-> << >>]
        /\ lastApplied = [f \in Follower |-> 0]
        /\ pos = [f \in Follower |-> 0]
        /\ reach = [f \in Follower |-> 0]
        /\ dropped = [f \in Follower |-> {}]
        /\ snap = <<[k \in Key |-> Absent]>>
        /\ torn = {}
        /\ failed = 0
        /\ faults = 0

-----------------------------------------------------------------------------
(* writeNS, one action per access to shared state.  The role was checked and *)
(* the node stays master here (Failover lets it change).                     *)

(* Mutant of ApplyLocally: a document write that skips the engine, as the    *)
(* tenant operations of writeRaw do.                                         *)
ApplyLocallySkipped(w) ==
    /\ masterUp
    /\ request[w].at = "idle"
    /\ Len(wal) + Cardinality(Active) < MaxLog
    /\ \E e \in Entry :
          /\ request' = [request EXCEPT ![w] = [at |-> "applied", entry |-> e]]
          /\ torn' = IF InFlight(e.key) = {} THEN torn ELSE torn \cup {e.key}
    /\ UNCHANGED <<docs, wal, lsnCounter, masterUp, snap, failed, follower, faults>>

(* The mutation reaches the local engine before it has an LSN; a mutation    *)
(* the engine refuses returns the error and changes nothing.                 *)
ApplyLocally(w) ==
    /\ masterUp
    /\ request[w].at = "idle"
    /\ Len(wal) + Cardinality(Active) < MaxLog
    /\ \E e \in Entry :
          /\ Accepts(docs[e.key], e)
          /\ docs' = ApplyMutation(docs, e)
          /\ request' = [request EXCEPT ![w] = [at |-> "applied", entry |-> e]]
          /\ torn' = IF InFlight(e.key) = {} THEN torn ELSE torn \cup {e.key}
    /\ UNCHANGED <<wal, lsnCounter, masterUp, snap, failed, follower, faults>>

(* lsn := atomic.AddUint64(&n.lsnCounter, 1) *)
NumberWrite(w) ==
    /\ request[w].at = "applied"
    /\ lsnCounter' = lsnCounter + 1
    /\ request' = [request EXCEPT ![w].at = "numbered"]
    /\ UNCHANGED <<docs, wal, masterUp, snap, torn, failed, follower, faults>>

(* log.Append gives the entry the WAL's own next LSN, whatever its number.   *)
AppendToLog(w) ==
    /\ request[w].at = "numbered"
    /\ wal' = Append(wal, request[w].entry)
    /\ snap' = Append(snap, ApplyMutation(snap[Len(snap)], request[w].entry))
    /\ request' = [request EXCEPT ![w] = Idle]
    /\ UNCHANGED <<docs, lsnCounter, masterUp, torn, failed, follower, faults>>

(* log.Append failed: the caller gets an error, the engine keeps the change. *)
AppendFails(w) ==
    /\ request[w].at = "numbered"
    /\ faults < MaxFault
    /\ torn' = torn \cup {request[w].entry.key}
    /\ failed' = failed + 1
    /\ request' = [request EXCEPT ![w] = Idle]
    /\ faults' = faults + 1
    /\ UNCHANGED <<docs, wal, lsnCounter, masterUp, snap, follower>>

(* The master's process ends.  Its engine and WAL stay, its running requests *)
(* are lost and every client sees a read error.                              *)
CrashMaster ==
    /\ masterUp
    /\ faults < MaxFault
    /\ masterUp' = FALSE
    /\ torn' = torn \cup {k \in Key : InFlight(k) # {}}
    /\ request' = [w \in Writer |-> Idle]
    /\ link' = [f \in Follower |-> IF link[f] = "up" THEN "lost" ELSE link[f]]
    /\ faults' = faults + 1
    /\ UNCHANGED <<docs, wal, lsnCounter, snap, failed,
                   fdocs, next, lastLSN, queue, lastApplied, pos, reach, dropped>>

(* Mutant of StartMaster: the counter is not seeded from the WAL. *)
StartMasterUnseeded ==
    /\ ~masterUp
    /\ masterUp' = TRUE
    /\ lsnCounter' = 0
    /\ failed' = 0
    /\ UNCHANGED <<docs, wal, request, snap, torn, follower, faults>>

(* SetLog: the counter restarts from the recovered WAL. *)
StartMaster ==
    /\ ~masterUp
    /\ masterUp' = TRUE
    /\ lsnCounter' = Len(wal)
    /\ failed' = 0
    /\ UNCHANGED <<docs, wal, request, snap, torn, follower, faults>>

-----------------------------------------------------------------------------
(* Mutant of ResumeAt: a client without an LSN asks for LSN 0 to be sent. *)
ResumeAtZero(lsn) == lsn

(* The stream.  The server starts StreamFrom at the LSN the client names,    *)
(* inclusive, so the last entry received is sent again after a reconnection. *)
ResumeAt(lsn) == IF lsn = 0 THEN 1 ELSE lsn

(* startReplication: NewStreamClient(masterAddr, id, 0) and Connect; a dial  *)
(* that fails ends the process.                                              *)
StartFollower(f) ==
    /\ link[f] = "stopped"
    /\ masterUp
    /\ link' = [link EXCEPT ![f] = "up"]
    /\ next' = [next EXCEPT ![f] = ResumeAt(0)]
    /\ UNCHANGED <<master, fdocs, lastLSN, queue, lastApplied, pos, reach, dropped, faults>>

(* readLoop reads the entry the server sends next.  lastLSN moves before the *)
(* entry is queued, and a full queue drops the entry.                        *)
Receive(f) ==
    /\ link[f] = "up"
    /\ next[f] <= Len(wal)
    /\ next' = [next EXCEPT ![f] = @ + 1]
    /\ lastLSN' = [lastLSN EXCEPT ![f] = IF next[f] > @ THEN next[f] ELSE @]
    /\ \/ /\ Len(queue[f]) < QueueCap
          /\ queue' = [queue EXCEPT ![f] = Append(@, next[f])]
          /\ UNCHANGED dropped
       \/ /\ Len(queue[f]) >= QueueCap
          /\ dropped' = [dropped EXCEPT ![f] = @ \cup {next[f]}]
          /\ UNCHANGED queue
    /\ UNCHANGED <<master, fdocs, link, lastApplied, pos, reach, faults>>

(* Mutant of ApplyEntry: an entry the engine refuses stays in the queue. *)
ApplyEntryRetry(f) ==
    /\ link[f] # "stopped"
    /\ queue[f] # << >>
    /\ LET n == Head(queue[f]) IN
          /\ Accepts(fdocs[f][wal[n].key], wal[n])
          /\ fdocs' = [fdocs EXCEPT ![f] = ApplyMutation(@, wal[n])]
          /\ lastApplied' = [lastApplied EXCEPT ![f] = n]
          /\ pos' = [pos EXCEPT ![f] = n]
          /\ reach' = [reach EXCEPT ![f] = IF n > @ THEN n ELSE @]
    /\ queue' = [queue EXCEPT ![f] = Tail(@)]
    /\ UNCHANGED <<master, link, next, lastLSN, dropped, faults>>

(* The apply loop takes an entry; one the engine refuses is logged and       *)
(* skipped, and then lastApplied stays where it was.                         *)
ApplyEntry(f) ==
    /\ link[f] # "stopped"
    /\ queue[f] # << >>
    /\ LET n == Head(queue[f]) IN
          /\ fdocs' = [fdocs EXCEPT ![f] = ApplyMutation(@, wal[n])]
          /\ lastApplied' = [lastApplied EXCEPT ![f] =
                                IF Accepts(fdocs[f][wal[n].key], wal[n]) THEN n ELSE @]
          /\ pos' = [pos EXCEPT ![f] = n]
          /\ reach' = [reach EXCEPT ![f] = IF n > @ THEN n ELSE @]
    /\ queue' = [queue EXCEPT ![f] = Tail(@)]
    /\ UNCHANGED <<master, link, next, lastLSN, dropped, faults>>

(* The connection breaks and conn.Read fails. *)
Disconnect(f) ==
    /\ link[f] = "up"
    /\ faults < MaxFault
    /\ link' = [link EXCEPT ![f] = "lost"]
    /\ faults' = faults + 1
    /\ UNCHANGED <<master, fdocs, next, lastLSN, queue, lastApplied, pos, reach, dropped>>

(* Mutants of Redial: the stream resumes at the end of the WAL, or after the *)
(* last entry applied instead of the last received.                          *)
RedialAtEnd(f) ==
    /\ link[f] = "lost"
    /\ masterUp
    /\ link' = [link EXCEPT ![f] = "up"]
    /\ next' = [next EXCEPT ![f] = Len(wal) + 1]
    /\ UNCHANGED <<master, fdocs, lastLSN, queue, lastApplied, pos, reach, dropped, faults>>

RedialFromApplied(f) ==
    /\ link[f] = "lost"
    /\ masterUp
    /\ link' = [link EXCEPT ![f] = "up"]
    /\ next' = [next EXCEPT ![f] = ResumeAt(lastApplied[f])]
    /\ UNCHANGED <<master, fdocs, lastLSN, queue, lastApplied, pos, reach, dropped, faults>>

(* readLoop's deferred function sleeps for the backoff and dials once. *)
Redial(f) ==
    /\ link[f] = "lost"
    /\ masterUp
    /\ link' = [link EXCEPT ![f] = "up"]
    /\ next' = [next EXCEPT ![f] = ResumeAt(lastLSN[f])]
    /\ UNCHANGED <<master, fdocs, lastLSN, queue, lastApplied, pos, reach, dropped, faults>>

(* A dial that fails is reported on errorsCh and never repeated. *)
RedialFails(f) ==
    /\ link[f] = "lost"
    /\ \/ ~masterUp /\ UNCHANGED faults
       \/ faults < MaxFault /\ faults' = faults + 1
    /\ link' = [link EXCEPT ![f] = "stranded"]
    /\ UNCHANGED <<master, fdocs, next, lastLSN, queue, lastApplied, pos, reach, dropped>>

(* The follower's process ends: its engine stays, the client does not. *)
StopFollower(f) ==
    /\ link[f] # "stopped"
    /\ faults < MaxFault
    /\ link' = [link EXCEPT ![f] = "stopped"]
    /\ lastLSN' = [lastLSN EXCEPT ![f] = 0]
    /\ queue' = [queue EXCEPT ![f] = << >>]
    /\ lastApplied' = [lastApplied EXCEPT ![f] = 0]
    /\ pos' = [pos EXCEPT ![f] = 0]
    /\ dropped' = [dropped EXCEPT ![f] = {}]
    /\ faults' = faults + 1
    /\ UNCHANGED <<master, fdocs, next, reach>>

Next == \/ \E w \in Writer : \/ ApplyLocally(w) \/ NumberWrite(w)
                             \/ AppendToLog(w) \/ AppendFails(w)
        \/ CrashMaster \/ StartMaster
        \/ \E f \in Follower : \/ StartFollower(f) \/ Receive(f) \/ ApplyEntry(f)
                               \/ Disconnect(f) \/ Redial(f) \/ RedialFails(f)
                               \/ StopFollower(f)

(* The follower's two goroutines, the read loop and the apply loop, run.     *)
(* Nothing is assumed of writers, faults, dials or restarts.                 *)
Fairness == \A f \in Follower : WF_vars(Receive(f)) /\ WF_vars(ApplyEntry(f))

Spec == Init /\ [][Next]_vars /\ Fairness
-----------------------------------------------------------------------------
LSN == 1..MaxLog
Requests == {Idle} \cup [at : {"applied", "numbered"}, entry : Entry]

(* The types of the variables. *)
TypeOK == /\ docs \in Docs
          /\ wal \in Seq(Entry) /\ Len(wal) <= MaxLog
          /\ lsnCounter \in Nat
          /\ request \in [Writer -> Requests]
          /\ masterUp \in BOOLEAN
          /\ fdocs \in [Follower -> Docs]
          /\ link \in [Follower -> {"stopped", "up", "lost", "stranded"}]
          /\ next \in [Follower -> 1..(MaxLog + 1)]
          /\ lastLSN \in [Follower -> 0..MaxLog]
          /\ queue \in [Follower -> Seq(LSN)]
          /\ lastApplied \in [Follower -> 0..MaxLog]
          /\ pos \in [Follower -> 0..MaxLog]
          /\ reach \in [Follower -> 0..MaxLog]
          /\ dropped \in [Follower -> SUBSET LSN]
          /\ snap \in Seq(Docs) /\ Len(snap) = Len(wal) + 1
          /\ torn \subseteq Key
          /\ failed \in Nat
          /\ faults \in 0..MaxFault

(* /health's current_lsn, lsnCounter, agrees with the WAL's own counter      *)
(* although the two are advanced apart (cluster.go:282 and log.go:116): they *)
(* differ by the writes between the two and by the appends that failed.      *)
CounterAgreesWithLog ==
    masterUp => lsnCounter = Len(wal) + failed + Cardinality(Numbered)

(* The master's engine holds what its WAL says, for every key that no two    *)
(* requests wrote at once and no crash or failed append cut short: engine    *)
(* first, log second (cluster.go:278-313) loses nothing else.                *)
MasterMatchesLog ==
    \A k \in Key : k \notin torn /\ InFlight(k) = {} => docs[k] = snap[Len(snap)][k]

DroppedKey(f, k) == \E n \in dropped[f] : wal[n].key = k

(* A follower whose apply loop has come as far as it ever was holds, for     *)
(* every key none of whose entries its client dropped, what the WAL produced *)
(* at that point: through redelivery of the last entry after a reconnection, *)
(* full replay over old documents after a restart, refused entries, and any  *)
(* number of concurrent writers on the master.                               *)
FollowerMatchesLog ==
    \A f \in Follower : pos[f] >= reach[f] =>
        \A k \in Key : ~DroppedKey(f, k) => fdocs[f][k] = snap[pos[f] + 1][k]

(* The LSNs the apply loop has taken and will take, in order. *)
Pipeline(f) == <<pos[f]>> \o queue[f]

(* Nothing is reordered and nothing is skipped but what was dropped: from    *)
(* one entry to the next the LSN stays (redelivery), advances by one, or     *)
(* jumps over dropped entries only.  The end of the queue is where the       *)
(* client resumes from (stream.go:441-454).                                  *)
OnlyDropsSkip ==
    \A f \in Follower :
        LET p == Pipeline(f) IN
        /\ \A i \in 1..(Len(p) - 1) :
              p[i] <= p[i + 1] /\ ((p[i] + 1)..(p[i + 1] - 1)) \subseteq dropped[f]
        /\ p[Len(p)] <= lastLSN[f]
        /\ ((p[Len(p)] + 1)..lastLSN[f]) \subseteq dropped[f]

(* A connection that stays up eventually brings the follower to the end of   *)
(* the WAL: the apply loop takes the last entry, unless that was dropped.    *)
CatchesUp ==
    \A f \in Follower :
        <>[](link[f] = "up") => <>[](pos[f] = Len(wal) \/ Len(wal) \in dropped[f])

-----------------------------------------------------------------------------
(* The inductive invariant behind the safety properties above.               *)

(* A crashed master has no requests, and the bound leaves room for the rest. *)
RequestsFit == /\ Len(wal) + Cardinality(Active) <= MaxLog
               /\ ~masterUp => Active = {}

(* snap is the history of states that the WAL produces ... *)
SnapFollowsLog ==
    /\ snap[1] = [k \in Key |-> Absent]
    /\ \A n \in 1..Len(wal) : snap[n + 1] = ApplyMutation(snap[n], wal[n])

(* ... in which only entries on a key change it ... *)
KeyIsStable ==
    \A k \in Key : \A i, j \in 0..Len(wal) :
        i <= j /\ (\A m \in (i + 1)..j : wal[m].key # k) => snap[j + 1][k] = snap[i + 1][k]

(* ... and a key exists only after an entry that the log's state accepts. *)
Effective(n) == Accepts(snap[n][wal[n].key], wal[n])
Touched(k, m) == \E n \in 1..m : wal[n].key = k /\ Effective(n)
KeyStartsAbsent ==
    \A k \in Key : \A j \in 0..Len(wal) : ~Touched(k, j) => snap[j + 1][k] = Absent

(* The write in flight on a key that is not torn is the only one, and it is  *)
(* what separates the engine from the log.                                   *)
EngineIsAheadByRequest ==
    \A k \in Key \ torn :
        /\ \A w, v \in InFlight(k) : w = v
        /\ \A w \in InFlight(k) : /\ docs[k] = request[w].entry.val
                                  /\ Accepts(snap[Len(snap)][k], request[w].entry)

(* From LSN a the pipeline goes on with LSN b, at most the LSNs in gaps lost. *)
Linked(gaps, a, b) == a <= b /\ ((a + 1)..(b - 1)) \subseteq gaps
LastTaken(f) == IF queue[f] = << >> THEN pos[f] ELSE queue[f][Len(queue[f])]

(* The follower's LSNs stay within the WAL and follow each other; a live     *)
(* stream is at, or one past, the last LSN received.                         *)
PipelineIsLinked(f) ==
    /\ pos[f] <= reach[f] /\ reach[f] <= Len(wal) /\ lastLSN[f] <= Len(wal)
    /\ \A i \in 1..Len(queue[f]) : queue[f][i] <= Len(wal)
    /\ \A n \in dropped[f] : n <= Len(wal)
    /\ queue[f] # << >> => Linked(dropped[f], pos[f], queue[f][1])
    /\ \A i \in 1..(Len(queue[f]) - 1) : Linked(dropped[f], queue[f][i], queue[f][i + 1])
    /\ LastTaken(f) <= lastLSN[f] /\ ((LastTaken(f) + 1)..lastLSN[f]) \subseteq dropped[f]
    /\ link[f] = "up" => next[f] \in {lastLSN[f], lastLSN[f] + 1} /\ next[f] <= Len(wal) + 1
    /\ link[f] = "stopped" => queue[f] = << >> /\ lastLSN[f] = 0

(* Once the apply loop has come past the first entry that created a key, the *)
(* follower's engine agrees with the log on it, old documents or not; and a  *)
(* document it has comes from an entry it once took.                         *)
EngineAgreesOnTouched(f) ==
    \A k \in Key :
        /\ ~DroppedKey(f, k) /\ Touched(k, pos[f]) => fdocs[f][k] = snap[pos[f] + 1][k]
        /\ fdocs[f][k] # Absent => Touched(k, reach[f])

(* All of it: implied by Init and preserved by every action. *)
IInv == /\ TypeOK
        /\ RequestsFit
        /\ CounterAgreesWithLog
        /\ SnapFollowsLog /\ KeyIsStable /\ KeyStartsAbsent
        /\ EngineIsAheadByRequest /\ MasterMatchesLog
        /\ \A f \in Follower : PipelineIsLinked(f) /\ EngineAgreesOnTouched(f)
        /\ FollowerMatchesLog /\ OnlyDropsSkip

-----------------------------------------------------------------------------
(* docs/ha-deployment.md:9, "State is synchronized via the built-in WAL      *)
(* WebSocket replication stream": when no write is running and a follower    *)
(* that dropped nothing has applied the whole WAL, it holds what the master  *)
(* holds.                                                                    *)
StateIsSynchronized ==
    \A f \in Follower :
        (/\ \A w \in Writer : request[w].at = "idle"
         /\ link[f] = "up" /\ pos[f] = Len(wal) /\ queue[f] = << >> /\ dropped[f] = {})
            => fdocs[f] = docs
=============================================================================
