------------------------------ MODULE Failover ------------------------------
(***************************************************************************)
(* Failure detection and promotion: the configured master, the heirs that  *)
(* watch it, the epochs each node believes in.                             *)
(*                                                                         *)
(* src/cmd/sovrabase/replication.go   startReplication, monitorMasterHealth *)
(* src/internal/replication/cluster.go NewClusterNode, becomeMasterLocked  *)
(* src/internal/replication/stream.go the ping ticker, the read loop's dial *)
(*                                                                         *)
(* Time is counted per heir in ticks of its health ticker, one per         *)
(* lease_ttl.  Nothing but the age of the last message it read from the    *)
(* master decides a promotion, and nothing ever demotes a node.            *)
(***************************************************************************)
EXTENDS Naturals, Sequences, FiniteSets

CONSTANTS
    Heir,       \* nodes configured with role heir and the master as first peer
    Master,     \* the node configured with role master
    PingEvery,  \* the stream server's ping period (10 s) in ticks of lease_ttl
    StaleAfter, \* age, in ticks, that a silent master must exceed (3)
    MaxFailures,\* consecutive stale ticks that make an heir promote itself (3)
    MaxFault    \* bound: crashes, partitions and broken connections

ASSUME MasterAssumption == Master \notin Heir
ASSUME TimeAssumption == /\ PingEvery \in Nat \ {0} /\ StaleAfter \in Nat \ {0}
                         /\ MaxFailures \in Nat \ {0} /\ MaxFault \in Nat

Node == Heir \cup {Master}

(* An heir promotes itself at the earliest after this many silent ticks. *)
Patience == StaleAfter + MaxFailures

VARIABLES
    running,    \* the processes that run
    role,       \* ClusterNode.role
    epoch,      \* ClusterNode.masterEpoch
    walEpochs,  \* the OpMasterEpoch records of each node's WAL
    port,       \* which server of the node bound its ListenAddr
    connected,  \* whether the path between an heir and the master works
    client,     \* the heir's StreamClient: "lost" while its read loop backs off
                \* and dials, "stranded" once that single dial failed
    age,        \* ticks since the heir last read from the master, up to Patience
    pingAge,    \* ticks since the server last pinged on the heir's connection
    failures,   \* monitorMasterHealth's count of consecutive stale ticks
    disturbed,  \* history: heirs whose stream a fault ever touched
    faults      \* number of faults so far

vars == <<running, role, epoch, walEpochs, port, connected, client, age, pingAge,
          failures, disturbed, faults>>

ConfiguredRole(n) == IF n = Master THEN "master" ELSE "heir"

(* NewClusterNode: the epoch comes from the configured role, not from the WAL. *)
ConfiguredEpoch(n) == IF n = Master THEN 1 ELSE 0

(* A message sent on h's connection arrives. *)
Reaches(h) == connected[h] /\ Master \in running /\ client[h] = "up"

(* The master's StreamServer and LeaseManager both listen on ListenAddr, from *)
(* two goroutines: one of them binds it, the other's Start fails.             *)
Listener == {"stream", "lease"}

Init == /\ running = {}
        /\ role = [n \in Node |-> ConfiguredRole(n)]
        /\ epoch = [n \in Node |-> ConfiguredEpoch(n)]
        /\ walEpochs = [n \in Node |-> << >>]
        /\ port = [n \in Node |-> "none"]
        /\ connected = [h \in Heir |-> TRUE]
        /\ client = [h \in Heir |-> "none"]
        /\ age = [h \in Heir |-> 0]
        /\ pingAge = [h \in Heir |-> 0]
        /\ failures = [h \in Heir |-> 0]
        /\ disturbed = {}
        /\ faults = 0

-----------------------------------------------------------------------------
(* startReplication.  On the configured master BecomeMaster returns at once, *)
(* for the role is already set: no epoch record is written.                  *)
StartMaster ==
    /\ Master \notin running
    /\ running' = running \cup {Master}
    /\ role' = [role EXCEPT ![Master] = ConfiguredRole(Master)]
    /\ epoch' = [epoch EXCEPT ![Master] = ConfiguredEpoch(Master)]
    /\ \E l \in Listener : port' = [port EXCEPT ![Master] = l]
    /\ UNCHANGED <<walEpochs, connected, client, age, pingAge, failures, disturbed, faults>>

CanDial(h) == connected[h] /\ Master \in running /\ port[Master] = "stream"

(* An heir that cannot connect to its first peer does not start. *)
StartHeir(h) ==
    /\ h \notin running
    /\ CanDial(h)
    /\ running' = running \cup {h}
    /\ role' = [role EXCEPT ![h] = ConfiguredRole(h)]
    /\ epoch' = [epoch EXCEPT ![h] = ConfiguredEpoch(h)]
    /\ port' = [port EXCEPT ![h] = "none"]
    /\ client' = [client EXCEPT ![h] = "up"]
    /\ age' = [age EXCEPT ![h] = 0]
    /\ pingAge' = [pingAge EXCEPT ![h] = 0]
    /\ failures' = [failures EXCEPT ![h] = 0]
    /\ disturbed' = disturbed \ {h}
    /\ UNCHANGED <<walEpochs, connected, faults>>

-----------------------------------------------------------------------------
(* The server writes an entry to the heir's connection; the read loop        *)
(* refreshes lastRecvTime.                                                   *)
ReadEntry(h) ==
    /\ Reaches(h)
    /\ age[h] > 0
    /\ age' = [age EXCEPT ![h] = 0]
    /\ UNCHANGED <<running, role, epoch, walEpochs, port, connected, client, pingAge,
                   failures, disturbed, faults>>

(* Mutant of ReadPing: only log entries refresh lastRecvTime. *)
ReadPingUncounted(h) ==
    /\ Reaches(h)
    /\ pingAge[h] >= PingEvery
    /\ pingAge' = [pingAge EXCEPT ![h] = 0]
    /\ UNCHANGED <<running, role, epoch, walEpochs, port, connected, client, age,
                   failures, disturbed, faults>>

(* The ping ticker fires and the ping is read, which refreshes lastRecvTime. *)
ReadPing(h) ==
    /\ Reaches(h)
    /\ pingAge[h] >= PingEvery
    /\ age' = [age EXCEPT ![h] = 0]
    /\ pingAge' = [pingAge EXCEPT ![h] = 0]
    /\ UNCHANGED <<running, role, epoch, walEpochs, port, connected, client,
                   failures, disturbed, faults>>

(* Mutant of BecomeMaster: the role is left to the callbacks. *)
BecomeMasterRoleless(h) ==
    /\ epoch' = [epoch EXCEPT ![h] = @ + 1]
    /\ walEpochs' = [walEpochs EXCEPT ![h] = Append(@, epoch'[h])]
    /\ client' = [client EXCEPT ![h] = IF @ = "lost" THEN @ ELSE "closed"]
    /\ \E l \in Listener : port' = [port EXCEPT ![h] = l]
    /\ UNCHANGED role

(* becomeMasterLocked followed by the first onPromote callback: the client   *)
(* is closed and the two servers race for the heir's own ListenAddr.  Close  *)
(* does not stop a read loop that is backing off: it decided to dial before. *)
BecomeMaster(h) ==
    /\ role' = [role EXCEPT ![h] = "master"]
    /\ epoch' = [epoch EXCEPT ![h] = @ + 1]
    /\ walEpochs' = [walEpochs EXCEPT ![h] = Append(@, epoch'[h])]
    /\ client' = [client EXCEPT ![h] = IF @ = "lost" THEN @ ELSE "closed"]
    /\ \E l \in Listener : port' = [port EXCEPT ![h] = l]

(* Mutant of Stale: equality where the code compares. *)
StaleOnce(a) == a = StaleAfter + 1

(* time.Since(lastRecv) > leaseTTL*3 *)
Stale(a) == a > StaleAfter

(* Mutant of Count: a fresh message does not reset the count. *)
CountAll(h, a) == IF Stale(a) THEN failures[h] + 1 ELSE failures[h]

(* What a tick makes of the count of consecutive stale ticks. *)
Count(h, a) == IF Stale(a) THEN failures[h] + 1 ELSE 0

(* One tick of monitorMasterHealth, which ends once the heir is promoted.    *)
(* A ping that is due has been read by then.                                 *)
HealthTick(h) ==
    /\ h \in running /\ role[h] = "heir"
    /\ ~(Reaches(h) /\ pingAge[h] >= PingEvery)
    /\ LET a == IF age[h] < Patience THEN age[h] + 1 ELSE Patience IN
          /\ age' = [age EXCEPT ![h] = a]
          /\ failures' = [failures EXCEPT ![h] = Count(h, a)]
          /\ \/ Count(h, a) < MaxFailures /\ UNCHANGED <<role, epoch, walEpochs, client, port>>
             \/ Count(h, a) >= MaxFailures /\ BecomeMaster(h)
    /\ pingAge' = [pingAge EXCEPT ![h] = IF @ < PingEvery THEN @ + 1 ELSE @]
    /\ UNCHANGED <<running, connected, disturbed, faults>>

-----------------------------------------------------------------------------
(* The path to the master fails, or works again. *)
Partition(h) ==
    /\ faults < MaxFault
    /\ connected[h]
    /\ connected' = [connected EXCEPT ![h] = FALSE]
    /\ disturbed' = disturbed \cup {h}
    /\ faults' = faults + 1
    /\ UNCHANGED <<running, role, epoch, walEpochs, port, client, age, pingAge, failures>>

Heal(h) ==
    /\ ~connected[h]
    /\ connected' = [connected EXCEPT ![h] = TRUE]
    /\ UNCHANGED <<running, role, epoch, walEpochs, port, client, age, pingAge, failures,
                   disturbed, faults>>

(* What the read loop makes of a read error: Close forbids a further dial. *)
AfterReadError(h) == IF role[h] = "heir" THEN "lost" ELSE "closed"

(* conn.Read returns an error: after a partition or a crash. *)
ReadError(h) ==
    /\ client[h] = "up"
    /\ h \in disturbed
    /\ client' = [client EXCEPT ![h] = AfterReadError(h)]
    /\ UNCHANGED <<running, role, epoch, walEpochs, port, connected, age, pingAge, failures,
                   disturbed, faults>>

(* The read loop's single dial after the backoff, which no longer looks      *)
(* whether the client was closed meanwhile.                                  *)
Redial(h) ==
    /\ client[h] = "lost"
    /\ CanDial(h)
    /\ client' = [client EXCEPT ![h] = "up"]
    /\ age' = [age EXCEPT ![h] = 0]
    /\ pingAge' = [pingAge EXCEPT ![h] = 0]
    /\ UNCHANGED <<running, role, epoch, walEpochs, port, connected, failures, disturbed, faults>>

RedialFails(h) ==
    /\ client[h] = "lost"
    /\ ~CanDial(h)
    /\ client' = [client EXCEPT ![h] = "stranded"]
    /\ UNCHANGED <<running, role, epoch, walEpochs, port, connected, age, pingAge, failures,
                   disturbed, faults>>

(* A process ends; the WAL stays.  A connection to the master dies with it.  *)
Crash(n) ==
    /\ n \in running
    /\ faults < MaxFault
    /\ running' = running \ {n}
    /\ port' = [port EXCEPT ![n] = "none"]
    /\ client' = [h \in Heir |-> IF h = n THEN "none"
                                 ELSE IF n = Master /\ client[h] = "up" THEN AfterReadError(h)
                                 ELSE client[h]]
    /\ disturbed' = IF n = Master THEN Heir ELSE disturbed
    /\ faults' = faults + 1
    /\ UNCHANGED <<role, epoch, walEpochs, connected, age, pingAge, failures>>

Next == \/ StartMaster
        \/ \E h \in Heir : \/ StartHeir(h) \/ ReadEntry(h) \/ ReadPing(h) \/ HealthTick(h)
                           \/ Partition(h) \/ Heal(h) \/ ReadError(h)
                           \/ Redial(h) \/ RedialFails(h)
        \/ \E n \in Node : Crash(n)

(* The health ticker fires, and a ping that is due is sent and read. *)
Fairness == \A h \in Heir : WF_vars(HealthTick(h)) /\ WF_vars(ReadPing(h))

Spec == Init /\ [][Next]_vars /\ Fairness

-----------------------------------------------------------------------------
(* The types of the variables. *)
TypeOK == /\ running \subseteq Node
          /\ role \in [Node -> {"master", "heir"}]
          /\ epoch \in [Node -> Nat]
          /\ walEpochs \in [Node -> Seq(Nat)]
          /\ port \in [Node -> Listener \cup {"none"}]
          /\ connected \in [Heir -> BOOLEAN]
          /\ client \in [Heir -> {"none", "up", "lost", "stranded", "closed"}]
          /\ age \in [Heir -> 0..Patience]
          /\ pingAge \in [Heir -> 0..PingEvery]
          /\ failures \in [Heir -> 0..MaxFailures]
          /\ disturbed \subseteq Heir
          /\ faults \in 0..MaxFault

Promoted(h) == h \in running /\ role[h] = "master"

(* An heir is promoted only after Patience ticks in a row without a message: *)
(* a flapping connection never adds up to a promotion                        *)
(* (cmd/sovrabase/replication.go:194-199).                                   *)
PromotionNeedsSilence ==
    [][\A h \in Heir : role[h] = "heir" /\ role'[h] = "master" => age'[h] = Patience]_vars

(* A master that kept running behind a working network is never replaced:    *)
(* its pings keep the heirs patient (stream.go:258, replication.go:194).     *)
HealthyMasterKeepsItsHeirs == \A h \in Heir : Promoted(h) => h \in disturbed

(* A master that is gone for good is replaced, unless every heir stops too:  *)
(* a running heir that can no longer hear the master ends up promoted.       *)
LostMasterIsReplaced ==
    \A h \in Heir :
        <>[](h \in running /\ Master \notin running) => <>Promoted(h)
=============================================================================
