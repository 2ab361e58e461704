------------------------- MODULE Replication_proofs -------------------------
(***************************************************************************)
(* Proofs about replication, for every set of keys, values, writers and    *)
(* followers, every queue capacity and every bound.  The argument goes     *)
(* from the types to the master (its counter, its history, its engine) and *)
(* then to each follower (its pipeline of LSNs, its engine).               *)
(***************************************************************************)
EXTENDS Replication, FiniteSetTheorems, TLAPS

(* Entries, requests and what a mutation does to an engine. *)
LEMMA EntryFields ==
    ASSUME NEW e \in Entry
    PROVE  e.op \in {"insert", "update", "delete"} /\ e.key \in Key /\ e.val \in Doc
BY DEF Entry, Doc

LEMMA MutationType ==
    ASSUME NEW d \in Docs, NEW e \in Entry
    PROVE  ApplyMutation(d, e) \in Docs
BY EntryFields DEF ApplyMutation, Docs

(* What a mutation does, key by key. *)
LEMMA MutationEffect ==
    ASSUME NEW d \in Docs, NEW e \in Entry, NEW k \in Key
    PROVE  ApplyMutation(d, e)[k] = IF k = e.key /\ Accepts(d[k], e) THEN e.val ELSE d[k]
BY EntryFields DEF ApplyMutation, Docs

LEMMA ActiveRequest ==
    ASSUME TypeOK, NEW w \in Active
    PROVE  request[w].at \in {"applied", "numbered"} /\ request[w].entry \in Entry
<1>1. request[w] \in Requests /\ request[w].at # "idle"
  BY DEF TypeOK, Active
<1>2. request[w] # Idle
  BY <1>1 DEF Idle
<1> QED
  BY <1>1, <1>2 DEF Requests

LEMMA IdleType == Idle \in Requests
BY DEF Requests

(* Requests come and go one at a time. *)
LEMMA ActiveFinite ==
    ASSUME TypeOK
    PROVE  /\ IsFiniteSet(Active) /\ Cardinality(Active) \in Nat
           /\ IsFiniteSet(Numbered) /\ Cardinality(Numbered) \in Nat
BY WriterAssumption, FS_Subset, FS_CardinalityType DEF Active, Numbered

LEMMA RequestCounts ==
    ASSUME TypeOK, NEW w \in Writer
    PROVE  /\ w \notin Active => Cardinality(Active \cup {w}) = Cardinality(Active) + 1
           /\ w \in Active => Cardinality(Active \ {w}) = Cardinality(Active) - 1
           /\ w \notin Numbered => Cardinality(Numbered \cup {w}) = Cardinality(Numbered) + 1
           /\ w \in Numbered => Cardinality(Numbered \ {w}) = Cardinality(Numbered) - 1
BY ActiveFinite, FS_AddElement, FS_RemoveElement

(* Appending to a sequence keeps its elements and adds one. *)
LEMMA AppendElements ==
    ASSUME NEW S, NEW q \in Seq(S), NEW x \in S
    PROVE  /\ Append(q, x) \in Seq(S)
           /\ Len(Append(q, x)) = Len(q) + 1
           /\ \A i \in 1..Len(q) : Append(q, x)[i] = q[i]
           /\ Append(q, x)[Len(q) + 1] = x
OBVIOUS

LEMMA TailElements ==
    ASSUME NEW S, NEW q \in Seq(S), q # << >>
    PROVE  /\ Head(q) \in S /\ Head(q) = q[1] /\ Len(q) >= 1
           /\ Tail(q) \in Seq(S) /\ Len(Tail(q)) = Len(q) - 1
           /\ \A i \in 1..(Len(q) - 1) : Tail(q)[i] = q[i + 1]
OBVIOUS

LEMMA EmptyByLength ==
    ASSUME NEW S, NEW q \in Seq(S)
    PROVE  q = << >> <=> Len(q) = 0
OBVIOUS

LEMMA LastOfTail ==
    ASSUME NEW S, NEW q \in Seq(S), q # << >>
    PROVE  /\ Tail(q) = << >> => Len(q) = 1
           /\ Tail(q) # << >> => Len(q) > 1 /\ Tail(q)[Len(Tail(q))] = q[Len(q)]
<1>1. /\ Tail(q) \in Seq(S) /\ Len(Tail(q)) = Len(q) - 1 /\ Len(q) >= 1 /\ Len(q) \in Nat
      /\ \A i \in 1..(Len(q) - 1) : Tail(q)[i] = q[i + 1]
  BY TailElements
<1>2. Tail(q) = << >> <=> Len(q) = 1
  <2>1. Tail(q) = << >> <=> Len(Tail(q)) = 0
    BY <1>1, EmptyByLength
  <2> QED
    BY <1>1, <2>1
<1>3. Len(q) > 1 => Tail(q)[Len(q) - 1] = q[(Len(q) - 1) + 1] /\ (Len(q) - 1) + 1 = Len(q)
  BY <1>1
<1> QED
  BY <1>1, <1>2, <1>3

-----------------------------------------------------------------------------
(* Types, with the bounds they rest on: requests fit into the log, and a     *)
(* follower's LSNs stay within it.                                           *)
LSNsInLog(f) ==
    /\ reach[f] <= Len(wal) /\ lastLSN[f] <= Len(wal) /\ pos[f] <= reach[f]
    /\ \A i \in 1..Len(queue[f]) : queue[f][i] <= Len(wal)
    /\ \A n \in dropped[f] : n <= Len(wal)
TypeInv == TypeOK /\ RequestsFit /\ \A f \in Follower : LSNsInLog(f)

LEMMA TypeInit == Init => TypeInv
<1> SUFFICES ASSUME Init PROVE TypeInv
  OBVIOUS
<1>1. Active = {} /\ Cardinality(Active) = 0
  BY FS_EmptySet DEF Init, Active, Idle
<1>2. TypeOK
  BY IdleType, BoundAssumption DEF Init, TypeOK, Docs, Doc, LSN
<1> QED
  BY <1>1, <1>2, BoundAssumption DEF Init, TypeInv, RequestsFit, LSNsInLog
(* The first entry that a follower's queue holds. *)
LEMMA QueueHead ==
    ASSUME TypeInv, NEW f \in Follower, queue[f] # << >>
    PROVE  /\ Head(queue[f]) \in 1..Len(wal) /\ Head(queue[f]) \in LSN
           /\ wal[Head(queue[f])] \in Entry
           /\ Tail(queue[f]) \in Seq(LSN) /\ Len(Tail(queue[f])) = Len(queue[f]) - 1
           /\ \A i \in 1..(Len(queue[f]) - 1) : Tail(queue[f])[i] = queue[f][i + 1]
           /\ Head(queue[f]) = queue[f][1] /\ Len(queue[f]) >= 1
<1>1. queue[f] \in Seq(LSN) /\ wal \in Seq(Entry) /\ LSNsInLog(f)
  BY DEF TypeInv, TypeOK
<1>2. /\ Head(queue[f]) \in LSN /\ Head(queue[f]) = queue[f][1] /\ Len(queue[f]) >= 1
      /\ Tail(queue[f]) \in Seq(LSN) /\ Len(Tail(queue[f])) = Len(queue[f]) - 1
      /\ \A i \in 1..(Len(queue[f]) - 1) : Tail(queue[f])[i] = queue[f][i + 1]
  BY <1>1, TailElements
<1>3. Head(queue[f]) \in 1..Len(wal)
  BY <1>1, <1>2 DEF LSNsInLog, LSN
<1> QED
  BY <1>1, <1>2, <1>3

(* A master step keeps what the followers have. *)
LEMMA FollowersKept ==
    ASSUME TypeInv, UNCHANGED follower, wal' \in Seq(Entry), Len(wal') >= Len(wal)
    PROVE  \A f \in Follower : LSNsInLog(f)'
<1> SUFFICES ASSUME NEW f \in Follower PROVE LSNsInLog(f)'
  OBVIOUS
<1>1. /\ reach' = reach /\ lastLSN' = lastLSN /\ pos' = pos /\ queue' = queue /\ dropped' = dropped
      /\ LSNsInLog(f)
  BY DEF follower, TypeInv
<1>2. /\ reach[f] \in Nat /\ lastLSN[f] \in Nat /\ queue[f] \in Seq(LSN) /\ dropped[f] \subseteq LSN
      /\ Len(wal) \in Nat /\ Len(wal') \in Nat
  BY BoundAssumption DEF TypeInv, TypeOK
<1>3. \A i \in 1..Len(queue[f]) : queue[f][i] \in LSN
  BY <1>2
<1> QED
  BY <1>1, <1>2, <1>3 DEF LSNsInLog, LSN

LEMMA TypeNext == TypeInv /\ [Next]_vars => TypeInv'
<1> SUFFICES ASSUME TypeInv, [Next]_vars PROVE TypeInv'
  OBVIOUS
<1> USE BoundAssumption
<1>0. Len(wal) \in Nat /\ Cardinality(Active) \in Nat
  BY ActiveFinite DEF TypeInv, TypeOK
<1>1. ASSUME NEW w \in Writer, ApplyLocally(w) PROVE TypeInv'
  <2>1. PICK e \in Entry :
            /\ docs' = ApplyMutation(docs, e)
            /\ request' = [request EXCEPT ![w] = [at |-> "applied", entry |-> e]]
            /\ torn' = IF InFlight(e.key) = {} THEN torn ELSE torn \cup {e.key}
    BY <1>1 DEF ApplyLocally
  <2>2. /\ masterUp /\ w \notin Active /\ Len(wal) + Cardinality(Active) < MaxLog
        /\ UNCHANGED <<wal, lsnCounter, masterUp, snap, failed, follower, faults>>
    BY <1>1 DEF ApplyLocally, Active
  <2>3. [at |-> "applied", entry |-> e] \in Requests
    BY DEF Requests
  <2>4. Active' = Active \cup {w}
    BY <2>1 DEF Active, TypeInv, TypeOK
  <2>5. RequestsFit'
    <3>1. Cardinality(Active') = Cardinality(Active) + 1
      BY <2>2, <2>4, RequestCounts DEF TypeInv
    <3> QED
      BY <1>0, <2>2, <3>1 DEF RequestsFit
  <2>6. docs' \in Docs /\ torn' \subseteq Key
    BY <2>1, MutationType, EntryFields DEF TypeInv, TypeOK
  <2>7. TypeOK'
    BY <2>1, <2>2, <2>3, <2>6 DEF TypeInv, TypeOK, follower
  <2> QED
    BY <2>2, <2>5, <2>7, FollowersKept, SMTT(60) DEF TypeInv, TypeOK
<1>2. ASSUME NEW w \in Writer, NumberWrite(w) PROVE TypeInv'
  <2>1. w \in Active /\ request[w].entry \in Entry
    BY <1>2, ActiveRequest DEF NumberWrite, Active, TypeInv
  <2>2. request[w] \in Requests /\ request[w] # Idle
    BY <1>2 DEF NumberWrite, Idle, TypeInv, TypeOK
  <2>3. [request[w] EXCEPT !.at = "numbered"] \in Requests
    BY <2>2 DEF Requests
  <2>4. request' = [request EXCEPT ![w] = [request[w] EXCEPT !.at = "numbered"]]
    BY <1>2 DEF NumberWrite
  <2>5. Active' = Active
    BY <2>1, <2>2, <2>4 DEF Active, TypeInv, TypeOK, Requests
  <2>6. TypeOK'
    BY <1>2, <2>3, <2>4 DEF NumberWrite, TypeInv, TypeOK, follower
  <2> QED
    <3>1. wal' = wal /\ masterUp' = masterUp /\ UNCHANGED follower
      BY <1>2 DEF NumberWrite
    <3>2. \A f \in Follower : LSNsInLog(f)'
      BY <1>0, <3>1, FollowersKept, SMTT(60) DEF TypeInv, TypeOK
    <3> QED
      BY <2>5, <2>6, <3>1, <3>2 DEF TypeInv, RequestsFit
<1>3. ASSUME NEW w \in Writer, AppendToLog(w) PROVE TypeInv'
  <2>1. w \in Active /\ request[w].entry \in Entry
    BY <1>3, ActiveRequest DEF AppendToLog, Active, TypeInv
  <2>2. Active' = Active \ {w}
    BY <1>3 DEF AppendToLog, Active, Idle, TypeInv, TypeOK
  <2>3. wal' \in Seq(Entry) /\ Len(wal') = Len(wal) + 1
    BY <1>3, <2>1, AppendElements DEF AppendToLog, TypeInv, TypeOK
  <2>4. snap[Len(snap)] \in Docs
    BY DEF TypeInv, TypeOK
  <2>5. snap' \in Seq(Docs) /\ Len(snap') = Len(snap) + 1
    BY <1>3, <2>1, <2>4, MutationType, AppendElements DEF AppendToLog, TypeInv, TypeOK
  <2>6. Cardinality(Active') = Cardinality(Active) - 1 /\ Cardinality(Active') \in Nat
    <3>1. Cardinality(Active') = Cardinality(Active) - 1
      BY <2>1, <2>2, RequestCounts DEF TypeInv, Active
    <3>2. IsFiniteSet(Active')
      BY <2>2, ActiveFinite, FS_Subset DEF TypeInv
    <3> QED
      BY <3>1, <3>2, FS_CardinalityType
  <2>7. masterUp' = masterUp /\ (~masterUp => Active = {}) /\ Len(wal) + Cardinality(Active) <= MaxLog
    BY <1>3 DEF AppendToLog, RequestsFit, TypeInv
  <2>8. RequestsFit' /\ Len(wal') <= MaxLog
    BY <1>0, <2>2, <2>3, <2>6, <2>7 DEF RequestsFit
  <2>9. request' \in [Writer -> Requests]
    BY <1>3, IdleType DEF AppendToLog, TypeInv, TypeOK
  <2>10. TypeOK'
    BY <1>0, <1>3, <2>3, <2>5, <2>8, <2>9 DEF AppendToLog, TypeInv, TypeOK, follower
  <2> QED
    BY <1>0, <1>3, <2>3, <2>8, <2>10, FollowersKept DEF AppendToLog, TypeInv
<1>4. ASSUME NEW w \in Writer, AppendFails(w) PROVE TypeInv'
  <2>1. w \in Active /\ request[w].entry \in Entry
    BY <1>4, ActiveRequest DEF AppendFails, Active, TypeInv
  <2>2. Active' = Active \ {w}
    BY <1>4 DEF AppendFails, Active, Idle, TypeInv, TypeOK
  <2>3. RequestsFit'
    <3>1. Cardinality(Active') = Cardinality(Active) - 1
      BY <2>1, <2>2, RequestCounts DEF TypeInv, Active
    <3>2. /\ masterUp' = masterUp /\ (~masterUp => Active = {}) /\ wal' = wal
          /\ Len(wal) + Cardinality(Active) <= MaxLog
      BY <1>4 DEF AppendFails, RequestsFit, TypeInv
    <3> QED
      BY <1>0, <2>2, <3>1, <3>2 DEF RequestsFit
  <2>4. request' \in [Writer -> Requests] /\ torn' \subseteq Key
    BY <1>4, <2>1, IdleType, EntryFields DEF AppendFails, TypeInv, TypeOK
  <2>5. TypeOK'
    BY <1>4, <2>4 DEF AppendFails, TypeInv, TypeOK, follower
  <2> QED
    <3>1. wal' = wal /\ UNCHANGED follower
      BY <1>4 DEF AppendFails
    <3>2. \A f \in Follower : LSNsInLog(f)'
      BY <1>0, <3>1, FollowersKept, SMTT(60) DEF TypeInv, TypeOK
    <3> QED
      BY <2>3, <2>5, <3>2 DEF TypeInv
<1>5. CASE CrashMaster
  <2>1. Active' = {}
    BY <1>5 DEF CrashMaster, Active, Idle
  <2>2. RequestsFit'
    BY <1>0, <1>5, <2>1, FS_EmptySet DEF CrashMaster, RequestsFit, TypeInv
  <2>3. /\ request' \in [Writer -> Requests] /\ torn' \subseteq Key /\ masterUp' \in BOOLEAN
        /\ link' \in [Follower -> {"stopped", "up", "lost", "stranded"}]
    BY <1>5, IdleType DEF CrashMaster, TypeInv, TypeOK
  <2>4. /\ UNCHANGED <<docs, wal, lsnCounter, snap, failed>>
        /\ UNCHANGED <<fdocs, next, lastLSN, queue, lastApplied, pos, reach, dropped>>
        /\ faults < MaxFault /\ faults' = faults + 1
    BY <1>5 DEF CrashMaster
  <2>5. TypeOK'
    BY <2>3, <2>4 DEF TypeInv, TypeOK
  <2> QED
    BY <2>2, <2>4, <2>5 DEF TypeInv, LSNsInLog
<1>6. CASE StartMaster
  <2>1. TypeOK'
    BY <1>0, <1>6 DEF StartMaster, TypeInv, TypeOK, follower
  <2>2. Active' = Active
    BY <1>6 DEF StartMaster, Active
  <2> QED
    BY <1>0, <1>6, <2>1, <2>2, FollowersKept, SMTT(60) DEF StartMaster, TypeInv, TypeOK, RequestsFit
<1>7. ASSUME NEW f \in Follower, StartFollower(f) \/ Redial(f) PROVE TypeInv'
  <2>1. /\ UNCHANGED <<master, fdocs, lastLSN, queue, lastApplied, pos, reach, dropped, faults>>
        /\ link' = [link EXCEPT ![f] = "up"]
        /\ \E n \in 0..MaxLog : next' = [next EXCEPT ![f] = ResumeAt(n)]
    BY <1>7 DEF StartFollower, Redial, TypeInv, TypeOK
  <2>2. \A n \in 0..MaxLog : ResumeAt(n) \in 1..(MaxLog + 1)
    BY DEF ResumeAt
  <2>3. next' \in [Follower -> 1..(MaxLog + 1)]
    BY <2>1, <2>2 DEF TypeInv, TypeOK
  <2>4. TypeOK'
    BY <2>1, <2>3 DEF TypeInv, TypeOK, master
  <2> QED
    BY <2>1, <2>4 DEF TypeInv, RequestsFit, Active, LSNsInLog, master
<1>8. ASSUME NEW f \in Follower, Receive(f) PROVE TypeInv'
  <2>1. next[f] \in LSN /\ next[f] + 1 \in 1..(MaxLog + 1) /\ next[f] <= Len(wal) /\ next[f] \in 0..MaxLog
    BY <1>0, <1>8, SMTT(60) DEF Receive, TypeInv, TypeOK, LSN
  <2>2. /\ next' = [next EXCEPT ![f] = next[f] + 1]
        /\ lastLSN' = [lastLSN EXCEPT ![f] = IF next[f] > lastLSN[f] THEN next[f] ELSE lastLSN[f]]
        /\ \/ /\ queue' = [queue EXCEPT ![f] = Append(queue[f], next[f])]
              /\ dropped' = dropped
           \/ /\ dropped' = [dropped EXCEPT ![f] = dropped[f] \cup {next[f]}]
              /\ queue' = queue
        /\ UNCHANGED <<master, fdocs, link, lastApplied, pos, reach, faults>>
    BY <1>8 DEF Receive
  <2>3. /\ Append(queue[f], next[f]) \in Seq(LSN)
        /\ \A i \in 1..Len(Append(queue[f], next[f])) :
              Append(queue[f], next[f])[i] = next[f] \/ \E j \in 1..Len(queue[f]) :
                                                        Append(queue[f], next[f])[i] = queue[f][j]
    BY <2>1, AppendElements DEF TypeInv, TypeOK
  <2>4. /\ next' \in [Follower -> 1..(MaxLog + 1)] /\ lastLSN' \in [Follower -> 0..MaxLog]
        /\ queue' \in [Follower -> Seq(LSN)] /\ dropped' \in [Follower -> SUBSET LSN]
    <3>1. queue' \in [Follower -> Seq(LSN)]
      BY <2>2, <2>3 DEF TypeInv, TypeOK
    <3>2. dropped' \in [Follower -> SUBSET LSN]
      <4>1. dropped[f] \cup {next[f]} \in SUBSET LSN
        BY <2>1 DEF TypeInv, TypeOK
      <4> QED
        BY <2>2, <4>1 DEF TypeInv, TypeOK
    <3>3. next' \in [Follower -> 1..(MaxLog + 1)] /\ lastLSN' \in [Follower -> 0..MaxLog]
      BY <2>1, <2>2 DEF TypeInv, TypeOK
    <3> QED
      BY <3>1, <3>2, <3>3
  <2>5. TypeOK'
    BY <2>2, <2>4 DEF TypeInv, TypeOK, master
  <2>6. ASSUME NEW g \in Follower PROVE LSNsInLog(g)'
    <3>1. LSNsInLog(g) /\ wal' = wal /\ reach' = reach /\ pos' = pos
      BY <2>2 DEF TypeInv, master
    <3>2. lastLSN'[g] <= Len(wal)
      BY <1>0, <2>1, <2>2, <3>1 DEF LSNsInLog, TypeInv, TypeOK
    <3>3. \A n \in dropped'[g] : n <= Len(wal)
      <4>1. dropped'[g] \subseteq dropped[g] \cup {next[f]}
        BY <2>2 DEF TypeInv, TypeOK
      <4> QED
        BY <2>1, <3>1, <4>1 DEF LSNsInLog
    <3>4. \A i \in 1..Len(queue'[g]) : queue'[g][i] <= Len(wal)
      <4>1. CASE queue'[g] = queue[g]
        BY <3>1, <4>1 DEF LSNsInLog
      <4>2. CASE g = f /\ queue'[g] = Append(queue[f], next[f])
        BY <2>1, <2>3, <3>1, <4>2 DEF LSNsInLog
      <4> QED
        BY <2>2, <4>1, <4>2 DEF TypeInv, TypeOK
    <3> QED
      BY <3>1, <3>2, <3>3, <3>4 DEF LSNsInLog
  <2> QED
    BY <2>2, <2>5, <2>6 DEF TypeInv, RequestsFit, Active, master
<1>9. ASSUME NEW f \in Follower, ApplyEntry(f) PROVE TypeInv'
  <2> DEFINE n == Head(queue[f])
  <2>1. queue[f] # << >>
    BY <1>9 DEF ApplyEntry
  <2>2. n \in 1..Len(wal) /\ n \in LSN /\ n \in 0..MaxLog /\ wal[n] \in Entry /\ Tail(queue[f]) \in Seq(LSN)
    BY <1>0, <2>1, QueueHead DEF LSN
  <2>3. /\ fdocs' = [fdocs EXCEPT ![f] = ApplyMutation(fdocs[f], wal[n])]
        /\ lastApplied' = [lastApplied EXCEPT ![f] =
                              IF Accepts(fdocs[f][wal[n].key], wal[n]) THEN n ELSE lastApplied[f]]
        /\ pos' = [pos EXCEPT ![f] = n]
        /\ reach' = [reach EXCEPT ![f] = IF n > reach[f] THEN n ELSE reach[f]]
        /\ queue' = [queue EXCEPT ![f] = Tail(queue[f])]
        /\ UNCHANGED <<master, link, next, lastLSN, dropped, faults>>
    BY <1>9 DEF ApplyEntry
  <2> HIDE DEF n
  <2>4. ApplyMutation(fdocs[f], wal[n]) \in Docs
    BY <2>2, MutationType DEF TypeInv, TypeOK
  <2>5. TypeOK'
    BY <2>2, <2>3, <2>4 DEF TypeInv, TypeOK, master
  <2>6. ASSUME NEW g \in Follower PROVE LSNsInLog(g)'
    <3>1. LSNsInLog(g) /\ wal' = wal /\ lastLSN' = lastLSN /\ dropped' = dropped
      BY <2>3 DEF TypeInv, master
    <3>2. pos'[g] <= reach'[g] /\ reach'[g] <= Len(wal)
      BY <1>0, <2>2, <2>3, <3>1 DEF LSNsInLog, TypeInv, TypeOK
    <3>3. \A i \in 1..Len(queue'[g]) : queue'[g][i] <= Len(wal)
      <4>1. CASE g = f
        <5>1. queue'[g] = Tail(queue[f])
          BY <2>3, <4>1 DEF TypeInv, TypeOK
        <5>2. Len(queue[f]) \in Nat
          BY DEF TypeInv, TypeOK
        <5> QED
          BY <2>1, <3>1, <4>1, <5>1, <5>2, QueueHead, SMTT(60) DEF LSNsInLog
      <4>2. CASE g # f
        BY <2>3, <3>1, <4>2 DEF LSNsInLog, TypeInv, TypeOK
      <4> QED
        BY <4>1, <4>2
    <3> QED
      BY <3>1, <3>2, <3>3 DEF LSNsInLog
  <2> QED
    BY <2>3, <2>5, <2>6 DEF TypeInv, RequestsFit, Active, master
<1>10. ASSUME NEW f \in Follower, Disconnect(f) \/ RedialFails(f) PROVE TypeInv'
  <2>1. /\ UNCHANGED <<master, fdocs, next, lastLSN, queue, lastApplied, pos, reach, dropped>>
        /\ \E l \in {"lost", "stranded"} : link' = [link EXCEPT ![f] = l]
        /\ faults' = faults \/ (faults < MaxFault /\ faults' = faults + 1)
    BY <1>10 DEF Disconnect, RedialFails
  <2>2. link' \in [Follower -> {"stopped", "up", "lost", "stranded"}] /\ faults' \in 0..MaxFault
    BY <2>1 DEF TypeInv, TypeOK
  <2>3. TypeOK'
    BY <2>1, <2>2 DEF TypeInv, TypeOK, master
  <2> QED
    BY <2>1, <2>3 DEF TypeInv, RequestsFit, Active, LSNsInLog, master
<1>11. ASSUME NEW f \in Follower, StopFollower(f) PROVE TypeInv'
  <2>1. TypeOK'
    BY <1>11 DEF StopFollower, TypeInv, TypeOK, master
  <2>2. ASSUME NEW g \in Follower PROVE LSNsInLog(g)'
    BY <1>0, <1>11, SMTT(60) DEF StopFollower, TypeInv, TypeOK, LSNsInLog, master
  <2> QED
    BY <1>11, <2>1, <2>2 DEF StopFollower, TypeInv, RequestsFit, Active, master
<1>12. CASE UNCHANGED vars
  BY <1>12 DEF vars, TypeInv, TypeOK, RequestsFit, Active, LSNsInLog, follower
<1> QED
  BY <1>1, <1>2, <1>3, <1>4, <1>5, <1>6, <1>7, <1>8, <1>9, <1>10, <1>11, <1>12 DEF Next

(* Every variable keeps its type, within the bounds. *)
THEOREM TypeCorrect == Spec => []TypeOK
<1>1. TypeInv => TypeOK
  BY DEF TypeInv
<1> QED
  BY TypeInit, TypeNext, <1>1, PTL DEF Spec
-----------------------------------------------------------------------------
(* The master's history: only AppendToLog extends it.                        *)
HistoryInv == SnapFollowsLog /\ KeyIsStable /\ KeyStartsAbsent

LEMMA HistoryInit == Init => HistoryInv
<1> SUFFICES ASSUME Init PROVE HistoryInv
  OBVIOUS
<1>1. wal = << >> /\ Len(wal) = 0 /\ snap[1] = [k \in Key |-> Absent]
  BY DEF Init
<1> QED
  BY <1>1 DEF HistoryInv, SnapFollowsLog, KeyIsStable, KeyStartsAbsent

(* Every other step keeps the log and its history. *)
LEMMA LogKept ==
    ASSUME [Next]_vars, \A w \in Writer : ~AppendToLog(w)
    PROVE  wal' = wal /\ snap' = snap
BY DEF Next, ApplyLocally, NumberWrite, AppendFails, CrashMaster, StartMaster, StartFollower,
       Receive, ApplyEntry, Disconnect, Redial, RedialFails, StopFollower, vars, master

(* What AppendToLog makes of the log and its history. *)
LEMMA LogExtended ==
    ASSUME TypeInv, NEW w \in Writer, AppendToLog(w)
    PROVE  /\ request[w].entry \in Entry /\ w \in Active
           /\ Len(wal) \in Nat /\ Len(wal') = Len(wal) + 1
           /\ Len(snap) = Len(wal) + 1 /\ Len(snap') = Len(wal) + 2
           /\ \A n \in 1..Len(wal) : wal'[n] = wal[n] /\ wal[n] \in Entry
           /\ wal'[Len(wal) + 1] = request[w].entry
           /\ \A n \in 1..(Len(wal) + 1) : snap'[n] = snap[n] /\ snap[n] \in Docs
           /\ snap'[Len(wal) + 2] = ApplyMutation(snap[Len(wal) + 1], request[w].entry)
<1> DEFINE e == request[w].entry
           S == ApplyMutation(snap[Len(wal) + 1], e)
<1>1. w \in Active /\ e \in Entry /\ wal' = Append(wal, e) /\ snap' = Append(snap, ApplyMutation(snap[Len(snap)], e))
  BY ActiveRequest DEF AppendToLog, Active, TypeInv
<1>2. wal \in Seq(Entry) /\ snap \in Seq(Docs) /\ Len(snap) = Len(wal) + 1 /\ Len(wal) \in Nat
  BY DEF TypeInv, TypeOK
<1>3. snap[Len(wal) + 1] \in Docs /\ S \in Docs
  BY <1>1, <1>2, MutationType
<1> HIDE DEF e, S
<1>4. snap' = Append(snap, S)
  BY <1>1, <1>2 DEF S
<1>5. /\ Len(wal') = Len(wal) + 1 /\ \A n \in 1..Len(wal) : wal'[n] = wal[n]
      /\ wal'[Len(wal) + 1] = e
  BY <1>1, <1>2, AppendElements
<1>6. /\ Len(snap') = Len(snap) + 1 /\ \A n \in 1..Len(snap) : snap'[n] = snap[n]
      /\ snap'[Len(snap) + 1] = S
  BY <1>2, <1>3, <1>4, AppendElements
<1>7. (\A n \in 1..Len(wal) : wal[n] \in Entry) /\ (\A n \in 1..(Len(wal) + 1) : snap[n] \in Docs)
  BY <1>2
<1>8. /\ Len(snap') = Len(wal) + 2 /\ \A n \in 1..(Len(wal) + 1) : snap'[n] = snap[n]
      /\ snap'[Len(wal) + 2] = S
  BY <1>2, <1>6
<1> QED
  BY <1>1, <1>2, <1>5, <1>7, <1>8 DEF e, S

(* The effect of an entry on its key, and of the log's earlier part, are     *)
(* settled once logged.                                                      *)
LEMMA TouchedKept ==
    ASSUME TypeInv, [Next]_vars, NEW k \in Key, NEW m \in 0..Len(wal)
    PROVE  /\ Touched(k, m)' <=> Touched(k, m)
           /\ snap'[m + 1] = snap[m + 1]
           /\ \A n \in 1..Len(wal) : wal'[n] = wal[n]
           /\ Len(wal) <= Len(wal')
<1>1. CASE \E w \in Writer : AppendToLog(w)
  <2>1. PICK w \in Writer : AppendToLog(w)
    BY <1>1
  <2>2. /\ \A n \in 1..Len(wal) : wal'[n] = wal[n] /\ snap'[n] = snap[n]
        /\ snap'[m + 1] = snap[m + 1] /\ Len(wal') = Len(wal) + 1 /\ Len(wal) \in Nat
    BY <2>1, LogExtended
  <2>3. ASSUME NEW n \in 1..m PROVE (wal'[n].key = k /\ Effective(n)') <=> (wal[n].key = k /\ Effective(n))
    BY <2>2 DEF Effective, Accepts
  <2>4. Touched(k, m)' <=> Touched(k, m)
    BY <2>3 DEF Touched
  <2> QED
    BY <2>2, <2>4
<1>2. CASE \A w \in Writer : ~AppendToLog(w)
  <2>1. wal' = wal /\ snap' = snap /\ Len(wal) \in Nat
    BY <1>2, LogKept DEF TypeInv, TypeOK
  <2> QED
    BY <2>1 DEF Touched, Effective, Accepts
<1> QED
  BY <1>1, <1>2

LEMMA HistoryNext == TypeInv /\ HistoryInv /\ [Next]_vars => HistoryInv'
<1> SUFFICES ASSUME TypeInv, HistoryInv, [Next]_vars PROVE HistoryInv'
  OBVIOUS
<1>1. ASSUME NEW w \in Writer, AppendToLog(w) PROVE HistoryInv'
  <2> DEFINE e == request[w].entry
             L == Len(wal)
  <2>1. /\ e \in Entry /\ L \in Nat /\ Len(wal') = L + 1
        /\ \A n \in 1..L : wal'[n] = wal[n] /\ wal[n] \in Entry
        /\ wal'[L + 1] = e
        /\ \A n \in 1..(L + 1) : snap'[n] = snap[n] /\ snap[n] \in Docs
        /\ snap'[L + 2] = ApplyMutation(snap[L + 1], e)
    BY <1>1, LogExtended
  <2> HIDE DEF e, L
  <2>2. \A k \in Key : snap'[L + 2][k] = IF k = e.key /\ Accepts(snap[L + 1][k], e)
                                         THEN e.val ELSE snap[L + 1][k]
    BY <2>1, MutationEffect
  <2>3. SnapFollowsLog'
    <3>1. snap'[1] = [k \in Key |-> Absent]
      BY <2>1 DEF HistoryInv, SnapFollowsLog
    <3>2. ASSUME NEW n \in 1..(L + 1) PROVE snap'[n + 1] = ApplyMutation(snap'[n], wal'[n])
      <4>1. CASE n = L + 1
        BY <2>1, <4>1
      <4>2. CASE n \in 1..L
        <5>1. snap[n + 1] = ApplyMutation(snap[n], wal[n])
          BY <4>2 DEF HistoryInv, SnapFollowsLog, L
        <5>2. snap'[n + 1] = snap[n + 1] /\ snap'[n] = snap[n] /\ wal'[n] = wal[n]
          BY <2>1, <4>2
        <5> QED
          BY <5>1, <5>2
      <4> QED
        BY <2>1, <4>1, <4>2
    <3> QED
      BY <2>1, <3>1, <3>2 DEF SnapFollowsLog
  <2>4. KeyIsStable'
    <3> SUFFICES ASSUME NEW k \in Key, NEW i \in 0..(L + 1), NEW j \in 0..(L + 1), i <= j,
                        \A m \in (i + 1)..j : wal'[m].key # k
                 PROVE  snap'[j + 1][k] = snap'[i + 1][k]
      BY <2>1 DEF KeyIsStable
    <3>1. ASSUME NEW l \in 0..L, i <= l, l <= j PROVE snap'[l + 1][k] = snap'[i + 1][k]
      <4>1. \A m \in (i + 1)..l : wal[m].key # k
        BY <2>1, <3>1
      <4>2. snap[l + 1][k] = snap[i + 1][k]
        BY <2>1, <3>1, <4>1 DEF HistoryInv, KeyIsStable, L
      <4> QED
        BY <2>1, <3>1, <4>2
    <3>2. CASE j <= L
      BY <2>1, <3>1, <3>2
    <3>3. CASE j = L + 1 /\ i = L + 1
      BY <3>3
    <3>4. CASE j = L + 1 /\ i <= L
      <4>1. snap'[L + 1][k] = snap'[i + 1][k]
        BY <2>1, <3>1, <3>4
      <4>2. e.key # k
        BY <2>1, <3>4
      <4>3. snap'[L + 2][k] = snap[L + 1][k] /\ snap'[L + 1] = snap[L + 1]
        BY <2>1, <2>2, <4>2
      <4>4. j + 1 = L + 2
        BY <2>1, <3>4
      <4> QED
        BY <4>1, <4>3, <4>4
    <3> QED
      BY <2>1, <3>2, <3>3, <3>4
  <2>5. KeyStartsAbsent'
    <3> SUFFICES ASSUME NEW k \in Key, NEW j \in 0..(L + 1), ~Touched(k, j)'
                 PROVE  snap'[j + 1][k] = Absent
      BY <2>1 DEF KeyStartsAbsent
    <3>1. CASE j <= L
      BY <2>1, <3>1, TouchedKept DEF HistoryInv, KeyStartsAbsent, L
    <3>2. CASE j = L + 1
      <4>1. \A n \in 1..(L + 1) : ~(wal'[n].key = k /\ Accepts(snap'[n][wal'[n].key], wal'[n]))
        BY <3>2 DEF Touched, Effective
      <4>2. snap[L + 1][k] = Absent
        <5>1. ASSUME NEW m \in 0..Len(wal), m = L PROVE ~Touched(k, m)
          <6>1. ~Touched(k, m)'
            BY <2>1, <4>1, <5>1 DEF Touched, Effective
          <6> QED
            BY <5>1, <6>1, TouchedKept
        <5>2. L \in 0..Len(wal) /\ L + 1 = Len(wal) + 1
          BY <2>1 DEF L
        <5> QED
          BY <5>1, <5>2 DEF HistoryInv, KeyStartsAbsent
      <4>3. ~(k = e.key /\ Accepts(snap[L + 1][k], e))
        <5>1. ~(wal'[L + 1].key = k /\ Accepts(snap'[L + 1][wal'[L + 1].key], wal'[L + 1]))
          BY <2>1, <4>1
        <5> QED
          BY <2>1, <5>1
      <4>4. snap'[L + 2][k] = Absent
        BY <2>2, <4>2, <4>3
      <4> QED
        BY <2>1, <3>2, <4>4
    <3> QED
      BY <2>1, <3>1, <3>2
  <2> QED
    BY <2>3, <2>4, <2>5 DEF HistoryInv
<1>2. CASE \A w \in Writer : ~AppendToLog(w)
  <2>1. wal' = wal /\ snap' = snap
    BY <1>2, LogKept
  <2>2. SnapFollowsLog' /\ KeyIsStable'
    BY <2>1 DEF HistoryInv, SnapFollowsLog, KeyIsStable
  <2>3. \A k \in Key : \A j \in 0..Len(wal) : Touched(k, j)' <=> Touched(k, j)
    BY TouchedKept
  <2>4. KeyStartsAbsent'
    BY <2>1, <2>3 DEF HistoryInv, KeyStartsAbsent
  <2> QED
    BY <2>2, <2>4 DEF HistoryInv
<1> QED
  BY <1>1, <1>2
-----------------------------------------------------------------------------
(* The master's counter: each write adds one to it before its append adds    *)
(* one to the WAL, and the writes between the two are the numbered ones.     *)
LEMMA CounterInit == Init => CounterAgreesWithLog
<1> SUFFICES ASSUME Init PROVE CounterAgreesWithLog
  OBVIOUS
<1>1. Numbered = {}
  BY DEF Init, Numbered, Idle
<1>2. Cardinality(Numbered) = 0
  BY <1>1, FS_EmptySet
<1> QED
  BY <1>2 DEF Init, CounterAgreesWithLog

LEMMA CounterNext == TypeInv /\ CounterAgreesWithLog /\ [Next]_vars => CounterAgreesWithLog'
<1> SUFFICES ASSUME TypeInv, CounterAgreesWithLog, [Next]_vars PROVE CounterAgreesWithLog'
  OBVIOUS
<1>0. /\ TypeOK /\ request \in [Writer -> Requests] /\ Len(wal) \in Nat /\ lsnCounter \in Nat
      /\ failed \in Nat /\ Cardinality(Numbered) \in Nat
  BY ActiveFinite DEF TypeInv, TypeOK
<1>1. ASSUME NEW w \in Writer, ApplyLocally(w) PROVE CounterAgreesWithLog'
  <2>1. UNCHANGED <<wal, lsnCounter, masterUp, failed>> /\ w \notin Numbered
    BY <1>1 DEF ApplyLocally, Numbered
  <2>2. PICK e \in Entry : request' = [request EXCEPT ![w] = [at |-> "applied", entry |-> e]]
    BY <1>1 DEF ApplyLocally
  <2>3. Numbered' = Numbered
    BY <1>0, <2>1, <2>2 DEF Numbered
  <2> QED
    BY <2>1, <2>3 DEF CounterAgreesWithLog
<1>2. ASSUME NEW w \in Writer, NumberWrite(w) PROVE CounterAgreesWithLog'
  <2>1. /\ UNCHANGED <<wal, masterUp, failed>> /\ lsnCounter' = lsnCounter + 1 /\ w \notin Numbered
        /\ request' = [request EXCEPT ![w] = [request[w] EXCEPT !.at = "numbered"]]
        /\ request[w].at = "applied"
    BY <1>2 DEF NumberWrite, Numbered
  <2>2. request[w] \in [at : {"applied", "numbered"}, entry : Entry]
    BY <1>0, <2>1 DEF Requests, Idle
  <2>3. request'[w].at = "numbered" /\ \A v \in Writer \ {w} : request'[v] = request[v]
    BY <1>0, <2>1, <2>2
  <2>4. Numbered' = Numbered \cup {w}
    BY <2>3 DEF Numbered
  <2>5. Cardinality(Numbered') = Cardinality(Numbered) + 1
    BY <1>0, <2>1, <2>4, RequestCounts
  <2> QED
    BY <1>0, <2>1, <2>5 DEF CounterAgreesWithLog
<1>3. ASSUME NEW w \in Writer, AppendToLog(w) \/ AppendFails(w) PROVE CounterAgreesWithLog'
  <2>1. /\ UNCHANGED <<lsnCounter, masterUp>> /\ w \in Numbered
        /\ request' = [request EXCEPT ![w] = Idle]
    BY <1>3 DEF AppendToLog, AppendFails, Numbered
  <2>2. Numbered' = Numbered \ {w}
    BY <1>0, <2>1 DEF Numbered, Idle
  <2>3. Cardinality(Numbered') = Cardinality(Numbered) - 1
    BY <1>0, <2>1, <2>2, RequestCounts
  <2>4. Len(wal') + failed' = Len(wal) + failed + 1
    <3>1. CASE AppendToLog(w)
      BY <1>0, <3>1, LogExtended DEF AppendToLog
    <3>2. CASE AppendFails(w)
      BY <1>0, <3>2 DEF AppendFails
    <3> QED
      BY <1>3, <3>1, <3>2
  <2>5. Len(wal') \in Nat /\ failed' \in Nat
    BY TypeNext DEF TypeInv, TypeOK
  <2> QED
    BY <1>0, <2>1, <2>3, <2>4, <2>5 DEF CounterAgreesWithLog
<1>4. CASE CrashMaster
  BY <1>4 DEF CrashMaster, CounterAgreesWithLog
<1>5. CASE StartMaster
  <2>1. /\ masterUp = FALSE /\ lsnCounter' = Len(wal) /\ failed' = 0
        /\ wal' = wal /\ request' = request
    BY <1>0, <1>5 DEF StartMaster, TypeOK
  <2>2. Numbered' = {} /\ Cardinality({}) = 0
    BY <2>1, FS_EmptySet DEF TypeInv, RequestsFit, Active, Numbered
  <2> QED
    BY <1>0, <2>1, <2>2 DEF CounterAgreesWithLog
<1>6. ASSUME UNCHANGED <<wal, lsnCounter, masterUp, failed, request>> PROVE CounterAgreesWithLog'
  BY <1>6 DEF CounterAgreesWithLog, Numbered
<1>7. ASSUME UNCHANGED master PROVE CounterAgreesWithLog'
  BY <1>6, <1>7 DEF master
<1>8. ASSUME NEW f \in Follower,
             \/ StartFollower(f) \/ Receive(f) \/ ApplyEntry(f) \/ Disconnect(f)
             \/ Redial(f) \/ RedialFails(f) \/ StopFollower(f)
      PROVE  UNCHANGED master
  BY <1>8 DEF StartFollower, Receive, ApplyEntry, Disconnect, Redial, RedialFails, StopFollower
<1>9. CASE UNCHANGED vars
  BY <1>6, <1>9 DEF vars
<1> QED
  BY <1>1, <1>2, <1>3, <1>4, <1>5, <1>7, <1>8, <1>9 DEF Next

(* The number that a write is given (current_lsn of /health) and the LSN     *)
(* that its append assigns are advanced apart and stay reconciled.           *)
THEOREM CounterAgrees == Spec => []CounterAgreesWithLog
BY TypeInit, TypeNext, CounterInit, CounterNext, PTL DEF Spec
-----------------------------------------------------------------------------
(* The master's engine, one key at a time: it is what the log says, or, with *)
(* one write in flight, what that write makes of it.                         *)
EngineFollows(k) ==
    k \notin torn =>
        /\ \A w, v \in InFlight(k) : w = v
        /\ \A w \in InFlight(k) : /\ docs[k] = request[w].entry.val
                                  /\ Accepts(snap[Len(snap)][k], request[w].entry)
        /\ InFlight(k) = {} => docs[k] = snap[Len(snap)][k]
EngineInv == EngineIsAheadByRequest /\ MasterMatchesLog

LEMMA EngineByKey == EngineInv <=> \A k \in Key : EngineFollows(k)
BY DEF EngineInv, EngineIsAheadByRequest, MasterMatchesLog, EngineFollows

LEMMA EngineInit == Init => EngineInv
<1> SUFFICES ASSUME Init PROVE EngineInv
  OBVIOUS
<1>1. \A k \in Key : InFlight(k) = {}
  BY DEF Init, InFlight, Active, Idle
<1> QED
  BY <1>1 DEF Init, EngineInv, EngineIsAheadByRequest, MasterMatchesLog

(* Nothing that a key's engine state depends on has changed. *)
LEMMA EngineKept ==
    ASSUME NEW k \in Key, EngineFollows(k),
           torn \subseteq torn' /\ docs'[k] = docs[k] /\ InFlight(k)' = InFlight(k),
           \A w \in InFlight(k) : request'[w].entry = request[w].entry,
           snap'[Len(snap')][k] = snap[Len(snap)][k]
    PROVE  EngineFollows(k)'
BY DEF EngineFollows, Accepts

LEMMA EngineNext == TypeInv /\ EngineInv /\ [Next]_vars => EngineInv'
<1> SUFFICES ASSUME TypeInv, EngineInv, [Next]_vars, NEW k \in Key
             PROVE  EngineFollows(k)'
  BY DEF EngineInv, EngineIsAheadByRequest, MasterMatchesLog, EngineFollows
<1>0. /\ TypeOK /\ request \in [Writer -> Requests] /\ docs \in [Key -> Doc] /\ EngineFollows(k)
      /\ Len(wal) \in Nat
  BY EngineByKey DEF TypeInv, TypeOK, Docs
<1>1. ASSUME NEW w \in Writer, ApplyLocally(w) PROVE EngineFollows(k)'
  <2>1. PICK e \in Entry :
            /\ Accepts(docs[e.key], e)
            /\ docs' = ApplyMutation(docs, e)
            /\ request' = [request EXCEPT ![w] = [at |-> "applied", entry |-> e]]
            /\ torn' = IF InFlight(e.key) = {} THEN torn ELSE torn \cup {e.key}
    BY <1>1 DEF ApplyLocally
  <2>2. w \notin Active /\ snap' = snap /\ e.key \in Key
    BY <1>1, EntryFields DEF ApplyLocally, Active
  <2>3. request'[w] = [at |-> "applied", entry |-> e] /\ \A v \in Writer \ {w} : request'[v] = request[v]
    BY <1>0, <2>1
  <2>4. CASE k = e.key
    <3>1. docs'[k] = e.val
      BY <1>0, <2>1, <2>4, MutationEffect DEF TypeOK
    <3>2. SUFFICES ASSUME k \notin torn' PROVE EngineFollows(k)'
      BY DEF EngineFollows
    <3>3. k \notin torn /\ InFlight(k) = {} /\ docs[k] = snap[Len(snap)][k]
      BY <1>0, <2>1, <2>4, <3>2 DEF EngineFollows
    <3>4. InFlight(k)' = {w}
      BY <2>2, <2>3, <2>4, <3>3 DEF InFlight, Active
    <3> QED
      BY <2>1, <2>2, <2>3, <2>4, <3>1, <3>3, <3>4 DEF EngineFollows
  <2>5. CASE k # e.key
    <3>1. docs'[k] = docs[k]
      BY <1>0, <2>1, <2>5, MutationEffect DEF TypeOK
    <3>2. InFlight(k)' = InFlight(k) /\ w \notin InFlight(k)
      BY <2>2, <2>3, <2>5 DEF InFlight, Active
    <3> QED
      BY <1>0, <2>1, <2>2, <2>3, <3>1, <3>2, EngineKept DEF InFlight, Active
  <2> QED
    BY <2>4, <2>5
<1>2. ASSUME NEW w \in Writer, NumberWrite(w) PROVE EngineFollows(k)'
  <2>1. /\ UNCHANGED <<docs, snap, torn>> /\ w \in Active /\ request[w].at = "applied"
        /\ request' = [request EXCEPT ![w] = [request[w] EXCEPT !.at = "numbered"]]
    BY <1>2 DEF NumberWrite, Active
  <2>2. request[w] \in [at : {"applied", "numbered"}, entry : Entry]
    BY <1>0, <2>1 DEF Requests, Idle
  <2>3. /\ request'[w].at = "numbered" /\ request'[w].entry = request[w].entry
        /\ \A v \in Writer \ {w} : request'[v] = request[v]
    BY <1>0, <2>1, <2>2
  <2>4. InFlight(k)' = InFlight(k)
    BY <2>1, <2>3 DEF InFlight, Active
  <2> QED
    BY <1>0, <2>1, <2>3, <2>4, EngineKept DEF InFlight, Active
<1>3. ASSUME NEW w \in Writer, AppendToLog(w) PROVE EngineFollows(k)'
  <2> DEFINE e == request[w].entry
  <2>1. /\ e \in Entry /\ w \in Active /\ Len(snap) = Len(wal) + 1 /\ Len(snap') = Len(wal) + 2
        /\ snap[Len(snap)] \in Docs /\ snap'[Len(snap')] = ApplyMutation(snap[Len(snap)], e)
    BY <1>0, <1>3, LogExtended
  <2>2. UNCHANGED <<docs, torn>> /\ request' = [request EXCEPT ![w] = Idle]
    BY <1>3 DEF AppendToLog
  <2>3. snap'[Len(snap')][k] = IF k = e.key /\ Accepts(snap[Len(snap)][k], e)
                               THEN e.val ELSE snap[Len(snap)][k]
    BY <2>1, MutationEffect
  <2>4. request'[w].at = "idle" /\ \A v \in Writer \ {w} : request'[v] = request[v]
    BY <1>0, <2>2 DEF Idle
  <2>5. InFlight(k)' = InFlight(k) \ {w} /\ (w \in InFlight(k) <=> k = e.key)
    BY <2>1, <2>4 DEF InFlight, Active
  <2>6. CASE k = e.key
    BY <1>0, <2>2, <2>3, <2>5, <2>6 DEF EngineFollows
  <2>7. CASE k # e.key
    BY <1>0, <2>2, <2>3, <2>4, <2>5, <2>7, EngineKept DEF InFlight, Active
  <2> QED
    BY <2>6, <2>7
<1>4. ASSUME NEW w \in Writer, AppendFails(w) PROVE EngineFollows(k)'
  <2>1. /\ UNCHANGED <<docs, snap>> /\ request' = [request EXCEPT ![w] = Idle]
        /\ torn' = torn \cup {request[w].entry.key} /\ w \in Active
    BY <1>4 DEF AppendFails, Active
  <2>2. request'[w].at = "idle" /\ \A v \in Writer \ {w} : request'[v] = request[v]
    BY <1>0, <2>1 DEF Idle
  <2>3. InFlight(k)' = InFlight(k) \ {w} /\ (w \in InFlight(k) <=> k = request[w].entry.key)
    BY <2>1, <2>2 DEF InFlight, Active
  <2>4. CASE k = request[w].entry.key
    BY <2>1, <2>4 DEF EngineFollows
  <2>5. CASE k # request[w].entry.key
    BY <1>0, <2>1, <2>2, <2>3, <2>5, EngineKept DEF InFlight, Active
  <2> QED
    BY <2>4, <2>5
<1>5. CASE CrashMaster
  <2>1. /\ docs' = docs /\ snap' = snap /\ torn' = torn \cup {j \in Key : InFlight(j) # {}}
        /\ request' = [w \in Writer |-> Idle]
    BY <1>5 DEF CrashMaster
  <2>2. InFlight(k)' = {}
    BY <2>1 DEF InFlight, Active, Idle
  <2> QED
    BY <1>0, <2>1, <2>2 DEF EngineFollows
<1>6. ASSUME UNCHANGED <<docs, snap, torn, request>> PROVE EngineFollows(k)'
  BY <1>0, <1>6 DEF EngineFollows, InFlight, Active
<1>7. CASE StartMaster \/ UNCHANGED vars
  BY <1>6, <1>7 DEF StartMaster, vars
<1>8. ASSUME NEW f \in Follower,
             \/ StartFollower(f) \/ Receive(f) \/ ApplyEntry(f) \/ Disconnect(f)
             \/ Redial(f) \/ RedialFails(f) \/ StopFollower(f)
      PROVE  EngineFollows(k)'
  BY <1>6, <1>8 DEF StartFollower, Receive, ApplyEntry, Disconnect, Redial, RedialFails,
                    StopFollower, master
<1> QED
  BY <1>1, <1>2, <1>3, <1>4, <1>5, <1>7, <1>8 DEF Next

(* What the master's engine holds is what its WAL produces, except for keys  *)
(* written at once or cut short.                                             *)
THEOREM MasterMatches == Spec => []MasterMatchesLog
<1>1. EngineInv => MasterMatchesLog
  BY DEF EngineInv
<1> QED
  BY TypeInit, TypeNext, EngineInit, EngineNext, <1>1, PTL DEF Spec
-----------------------------------------------------------------------------
(* A follower's steps.  What the others do to it: they may only cut its      *)
(* connection, and they may only extend the log.                             *)
Untouched(f) ==
    /\ pos'[f] = pos[f] /\ reach'[f] = reach[f] /\ lastLSN'[f] = lastLSN[f]
    /\ queue'[f] = queue[f] /\ dropped'[f] = dropped[f] /\ fdocs'[f] = fdocs[f]
    /\ link'[f] = "up" => link[f] = "up" /\ next'[f] = next[f]
    /\ link'[f] = "stopped" => link[f] = "stopped"
OwnStep(f) == \/ StartFollower(f) \/ Redial(f) \/ Receive(f)
              \/ ApplyEntry(f) \/ StopFollower(f)

LEMMA FollowerSteps ==
    ASSUME TypeInv, [Next]_vars, NEW f \in Follower
    PROVE  Untouched(f) \/ OwnStep(f)
<1>0. /\ link \in [Follower -> {"stopped", "up", "lost", "stranded"}]
      /\ pos \in [Follower -> 0..MaxLog] /\ reach \in [Follower -> 0..MaxLog]
      /\ lastLSN \in [Follower -> 0..MaxLog] /\ queue \in [Follower -> Seq(LSN)]
      /\ dropped \in [Follower -> SUBSET LSN] /\ fdocs \in [Follower -> Docs]
      /\ next \in [Follower -> 1..(MaxLog + 1)]
  BY DEF TypeInv, TypeOK
<1>1. CASE UNCHANGED follower
  BY <1>1 DEF follower, Untouched
<1>2. CASE CrashMaster
  BY <1>0, <1>2 DEF CrashMaster, Untouched
<1>3. ASSUME NEW g \in Follower, g # f,
             \/ StartFollower(g) \/ Receive(g) \/ ApplyEntry(g) \/ Disconnect(g)
             \/ Redial(g) \/ RedialFails(g) \/ StopFollower(g)
      PROVE  Untouched(f)
  BY <1>0, <1>3 DEF StartFollower, Receive, ApplyEntry, Disconnect, Redial, RedialFails,
                    StopFollower, Untouched
<1>4. CASE Disconnect(f) \/ RedialFails(f)
  BY <1>0, <1>4 DEF Disconnect, RedialFails, Untouched
<1>5. ASSUME NEW w \in Writer, ApplyLocally(w) \/ NumberWrite(w) \/ AppendToLog(w) \/ AppendFails(w)
      PROVE  UNCHANGED follower
  BY <1>5 DEF ApplyLocally, NumberWrite, AppendToLog, AppendFails
<1>6. CASE StartMaster \/ UNCHANGED vars
  BY <1>1, <1>6 DEF StartMaster, vars, follower
<1> QED
  BY <1>1, <1>2, <1>3, <1>4, <1>5, <1>6 DEF Next, OwnStep

LEMMA LogGrows ==
    ASSUME TypeInv, [Next]_vars
    PROVE  /\ Len(wal) \in Nat /\ Len(wal') \in Nat /\ Len(wal) <= Len(wal')
           /\ \A n \in 1..Len(wal) : wal'[n] = wal[n]
<1>1. Len(wal) \in Nat /\ Len(wal') \in Nat
  BY TypeNext DEF TypeInv, TypeOK
<1>2. CASE \E w \in Writer : AppendToLog(w)
  BY <1>1, <1>2, LogExtended
<1>3. CASE \A w \in Writer : ~AppendToLog(w)
  BY <1>1, <1>3, LogKept
<1> QED
  BY <1>1, <1>2, <1>3

-----------------------------------------------------------------------------
(* The pipeline: what the apply loop took, the queue, and the resume point.  *)
PipelineInv == \A f \in Follower : PipelineIsLinked(f)

LEMMA PipelineInit == Init => PipelineInv
BY DEF Init, PipelineInv, PipelineIsLinked, LastTaken

LEMMA FollowerTypes ==
    ASSUME TypeInv, NEW f \in Follower
    PROVE  /\ pos[f] \in Nat /\ reach[f] \in Nat /\ lastLSN[f] \in Nat /\ next[f] \in Nat
           /\ next[f] >= 1 /\ queue[f] \in Seq(Nat) /\ Len(queue[f]) \in Nat
           /\ dropped[f] \subseteq Nat /\ Len(wal) \in Nat /\ LSNsInLog(f)
           /\ \A i \in 1..Len(queue[f]) : queue[f][i] \in Nat
BY BoundAssumption, SMTT(60) DEF TypeInv, TypeOK, LSN
LEMMA PipelineNext == TypeInv /\ PipelineInv /\ [Next]_vars => PipelineInv'
<1> SUFFICES ASSUME TypeInv, PipelineInv, [Next]_vars, NEW f \in Follower
             PROVE  PipelineIsLinked(f)'
  BY DEF PipelineInv
<1>0. TypeInv' /\ TypeOK /\ PipelineIsLinked(f)
  BY TypeNext DEF PipelineInv, TypeInv
<1>1. CASE Untouched(f)
  <2>1. LastTaken(f)' = LastTaken(f)
    BY <1>1 DEF Untouched, LastTaken
  <2>2. /\ pos[f] \in Nat /\ reach[f] \in Nat /\ lastLSN[f] \in Nat /\ next[f] \in Nat
        /\ dropped[f] \subseteq Nat /\ \A i \in 1..Len(queue[f]) : queue[f][i] \in Nat
        /\ Len(wal) \in Nat /\ Len(wal') \in Nat /\ Len(wal) <= Len(wal')
    BY LogGrows, FollowerTypes
  <2>3. /\ pos[f] <= reach[f] /\ reach[f] <= Len(wal') /\ lastLSN[f] <= Len(wal')
        /\ \A i \in 1..Len(queue[f]) : queue[f][i] <= Len(wal')
        /\ \A n \in dropped[f] : n <= Len(wal')
    BY <1>0, <2>2 DEF PipelineIsLinked
  <2>4. /\ link'[f] = "up" => next'[f] \in {lastLSN[f], lastLSN[f] + 1} /\ next'[f] <= Len(wal') + 1
        /\ link'[f] = "stopped" => queue[f] = << >> /\ lastLSN[f] = 0
    BY <1>0, <1>1, <2>2 DEF PipelineIsLinked, Untouched
  <2> QED
    BY <1>0, <1>1, <2>1, <2>3, <2>4 DEF Untouched, PipelineIsLinked
<1>2. CASE StartFollower(f) \/ Redial(f)
  <2>1. /\ UNCHANGED <<wal, lastLSN, queue, pos, reach, dropped>>
        /\ link'[f] = "up"
        /\ next'[f] = ResumeAt(lastLSN[f])
    <3>1. CASE StartFollower(f)
      BY <1>0, <3>1 DEF StartFollower, master, TypeOK, PipelineIsLinked
    <3>2. CASE Redial(f)
      BY <3>2 DEF Redial, master, TypeInv, TypeOK
    <3> QED
      BY <1>2, <3>1, <3>2
  <2>2. next'[f] \in {lastLSN[f], lastLSN[f] + 1} /\ next'[f] <= Len(wal) + 1
    BY <1>0, <2>1, FollowerTypes DEF ResumeAt, LSNsInLog
  <2>3. LastTaken(f)' = LastTaken(f)
    BY <2>1 DEF LastTaken
  <2> QED
    BY <1>0, <2>1, <2>2, <2>3 DEF PipelineIsLinked, Linked
<1>3. CASE Receive(f)
  <2> DEFINE n == next[f]
             q == queue[f]
  <2>1. /\ UNCHANGED <<wal, link, pos, reach>> /\ link[f] = "up" /\ n <= Len(wal)
        /\ next'[f] = n + 1
        /\ lastLSN'[f] = IF n > lastLSN[f] THEN n ELSE lastLSN[f]
        /\ \/ queue'[f] = Append(q, n) /\ dropped'[f] = dropped[f]
           \/ queue'[f] = q /\ dropped'[f] = dropped[f] \cup {n}
    BY <1>0, <1>3 DEF Receive, master, TypeOK
  <2>2. /\ pos[f] \in Nat /\ reach[f] \in Nat /\ lastLSN[f] \in Nat /\ n \in Nat /\ n >= 1
        /\ q \in Seq(Nat) /\ Len(q) \in Nat /\ dropped[f] \subseteq Nat /\ Len(wal) \in Nat
    BY FollowerTypes
  <2>3. LastTaken(f) \in Nat /\ n \in {lastLSN[f], lastLSN[f] + 1}
    BY <1>0, <2>1, <2>2 DEF LastTaken, PipelineIsLinked
  <2>4. lastLSN'[f] = n /\ n \in {lastLSN[f], lastLSN[f] + 1}
    BY <2>1, <2>2, <2>3
  <2> HIDE DEF n
  <2>5. LastTaken(f) <= n /\ \A m \in (LastTaken(f) + 1)..(n - 1) : m \in dropped[f]
    <3>1. LastTaken(f) <= lastLSN[f] /\ ((LastTaken(f) + 1)..lastLSN[f]) \subseteq dropped[f]
      BY <1>0 DEF PipelineIsLinked
    <3>2. ASSUME NEW m \in (LastTaken(f) + 1)..(n - 1) PROVE m \in (LastTaken(f) + 1)..lastLSN[f]
      BY <2>2, <2>3, <2>4, <3>2
    <3>3. LastTaken(f) <= n
      BY <2>2, <2>3, <2>4, <3>1
    <3> QED
      BY <3>1, <3>2, <3>3
  <2>6. CASE queue'[f] = Append(q, n) /\ dropped'[f] = dropped[f]
    <3>1. /\ Append(q, n) # << >> /\ Len(Append(q, n)) = Len(q) + 1
          /\ \A i \in 1..Len(q) : Append(q, n)[i] = q[i]
          /\ Append(q, n)[Len(q) + 1] = n
      BY <2>2, AppendElements
    <3>2. LastTaken(f)' = n
      BY <2>6, <3>1 DEF LastTaken
    <3>3. ASSUME NEW i \in 1..Len(queue'[f]) PROVE queue'[f][i] <= Len(wal)
      <4>1. i = Len(q) + 1 \/ i \in 1..Len(q)
        BY <2>2, <2>6, <3>1, <3>3
      <4>2. n <= Len(wal)
        BY <2>1 DEF n
      <4> QED
        BY <1>0, <2>6, <3>1, <4>1, <4>2 DEF PipelineIsLinked
    <3>4. Linked(dropped'[f], pos'[f], queue'[f][1])
      <4>1. CASE q = << >>
        BY <2>1, <2>2, <2>5, <2>6, <3>1, <4>1 DEF Linked, LastTaken
      <4>2. CASE q # << >>
        BY <1>0, <2>1, <2>2, <2>6, <3>1, <4>2 DEF Linked, PipelineIsLinked
      <4> QED
        BY <4>1, <4>2
    <3>5. ASSUME NEW i \in 1..(Len(queue'[f]) - 1) PROVE Linked(dropped'[f], queue'[f][i], queue'[f][i + 1])
      <4>1. CASE i = Len(q)
        BY <2>2, <2>5, <2>6, <3>1, <3>5, <4>1 DEF Linked, LastTaken
      <4>2. CASE i # Len(q)
        <5>1. i \in 1..(Len(q) - 1)
          BY <2>2, <2>6, <3>1, <3>5, <4>2
        <5>2. queue'[f][i] = q[i] /\ queue'[f][i + 1] = q[i + 1]
          BY <2>2, <2>6, <3>1, <5>1
        <5>3. Linked(dropped[f], q[i], q[i + 1])
          BY <1>0, <5>1 DEF PipelineIsLinked
        <5> QED
          BY <2>6, <5>2, <5>3 DEF Linked
      <4> QED
        BY <4>1, <4>2
    <3>6. /\ pos'[f] <= reach'[f] /\ reach'[f] <= Len(wal)' /\ lastLSN'[f] <= Len(wal)'
          /\ \A m \in dropped'[f] : m <= Len(wal)'
      BY <1>0, <2>1, <2>4, <2>6 DEF PipelineIsLinked, n
    <3>7. LastTaken(f)' <= lastLSN'[f] /\ ((LastTaken(f)' + 1)..lastLSN'[f]) \subseteq dropped'[f]
      BY <2>2, <2>4, <3>2
    <3>8. /\ link'[f] = "up" => next'[f] \in {lastLSN'[f], lastLSN'[f] + 1} /\ next'[f] <= Len(wal)' + 1
          /\ link'[f] # "stopped"
      BY <2>1, <2>2, <2>4 DEF n
    <3> QED
      BY <2>1, <3>3, <3>4, <3>5, <3>6, <3>7, <3>8 DEF PipelineIsLinked
  <2>7. CASE queue'[f] = q /\ dropped'[f] = dropped[f] \cup {n}
    <3>1. LastTaken(f)' = LastTaken(f)
      BY <2>1, <2>7 DEF LastTaken
    <3>2. ((LastTaken(f) + 1)..n) \subseteq dropped'[f]
      BY <2>2, <2>3, <2>5, <2>7
    <3>3. /\ \A i \in 1..Len(q) : q[i] <= Len(wal)
          /\ q # << >> => Linked(dropped[f], pos[f], q[1])
          /\ \A i \in 1..(Len(q) - 1) : Linked(dropped[f], q[i], q[i + 1])
          /\ \A m \in dropped[f] : m <= Len(wal)
          /\ pos[f] <= reach[f] /\ reach[f] <= Len(wal)
      BY <1>0 DEF PipelineIsLinked
    <3>4. ASSUME NEW a, NEW b, Linked(dropped[f], a, b) PROVE Linked(dropped'[f], a, b)
      BY <2>7, <3>4 DEF Linked
    <3>5. /\ q # << >> => Linked(dropped'[f], pos'[f], q[1])
          /\ \A i \in 1..(Len(q) - 1) : Linked(dropped'[f], q[i], q[i + 1])
      BY <2>1, <2>7, <3>3, <3>4 DEF Linked
    <3>6. /\ pos'[f] <= reach'[f] /\ reach'[f] <= Len(wal)' /\ lastLSN'[f] <= Len(wal)'
          /\ \A m \in dropped'[f] : m <= Len(wal)'
      BY <2>1, <2>4, <2>7, <3>3 DEF n
    <3>7. LastTaken(f)' <= lastLSN'[f] /\ ((LastTaken(f)' + 1)..lastLSN'[f]) \subseteq dropped'[f]
      BY <2>4, <2>5, <3>1, <3>2
    <3>8. /\ link'[f] = "up" => next'[f] \in {lastLSN'[f], lastLSN'[f] + 1} /\ next'[f] <= Len(wal)' + 1
          /\ link'[f] # "stopped"
      BY <2>1, <2>2, <2>4 DEF n
    <3> QED
      BY <2>1, <2>7, <3>3, <3>5, <3>6, <3>7, <3>8 DEF PipelineIsLinked
  <2> QED
    BY <2>1, <2>6, <2>7 DEF n
<1>4. CASE ApplyEntry(f)
  <2> DEFINE n == queue[f][1]
             q == queue[f]
  <2>1. /\ UNCHANGED <<wal, link, next, lastLSN, dropped>> /\ q # << >>
        /\ pos'[f] = n /\ queue'[f] = Tail(q)
        /\ reach'[f] = IF n > reach[f] THEN n ELSE reach[f]
    BY <1>0, <1>4, QueueHead DEF ApplyEntry, master, TypeOK
  <2>2. /\ q \in Seq(Nat) /\ Len(q) \in Nat /\ pos[f] \in Nat /\ reach[f] \in Nat /\ Len(wal) \in Nat
        /\ lastLSN[f] \in Nat
    BY FollowerTypes
  <2>3. /\ n \in 1..Len(wal) /\ n \in Nat /\ Len(q) >= 1 /\ Len(Tail(q)) = Len(q) - 1
        /\ \A i \in 1..(Len(q) - 1) : Tail(q)[i] = q[i + 1]
    BY <2>1, <2>2, QueueHead
  <2>4. LastTaken(f)' = LastTaken(f)
    <3>1. CASE Tail(q) = << >>
      BY <2>1, <2>2, <3>1, LastOfTail DEF LastTaken
    <3>2. CASE Tail(q) # << >>
      BY <2>1, <2>2, <3>2, LastOfTail DEF LastTaken
    <3> QED
      BY <3>1, <3>2
  <2>5. ASSUME NEW a, NEW b, Linked(dropped[f], a, b) PROVE Linked(dropped'[f], a, b)
    BY <2>1, <2>5 DEF Linked
  <2>6. queue'[f] # << >> => Linked(dropped[f], n, queue'[f][1])
    <3> SUFFICES ASSUME Tail(q) # << >> PROVE Linked(dropped[f], n, Tail(q)[1])
      BY <2>1
    <3>1. Len(q) > 1
      <4>1. Len(Tail(q)) # 0
        BY <2>1, <2>2, TailElements, EmptyByLength
      <4> QED
        BY <2>2, <2>3, <4>1
    <3>2. 1 \in 1..(Len(q) - 1) /\ Tail(q)[1] = q[2]
      BY <2>2, <2>3, <3>1
    <3> QED
      BY <1>0, <3>2 DEF PipelineIsLinked
  <2>7. ASSUME NEW i \in 1..(Len(queue'[f]) - 1) PROVE Linked(dropped[f], queue'[f][i], queue'[f][i + 1])
    <3>1. i + 1 \in 1..(Len(q) - 1) /\ queue'[f][i] = q[i + 1] /\ queue'[f][i + 1] = q[(i + 1) + 1]
      BY <2>1, <2>2, <2>3, <2>7
    <3> QED
      BY <1>0, <3>1 DEF PipelineIsLinked
  <2>8. \A i \in 1..Len(queue'[f]) : queue'[f][i] <= Len(wal)
    BY <1>0, <2>1, <2>2, <2>3 DEF PipelineIsLinked
  <2>9. pos'[f] <= reach'[f] /\ reach'[f] <= Len(wal)
    BY <1>0, <2>1, <2>2, <2>3 DEF PipelineIsLinked
  <2>10. link'[f] # "stopped"
    BY <1>4 DEF ApplyEntry, master
  <2> QED
    BY <1>0, <2>1, <2>4, <2>6, <2>7, <2>8, <2>9, <2>10 DEF PipelineIsLinked, Linked
<1>5. CASE StopFollower(f)
  <2>1. /\ UNCHANGED <<wal, reach>> /\ link'[f] = "stopped" /\ lastLSN'[f] = 0
        /\ queue'[f] = << >> /\ pos'[f] = 0 /\ dropped'[f] = {}
    BY <1>0, <1>5 DEF StopFollower, master, TypeOK
  <2> QED
    BY <1>0, <2>1, FollowerTypes DEF PipelineIsLinked, LastTaken
<1> QED
  BY <1>1, <1>2, <1>3, <1>4, <1>5, FollowerSteps DEF OwnStep

(* The apply loop takes the WAL in order: nothing is reordered, and only     *)
(* entries that a full queue dropped are skipped.                            *)
THEOREM OnlyDrops == Spec => []OnlyDropsSkip
<1>1. TypeInv /\ PipelineInv => OnlyDropsSkip
  <2> SUFFICES ASSUME TypeInv, NEW f \in Follower, PipelineIsLinked(f)
               PROVE  LET p == Pipeline(f) IN
                      /\ \A i \in 1..(Len(p) - 1) :
                            p[i] <= p[i + 1] /\ ((p[i] + 1)..(p[i + 1] - 1)) \subseteq dropped[f]
                      /\ p[Len(p)] <= lastLSN[f]
                      /\ ((p[Len(p)] + 1)..lastLSN[f]) \subseteq dropped[f]
    BY DEF OnlyDropsSkip, PipelineInv
  <2> DEFINE p == Pipeline(f)
             q == queue[f]
  <2>1. pos[f] \in Nat /\ q \in Seq(Nat) /\ Len(q) \in Nat
    BY FollowerTypes
  <2>2. Len(p) = Len(q) + 1 /\ p[1] = pos[f] /\ \A i \in 1..Len(q) : p[i + 1] = q[i]
    BY <2>1 DEF Pipeline
  <2>3. p[Len(p)] = LastTaken(f)
    <3>1. CASE q = << >>
      BY <2>1, <2>2, <3>1 DEF LastTaken
    <3>2. CASE q # << >>
      <4>1. Len(q) \in 1..Len(q)
        BY <2>1, <3>2
      <4> QED
        BY <2>2, <3>2, <4>1 DEF LastTaken
    <3> QED
      BY <3>1, <3>2
  <2> HIDE DEF p
  <2>4. ASSUME NEW i \in 1..(Len(p) - 1) PROVE Linked(dropped[f], p[i], p[i + 1])
    <3>1. i \in 1..Len(q) /\ p[i + 1] = q[i] /\ q # << >>
      BY <2>1, <2>2, <2>4
    <3>2. CASE i = 1
      BY <2>2, <3>1, <3>2 DEF PipelineIsLinked
    <3>3. CASE i # 1
      <4>1. i - 1 \in 1..(Len(q) - 1) /\ p[i] = q[i - 1]
        <5>1. i - 1 \in 1..Len(q) /\ (i - 1) + 1 = i
          BY <2>1, <3>1, <3>3
        <5>2. p[(i - 1) + 1] = q[i - 1]
          BY <2>2, <5>1
        <5> QED
          BY <2>1, <3>1, <3>3, <5>1, <5>2
      <4>2. Linked(dropped[f], q[i - 1], q[(i - 1) + 1])
        BY <4>1 DEF PipelineIsLinked
      <4>3. (i - 1) + 1 = i
        BY <3>1
      <4> QED
        BY <3>1, <4>1, <4>2, <4>3
    <3> QED
      BY <3>2, <3>3
  <2> QED
    BY <2>3, <2>4 DEF PipelineIsLinked, Linked, p
<1> QED
  BY TypeInit, TypeNext, PipelineInit, PipelineNext, <1>1, PTL DEF Spec
-----------------------------------------------------------------------------
(* A follower's engine.                                                      *)
AgreementInv == \A f \in Follower : EngineAgreesOnTouched(f)

LEMMA AgreementInit == Init => AgreementInv
BY DEF Init, AgreementInv, EngineAgreesOnTouched, Touched

(* Between two linked LSNs a key none of whose entries was dropped keeps its *)
(* state in the log, and is not touched.                                     *)
LEMMA GapKeepsKey ==
    ASSUME TypeInv, HistoryInv, NEW f \in Follower, NEW k \in Key,
           NEW a \in Nat, NEW b \in 1..Len(wal), a < b,
           Linked(dropped[f], a, b), ~DroppedKey(f, k)
    PROVE  snap[b][k] = snap[a + 1][k] /\ (Touched(k, b - 1) <=> Touched(k, a))
<1>0. Len(wal) \in Nat /\ a \in 0..Len(wal) /\ b - 1 \in 0..Len(wal) /\ a <= b - 1 /\ (b - 1) + 1 = b
  BY DEF TypeInv, TypeOK
<1>1. \A m \in (a + 1)..(b - 1) : wal[m].key # k
  BY DEF Linked, DroppedKey
<1>2. snap[(b - 1) + 1][k] = snap[a + 1][k]
  BY <1>0, <1>1 DEF HistoryInv, KeyIsStable
<1>3. Touched(k, b - 1) => Touched(k, a)
  <2> SUFFICES ASSUME NEW n \in 1..(b - 1), wal[n].key = k, Effective(n) PROVE n \in 1..a
    BY DEF Touched
  <2> QED
    BY <1>0, <1>1
<1>4. Touched(k, a) => Touched(k, b - 1)
  BY <1>0 DEF Touched
<1> QED
  BY <1>0, <1>2, <1>3, <1>4

LEMMA AgreementNext ==
    TypeInv /\ HistoryInv /\ PipelineInv /\ AgreementInv /\ [Next]_vars => AgreementInv'
<1> SUFFICES ASSUME TypeInv, HistoryInv, PipelineInv, AgreementInv, [Next]_vars,
                    NEW f \in Follower, NEW k \in Key
             PROVE  /\ ~DroppedKey(f, k)' /\ Touched(k, pos[f])' => fdocs'[f][k] = snap'[pos'[f] + 1][k]
                    /\ fdocs'[f][k] # Absent => Touched(k, reach[f])'
  BY DEF AgreementInv, EngineAgreesOnTouched
<1>0. /\ TypeOK /\ pos[f] \in Nat /\ reach[f] \in Nat /\ Len(wal) \in Nat
      /\ pos[f] <= reach[f] /\ reach[f] <= Len(wal)
      /\ ~DroppedKey(f, k) /\ Touched(k, pos[f]) => fdocs[f][k] = snap[pos[f] + 1][k]
      /\ fdocs[f][k] # Absent => Touched(k, reach[f])
  BY FollowerTypes DEF AgreementInv, EngineAgreesOnTouched, PipelineInv, PipelineIsLinked, TypeInv
<1>1. CASE Untouched(f)
  <2>1. ASSUME NEW m \in 0..Len(wal) PROVE (Touched(k, m)' <=> Touched(k, m)) /\ snap'[m + 1] = snap[m + 1]
    BY TouchedKept
  <2>2. pos[f] \in 0..Len(wal) /\ reach[f] \in 0..Len(wal)
    BY <1>0
  <2>3. pos'[f] = pos[f] /\ reach'[f] = reach[f] /\ fdocs'[f] = fdocs[f] /\ dropped'[f] = dropped[f]
    BY <1>1 DEF Untouched
  <2>4. (Touched(k, pos[f])' <=> Touched(k, pos[f])) /\ (Touched(k, reach[f])' <=> Touched(k, reach[f]))
    <3>1. \A m \in 0..Len(wal) : m = pos'[f] => (Touched(k, pos[f])' <=> Touched(k, m)')
      BY DEF Touched
    <3>2. \A m \in 0..Len(wal) : m = reach'[f] => (Touched(k, reach[f])' <=> Touched(k, m)')
      BY DEF Touched
    <3> QED
      BY <2>1, <2>2, <2>3, <3>1, <3>2
  <2>5. DroppedKey(f, k) => DroppedKey(f, k)'
    <3>1. \A n \in dropped[f] : n \in 1..Len(wal)
      BY <1>0, FollowerTypes DEF LSNsInLog, TypeOK, LSN
    <3> QED
      BY <2>3, <3>1, LogGrows DEF DroppedKey
  <2>6. snap'[pos'[f] + 1] = snap[pos[f] + 1]
    BY <2>1, <2>2, <2>3
  <2> QED
    BY <1>0, <2>3, <2>4, <2>5, <2>6
<1>2. CASE StartFollower(f) \/ Redial(f) \/ Receive(f)
  <2>1. wal' = wal /\ snap' = snap /\ UNCHANGED <<fdocs, pos, reach>>
    BY <1>2 DEF StartFollower, Redial, Receive, master
  <2>2. DroppedKey(f, k) => DroppedKey(f, k)'
    <3>1. dropped[f] \subseteq dropped'[f]
      BY <1>0, <1>2 DEF StartFollower, Redial, Receive, TypeOK
    <3> QED
      BY <2>1, <3>1 DEF DroppedKey
  <2> QED
    BY <1>0, <1>2, <2>1, <2>2 DEF Touched, Effective, Accepts
<1>3. CASE StopFollower(f)
  <2>1. wal' = wal /\ snap' = snap /\ fdocs' = fdocs /\ reach' = reach /\ pos'[f] = 0
    BY <1>0, <1>3 DEF StopFollower, master, TypeOK
  <2>2. ~Touched(k, pos[f])'
    BY <2>1 DEF Touched
  <2>3. Touched(k, reach[f])' <=> Touched(k, reach[f])
    BY <2>1 DEF Touched, Effective, Accepts
  <2> QED
    BY <1>0, <2>1, <2>2, <2>3
<1>4. CASE ApplyEntry(f)
  <2> DEFINE n == Head(queue[f])
             e == wal[n]
             p == pos[f]
  <2>1. /\ queue[f] # << >> /\ wal' = wal /\ snap' = snap /\ dropped' = dropped
        /\ pos'[f] = n /\ reach'[f] = IF n > reach[f] THEN n ELSE reach[f]
        /\ fdocs'[f] = ApplyMutation(fdocs[f], e)
    BY <1>0, <1>4 DEF ApplyEntry, master, TypeOK
  <2>2. n \in 1..Len(wal) /\ e \in Entry /\ n = queue[f][1]
    BY <2>1, QueueHead
  <2>3. Linked(dropped[f], p, n)
    BY <2>1, <2>2 DEF PipelineInv, PipelineIsLinked
  <2>4. fdocs[f] \in Docs /\ snap[n] \in Docs
    BY <1>0, <2>2 DEF TypeOK
  <2>5. fdocs'[f][k] = IF k = e.key /\ Accepts(fdocs[f][k], e) THEN e.val ELSE fdocs[f][k]
    BY <2>1, <2>2, <2>4, MutationEffect
  <2>6. snap[n + 1][k] = IF k = e.key /\ Accepts(snap[n][k], e) THEN e.val ELSE snap[n][k]
    <3>1. snap[n + 1] = ApplyMutation(snap[n], e)
      BY <2>2 DEF HistoryInv, SnapFollowsLog
    <3> QED
      BY <2>2, <2>4, <3>1, MutationEffect
  <2>7. Effective(n) <=> Accepts(snap[n][e.key], e)
    BY DEF Effective
  <2>8. p <= n
    BY <2>3 DEF Linked
  <2> HIDE DEF n, e, p
  <2>9. Touched(k, n) <=> Touched(k, n - 1) \/ (e.key = k /\ Effective(n))
    <3>1. n \in 1..n /\ \A m \in 1..n : m = n \/ m \in 1..(n - 1)
      BY <2>2
    <3>2. (1..(n - 1)) \subseteq 1..n
      BY <2>2
    <3> QED
      BY <3>1, <3>2 DEF Touched, e
  <2>10. ASSUME ~DroppedKey(f, k), Touched(k, n) PROVE fdocs'[f][k] = snap[n + 1][k]
    <3>1. Touched(k, p) => fdocs[f][k] = snap[p + 1][k]
      BY <1>0, <2>10 DEF p
    <3>2. CASE n = p
      <4>1. fdocs[f][k] = snap[n + 1][k]
        BY <2>10, <3>1, <3>2
      <4> QED
        BY <2>5, <2>6, <4>1 DEF Accepts
    <3>3. CASE p < n
      <4>1. snap[n][k] = snap[p + 1][k] /\ (Touched(k, n - 1) <=> Touched(k, p))
        BY <1>0, <2>2, <2>3, <2>10, <3>3, GapKeepsKey DEF p
      <4>2. CASE Touched(k, p)
        BY <2>5, <2>6, <3>1, <4>1, <4>2
      <4>3. CASE ~Touched(k, p)
        <5>1. e.key = k /\ Accepts(snap[n][k], e)
          BY <2>7, <2>9, <2>10, <4>1, <4>3
        <5>2. n - 1 \in 0..Len(wal) /\ (n - 1) + 1 = n
          BY <1>0, <2>2
        <5>3. snap[n][k] = Absent
          BY <4>1, <4>3, <5>2 DEF HistoryInv, KeyStartsAbsent
        <5> QED
          BY <2>5, <2>6, <5>1, <5>3 DEF Accepts
      <4> QED
        BY <4>2, <4>3
    <3> QED
      BY <1>0, <2>2, <2>8, <3>2, <3>3 DEF p
  <2>11. ASSUME fdocs'[f][k] # Absent PROVE Touched(k, n) \/ Touched(k, reach[f])
    <3>1. CASE fdocs[f][k] # Absent
      BY <1>0, <3>1
    <3>2. CASE fdocs[f][k] = Absent
      <4>1. e.key = k /\ e.op = "insert"
        BY <2>5, <2>11, <3>2 DEF Accepts
      <4> QED
        BY <2>7, <2>9, <4>1 DEF Accepts
    <3> QED
      BY <3>1, <3>2
  <2>12. \A a, b \in Nat : a <= b /\ Touched(k, a) => Touched(k, b)
    BY DEF Touched
  <2>13. Touched(k, pos[f])' <=> Touched(k, n)
    BY <2>1 DEF Touched, Effective, Accepts
  <2>14. Touched(k, reach[f])' <=> Touched(k, reach'[f])
    BY <2>1 DEF Touched, Effective, Accepts
  <2>15. DroppedKey(f, k)' <=> DroppedKey(f, k)
    BY <2>1 DEF DroppedKey
  <2>16. Touched(k, n) \/ Touched(k, reach[f]) => Touched(k, reach'[f])
    BY <1>0, <2>1, <2>2, <2>12
  <2> QED
    BY <2>1, <2>10, <2>11, <2>13, <2>14, <2>15, <2>16
<1> QED
  BY <1>1, <1>2, <1>3, <1>4, FollowerSteps DEF OwnStep

(* What a follower holds, once it has come as far as it ever was, is what    *)
(* the WAL produced at that point, for every key whose entries it kept.      *)
LEMMA AgreementMatches ==
    TypeInv /\ HistoryInv /\ PipelineInv /\ AgreementInv => FollowerMatchesLog
<1> SUFFICES ASSUME TypeInv, HistoryInv, PipelineInv, AgreementInv,
                    NEW f \in Follower, pos[f] >= reach[f], NEW k \in Key, ~DroppedKey(f, k)
             PROVE  fdocs[f][k] = snap[pos[f] + 1][k]
  BY DEF FollowerMatchesLog
<1>1. pos[f] = reach[f] /\ pos[f] \in 0..Len(wal)
  BY FollowerTypes DEF PipelineInv, PipelineIsLinked
<1>2. CASE Touched(k, pos[f])
  BY <1>2 DEF AgreementInv, EngineAgreesOnTouched
<1>3. CASE ~Touched(k, pos[f])
  <2>1. fdocs[f][k] = Absent
    BY <1>1, <1>3 DEF AgreementInv, EngineAgreesOnTouched
  <2>2. snap[pos[f] + 1][k] = Absent
    BY <1>1, <1>3 DEF HistoryInv, KeyStartsAbsent
  <2> QED
    BY <2>1, <2>2
<1> QED
  BY <1>2, <1>3

(* Followers converge to the log through redelivery, refused entries,        *)
(* restarts that replay it over old documents, and any writers.              *)
THEOREM FollowerMatches == Spec => []FollowerMatchesLog
BY TypeInit, TypeNext, HistoryInit, HistoryNext, PipelineInit, PipelineNext,
   AgreementInit, AgreementNext, AgreementMatches, PTL DEF Spec

(* Altogether, the invariant that the safety properties rest on.             *)
THEOREM InductiveInvariant == Spec => []IInv
<1>1. TypeInv /\ CounterAgreesWithLog /\ HistoryInv /\ EngineInv /\ PipelineInv
         /\ AgreementInv /\ FollowerMatchesLog /\ OnlyDropsSkip => IInv
  <2>1. TypeInv => TypeOK /\ RequestsFit
    BY DEF TypeInv
  <2>2. HistoryInv => SnapFollowsLog /\ KeyIsStable /\ KeyStartsAbsent
    BY DEF HistoryInv
  <2>3. EngineInv => EngineIsAheadByRequest /\ MasterMatchesLog
    BY DEF EngineInv
  <2>4. PipelineInv /\ AgreementInv =>
            \A f \in Follower : PipelineIsLinked(f) /\ EngineAgreesOnTouched(f)
    BY DEF PipelineInv, AgreementInv
  <2> QED
    BY <2>1, <2>2, <2>3, <2>4 DEF IInv
<1> QED
  BY TypeInit, TypeNext, CounterInit, CounterNext, HistoryInit, HistoryNext, EngineInit,
     EngineNext, PipelineInit, PipelineNext, AgreementInit, AgreementNext,
     FollowerMatches, OnlyDrops, <1>1, PTL DEF Spec
=============================================================================
