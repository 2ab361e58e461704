------------------------ MODULE ReplicationLog_proofs ------------------------
(***************************************************************************)
(* Proofs about the write-ahead log, for every set of entries and streams  *)
(* and every bound on LSNs and crashes.  The argument is layered: types,   *)
(* then what is on disk, then what the streams saw, each layer inductive   *)
(* given the ones below.                                                   *)
(***************************************************************************)
EXTENDS ReplicationLog, TLAPS

(* Appending to a sequence keeps its elements and adds one. *)
LEMMA AppendElements ==
    ASSUME NEW S, NEW q \in Seq(S), NEW x \in S
    PROVE  /\ Append(q, x) \in Seq(S)
           /\ Len(Append(q, x)) = Len(q) + 1
           /\ \A i \in 1..Len(q) : Append(q, x)[i] = q[i]
           /\ Append(q, x)[Len(q) + 1] = x
OBVIOUS

(* The stream that is not running is well typed. *)
LEMMA NoStreamType == NoStream \in StreamState
BY MaxLSNAssumption DEF NoStream, StreamState, Contents, Record, LSN

-----------------------------------------------------------------------------
(* Types.  AppendOwnsLSN is needed beside TypeOK: a rollback decrements the  *)
(* counter, and an append acknowledges its LSN and entry.                    *)
TypeInv == TypeOK /\ AppendOwnsLSN

LEMMA TypeInit == Init => TypeInv
BY NoStreamType, MaxLSNAssumption, MaxCrashAssumption
   DEF Init, TypeInv, TypeOK, AppendOwnsLSN, Contents, Record, LSN

LEMMA TypeNext == TypeInv /\ [Next]_vars => TypeInv'
<1> SUFFICES ASSUME TypeInv, [Next]_vars PROVE TypeInv'
  OBVIOUS
<1> USE MaxLSNAssumption, MaxCrashAssumption, NoEntryAssumption
<1>1. CASE AssignLSN
  BY <1>1 DEF AssignLSN, TypeInv, TypeOK, AppendOwnsLSN, Record
<1>2. CASE RollBack
  BY <1>2 DEF RollBack, TypeInv, TypeOK, AppendOwnsLSN, Record
<1>3. CASE WriteEntry
  BY <1>3 DEF WriteEntry, TypeInv, TypeOK, AppendOwnsLSN, Contents, Record, LSN
<1>4. CASE WriteMeta
  BY <1>4 DEF WriteMeta, TypeInv, TypeOK, AppendOwnsLSN, Record, LSN
<1>5. CASE Stop
  <2>1. \A s \in Stream : [NoStream EXCEPT !.from = stream[s].from, !.next = stream[s].next,
                                           !.out = stream[s].out] \in StreamState
    BY NoStreamType DEF NoStream, TypeInv, TypeOK, StreamState
  <2>2. stream' \in [Stream -> StreamState]
    BY <1>5, <2>1 DEF Stop
  <2>3. /\ phase' = "down" /\ currentLSN' = 0 /\ pending' = NoEntry
        /\ crashes < MaxCrash /\ crashes' = crashes + 1
        /\ UNCHANGED <<disk, meta, acked, forgotten>>
    BY <1>5 DEF Stop
  <2> QED
    BY <2>2, <2>3 DEF TypeInv, TypeOK, AppendOwnsLSN, Record
<1>6. CASE Recover
  BY <1>6 DEF Recover, RecoveredLSN, Written, TypeInv, TypeOK, AppendOwnsLSN
<1>7. ASSUME NEW s \in Stream, StreamFrom(s) PROVE TypeInv'
  <2>1. PICK lsn \in 0..MaxLSN :
            stream' = [stream EXCEPT ![s] = [NoStream EXCEPT !.live = TRUE, !.from = lsn, !.next = lsn]]
    BY <1>7 DEF StreamFrom
  <2>2. lsn \in 0..(MaxLSN + 1)
    BY <2>1
  <2>3. [NoStream EXCEPT !.live = TRUE, !.from = lsn, !.next = lsn] \in StreamState
    BY <2>2, NoStreamType DEF StreamState
  <2>4. stream' \in [Stream -> StreamState]
    BY <2>1, <2>3 DEF TypeInv, TypeOK
  <2> QED
    BY <1>7, <2>4 DEF StreamFrom, TypeInv, TypeOK, AppendOwnsLSN
<1>8. ASSUME NEW s \in Stream, TakeSnapshot(s) PROVE TypeInv'
  BY <1>8, ZenonT(60) DEF TakeSnapshot, TypeInv, TypeOK, AppendOwnsLSN, StreamState
<1>9. ASSUME NEW s \in Stream, SendEntry(s) PROVE TypeInv'
  <2>1. PICK n \in Ahead(s) :
            stream' = [stream EXCEPT ![s].next = n + 1,
                                     ![s].out = Append(@, <<n, stream[s].snap[n]>>)]
    BY <1>9 DEF SendEntry
  <2>2. n \in LSN /\ stream[s].snap[n] \in Entry
    BY <2>1 DEF Ahead, Written, TypeInv, TypeOK, StreamState, Contents, Record
  <2>3. Append(stream[s].out, <<n, stream[s].snap[n]>>) \in Seq(LSN \X Entry)
    BY <2>2, AppendElements DEF TypeInv, TypeOK, StreamState
  <2>4. n + 1 \in 0..(MaxLSN + 1)
    BY <2>2 DEF LSN
  <2>5. [stream[s] EXCEPT !.next = n + 1, !.out = Append(@, <<n, stream[s].snap[n]>>)] \in StreamState
    BY <2>3, <2>4 DEF TypeInv, TypeOK, StreamState
  <2>6. stream' = [stream EXCEPT ![s] = [stream[s] EXCEPT !.next = n + 1,
                                            !.out = Append(@, <<n, stream[s].snap[n]>>)]]
    BY <2>1
  <2>7. stream' \in [Stream -> StreamState]
    BY <2>5, <2>6 DEF TypeInv, TypeOK
  <2> QED
    BY <1>9, <2>7 DEF SendEntry, TypeInv, TypeOK, AppendOwnsLSN
<1>10. ASSUME NEW s \in Stream, CloseSnapshot(s) PROVE TypeInv'
  BY <1>10, NoStreamType DEF CloseSnapshot, TypeInv, TypeOK, AppendOwnsLSN, StreamState
<1>11. ASSUME NEW s \in Stream, CancelStream(s) PROVE TypeInv'
  BY <1>11, NoStreamType DEF CancelStream, TypeInv, TypeOK, AppendOwnsLSN
<1>12. CASE UNCHANGED vars
  BY <1>12 DEF vars, TypeInv, TypeOK, AppendOwnsLSN
<1> QED
  BY <1>1, <1>2, <1>3, <1>4, <1>5, <1>6, <1>7, <1>8, <1>9, <1>10, <1>11, <1>12 DEF Next

(* Every variable keeps its type, whatever the bounds. *)
THEOREM TypeCorrect == Spec => []TypeOK
<1>1. TypeInv => TypeOK
  BY DEF TypeInv
<1> QED
  BY TypeInit, TypeNext, <1>1, PTL DEF Spec
-----------------------------------------------------------------------------
(* What is on disk.  The appending process never writes an LSN that the log  *)
(* already holds, but for those that a recovery forgot.                      *)
DiskInv == DiskIsContiguous /\ CounterPassesDisk /\ AckedEntriesSurvive

LEMMA DiskInit == Init => DiskInv
BY MaxLSNAssumption, NoEntryAssumption
   DEF Init, DiskInv, DiskIsContiguous, CounterPassesDisk, AckedEntriesSurvive, Written, Top, LSN

(* The record an append is about to write is absent or forgotten. *)
LEMMA NextLSNIsFree ==
    ASSUME TypeInv, CounterPassesDisk, phase = "assigned", currentLSN \notin forgotten
    PROVE  disk[currentLSN] = NoEntry
BY DEF TypeInv, TypeOK, AppendOwnsLSN, CounterPassesDisk, Written, Top, LSN

(* Only WriteEntry changes the disk, so that the other steps have only the   *)
(* counters and the acknowledgements to account for.                         *)
LEMMA DiskNext == TypeInv /\ TypeInv' /\ DiskInv /\ [Next]_vars => DiskInv'
<1> SUFFICES ASSUME TypeInv, TypeInv', DiskInv, [Next]_vars PROVE DiskInv'
  OBVIOUS
<1> USE MaxLSNAssumption, NoEntryAssumption DEF DiskInv
<1>1. CASE AssignLSN
  <2>1. Top' = Top
    BY <1>1 DEF AssignLSN, Top, TypeInv, TypeOK
  <2> QED
    BY <1>1, <2>1 DEF AssignLSN, DiskIsContiguous, CounterPassesDisk, AckedEntriesSurvive, Written
<1>2. CASE RollBack
  <2>1. Top' = Top
    BY <1>2 DEF RollBack, Top
  <2> QED
    BY <1>2, <2>1 DEF RollBack, DiskIsContiguous, CounterPassesDisk, AckedEntriesSurvive, Written
<1>3. CASE WriteEntry
  <2>1. /\ Top = currentLSN - 1 /\ Top' = currentLSN /\ phase # "down"
        /\ currentLSN \in LSN /\ pending \in Entry
        /\ disk' = [disk EXCEPT ![currentLSN] = pending]
        /\ UNCHANGED <<meta, currentLSN, acked, forgotten>>
    BY <1>3 DEF WriteEntry, Top, TypeInv, TypeOK, AppendOwnsLSN, LSN
  <2>2. \A n \in LSN : disk'[n] = IF n = currentLSN THEN pending ELSE disk[n]
    BY <2>1 DEF TypeInv, TypeOK, Contents
  <2>3. DiskIsContiguous'
    <3>1. \A n \in 1..meta' : disk'[n] \in Entry
      BY <2>1, <2>2 DEF DiskIsContiguous, TypeInv, TypeOK, LSN
    <3>2. meta' <= Top' /\ \A n \in 1..Top' : disk'[n] \in Entry
      BY <2>1, <2>2 DEF DiskIsContiguous, TypeInv, TypeOK, LSN
    <3>3. \A n \in Written(disk') : \A m \in 1..n : disk'[m] \in Entry
      BY <2>1, <2>2 DEF DiskIsContiguous, TypeInv, TypeOK, LSN, Written
    <3> QED
      BY <3>1, <3>2, <3>3 DEF DiskIsContiguous
  <2>4. CounterPassesDisk'
    BY <2>1, <2>2 DEF CounterPassesDisk, Written, LSN
  <2>5. AckedEntriesSurvive'
    <3> SUFFICES ASSUME NEW a \in acked, a[1] \notin forgotten PROVE disk'[a[1]] = a[2]
      BY <2>1 DEF AckedEntriesSurvive
    <3>1. disk[a[1]] = a[2] /\ a[1] \in LSN /\ a[2] \in Entry
      BY DEF AckedEntriesSurvive, TypeInv, TypeOK
    <3>2. a[1] # currentLSN
      BY <3>1, <1>3, NextLSNIsFree DEF WriteEntry
    <3> QED
      BY <3>1, <3>2, <2>2
  <2> QED
    BY <2>3, <2>4, <2>5
<1>4. CASE WriteMeta
  <2>1. Top' = Top /\ Top = currentLSN
    BY <1>4 DEF WriteMeta, Top
  <2>2. DiskIsContiguous' /\ CounterPassesDisk'
    BY <1>4, <2>1 DEF WriteMeta, DiskIsContiguous, CounterPassesDisk, Written, TypeInv, TypeOK
  <2>3. AckedEntriesSurvive'
    BY <1>4 DEF WriteMeta, AckedEntriesSurvive, TypeInv, AppendOwnsLSN
  <2> QED
    BY <2>2, <2>3
<1>5. CASE Stop
  BY <1>5 DEF Stop, DiskIsContiguous, CounterPassesDisk, AckedEntriesSurvive, Written
<1>6. CASE Recover
  <2>1. /\ Top' = meta /\ meta' = meta /\ disk' = disk /\ acked' = acked /\ phase' = "open"
        /\ forgotten' = forgotten \cup {n \in Written(disk) : n > meta}
    BY <1>6 DEF Recover, RecoveredLSN, Top
  <2>2. DiskIsContiguous'
    BY <2>1 DEF DiskIsContiguous, Written, TypeInv, TypeOK
  <2>3. CounterPassesDisk'
    BY <2>1 DEF CounterPassesDisk, Written, TypeInv, TypeOK, LSN
  <2>4. AckedEntriesSurvive'
    BY <2>1 DEF AckedEntriesSurvive
  <2> QED
    BY <2>2, <2>3, <2>4
<1>7. ASSUME NEW s \in Stream, StreamFrom(s) \/ TakeSnapshot(s) \/ SendEntry(s)
                                  \/ CloseSnapshot(s) \/ CancelStream(s)
      PROVE  DiskInv'
  <2>1. UNCHANGED <<disk, meta, currentLSN, phase, acked, forgotten>>
    BY <1>7 DEF StreamFrom, TakeSnapshot, SendEntry, CloseSnapshot, CancelStream
  <2> QED
    BY <2>1 DEF DiskIsContiguous, CounterPassesDisk, AckedEntriesSurvive, Written, Top
<1>8. CASE UNCHANGED vars
  BY <1>8 DEF vars, DiskIsContiguous, CounterPassesDisk, AckedEntriesSurvive, Written, Top
<1> QED
  BY <1>1, <1>2, <1>3, <1>4, <1>5, <1>6, <1>7, <1>8 DEF Next

(* An acknowledged entry is never lost or replaced, at an LSN that no        *)
(* recovery forgot.                                                          *)
THEOREM AckedSurvive == Spec => []AckedEntriesSurvive
<1>1. Init => TypeInv /\ DiskInv
  BY TypeInit, DiskInit
<1>2. (TypeInv /\ DiskInv) /\ [Next]_vars => (TypeInv /\ DiskInv)'
  BY TypeNext, DiskNext
<1>3. DiskInv => AckedEntriesSurvive
  BY DEF DiskInv
<1> QED
  BY <1>1, <1>2, <1>3, PTL DEF Spec

-----------------------------------------------------------------------------
(* The part of the log under the meta key implements the append-only log.    *)

(* The refinement mapping's state function. *)
MetaLog == [n \in 1..meta |-> disk[n]]

LEMMA MetaLogIsSeq ==
    ASSUME TypeInv, DiskIsContiguous
    PROVE  /\ Len(MetaLog) = meta
           /\ MetaLog \in Seq(Entry)
           /\ \A n \in 1..meta : MetaLog[n] = disk[n]
BY DEF MetaLog, DiskIsContiguous, TypeInv, TypeOK

(* The meta key never goes back, and the records under it never change. *)
LEMMA MetaLogGrows ==
    ASSUME TypeInv, DiskInv, [Next]_vars
    PROVE  meta <= meta' /\ \A n \in 1..meta : disk'[n] = disk[n]
<1>1. CASE WriteEntry
  <2>1. meta <= currentLSN - 1
    BY <1>1 DEF WriteEntry, DiskInv, DiskIsContiguous, Top
  <2> QED
    BY <1>1, <2>1 DEF WriteEntry, TypeInv, TypeOK, Contents, LSN
<1>2. CASE WriteMeta
  BY <1>2 DEF WriteMeta, DiskInv, DiskIsContiguous, Top, TypeInv, TypeOK
<1>3. AssignLSN \/ RollBack \/ Stop \/ Recover \/ UNCHANGED vars => meta' = meta /\ disk' = disk
  BY DEF AssignLSN, RollBack, Stop, Recover, vars
<1>4. ASSUME NEW s \in Stream, StreamFrom(s) \/ TakeSnapshot(s) \/ SendEntry(s)
                                  \/ CloseSnapshot(s) \/ CancelStream(s)
      PROVE  meta' = meta /\ disk' = disk
  BY <1>4 DEF StreamFrom, TakeSnapshot, SendEntry, CloseSnapshot, CancelStream
<1> QED
  BY <1>1, <1>2, <1>3, <1>4 DEF Next, TypeInv, TypeOK

LEMMA GrowStep ==
    ASSUME TypeInv, TypeInv', DiskInv, DiskInv', [Next]_vars
    PROVE  Durable!Grow
<1>1. /\ Len(MetaLog') = meta' /\ MetaLog' \in Seq(Entry)
      /\ \A n \in 1..meta' : MetaLog'[n] = disk'[n]
  BY MetaLogIsSeq DEF MetaLog, DiskInv, DiskIsContiguous, TypeInv, TypeOK
<1>2. /\ Len(MetaLog) = meta /\ \A n \in 1..meta : MetaLog[n] = disk[n]
  BY MetaLogIsSeq DEF DiskInv
<1>3. /\ Len(MetaLog') >= Len(MetaLog)
      /\ \A n \in 1..Len(MetaLog) : MetaLog'[n] = MetaLog[n]
  BY <1>1, <1>2, MetaLogGrows DEF TypeInv, TypeOK
<1> QED
  BY <1>1, <1>3 DEF Durable!Grow, MetaLog

(* The log under the meta key starts empty and only ever grows at its end,   *)
(* through every crash, restart, failed and lost write.                      *)
THEOREM DurableLog == Spec => DurableLogIsAppendOnly
<1>1. Init => TypeInv /\ DiskInv
  BY TypeInit, DiskInit
<1>2. (TypeInv /\ DiskInv) /\ [Next]_vars => (TypeInv /\ DiskInv)'
  BY TypeNext, DiskNext
<1>3. Init => Durable!Init
  BY DEF Init, Durable!Init
<1>4. (TypeInv /\ DiskInv) /\ (TypeInv /\ DiskInv)' /\ [Next]_vars => [Durable!Grow]_MetaLog
  BY GrowStep
<1> QED
  BY <1>1, <1>2, <1>3, <1>4, PTL DEF Spec, DurableLogIsAppendOnly, Durable!Spec, MetaLog
-----------------------------------------------------------------------------
(* What the streams saw and sent.  SentOK is StreamMatchesLog and            *)
(* StreamHasNoGaps for one stream.                                           *)
SentOK(s) ==
    \A i \in 1..Len(stream[s].out) :
        /\ stream[s].out[i][1] = i + Base(s)
        /\ stream[s].out[i][1] \notin forgotten => disk[stream[s].out[i][1]] = stream[s].out[i][2]
StreamInv == \A s \in Stream : SnapshotIsOldLog(s) /\ SentOK(s) /\ PositionCountsSent(s)

LEMMA StreamInit == Init => StreamInv
<1> SUFFICES ASSUME Init, NEW s \in Stream PROVE SnapshotIsOldLog(s) /\ SentOK(s) /\ PositionCountsSent(s)
  BY DEF StreamInv
<1>1. /\ stream[s].from = 0 /\ stream[s].next = 0
      /\ stream[s].out = << >> /\ stream[s].snap = [n \in LSN |-> NoEntry]
  BY DEF Init, NoStream
<1> QED
  BY <1>1 DEF SnapshotIsOldLog, SentOK, PositionCountsSent, Base, Written

(* A snapshot without holes: the iterator's next record is the one at the    *)
(* stream's position.                                                        *)
LEMMA NextRecord ==
    ASSUME NEW s \in Stream, TypeInv, SnapshotIsOldLog(s), PositionCountsSent(s),
           NEW n \in Ahead(s), \A m \in Ahead(s) : n <= m
    PROVE  n = Base(s) + Len(stream[s].out) + 1
<1> DEFINE st == stream[s]
<1>1. st.from \in Nat /\ st.next \in Nat /\ st.out \in Seq(LSN \X Entry) /\ n \in LSN /\ n >= st.next
  BY MaxLSNAssumption DEF Ahead, Written, TypeInv, TypeOK, StreamState
<1>2. n \in Written(st.snap)
  BY DEF Ahead
<1>3. \A m \in 1..n : m \in Written(st.snap)
  BY <1>1, <1>2, NoEntryAssumption, MaxLSNAssumption DEF SnapshotIsOldLog, Written, LSN
<1>4. CASE st.from = 0 /\ st.out = << >>
  <2>1. 1 \in Ahead(s)
    BY <1>1, <1>3, <1>4 DEF PositionCountsSent, Ahead, LSN
  <2> QED
    BY <1>1, <1>4, <2>1 DEF Base, LSN
<1>5. CASE ~(st.from = 0 /\ st.out = << >>)
  <2>1. st.next = Base(s) + Len(st.out) + 1 /\ Base(s) \in Nat /\ Len(st.out) \in Nat
    BY <1>1, <1>5 DEF PositionCountsSent, Base
  <2>2. st.next \in Ahead(s)
    BY <1>1, <1>3, <2>1 DEF Ahead, LSN
  <2> QED
    BY <1>1, <2>1, <2>2 DEF LSN
<1> QED
  BY <1>4, <1>5

(* A step that keeps or cuts back what a stream has, and forgets or keeps    *)
(* LSNs, without touching the disk.                                          *)
LEMMA StreamKept ==
    ASSUME NEW s \in Stream, SentOK(s), PositionCountsSent(s),
           stream'[s].from = stream[s].from, stream'[s].next = stream[s].next,
           stream'[s].out = stream[s].out, disk' = disk, forgotten \subseteq forgotten'
    PROVE  SentOK(s)' /\ PositionCountsSent(s)'
BY DEF SentOK, PositionCountsSent, Base

LEMMA StreamNext == TypeInv /\ TypeInv' /\ DiskInv /\ StreamInv /\ [Next]_vars => StreamInv'
<1> SUFFICES ASSUME TypeInv, TypeInv', DiskInv, StreamInv, [Next]_vars, NEW t \in Stream
             PROVE  SnapshotIsOldLog(t)' /\ SentOK(t)' /\ PositionCountsSent(t)'
  BY DEF StreamInv
<1>0. SnapshotIsOldLog(t) /\ SentOK(t) /\ PositionCountsSent(t)
  BY DEF StreamInv
<1> USE NoEntryAssumption, MaxLSNAssumption
<1>1. CASE WriteEntry
  <2>1. /\ stream' = stream /\ forgotten' = forgotten
        /\ \A n \in LSN : n \notin forgotten /\ disk[n] # NoEntry => disk'[n] = disk[n]
    BY <1>1, NextLSNIsFree DEF WriteEntry, DiskInv, TypeInv, TypeOK, Contents
  <2>2. SnapshotIsOldLog(t)'
    BY <1>0, <2>1 DEF SnapshotIsOldLog, Written
  <2>3. \A i \in 1..Len(stream[t].out) : stream[t].out[i] \in LSN \X Entry
    BY SMTT(60) DEF TypeInv, TypeOK, StreamState
  <2>4. SentOK(t)' /\ PositionCountsSent(t)'
    BY <1>0, <2>1, <2>3 DEF SentOK, PositionCountsSent, Base
  <2> QED
    BY <2>2, <2>4
<1>2. CASE AssignLSN \/ RollBack \/ WriteMeta \/ Recover \/ UNCHANGED vars
  <2>1. stream' = stream /\ disk' = disk /\ forgotten \subseteq forgotten'
    BY <1>2 DEF AssignLSN, RollBack, WriteMeta, Recover, vars
  <2>2. SnapshotIsOldLog(t)'
    BY <1>0, <2>1 DEF SnapshotIsOldLog
  <2> QED
    BY <1>0, <2>1, <2>2, StreamKept
<1>3. CASE Stop
  <2>1. /\ disk' = disk /\ forgotten' = forgotten
        /\ stream'[t] = [NoStream EXCEPT !.from = stream[t].from, !.next = stream[t].next,
                                         !.out = stream[t].out]
    BY <1>3 DEF Stop
  <2>2. /\ stream'[t].from = stream[t].from /\ stream'[t].next = stream[t].next
        /\ stream'[t].out = stream[t].out /\ stream'[t].snap = [n \in LSN |-> NoEntry]
    BY <2>1 DEF NoStream
  <2>3. SnapshotIsOldLog(t)'
    BY <2>2 DEF SnapshotIsOldLog, Written
  <2> QED
    BY <1>0, <2>1, <2>2, <2>3, StreamKept
<1>4. ASSUME NEW s \in Stream, StreamFrom(s) \/ CancelStream(s)
      PROVE  SnapshotIsOldLog(t)' /\ SentOK(t)' /\ PositionCountsSent(t)'
  <2>1. disk' = disk /\ forgotten' = forgotten
    BY <1>4 DEF StreamFrom, CancelStream
  <2>2. CASE t = s
    <3>1. \E lsn \in 0..MaxLSN :
              /\ stream'[t].from = lsn /\ stream'[t].next = lsn
              /\ stream'[t].out = << >> /\ stream'[t].snap = [n \in LSN |-> NoEntry]
      <4>1. CASE StreamFrom(s)
        <5>1. PICK lsn \in 0..MaxLSN :
                  stream'[t] = [NoStream EXCEPT !.live = TRUE, !.from = lsn, !.next = lsn]
          BY <2>2, <4>1 DEF StreamFrom, TypeInv, TypeOK
        <5> QED
          BY <5>1 DEF NoStream
      <4>2. CASE CancelStream(s)
        <5>1. stream'[t] = NoStream
          BY <2>2, <4>2 DEF CancelStream, TypeInv, TypeOK
        <5> QED
          BY <5>1 DEF NoStream
      <4> QED
        BY <1>4, <4>1, <4>2
    <3> QED
      BY <3>1 DEF SnapshotIsOldLog, SentOK, PositionCountsSent, Base, Written
  <2>3. CASE t # s
    <3>1. stream'[t] = stream[t]
      BY <1>4, <2>3 DEF StreamFrom, CancelStream, TypeInv, TypeOK
    <3> QED
      BY <1>0, <2>1, <3>1, StreamKept DEF SnapshotIsOldLog
  <2> QED
    BY <2>2, <2>3
<1>5. ASSUME NEW s \in Stream, TakeSnapshot(s) \/ CloseSnapshot(s)
      PROVE  SnapshotIsOldLog(t)' /\ SentOK(t)' /\ PositionCountsSent(t)'
  <2>1. disk' = disk /\ forgotten' = forgotten
    BY <1>5 DEF TakeSnapshot, CloseSnapshot
  <2>2. /\ stream'[t].from = stream[t].from /\ stream'[t].next = stream[t].next
        /\ stream'[t].out = stream[t].out
        /\ \/ stream'[t].snap = stream[t].snap
           \/ stream'[t].snap = disk
           \/ stream'[t].snap = [n \in LSN |-> NoEntry]
    <3>1. CASE t # s
      BY <1>5, <3>1 DEF TakeSnapshot, CloseSnapshot, TypeInv, TypeOK
    <3>2. CASE t = s /\ TakeSnapshot(s)
      BY <3>2 DEF TakeSnapshot, TypeInv, TypeOK, StreamState
    <3>3. CASE t = s /\ CloseSnapshot(s)
      BY <3>3 DEF CloseSnapshot, NoStream, TypeInv, TypeOK, StreamState
    <3> QED
      BY <1>5, <3>1, <3>2, <3>3
  <2>3. SnapshotIsOldLog(t)'
    BY <1>0, <2>1, <2>2 DEF SnapshotIsOldLog, Written, DiskInv, DiskIsContiguous
  <2> QED
    BY <1>0, <2>1, <2>2, <2>3, StreamKept
<1>6. ASSUME NEW s \in Stream, SendEntry(s)
      PROVE  SnapshotIsOldLog(t)' /\ SentOK(t)' /\ PositionCountsSent(t)'
  <2>1. disk' = disk /\ forgotten' = forgotten
    BY <1>6 DEF SendEntry
  <2>2. CASE t # s
    <3>1. stream'[t] = stream[t]
      BY <1>6, <2>2 DEF SendEntry, TypeInv, TypeOK
    <3> QED
      BY <1>0, <2>1, <3>1, StreamKept DEF SnapshotIsOldLog
  <2>3. CASE t = s
    <3>1. PICK n \in Ahead(t) :
              /\ \A m \in Ahead(t) : n <= m
              /\ stream' = [stream EXCEPT ![t].next = n + 1,
                                          ![t].out = Append(@, <<n, stream[t].snap[n]>>)]
      BY <1>6, <2>3 DEF SendEntry
    <3> DEFINE out == stream[t].out
               sent == <<n, stream[t].snap[n]>>
    <3>2. n = Base(t) + Len(out) + 1
      BY <1>0, <3>1, NextRecord
    <3>3. n \in Written(stream[t].snap) /\ n \in LSN /\ stream[t].snap[n] \in Entry
      BY DEF Ahead, Written, TypeInv, TypeOK, StreamState, Contents, Record
    <3>4. out \in Seq(LSN \X Entry) /\ Len(out) \in Nat /\ Base(t) \in Nat
      <4>1. stream[t].from \in 0..MaxLSN /\ out \in Seq(LSN \X Entry)
        BY DEF TypeInv, TypeOK, StreamState
      <4> HIDE DEF out
      <4>2. Len(out) \in Nat
        BY <4>1
      <4>3. Base(t) \in Nat
        BY <4>1 DEF Base
      <4> QED
        BY <4>1, <4>2, <4>3
    <3>5. /\ stream'[t].from = stream[t].from /\ stream'[t].next = n + 1
          /\ stream'[t].snap = stream[t].snap /\ stream'[t].out = Append(out, sent)
      BY <3>1 DEF TypeInv, TypeOK, StreamState
    <3>6. /\ Len(stream'[t].out) = Len(out) + 1
          /\ \A i \in 1..Len(out) : stream'[t].out[i] = out[i]
          /\ stream'[t].out[Len(out) + 1] = sent
          /\ stream'[t].out # << >>
      <4> HIDE DEF out
      <4>1. sent \in LSN \X Entry
        BY <3>3
      <4> HIDE DEF sent
      <4>2. /\ Len(Append(out, sent)) = Len(out) + 1
            /\ \A i \in 1..Len(out) : Append(out, sent)[i] = out[i]
            /\ Append(out, sent)[Len(out) + 1] = sent
        BY <3>4, <4>1, AppendElements
      <4> QED
        BY <3>4, <3>5, <4>2
    <3>7. Base(t)' = Base(t)
      BY <3>5 DEF Base
    <3>8. SnapshotIsOldLog(t)'
      BY <1>0, <2>1, <3>5 DEF SnapshotIsOldLog
    <3>9. PositionCountsSent(t)'
      <4> HIDE DEF out, sent
      <4>1. stream'[t].next = Base(t)' + Len(stream'[t].out) + 1
        BY <3>2, <3>4, <3>5, <3>6, <3>7
      <4> QED
        BY <3>6, <4>1 DEF PositionCountsSent
    <3>10. SentOK(t)'
      <4> SUFFICES ASSUME NEW i \in 1..(Len(out) + 1)
                   PROVE  /\ stream'[t].out[i][1] = i + Base(t)
                          /\ stream'[t].out[i][1] \notin forgotten
                                => disk[stream'[t].out[i][1]] = stream'[t].out[i][2]
        BY <2>1, <3>6, <3>7 DEF SentOK
      <4>1. CASE i \in 1..Len(out)
        BY <1>0, <3>6, <4>1 DEF SentOK
      <4>2. CASE i = Len(out) + 1
        <5>1. stream'[t].out[i][1] = n /\ stream'[t].out[i][2] = stream[t].snap[n]
          BY <3>6, <4>2
        <5>2. n \notin forgotten => disk[n] = stream[t].snap[n]
          BY <1>0, <3>3 DEF SnapshotIsOldLog
        <5>3. n = i + Base(t)
          BY <3>2, <3>4, <4>2, SMTT(60)
        <5> QED
          BY <5>1, <5>2, <5>3
      <4>3. i \in 1..Len(out) \/ i = Len(out) + 1
        <5> HIDE DEF out
        <5> QED
          BY <3>4
      <4> QED
        BY <4>1, <4>2, <4>3
    <3> QED
      BY <3>8, <3>9, <3>10
  <2> QED
    BY <2>2, <2>3
<1> QED
  BY <1>1, <1>2, <1>3, <1>4, <1>5, <1>6 DEF Next

LEMMA StreamInvMeaning ==
    ASSUME StreamInv PROVE StreamMatchesLog /\ StreamHasNoGaps
BY DEF StreamInv, SentOK, StreamMatchesLog, StreamHasNoGaps

(* All layers at once: IInv is an inductive invariant. *)
THEOREM InductiveInvariant == Spec => []IInv
<1> DEFINE All == TypeInv /\ DiskInv /\ StreamInv
<1>1. Init => All
  BY TypeInit, DiskInit, StreamInit
<1>2. All /\ [Next]_vars => All'
  BY TypeNext, DiskNext, StreamNext
<1>3. All => IInv
  BY StreamInvMeaning DEF IInv, TypeInv, DiskInv, StreamInv
<1> HIDE DEF All
<1> QED
  BY <1>1, <1>2, <1>3, PTL DEF Spec

(* What a stream sent is what the log holds, at every LSN that no recovery   *)
(* forgot.                                                                   *)
THEOREM StreamedMatchesLog == Spec => []StreamMatchesLog
<1>1. IInv => StreamMatchesLog
  BY DEF IInv
<1> QED
  BY InductiveInvariant, <1>1, PTL

(* A stream sends consecutive LSNs from the one it was asked for. *)
THEOREM StreamedWithoutGaps == Spec => []StreamHasNoGaps
<1>1. IInv => StreamHasNoGaps
  BY DEF IInv
<1> QED
  BY InductiveInvariant, <1>1, PTL
=============================================================================
