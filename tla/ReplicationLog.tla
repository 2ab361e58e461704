--------------------------- MODULE ReplicationLog ---------------------------
(***************************************************************************)
(* The write-ahead log of a node: src/internal/replication/log.go.         *)
(*                                                                         *)
(* The log lives in a Pebble database that holds one record per LSN and,   *)
(* under a separate key, the last LSN assigned.  Append writes the two     *)
(* keys one after the other, so a crash can fall between them, and ignores *)
(* the error of the second write.  NewReplicationLog recovers the counter  *)
(* from the second key alone.  StreamFrom goroutines read snapshots of the *)
(* database without holding the log's mutex.                               *)
(***************************************************************************)
EXTENDS Naturals, Sequences

CONSTANTS
    Entry,      \* the payloads that writers append
    NoEntry,    \* the content of a key that was never written
    Stream,     \* the StreamFrom goroutines, one per connected peer
    MaxLSN,     \* bound: LSNs the model explores
    MaxCrash    \* bound: crashes and shutdowns of the process

ASSUME NoEntryAssumption == NoEntry \notin Entry
ASSUME MaxLSNAssumption == MaxLSN \in Nat
ASSUME MaxCrashAssumption == MaxCrash \in Nat

LSN == 1..MaxLSN
Record == Entry \cup {NoEntry}
Contents == [LSN -> Record]

VARIABLES
    disk,       \* the __wal__:<lsn> records
    meta,       \* the __wal__:meta:lsn record, 0 when absent
    currentLSN, \* WAL.currentLSN, in memory
    phase,      \* where the process is: the step Append has reached, or "down"
    pending,    \* the entry the running Append was given
    stream,     \* per stream: next LSN, the snapshot being iterated, what was sent
    acked,      \* history: the <<lsn, entry>> pairs Append returned without error
    forgotten,  \* history: LSNs on disk that a recovery did not count
    crashes     \* number of crashes and shutdowns so far

vars == <<disk, meta, currentLSN, phase, pending, stream, acked, forgotten, crashes>>

Written(d) == {n \in LSN : d[n] # NoEntry}

(* A stream that is not running: StreamFrom not called, or its goroutine gone. *)
NoStream == [live |-> FALSE, from |-> 0, next |-> 0, iterating |-> FALSE,
             snap |-> [n \in LSN |-> NoEntry], out |-> << >>]

Init == /\ disk = [n \in LSN |-> NoEntry]
        /\ meta = 0
        /\ currentLSN = 0
        /\ phase = "open"
        /\ pending = NoEntry
        /\ stream = [s \in Stream |-> NoStream]
        /\ acked = {}
        /\ forgotten = {}
        /\ crashes = 0

-----------------------------------------------------------------------------
(* Append, in the order it touches memory and disk; w.mu is held throughout. *)

(* w.currentLSN++; entry.LSN = lsn.  Whatever LSN the caller set is replaced. *)
AssignLSN == /\ phase = "open"
             /\ currentLSN < MaxLSN
             /\ \E e \in Entry : pending' = e
             /\ currentLSN' = currentLSN + 1
             /\ phase' = "assigned"
             /\ UNCHANGED <<disk, meta, stream, acked, forgotten, crashes>>

(* Mutant of RollBack: the failed append keeps its LSN. *)
RollBackForgotten == /\ phase = "assigned"
                     /\ phase' = "open"
                     /\ pending' = NoEntry
                     /\ UNCHANGED <<disk, meta, currentLSN, stream, acked, forgotten, crashes>>

(* Mutant of RollBack: the counter is also rolled back when the second Set   *)
(* fails, although the entry is on disk by then.                             *)
RollBackAfterWrite == /\ phase \in {"assigned", "written"}
                      /\ currentLSN' = currentLSN - 1
                      /\ phase' = "open"
                      /\ pending' = NoEntry
                      /\ UNCHANGED <<disk, meta, stream, acked, forgotten, crashes>>

(* Encoding or the first Set failed: the counter is rolled back. *)
RollBack == /\ phase = "assigned"
            /\ currentLSN' = currentLSN - 1
            /\ phase' = "open"
            /\ pending' = NoEntry
            /\ UNCHANGED <<disk, meta, stream, acked, forgotten, crashes>>

(* w.db.Set(makeKey(lsn), data, pebble.Sync) *)
WriteEntry == /\ phase = "assigned"
              /\ disk' = [disk EXCEPT ![currentLSN] = pending]
              /\ phase' = "written"
              /\ UNCHANGED <<meta, currentLSN, pending, stream, acked, forgotten, crashes>>

(* Mutant of WriteMeta: a failed write rolls the counter back, and Append    *)
(* still reports success.                                                    *)
WriteMetaRollBack == /\ phase = "written"
                     /\ \/ meta' = currentLSN /\ UNCHANGED currentLSN
                        \/ UNCHANGED meta /\ currentLSN' = currentLSN - 1
                     /\ acked' = acked \cup {<<currentLSN, pending>>}
                     /\ phase' = "open"
                     /\ pending' = NoEntry
                     /\ UNCHANGED <<disk, stream, forgotten, crashes>>

(* w.db.Set(metaLSNKey, ...) whose error is ignored, then return lsn, nil. *)
WriteMeta == /\ phase = "written"
             /\ meta' \in {currentLSN, meta}
             /\ acked' = acked \cup {<<currentLSN, pending>>}
             /\ phase' = "open"
             /\ pending' = NoEntry
             /\ UNCHANGED <<disk, currentLSN, stream, forgotten, crashes>>

-----------------------------------------------------------------------------
(* The end of the process: a crash at any step, or Close between appends.    *)
(* Both end every stream; only the two Pebble keys remain.                   *)
Stop == /\ phase # "down"
        /\ crashes < MaxCrash
        /\ phase' = "down"
        /\ currentLSN' = 0
        /\ pending' = NoEntry
        /\ stream' = [s \in Stream |-> [NoStream EXCEPT !.from = stream[s].from,
                                                       !.next = stream[s].next,
                                                       !.out = stream[s].out]]
        /\ crashes' = crashes + 1
        /\ UNCHANGED <<disk, meta, acked, forgotten>>

(* Mutants of RecoveredLSN: the stored LSN taken for the next free one, and  *)
(* for the number of entries counted from 0.                                 *)
RecoveredLSNMinusOne == IF meta = 0 THEN 0 ELSE meta - 1
RecoveredLSNPlusOne == meta + 1

(* NewReplicationLog: the counter is read back from the meta key only. *)
RecoveredLSN == meta

Recover == /\ phase = "down"
           /\ currentLSN' = RecoveredLSN
           /\ forgotten' = forgotten \cup {n \in Written(disk) : n > RecoveredLSN}
           /\ phase' = "open"
           /\ UNCHANGED <<disk, meta, pending, stream, acked, crashes>>

-----------------------------------------------------------------------------
(* StreamFrom(lsn): inclusive of lsn, which a peer sets to the last LSN it   *)
(* received (0 when it has none).                                            *)
StreamFrom(s) ==
    /\ phase # "down"
    /\ ~stream[s].live
    /\ \E lsn \in 0..MaxLSN :
          stream' = [stream EXCEPT ![s] = [NoStream EXCEPT !.live = TRUE, !.from = lsn, !.next = lsn]]
    /\ UNCHANGED <<disk, meta, currentLSN, phase, pending, acked, forgotten, crashes>>

(* Mutant of TakeSnapshot: a tick looks for records strictly after nextLSN. *)
TakeSnapshotAfter(s) ==
    /\ phase # "down"
    /\ stream[s].live /\ ~stream[s].iterating
    /\ \E n \in Written(disk) : n > stream[s].next
    /\ stream' = [stream EXCEPT ![s].iterating = TRUE, ![s].snap = disk]
    /\ UNCHANGED <<disk, meta, currentLSN, phase, pending, acked, forgotten, crashes>>

(* A tick of the 50 ms ticker: snap := w.db.NewSnapshot().  A tick that finds *)
(* no record at or after nextLSN changes nothing.                             *)
TakeSnapshot(s) ==
    /\ phase # "down"
    /\ stream[s].live /\ ~stream[s].iterating
    /\ \E n \in Written(disk) : n >= stream[s].next
    /\ stream' = [stream EXCEPT ![s].iterating = TRUE, ![s].snap = disk]
    /\ UNCHANGED <<disk, meta, currentLSN, phase, pending, acked, forgotten, crashes>>

(* What the iterator has left: the snapshot's records at or after nextLSN. *)
Ahead(s) == {n \in Written(stream[s].snap) : n >= stream[s].next}

(* entryCh <- &entry; nextLSN = entryLSN + 1, for the iterator's next record. *)
SendEntry(s) ==
    /\ stream[s].live /\ stream[s].iterating
    /\ \E n \in Ahead(s) :
          /\ \A m \in Ahead(s) : n <= m
          /\ stream' = [stream EXCEPT ![s].next = n + 1,
                                      ![s].out = Append(@, <<n, stream[s].snap[n]>>)]
    /\ UNCHANGED <<disk, meta, currentLSN, phase, pending, acked, forgotten, crashes>>

(* The iterator is exhausted: iter.Close(); snap.Close(). *)
CloseSnapshot(s) ==
    /\ stream[s].live /\ stream[s].iterating
    /\ Ahead(s) = {}
    /\ stream' = [stream EXCEPT ![s].iterating = FALSE, ![s].snap = NoStream.snap]
    /\ UNCHANGED <<disk, meta, currentLSN, phase, pending, acked, forgotten, crashes>>

(* The peer disconnected and servePeer's deferred logCancel ran. *)
CancelStream(s) ==
    /\ stream[s].live
    /\ stream' = [stream EXCEPT ![s] = NoStream]
    /\ UNCHANGED <<disk, meta, currentLSN, phase, pending, acked, forgotten, crashes>>

Streaming(s) == TakeSnapshot(s) \/ SendEntry(s) \/ CloseSnapshot(s)

Next == \/ AssignLSN \/ RollBack \/ WriteEntry \/ WriteMeta
        \/ Stop \/ Recover
        \/ \E s \in Stream : \/ StreamFrom(s) \/ TakeSnapshot(s) \/ SendEntry(s)
                             \/ CloseSnapshot(s) \/ CancelStream(s)

(* The stream goroutines are scheduled and their tickers fire.  Nothing is   *)
(* assumed of the appending callers, of crashes or of restarts.              *)
Fairness == \A s \in Stream : WF_vars(Streaming(s))

Spec == Init /\ [][Next]_vars /\ Fairness
-----------------------------------------------------------------------------
(* The types of the variables. *)
StreamState == [live : BOOLEAN, from : 0..MaxLSN, next : 0..(MaxLSN + 1),
                iterating : BOOLEAN, snap : Contents, out : Seq(LSN \X Entry)]

TypeOK == /\ disk \in Contents
          /\ meta \in 0..MaxLSN
          /\ currentLSN \in 0..MaxLSN
          /\ phase \in {"open", "assigned", "written", "down"}
          /\ pending \in Record
          /\ stream \in [Stream -> StreamState]
          /\ acked \in SUBSET (LSN \X Entry)
          /\ forgotten \in SUBSET LSN
          /\ crashes \in 0..MaxCrash

(* An entry whose Append returned is still at its LSN, through every crash,  *)
(* failed write and restart, unless a recovery forgot that LSN because the   *)
(* write of the meta key had been lost (log.go:126-138 against 45-57).       *)
AckedEntriesSurvive ==
    \A a \in acked : a[1] \notin forgotten => disk[a[1]] = a[2]

(* What a stream sent to its peer, during this process or an earlier one, is *)
(* what the log holds, again up to the LSNs a recovery forgot: a snapshot    *)
(* taken between Append's two writes never shows an entry that the log later *)
(* replaces for another reason (log.go:186-249).                             *)
StreamMatchesLog ==
    \A s \in Stream : \A i \in 1..Len(stream[s].out) :
        LET n == stream[s].out[i][1] IN n \notin forgotten => disk[n] = stream[s].out[i][2]

(* The LSN before the first that a stream was asked for. *)
Base(s) == IF stream[s].from = 0 THEN 0 ELSE stream[s].from - 1

(* A stream sends consecutive LSNs from the one it was asked for, whatever   *)
(* appends, rollbacks and recoveries happen while it iterates.               *)
StreamHasNoGaps ==
    \A s \in Stream : \A i \in 1..Len(stream[s].out) :
        stream[s].out[i][1] = i + Base(s)

(* The part of the log that the meta key covers is an append-only log: it    *)
(* keeps every entry through crashes, restarts and failed writes.            *)
Durable == INSTANCE AppendOnlyLog WITH log <- [n \in 1..meta |-> disk[n]]
DurableLogIsAppendOnly == Durable!Spec

(* A running stream eventually sends every entry on disk at or after its     *)
(* starting point, however many appends keep it busy.                        *)
StreamCatchesUp ==
    \A s \in Stream, n \in LSN :
        (stream[s].live /\ stream[s].from <= n /\ disk[n] # NoEntry)
            ~> (~stream[s].live \/ stream[s].next > n)

-----------------------------------------------------------------------------
(* The inductive invariant behind the safety properties above.               *)

(* The LSNs that Append has finished with, or is finishing with. *)
Top == IF phase = "assigned" THEN currentLSN - 1 ELSE currentLSN

(* A running Append owns an LSN and an entry, on disk after the first Set. *)
AppendOwnsLSN ==
    /\ phase \in {"assigned", "written"} => currentLSN >= 1 /\ pending \in Entry
    /\ phase = "written" => disk[currentLSN] = pending

(* The disk holds every LSN up to the meta key's and up to the counter's, and *)
(* has no hole below any LSN it holds.                                       *)
DiskIsContiguous ==
    /\ \A n \in 1..meta : disk[n] \in Entry
    /\ phase # "down" => meta <= Top /\ \A n \in 1..Top : disk[n] \in Entry
    /\ \A n \in Written(disk) : \A m \in 1..n : disk[m] \in Entry

(* The counter has passed every entry on disk that no recovery forgot, so    *)
(* that the next Append cannot overwrite it.                                 *)
CounterPassesDisk ==
    phase # "down" => \A n \in Written(disk) : n \notin forgotten => n <= Top

(* A snapshot is an older state of the same log, without holes. *)
SnapshotIsOldLog(s) ==
    /\ \A n \in Written(stream[s].snap) : \A m \in 1..n : stream[s].snap[m] \in Entry
    /\ \A n \in Written(stream[s].snap) : n \notin forgotten => disk[n] = stream[s].snap[n]

(* The position of a stream counts what it sent. *)
PositionCountsSent(s) ==
    stream[s].next = IF stream[s].from = 0 /\ stream[s].out = << >>
                     THEN 0 ELSE Base(s) + Len(stream[s].out) + 1

(* All of it: implied by Init and preserved by every action. *)
IInv == /\ TypeOK
        /\ AppendOwnsLSN
        /\ DiskIsContiguous
        /\ CounterPassesDisk
        /\ \A s \in Stream : SnapshotIsOldLog(s) /\ PositionCountsSent(s)
        /\ AckedEntriesSurvive
        /\ StreamMatchesLog
        /\ StreamHasNoGaps

-----------------------------------------------------------------------------
(* Append's comment, "on recovery we'll scan for the max LSN" (log.go:137):  *)
(* once open, the counter covers every entry on disk.                        *)
RecoveryCoversDisk == phase = "open" => \A n \in Written(disk) : n <= currentLSN
=============================================================================
