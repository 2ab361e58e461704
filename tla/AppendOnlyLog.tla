--------------------------- MODULE AppendOnlyLog ---------------------------
(***************************************************************************)
(* What the rest of Sovrabase relies on from the write-ahead log           *)
(* (src/internal/replication/log.go): a sequence of entries, indexed by    *)
(* LSN from 1, that starts empty and only ever grows at its end.  No step, *)
(* crash or restart shortens it or changes an entry already in it.         *)
(***************************************************************************)
EXTENDS Naturals, Sequences

CONSTANT Entry          \* the values a log record can hold

VARIABLE log            \* the durable log, LSN n at index n

Init == log = << >>

(* A step makes zero or more further entries durable.  More than one when a *)
(* later append persists the LSN that an earlier one failed to persist.     *)
Grow == /\ log' \in Seq(Entry)
        /\ Len(log') >= Len(log)
        /\ \A n \in 1..Len(log) : log'[n] = log[n]

Spec == Init /\ [][Grow]_log
============================================================================
